------------------------ MODULE WpaCtrlClientProofs ------------------------
(***************************************************************************)
(* For any transports, sizes and bounds: what a connection owns (every     *)
(* failure of wpa_ctrl_open releases what was acquired before it), what    *)
(* becomes of the events and replies a server sends, and what the program  *)
(* may conclude from them.                                                 *)
(***************************************************************************)
EXTENDS WpaCtrlClient, SequenceTheorems, TLAPS

USE ClientAssumption

\* What may be left when the call of row i fails.
File(i) == IF transport = "unix" /\ i = 4 THEN {"file"} ELSE {}

\* What is owned before row i is handed over to the row after it, or to
\* wpa_ctrl_close.
HandOver(i) ==
  \A S \in SUBSET (OpenSteps[i].undo \union File(i)), M \in SUBSET OpenSteps[i].maybe :
    LET now == (S \union OpenSteps[i].take \union M) \ OpenSteps[i].free
    IN  /\ now \subseteq Resources
        /\ IF i < Len(OpenSteps) THEN now \subseteq OpenSteps[i + 1].undo \union File(i + 1)
           ELSE now \subseteq Released

\* What is known of a row.
LEMMA Fields ==
  ASSUME NEW t, NEW m, NEW f, NEW u
  PROVE  /\ Row(t, m, f, u).take = t /\ Row(t, m, f, u).maybe = m
         /\ Row(t, m, f, u).free = f /\ Row(t, m, f, u).undo = u
  BY DEF Row

LEMMA UnixHandOver ==
  ASSUME transport = "unix"
  PROVE  /\ Len(OpenSteps) = 5 /\ OpenSteps[1].undo = {}
         /\ \A i \in 1..5 : HandOver(i)
<1>1. /\ OpenSteps[1] = Row({"ctrl"}, {}, {}, {})
      /\ OpenSteps[2] = Row({"fd"}, {}, {}, {"ctrl"})
      /\ OpenSteps[3] = Row({"file"}, {}, {}, {"fd", "ctrl"})
      /\ OpenSteps[4] = Row({}, {}, {}, {"fd", "ctrl"})
      /\ OpenSteps[5] = Row({}, {}, {}, {"fd", "file", "ctrl"})
      /\ Len(OpenSteps) = 5
  BY DEF OpenSteps, UnixSteps
<1>2. File(4) = {"file"} /\ \A i \in {1, 2, 3, 5} : File(i) = {}
  BY DEF File
<1>3. Released = {"file", "fd", "ctrl"}
  BY DEF Released
<1>4. HandOver(1)
  BY <1>1, <1>2, Fields DEF HandOver, Resources
<1>5. HandOver(2)
  BY <1>1, <1>2, Fields DEF HandOver, Resources
<1>6. HandOver(3)
  BY <1>1, <1>2, Fields DEF HandOver, Resources
<1>7. HandOver(4)
  BY <1>1, <1>2, Fields DEF HandOver, Resources
<1>8. HandOver(5)
  BY <1>1, <1>2, <1>3, Fields DEF HandOver, Resources
<1> QED
  BY <1>1, <1>4, <1>5, <1>6, <1>7, <1>8, Fields

LEMMA AndroidHandOver ==
  ASSUME transport = "android"
  PROVE  /\ Len(OpenSteps) = 4 /\ OpenSteps[1].undo = {}
         /\ \A i \in 1..4 : HandOver(i)
<1>1. /\ OpenSteps[1] = Row({"ctrl"}, {}, {}, {})
      /\ OpenSteps[2] = Row({"fd"}, {}, {}, {"ctrl"})
      /\ OpenSteps[3] = Row({"file"}, {}, {}, {"fd", "ctrl"})
      /\ OpenSteps[4] = Row({}, {}, {}, {"fd", "file", "ctrl"})
      /\ Len(OpenSteps) = 4
  BY DEF OpenSteps, AndroidSteps
<1>2. \A i \in 1..4 : File(i) = {}
  BY DEF File
<1>3. Released = {"file", "fd", "ctrl"}
  BY DEF Released
<1>4. HandOver(1)
  BY <1>1, <1>2, Fields DEF HandOver, Resources
<1>5. HandOver(2)
  BY <1>1, <1>2, Fields DEF HandOver, Resources
<1>6. HandOver(3)
  BY <1>1, <1>2, Fields DEF HandOver, Resources
<1>7. HandOver(4)
  BY <1>1, <1>2, <1>3, Fields DEF HandOver, Resources
<1> QED
  BY <1>1, <1>4, <1>5, <1>6, <1>7, Fields

LEMMA UdpHandOver ==
  ASSUME transport = "udp"
  PROVE  /\ Len(OpenSteps) = 6 /\ OpenSteps[1].undo = {}
         /\ \A i \in 1..6 : HandOver(i)
<1>1. /\ OpenSteps[1] = Row({"ctrl"}, {}, {}, {})
      /\ OpenSteps[2] = Row({"fd"}, {}, {}, {"ctrl"})
      /\ OpenSteps[3] = Row({}, {}, {}, {"fd", "ctrl"})
      /\ OpenSteps[4] = Row({"name"}, {}, {}, {"fd", "ctrl"})
      /\ OpenSteps[5] = Row({}, {"ip"}, {"name"}, {"name", "fd", "ctrl"})
      /\ OpenSteps[6] = Row({}, {}, {}, {"fd", "ip", "ctrl"})
      /\ Len(OpenSteps) = 6
  BY DEF OpenSteps, UdpSteps
<1>2. \A i \in 1..6 : File(i) = {}
  BY DEF File
<1>3. Released = {"fd", "cookie", "ifname", "ip", "ctrl"}
  BY DEF Released
<1>4. HandOver(1)
  BY <1>1, <1>2, Fields DEF HandOver, Resources
<1>5. HandOver(2)
  BY <1>1, <1>2, Fields DEF HandOver, Resources
<1>6. HandOver(3)
  BY <1>1, <1>2, Fields DEF HandOver, Resources
<1>7. HandOver(4)
  BY <1>1, <1>2, Fields DEF HandOver, Resources
<1>8. HandOver(5)
  BY <1>1, <1>2, Fields DEF HandOver, Resources
<1>9. HandOver(6)
  BY <1>1, <1>2, <1>3, Fields DEF HandOver, Resources
<1> QED
  BY <1>1, <1>4, <1>5, <1>6, <1>7, <1>8, <1>9, Fields

LEMMA PipeHandOver ==
  ASSUME transport = "pipe"
  PROVE  /\ Len(OpenSteps) = 4 /\ OpenSteps[1].undo = {}
         /\ \A i \in 1..4 : HandOver(i)
<1>1. /\ OpenSteps[1] = Row({"ctrl"}, {}, {}, {})
      /\ OpenSteps[2] = Row({}, {}, {}, {"ctrl"})
      /\ OpenSteps[3] = Row({"fd"}, {}, {}, {"ctrl"})
      /\ OpenSteps[4] = Row({}, {}, {}, {"fd", "ctrl"})
      /\ Len(OpenSteps) = 4
  BY DEF OpenSteps, PipeSteps
<1>2. \A i \in 1..4 : File(i) = {}
  BY DEF File
<1>3. Released = {"fd", "ctrl"}
  BY DEF Released
<1>4. HandOver(1)
  BY <1>1, <1>2, Fields DEF HandOver, Resources
<1>5. HandOver(2)
  BY <1>1, <1>2, Fields DEF HandOver, Resources
<1>6. HandOver(3)
  BY <1>1, <1>2, Fields DEF HandOver, Resources
<1>7. HandOver(4)
  BY <1>1, <1>2, <1>3, Fields DEF HandOver, Resources
<1> QED
  BY <1>1, <1>4, <1>5, <1>6, <1>7, Fields

\* The same for whatever transport the program was built for.
LEMMA AnyHandOver ==
  ASSUME TypeOK
  PROVE  /\ Len(OpenSteps) \in 4..6 /\ OpenSteps[1].undo = {}
         /\ \A i \in 1..Len(OpenSteps) : HandOver(i)
<1>1. transport \in {"unix", "android", "udp", "pipe"}
  BY DEF TypeOK
<1>2. CASE transport = "unix"
  <2>1. Len(OpenSteps) = 5 /\ OpenSteps[1].undo = {}
    BY <1>2, UnixHandOver
  <2>2. \A i \in 1..5 : HandOver(i)
    BY <1>2, UnixHandOver
  <2> QED
    BY <2>1, <2>2
<1>3. CASE transport = "android"
  <2>1. Len(OpenSteps) = 4 /\ OpenSteps[1].undo = {}
    BY <1>3, AndroidHandOver
  <2>2. \A i \in 1..4 : HandOver(i)
    BY <1>3, AndroidHandOver
  <2> QED
    BY <2>1, <2>2
<1>4. CASE transport = "udp"
  <2>1. Len(OpenSteps) = 6 /\ OpenSteps[1].undo = {}
    BY <1>4, UdpHandOver
  <2>2. \A i \in 1..6 : HandOver(i)
    BY <1>4, UdpHandOver
  <2> QED
    BY <2>1, <2>2
<1>5. CASE transport = "pipe"
  <2>1. Len(OpenSteps) = 4 /\ OpenSteps[1].undo = {}
    BY <1>5, PipeHandOver
  <2>2. \A i \in 1..4 : HandOver(i)
    BY <1>5, PipeHandOver
  <2> QED
    BY <2>1, <2>2
<1> QED
  BY <1>1, <1>2, <1>3, <1>4, <1>5

\* The fields of the invariant that say what is owned.
Owned(where, row, what) ==
  /\ where = "closed" => what = {}
  /\ where = "step" => row <= Len(OpenSteps) /\ what \subseteq OpenSteps[row].undo \union File(row)
  /\ where \in {"send", "wait", "open"} =>
       what \subseteq Released \union IF where = "send" THEN {"cmd"} ELSE {}

LEMMA OwnedIs ==
  ResourceInv => /\ TypeOK /\ Owned(pc, at, held)
                 /\ "open" \in orphan => transport = "unix"
                 /\ call \in {"GET_COOKIE", "IFNAME"} => transport = "udp"
  BY DEF ResourceInv, Owned, File

\* What is to be shown after a step; the rows depend on the transport only.
LEMMA OwnedIsNext ==
  ASSUME UNCHANGED transport, TypeOK', Owned(pc', at', held'),
         "open" \in orphan' => transport = "unix",
         call' \in {"GET_COOKIE", "IFNAME"} => transport = "udp"
  PROVE  ResourceInv'
<1>1. OpenSteps' = OpenSteps /\ Released' = Released
  BY DEF OpenSteps, Released
<1> QED
  BY <1>1 DEF ResourceInv, Owned, File

LEMMA InitResources == Init => ResourceInv
<1> SUFFICES ASSUME Init PROVE ResourceInv
  OBVIOUS
<1>1. TypeOK
  <2>1. toServer \in Seq(Commands)
        /\ toClient \in Seq(Messages)
    BY DEF Init
  <2>2. /\ transport \in Transports /\ pc = "closed" /\ at = 1 /\ tries = 0 /\ call = "PING"
        /\ held = {} /\ orphan = {} /\ missed = {} /\ ifname = None
        /\ blocking = TRUE /\ attached = FALSE /\ believed = FALSE
    BY DEF Init
  <2>3. len = 127 /\ lost = 0 /\ events = 0 /\ monitors = 0 /\ unanswered = 0 /\ opens = 0 /\ calls = 0
    BY DEF Init
  <2>4. pc \in {"closed", "step", "send", "wait", "open"} /\ at \in 1..6 /\ tries \in 0..9
    BY <2>2
  <2>5. call \in Commands /\ blocking \in BOOLEAN /\ attached \in BOOLEAN /\ believed \in BOOLEAN
    BY <2>2 DEF Commands
  <2>6. held \subseteq Resources /\ orphan \subseteq {"open", "exit"} /\ missed \subseteq Nat
    BY <2>2
  <2>7. ifname \in [text : Texts, len : 0..127] \union {None}
    BY <2>2
  <2>8. /\ len \in 0..127 /\ lost \in Nat /\ events \in Nat /\ monitors \in Nat
        /\ unanswered \in Nat /\ opens \in Nat /\ calls \in Nat
    BY <2>3
  <2> QED
    BY <2>1, <2>2, <2>4, <2>5, <2>6, <2>7, <2>8 DEF TypeOK
<1>2. pc = "closed" /\ held = {} /\ orphan = {} /\ call = "PING"
  BY DEF Init
<1> QED
  BY <1>1, <1>2 DEF ResourceInv

LEMMA MinOf == \A a, b \in 0..127 : Min({a, b}) \in 0..127
<1> TAKE a, b \in 0..127
<1>1. \E x \in {a, b} : \A y \in {a, b} : x <= y
  OBVIOUS
<1> QED
  BY <1>1 DEF Min

\* The return of a request leaves the copy of the command to nobody.
LEMMA FinishOwned ==
  ASSUME ResourceInv, pc \in {"send", "wait"},
         NEW ok, NEW t \in Texts, NEW l \in 0..127, Finish(ok, t, l)
  PROVE  /\ Owned(pc', at, held') /\ pc' \in {"send", "open"}
         /\ held' \subseteq Resources /\ call' \in Commands
         /\ call' \in {"GET_COOKIE", "IFNAME"} => transport = "udp"
         /\ believed' \in BOOLEAN /\ len' \in 0..127
         /\ ifname' \in [text : Texts, len : 0..127] \union {None}
<1> DEFINE rest == held \ {"cmd"}
<1>1. /\ TypeOK /\ held \subseteq Released \union {"cmd"}
      /\ call \in {"GET_COOKIE", "IFNAME"} => transport = "udp"
  BY DEF ResourceInv
<1>2. rest \subseteq Released /\ rest \subseteq Resources
  BY <1>1 DEF TypeOK
<1>3. transport = "udp" => Released = {"fd", "cookie", "ifname", "ip", "ctrl"}
  BY DEF Released
<1>4. CASE call = "GET_COOKIE"
  <2>1. transport = "udp"
    BY <1>1, <1>4
  <2>2. /\ held' \subseteq held \union {"cookie", "cmd"} /\ pc' = "send"
        /\ call' = "IFNAME" /\ len' \in {len, l} /\ UNCHANGED <<ifname, believed>>
    BY <1>4 DEF Finish, Start
  <2>3. held' \subseteq Released \union {"cmd"} /\ held' \subseteq Resources
    BY <1>1, <1>3, <2>1, <2>2 DEF Resources, TypeOK
  <2> QED
    BY <1>1, <2>1, <2>2, <2>3 DEF Owned, TypeOK, Commands
<1>5. CASE call = "IFNAME"
  <2>1. transport = "udp"
    BY <1>1, <1>5
  <2>2. /\ held' \subseteq rest \union {"ifname"} /\ pc' = "open"
        /\ ifname' \in {ifname, [text |-> t, len |-> l]}
        /\ UNCHANGED <<call, len, believed>>
    BY <1>5 DEF Finish
  <2>3. held' \subseteq Released /\ held' \subseteq Resources
    BY <1>2, <1>3, <2>1, <2>2 DEF Resources
  <2> QED
    BY <1>1, <2>1, <2>2, <2>3 DEF Owned, TypeOK, Commands
<1>6. CASE call \in {"ATTACH", "DETACH"}
  BY <1>1, <1>2, <1>6 DEF Finish, Owned, TypeOK, Commands
<1>7. CASE call = "PING"
  BY <1>1, <1>2, <1>7 DEF Finish, Owned, TypeOK, Commands
<1> QED
  BY <1>1, <1>4, <1>5, <1>6, <1>7 DEF TypeOK, Commands

\* The ends of a queue.
LEMMA Ends ==
  ASSUME NEW S, NEW s \in Seq(S)
  PROVE  /\ \A x \in S : Append(s, x) \in Seq(S)
         /\ s # <<>> => Head(s) \in S /\ Tail(s) \in Seq(S)
  OBVIOUS

LEMMA MessageFields == \A m \in Messages : m.n \in Nat /\ m.text \in Texts \union {"<"}
  BY DEF Messages

\* What a step leaves alone keeps its type.
LEMMA NextResources == ASSUME ResourceInv, [Next]_vars PROVE ResourceInv'
<1> USE DEF conn, queues, server, seen, bounds
<1>1. /\ TypeOK /\ Owned(pc, at, held)
      /\ "open" \in orphan => transport = "unix"
      /\ call \in {"GET_COOKIE", "IFNAME"} => transport = "udp"
  BY OwnedIs
<1>2. held \subseteq Resources
  BY <1>1 DEF TypeOK
<1>3. ASSUME Begin PROVE ResourceInv'
  <2>1. held = {} /\ OpenSteps[1].undo = {} /\ Len(OpenSteps) \in 4..6
    BY <1>1, <1>3, AnyHandOver DEF Begin, Owned
  <2>2. Owned(pc', at', held')
    BY <1>3, <2>1 DEF Begin, Owned
  <2>3. TypeOK'
    <3>1. toServer' = <<>> /\ toClient' = <<>> /\ missed' = {}
          /\ pc' = "step" /\ at' = 1 /\ tries' = 0 /\ len' = 127 /\ ifname' = None
          /\ UNCHANGED <<call, held, orphan, blocking, lost, transport, calls>>
      BY <1>3 DEF Begin
    <3>2. attached' = FALSE /\ believed' = FALSE /\ events' = 0 /\ monitors' = 0 /\ unanswered' = 0
          /\ opens' \in Nat
      BY <1>1, <1>3 DEF Begin, TypeOK
    <3>3. toServer' \in Seq(Commands) /\ toClient' \in Seq(Messages)
      BY <3>1
    <3>4. at' \in 1..6 /\ tries' \in 0..9 /\ len' \in 0..127 /\ missed' \subseteq Nat
      BY <3>1
    <3>5. attached' \in BOOLEAN /\ believed' \in BOOLEAN /\ events' \in Nat
          /\ monitors' \in Nat /\ unanswered' \in Nat
      BY <3>2
    <3> QED
      BY <1>1, <3>1, <3>2, <3>3, <3>4, <3>5 DEF TypeOK
  <2> QED
    BY <1>1, <1>3, <2>2, <2>3, OwnedIsNext DEF Begin
<1>4. ASSUME Acquire PROVE ResourceInv'
  <2>1. at \in 1..Len(OpenSteps) /\ HandOver(at) /\ Len(OpenSteps) \in 4..6
    BY <1>1, <1>4, AnyHandOver DEF Acquire, Owned, TypeOK
  <2>2. held \in SUBSET (OpenSteps[at].undo \union File(at))
    BY <1>1, <1>4 DEF Acquire, Owned
  <2>3. PICK more \in SUBSET OpenSteps[at].maybe :
          held' = (held \union OpenSteps[at].take \union more) \ OpenSteps[at].free
    BY <1>4 DEF Acquire
  <2>4. /\ held' \subseteq Resources
        /\ IF at < Len(OpenSteps) THEN held' \subseteq OpenSteps[at + 1].undo \union File(at + 1)
           ELSE held' \subseteq Released
    BY <2>1, <2>2, <2>3 DEF HandOver
  <2>5. UNCHANGED <<transport, tries, orphan, len, ifname, queues, server, seen, bounds>>
    BY <1>4 DEF Acquire
  <2>6. CASE at < Len(OpenSteps)
    <3>1. at' = at + 1 /\ UNCHANGED <<pc, call, blocking>> /\ pc = "step"
      BY <1>4, <2>6 DEF Acquire
    <3>2. at' \in 1..6 /\ at' <= Len(OpenSteps)
      <4>1. PICK n \in 4..6 : Len(OpenSteps) = n
        BY <2>1
      <4>2. at \in 1..n /\ at < n /\ at' = at + 1
        BY <2>1, <2>6, <3>1, <4>1
      <4> QED
        BY <4>1, <4>2
    <3>3. Owned(pc', at', held')
      BY <2>4, <2>6, <3>1, <3>2 DEF Owned
    <3>4. TypeOK'
      BY <1>1, <2>4, <2>5, <3>1, <3>2 DEF TypeOK
    <3> QED
      BY <1>1, <2>5, <3>1, <3>3, <3>4, OwnedIsNext
  <2>7. CASE ~(at < Len(OpenSteps))
    <3>1. /\ UNCHANGED at /\ blocking' \in BOOLEAN
          /\ pc' = IF transport = "udp" THEN "send" ELSE "open"
          /\ call' = IF transport = "udp" THEN "GET_COOKIE" ELSE call
      BY <1>4, <2>7 DEF Acquire
    <3>2. Owned(pc', at', held')
      BY <2>4, <2>7, <3>1 DEF Owned
    <3>3. TypeOK'
      BY <1>1, <2>4, <2>5, <3>1 DEF TypeOK, Commands
    <3> QED
      BY <1>1, <2>5, <3>1, <3>2, <3>3, OwnedIsNext
  <2> QED
    BY <2>6, <2>7
<1>5. ASSUME PipeBusy PROVE ResourceInv'
  <2>1. TypeOK'
    BY <1>1, <1>5 DEF PipeBusy, TypeOK
  <2> QED
    BY <1>1, <1>5, <2>1, OwnedIsNext DEF PipeBusy
<1>6. ASSUME OpenFails PROVE ResourceInv'
  <2>1. held \ OpenSteps[at].undo \subseteq File(at)
    BY <1>1, <1>6 DEF OpenFails, Owned
  <2>2. pc' = "closed" /\ held' = {}
    BY <1>6, <2>1 DEF OpenFails, File
  <2>3. orphan' \subseteq {"open", "exit"} /\ ("open" \in orphan' => transport = "unix")
    BY <1>1, <1>6, <2>1 DEF OpenFails, File, TypeOK
  <2>4. UNCHANGED <<at, tries, call, blocking, len, ifname, queues, server, seen, bounds>>
    BY <1>6 DEF OpenFails
  <2>5. TypeOK' /\ Owned(pc', at', held')
    BY <1>1, <2>2, <2>3, <2>4 DEF TypeOK, Owned
  <2> QED
    BY <1>1, <2>3, <2>4, <2>5, OwnedIsNext
<1>7. ASSUME Close PROVE ResourceInv'
  <2>1. held' = {} /\ pc' = "closed"
    BY <1>1, <1>7 DEF Close, Owned
  <2>2. UNCHANGED <<at, tries, call, orphan, blocking, len, ifname, queues, server, seen, bounds>>
    BY <1>7 DEF Close
  <2>3. TypeOK' /\ Owned(pc', at', held')
    BY <1>1, <2>1, <2>2 DEF TypeOK, Owned
  <2> QED
    BY <1>1, <2>2, <2>3, OwnedIsNext
<1>8. ASSUME Exit PROVE ResourceInv'
  <2>1. /\ held' = {} /\ pc' = "closed" /\ orphan' \subseteq orphan \union {"exit"}
        /\ UNCHANGED <<at, tries, call, blocking, len, ifname, queues, server, seen, bounds>>
    BY <1>8 DEF Exit
  <2>2. TypeOK' /\ Owned(pc', at', held')
    BY <1>1, <2>1 DEF TypeOK, Owned
  <2> QED
    BY <1>1, <2>1, <2>2, OwnedIsNext
<1>9. ASSUME Cleanup PROVE ResourceInv'
  <2>1. /\ held' \subseteq held /\ orphan' = {}
        /\ UNCHANGED <<pc, at, tries, call, blocking, len, ifname, queues, server, seen, bounds>>
    BY <1>9 DEF Cleanup
  <2>2. TypeOK' /\ Owned(pc', at', held')
    BY <1>1, <2>1 DEF TypeOK, Owned
  <2> QED
    BY <1>1, <2>1, <2>2, OwnedIsNext
<1>10. ASSUME NEW c \in {"PING", "ATTACH", "DETACH"}, Request(c) PROVE ResourceInv'
  <2>1. /\ held' \subseteq held \union {"cmd"} /\ call' = c /\ pc = "open" /\ pc' = "send"
        /\ monitors' \in Nat /\ calls' \in Nat
        /\ UNCHANGED <<at, tries, orphan, blocking, len, ifname, queues, server,
                       believed, missed, unanswered, transport, opens>>
    BY <1>1, <1>10 DEF Request, Start, TypeOK
  <2>2. held' \subseteq Resources
    BY <1>2, <2>1 DEF Resources
  <2>3. TypeOK' /\ Owned(pc', at', held')
    BY <1>1, <2>1, <2>2 DEF TypeOK, Owned, Commands
  <2> QED
    BY <1>1, <2>1, <2>3, OwnedIsNext
<1>11. ASSUME Send PROVE ResourceInv'
  <2>1. /\ held' = held \ {"cmd"} /\ pc = "send" /\ pc' = "wait" /\ toServer' \in Seq(Commands)
        /\ UNCHANGED <<at, tries, call, orphan, blocking, len, ifname, toClient, lost,
                       server, seen, bounds>>
    BY <1>1, <1>11 DEF Send, TypeOK
  <2>2. TypeOK' /\ Owned(pc', at', held')
    BY <1>1, <2>1 DEF TypeOK, Owned
  <2> QED
    BY <1>1, <2>1, <2>2, OwnedIsNext
<1>12. ASSUME SendFails \/ TimeOut \/ RequestFails PROVE ResourceInv'
  <2>1. /\ Finish(FALSE, "FAIL", 0) /\ pc \in {"send", "wait"} /\ unanswered' \in Nat
        /\ UNCHANGED <<at, tries, orphan, blocking, queues, server, missed, monitors, bounds>>
    <3>1. CASE SendFails
      BY <1>1, <3>1 DEF SendFails, TypeOK
    <3>2. CASE TimeOut \/ RequestFails
      <4>1. unanswered' = unanswered + 1 /\ unanswered \in Nat /\ pc = "wait"
        BY <1>1, <3>2 DEF TimeOut, RequestFails, TypeOK
      <4>2. unanswered' \in Nat
        BY <4>1
      <4>3. /\ Finish(FALSE, "FAIL", 0)
            /\ UNCHANGED <<at, tries, orphan, blocking, queues, server, missed, monitors, bounds>>
        BY <3>2, Zenon DEF TimeOut, RequestFails
      <4> QED
        BY <4>1, <4>2, <4>3, Zenon
    <3> QED
      BY <1>12, <3>1, <3>2
  <2>2. "FAIL" \in Texts /\ 0 \in 0..127
    BY DEF Texts
  <2> HIDE DEF conn, queues, server, seen, bounds
  <2>3. /\ Owned(pc', at, held') /\ pc' \in {"send", "open"} /\ held' \subseteq Resources
        /\ call' \in Commands /\ (call' \in {"GET_COOKIE", "IFNAME"} => transport = "udp")
        /\ believed' \in BOOLEAN /\ len' \in 0..127
        /\ ifname' \in [text : Texts, len : 0..127] \union {None}
    BY <2>1, <2>2, FinishOwned
  <2> USE DEF conn, queues, server, seen, bounds
  <2>4. TypeOK'
    BY <1>1, <2>1, <2>3 DEF TypeOK
  <2> QED
    BY <1>1, <2>1, <2>3, <2>4, OwnedIsNext
<1>13. ASSUME ReceiveEvent PROVE ResourceInv'
  <2>1. toClient # <<>> /\ Head(toClient).n \in Nat /\ toClient' = Tail(toClient)
        /\ toClient' \in Seq(Messages)
    BY <1>1, <1>13, Ends, MessageFields DEF ReceiveEvent, TypeOK
  <2>2. missed' \subseteq Nat
    BY <1>1, <1>13, <2>1 DEF ReceiveEvent, TypeOK
  <2>3. UNCHANGED <<pc, at, tries, call, conn, toServer, lost, server,
                    believed, monitors, unanswered, bounds>>
    BY <1>13 DEF ReceiveEvent
  <2>4. TypeOK'
    BY <1>1, <2>1, <2>2, <2>3 DEF TypeOK
  <2> QED
    BY <1>1, <2>3, <2>4, OwnedIsNext
<1>14. ASSUME Receive PROVE ResourceInv'
  <2> DEFINE m == Head(toClient)
  <2>1. toClient # <<>> /\ m \in Messages
        /\ toClient' \in Seq(Messages)
    BY <1>1, <1>14, Ends DEF Receive, TypeOK
  <2>2. /\ missed' \subseteq missed \union {m.n} /\ pc = "wait"
        /\ unanswered' \in {unanswered, unanswered + 1}
        /\ UNCHANGED <<at, tries, orphan, blocking, toServer, lost, server, monitors, bounds>>
    BY <1>14 DEF Receive
  <2>3. \E t \in Texts, l \in 0..127 : Finish(TRUE, t, l)
    <3>1. CASE m.text = "<"
      <4>1. "FAIL" \in Texts /\ 0 \in 0..127
        BY DEF Texts
      <4> QED
        BY <1>14, <3>1, <4>1 DEF Receive
    <3>2. CASE m.text # "<"
      <4>1. m.text \in Texts
        BY <2>1, <3>2, MessageFields
      <4>2. Size[m.text] \in 0..127 /\ Min({Size[m.text], len}) \in 0..127
        BY <1>1, <4>1, MinOf DEF TypeOK
      <4>3. Finish(TRUE, m.text, Min({Size[m.text], len}))
        BY <1>14, <3>2 DEF Receive
      <4> QED
        BY <4>1, <4>2, <4>3
    <3> QED
      BY <3>1, <3>2
  <2> HIDE DEF conn, queues, server, seen, bounds, m
  <2>4. /\ Owned(pc', at, held') /\ pc' \in {"send", "open"} /\ held' \subseteq Resources
        /\ call' \in Commands /\ (call' \in {"GET_COOKIE", "IFNAME"} => transport = "udp")
        /\ believed' \in BOOLEAN /\ len' \in 0..127
        /\ ifname' \in [text : Texts, len : 0..127] \union {None}
    BY <2>2, <2>3, FinishOwned
  <2> USE DEF conn, queues, server, seen, bounds
  <2>5. missed' \subseteq Nat /\ unanswered' \in Nat
    BY <1>1, <2>1, <2>2, MessageFields DEF TypeOK
  <2>6. TypeOK'
    BY <1>1, <2>1, <2>2, <2>4, <2>5 DEF TypeOK
  <2> QED
    BY <1>1, <2>2, <2>4, <2>6, OwnedIsNext
<1>15. ASSUME Recv PROVE ResourceInv'
  <2>1. toClient # <<>> /\ Head(toClient).n \in Nat
        /\ toClient' \in Seq(Messages)
    BY <1>1, <1>15, Ends, MessageFields DEF Recv, TypeOK
  <2>2. UNCHANGED <<pc, at, tries, call, conn, toServer, lost, server, seen, bounds>>
    BY <1>15 DEF Recv
  <2>3. TypeOK'
    BY <1>1, <2>1, <2>2 DEF TypeOK
  <2> QED
    BY <1>1, <2>2, <2>3, OwnedIsNext
<1>16. ASSUME Serve PROVE ResourceInv'
  <2>1. toServer' \in Seq(Commands) /\ attached' \in BOOLEAN
    BY <1>1, <1>16, Ends DEF Serve, TypeOK
  <2>2. PICK t \in Answers(Head(toServer)) :
          toClient' = IF Reachable THEN Append(toClient, Reply(t)) ELSE toClient
    BY <1>16 DEF Serve
  <2>3. Reply(t) \in Messages
    BY DEF Answers, Reply, Texts, Messages
  <2>4. toClient' \in Seq(Messages)
    BY <1>1, <2>2, <2>3, Ends DEF TypeOK
  <2>5. UNCHANGED <<pc, at, tries, call, conn, lost, events, seen, bounds>>
    BY <1>16 DEF Serve
  <2>6. TypeOK'
    BY <1>1, <2>1, <2>4, <2>5 DEF TypeOK
  <2> QED
    BY <1>1, <2>5, <2>6, OwnedIsNext
<1>17. ASSUME Emit PROVE ResourceInv'
  <2>1. events' \in Nat /\ events' = events + 1
    BY <1>1, <1>17 DEF Emit, TypeOK
  <2>2. Event(events + 1) \in Messages
    BY <2>1 DEF Event, Messages
  <2>3. toClient' \in Seq(Messages)
    BY <1>1, <1>17, <2>2, Ends DEF Emit, TypeOK
  <2>4. UNCHANGED <<pc, at, tries, call, conn, toServer, lost, attached, seen, bounds>>
    BY <1>17 DEF Emit
  <2>5. TypeOK'
    BY <1>1, <2>1, <2>3, <2>4 DEF TypeOK
  <2> QED
    BY <1>1, <2>4, <2>5, OwnedIsNext
<1>18. ASSUME Lose PROVE ResourceInv'
  <2>1. /\ toServer' \in Seq(Commands) /\ missed' \subseteq Nat /\ lost' \in Nat
        /\ toClient' \in Seq(Messages)
    <3>1. toServer # <<>> => Tail(toServer) \in Seq(Commands)
      BY <1>1, Ends DEF TypeOK
    <3>2. toClient # <<>> => Tail(toClient) \in Seq(Messages) /\ Head(toClient).n \in Nat
      BY <1>1, Ends, MessageFields DEF TypeOK
    <3> QED
      <4>1. toServer \in Seq(Commands) /\ toClient \in Seq(Messages) /\ missed \subseteq Nat
            /\ lost \in Nat
        BY <1>1 DEF TypeOK
      <4>2. lost' = lost + 1
        BY <1>18 DEF Lose
      <4>3. \/ toServer # <<>> /\ toServer' = Tail(toServer) /\ UNCHANGED <<toClient, missed>>
            \/ /\ toClient # <<>> /\ toClient' = Tail(toClient) /\ UNCHANGED toServer
               /\ missed' = missed \union ({Head(toClient).n} \ {0})
        BY <1>18 DEF Lose
      <4>4. toServer' \in Seq(Commands) /\ missed' \subseteq Nat /\ toClient' \in Seq(Messages)
        BY <3>1, <3>2, <4>1, <4>3
      <4> QED
        BY <4>1, <4>2, <4>4
  <2>2. UNCHANGED <<pc, at, tries, call, conn, server, believed, monitors, unanswered, bounds>>
    BY <1>18 DEF Lose
  <2>3. TypeOK'
    BY <1>1, <2>1, <2>2 DEF TypeOK
  <2> QED
    BY <1>1, <2>2, <2>3, OwnedIsNext
<1>19. ASSUME UNCHANGED vars PROVE ResourceInv'
  <2>1. TypeOK'
    BY <1>1, <1>19 DEF vars, TypeOK
  <2> QED
    BY <1>1, <1>19, <2>1, OwnedIsNext DEF vars
<1> QED
  BY <1>3, <1>4, <1>5, <1>6, <1>7, <1>8, <1>9, <1>10, <1>11, <1>12, <1>13, <1>14,
     <1>15, <1>16, <1>17, <1>18, <1>19 DEF Next, Library, Done

\* A connection that is not open owns nothing, and an open one no more than
\* wpa_ctrl_close releases, whatever fails, times out or is lost.
THEOREM ResourcesAreReleased == Spec => []ResourceInv
<1>1. ResourceInv /\ [Next]_vars => ResourceInv'
  BY NextResources
<1> QED
  BY <1>1, InitResources, PTL DEF Spec

HIDE ClientAssumption

-----------------------------------------------------------------------------
(* What is under way on a connection whose requests were all answered      *)

\* Of a queue: there are events only; no events; one reply, t, among events.
EventsOnly(q) == \A i \in DOMAIN q : q[i].text = "<"
RepliesOnly(q) == \A i \in DOMAIN q : q[i].text # "<"
OneReply(q, t) == \E i \in DOMAIN q : q[i].text = t /\ \A j \in DOMAIN q : q[j].text = "<" \/ j = i

\* Nothing is under way, and the program is right about the server.
Calm == toServer = <<>> /\ EventsOnly(toClient) /\ believed = attached

\* A request is: its command is in the queue, or lost or served in vain, or the
\* reply t is on its way, which tells what the server did.
Asked == toServer = <<call>> /\ EventsOnly(toClient) /\ believed = attached
InVain == toServer = <<>> /\ EventsOnly(toClient)
Answered(t) ==
  /\ toServer = <<>> /\ OneReply(toClient, t)
  /\ IF t = "OK" THEN attached = (call = "ATTACH") ELSE believed = attached

FlightInv ==
  unanswered = 0 =>
    /\ pc \in {"step", "send", "open"} => Calm
    /\ pc = "wait" => Asked \/ InVain \/ \E t \in Answers(call) : Answered(t)


LEMMA HeadOff ==
  ASSUME NEW S, NEW q \in Seq(S), q # <<>>
  PROVE  /\ 1 \in DOMAIN q /\ Head(q) = q[1]
         /\ \A i \in DOMAIN Tail(q) : i + 1 \in DOMAIN q /\ i + 1 # 1 /\ Tail(q)[i] = q[i + 1]
         /\ \A i \in DOMAIN q : i # 1 => i - 1 \in DOMAIN Tail(q) /\ Tail(q)[i - 1] = q[i]
<1> DEFINE n == Len(q)
           t == Tail(q)
<1>1. n \in Nat /\ n # 0 /\ DOMAIN q = 1..n /\ Head(q) = q[1]
  BY LenProperties, EmptySeq, HeadTailProperties
<1>2. t \in Seq(S) /\ Len(t) = n - 1 /\ \A i \in 1..(n - 1) : t[i] = q[i + 1]
  BY HeadTailProperties
<1>3. DOMAIN t = 1..(n - 1)
  BY <1>2, LenProperties
<1> HIDE DEF n, t
<1>4. 1 \in 1..n /\ \A i \in 1..(n - 1) : i + 1 \in 1..n /\ i + 1 # 1
  BY <1>1
<1>5. \A i \in 1..n : i # 1 => i - 1 \in 1..(n - 1) /\ (i - 1) + 1 = i
  BY <1>1
<1>6. \A i \in 1..n : i # 1 => t[i - 1] = q[i]
  BY <1>2, <1>5
<1> QED
  BY <1>1, <1>2, <1>3, <1>4, <1>5, <1>6 DEF t

LEMMA PutOn ==
  ASSUME NEW S, NEW q \in Seq(S), NEW m \in S
  PROVE  \E k \in DOMAIN Append(q, m) :
           /\ k \notin DOMAIN q /\ DOMAIN Append(q, m) = DOMAIN q \union {k}
           /\ Append(q, m)[k] = m
           /\ \A i \in DOMAIN q : Append(q, m)[i] = q[i]
<1> DEFINE n == Len(q)
           t == Append(q, m)
<1>1. n \in Nat /\ DOMAIN q = 1..n
  BY LenProperties
<1>2. t \in Seq(S) /\ Len(t) = n + 1 /\ t[n + 1] = m /\ \A i \in 1..n : t[i] = q[i]
  BY AppendProperties
<1>3. DOMAIN t = 1..(n + 1)
  BY <1>2, LenProperties
<1> HIDE DEF n, t
<1>4. 1..(n + 1) = (1..n) \union {n + 1} /\ n + 1 \notin 1..n
  BY <1>1
<1> QED
  BY <1>1, <1>2, <1>3, <1>4 DEF t

LEMMA FirstOf ==
  ASSUME NEW S, NEW q \in Seq(S), NEW m \in S
  PROVE  /\ Append(q, m) # <<>>
         /\ Head(Append(q, m)) = IF q = <<>> THEN m ELSE Head(q)
<1>1. Len(q) \in Nat /\ Len(Append(q, m)) = Len(q) + 1 /\ Append(q, m) \in Seq(S)
      /\ Append(q, m)[Len(q) + 1] = m /\ \A i \in 1..Len(q) : Append(q, m)[i] = q[i]
  BY LenProperties, AppendProperties
<1>2. Append(q, m) # <<>> /\ Head(Append(q, m)) = Append(q, m)[1]
  <2>1. Len(Append(q, m)) # 0
    BY <1>1
  <2>2. Append(q, m) # <<>>
    BY <2>1, EmptySeq
  <2> QED
    BY <1>1, <2>2, HeadTailProperties
<1>3. CASE q = <<>>
  <2>1. Len(q) + 1 = 1
    BY <1>1, <1>3, EmptySeq
  <2> QED
    BY <1>1, <1>2, <1>3, <2>1
<1>4. CASE q # <<>>
  <2>1. 1 \in 1..Len(q) /\ Head(q) = q[1]
    BY <1>1, <1>4, EmptySeq, HeadTailProperties
  <2> QED
    BY <1>1, <1>2, <1>4, <2>1
<1> QED
  BY <1>3, <1>4

LEMMA HeadKind ==
  ASSUME NEW q \in Seq(Messages), q # <<>>
  PROVE  /\ EventsOnly(q) => EventsOnly(Tail(q)) /\ Head(q).text = "<"
         /\ RepliesOnly(q) => RepliesOnly(Tail(q)) /\ Head(q).text # "<"
         /\ \A t : OneReply(q, t) /\ t # "<" =>
              IF Head(q).text = "<" THEN OneReply(Tail(q), t)
              ELSE Head(q).text = t /\ EventsOnly(Tail(q))
<1> DEFINE r == Tail(q)
<1>1. /\ 1 \in DOMAIN q /\ Head(q) = q[1]
      /\ \A i \in DOMAIN r : i + 1 \in DOMAIN q /\ i + 1 # 1 /\ r[i] = q[i + 1]
      /\ \A i \in DOMAIN q : i # 1 => i - 1 \in DOMAIN r /\ r[i - 1] = q[i]
  BY HeadOff
<1>2. DOMAIN r \subseteq Nat
  <2>1. r \in Seq(Messages)
    BY HeadTailProperties
  <2> QED
    BY <2>1, LenProperties
<1> HIDE DEF r
<1>3. EventsOnly(q) => EventsOnly(r) /\ Head(q).text = "<"
  BY <1>1 DEF EventsOnly
<1>4. RepliesOnly(q) => RepliesOnly(r) /\ Head(q).text # "<"
  BY <1>1 DEF RepliesOnly
<1>5. ASSUME NEW t, OneReply(q, t), t # "<"
      PROVE  IF Head(q).text = "<" THEN OneReply(r, t)
             ELSE Head(q).text = t /\ EventsOnly(r)
  <2>1. PICK k \in DOMAIN q :
          q[k].text = t /\ \A j \in DOMAIN q : q[j].text = "<" \/ j = k
    BY <1>5 DEF OneReply
  <2>2. CASE k = 1
    BY <1>1, <1>5, <2>1, <2>2, Zenon DEF EventsOnly
  <2>3. CASE k # 1
    <3>1. Head(q).text = "<"
      BY <1>1, <2>1, <2>3
    <3>2. k - 1 \in DOMAIN r /\ r[k - 1].text = t
      BY <1>1, <2>1, <2>3
    <3>3. ASSUME NEW j \in DOMAIN r, j # k - 1 PROVE r[j].text = "<"
      <4>1. j + 1 # k
        <5>1. j \in Nat /\ k - 1 \in Nat
          BY <1>2, <3>2
        <5>2. k \in Nat
          BY LenProperties
        <5> QED
          BY <3>3, <5>1, <5>2
      <4> QED
        BY <1>1, <2>1, <4>1
    <3> QED
      BY <3>1, <3>2, <3>3 DEF OneReply
  <2> QED
    BY <2>2, <2>3
<1> QED
  BY <1>3, <1>4, <1>5 DEF r

LEMMA LastKind ==
  ASSUME NEW q \in Seq(Messages), NEW m \in Messages
  PROVE  /\ EventsOnly(q) /\ m.text = "<" => EventsOnly(Append(q, m))
         /\ RepliesOnly(q) /\ m.text # "<" => RepliesOnly(Append(q, m))
         /\ EventsOnly(q) => OneReply(Append(q, m), m.text)
         /\ \A t : OneReply(q, t) /\ m.text = "<" => OneReply(Append(q, m), t)
<1> DEFINE r == Append(q, m)
<1>1. PICK k \in DOMAIN r :
        /\ k \notin DOMAIN q /\ DOMAIN r = DOMAIN q \union {k} /\ r[k] = m
        /\ \A i \in DOMAIN q : r[i] = q[i]
  BY PutOn
<1> HIDE DEF r
<1>2. EventsOnly(q) /\ m.text = "<" => EventsOnly(r)
  BY <1>1 DEF EventsOnly
<1>3. RepliesOnly(q) /\ m.text # "<" => RepliesOnly(r)
  BY <1>1 DEF RepliesOnly
<1>4. EventsOnly(q) => OneReply(r, m.text)
  BY <1>1 DEF EventsOnly, OneReply
<1>5. ASSUME NEW t, OneReply(q, t), m.text = "<" PROVE OneReply(r, t)
  BY <1>1, <1>5 DEF OneReply
<1> QED
  BY <1>2, <1>3, <1>4, <1>5 DEF r

\* What a server answers is no event, and "OK" only to attach or detach.
LEMMA AnswerKinds ==
  ASSUME NEW c \in Commands, NEW t \in Answers(c)
  PROVE  /\ t \in Texts /\ t # "<" /\ Reply(t) \in Messages /\ Reply(t).text = t
         /\ t = "OK" => c \in {"ATTACH", "DETACH"}
         /\ c = "IFNAME" => t = "ifname"
         /\ c = "GET_COOKIE" => t = "cookie"
<1>1. t \in {"OK", "FAIL", "PONG", "cookie", "ifname"}
  BY Zenon DEF Answers
<1>2. Reply(t) \in Messages /\ Reply(t).text = t /\ t \in Texts /\ t # "<"
  BY <1>1 DEF Reply, Messages, Texts
<1>3. /\ t = "OK" => c \in {"ATTACH", "DETACH"}
      /\ c = "IFNAME" => t = "ifname"
      /\ c = "GET_COOKIE" => t = "cookie"
  BY DEF Answers, Commands
<1> QED
  BY <1>2, <1>3

\* A step that leaves the queues alone, unless it is the start of a wait.
LEMMA NothingFlies ==
  ASSUME FlightInv, UNCHANGED <<toServer, toClient, believed, attached, unanswered, transport>>,
         pc' \in {"step", "send", "open"} => pc \in {"step", "send", "open"},
         pc' = "wait" => pc = "wait" /\ call' = call
  PROVE  FlightInv'
<1> SUFFICES ASSUME unanswered = 0
             PROVE  /\ pc' \in {"step", "send", "open"} => Calm'
                    /\ pc' = "wait" =>
                         Asked' \/ InVain' \/ \E t \in Answers(call') : Answered(t)'
  BY Zenon DEF FlightInv
<1>1. pc \in {"step", "send", "open"} => Calm
  BY Zenon DEF FlightInv
<1>2. pc = "wait" => Asked \/ InVain \/ \E t \in Answers(call) : Answered(t)
  BY Zenon DEF FlightInv
<1>3. Calm => Calm'
  BY Zenon DEF Calm, EventsOnly
<1>4. ASSUME call' = call PROVE (Asked => Asked') /\ (InVain => InVain')
  BY <1>4, Zenon DEF Asked, InVain, EventsOnly
<1>5. ASSUME call' = call, NEW t, Answered(t) PROVE Answered(t)'
  BY <1>5, Zenon DEF Answered, OneReply
<1> QED
  BY <1>1, <1>2, <1>3, <1>4, <1>5, Zenon

LEMMA FlightStill ==
  ASSUME FlightInv,
         \/ Close \/ Exit \/ Cleanup \/ Acquire \/ PipeBusy \/ OpenFails \/ SendFails
         \/ \E c \in {"PING", "ATTACH", "DETACH"} : Request(c)
         \/ UNCHANGED vars
  PROVE  FlightInv'
<1> USE DEF conn, queues, server, seen, bounds
<1>1. CASE Close \/ Exit \/ OpenFails
  <2>1. UNCHANGED <<toServer, toClient, believed, attached, unanswered, transport>>
        /\ pc' = "closed"
    BY <1>1, Zenon DEF Close, Exit, OpenFails
  <2> QED
    BY <2>1, NothingFlies
<1>2. CASE Cleanup \/ PipeBusy
  <2>1. UNCHANGED <<toServer, toClient, believed, attached, unanswered, transport, pc, call>>
    BY <1>2, Zenon DEF Cleanup, PipeBusy
  <2> QED
    BY <2>1, NothingFlies
<1>3. CASE Acquire
  <2>1. UNCHANGED <<toServer, toClient, believed, attached, unanswered, transport>>
    BY <1>3, Zenon DEF Acquire
  <2>2. pc = "step" /\ pc' \in {"step", "send", "open"}
    BY <1>3 DEF Acquire
  <2> QED
    BY <2>1, <2>2, NothingFlies
<1>4. CASE SendFails
  <2>1. UNCHANGED <<toServer, toClient, attached, unanswered, transport>>
    BY <1>4, Zenon DEF SendFails
  <2>2. Finish(FALSE, "FAIL", 0) /\ pc = "send"
    BY <1>4, Zenon DEF SendFails
  <2>3. UNCHANGED believed /\ pc' \in {"send", "open"}
    BY <2>2 DEF Finish, Start
  <2> QED
    BY <2>1, <2>2, <2>3, NothingFlies
<1>5. CASE \E c \in {"PING", "ATTACH", "DETACH"} : Request(c)
  <2>1. UNCHANGED <<toServer, toClient, believed, attached, unanswered, transport>>
        /\ pc = "open" /\ pc' = "send"
    BY <1>5, Zenon DEF Request, Start
  <2> QED
    BY <2>1, NothingFlies
<1>6. CASE UNCHANGED vars
  <2>1. UNCHANGED <<toServer, toClient, believed, attached, unanswered, transport, pc, call>>
    BY <1>6, Zenon DEF vars
  <2> QED
    BY <2>1, NothingFlies
<1> QED
  BY <1>1, <1>2, <1>3, <1>4, <1>5, <1>6

\* Init and a new connection.
LEMMA FlightInit == Init => FlightInv
  BY Zenon DEF Init, FlightInv

LEMMA FlightBegin == Begin => FlightInv'
<1> SUFFICES ASSUME Begin PROVE FlightInv'
  OBVIOUS
<1>1. /\ pc' = "step" /\ toServer' = <<>> /\ toClient' = <<>>
      /\ attached' = FALSE /\ believed' = FALSE
  BY Zenon DEF Begin
<1>2. EventsOnly(toClient)'
  BY <1>1 DEF EventsOnly
<1> QED
  BY <1>1, <1>2 DEF FlightInv, Calm

LEMMA FlightSend == TypeOK /\ FlightInv /\ Send => FlightInv'
<1> SUFFICES ASSUME TypeOK, FlightInv, Send, unanswered = 0 PROVE Asked'
  BY Zenon DEF FlightInv, Send, bounds, seen
<1>1. Calm
  BY Zenon DEF FlightInv, Send
<1>2. toServer' = Append(<<>>, call) /\ UNCHANGED <<call, toClient, believed, attached>>
  BY <1>1, Zenon DEF Calm, Send, server, seen
<1>3. toServer' = <<call'>>
  BY <1>2
<1> QED
  BY <1>1, <1>2, <1>3, Zenon DEF Calm, Asked, EventsOnly

LEMMA FlightTimeOut == TypeOK /\ (TimeOut \/ RequestFails) => FlightInv'
<1> SUFFICES ASSUME TypeOK, TimeOut \/ RequestFails PROVE unanswered' # 0
  BY Zenon DEF FlightInv
<1>1. unanswered \in Nat /\ unanswered' = unanswered + 1
  BY Zenon DEF TypeOK, TimeOut, RequestFails
<1> QED
  BY <1>1

\* An event comes to, or goes from, the queue of the client, or the last reply
\* is lost.
LEMMA EventsMove ==
  ASSUME FlightInv,
         EventsOnly(toClient) => EventsOnly(toClient)',
         \A t \in Answers(call) :
           OneReply(toClient, t) => OneReply(toClient, t)' \/ EventsOnly(toClient)',
         UNCHANGED <<pc, call, toServer, believed, attached, unanswered, transport>>
  PROVE  FlightInv'
<1> SUFFICES ASSUME unanswered = 0
             PROVE  /\ pc \in {"step", "send", "open"} => Calm'
                    /\ pc = "wait" =>
                         Asked' \/ InVain' \/ \E t \in Answers(call) : Answered(t)'
  BY Zenon DEF FlightInv
<1>1. pc \in {"step", "send", "open"} => Calm
  BY Zenon DEF FlightInv
<1>2. pc = "wait" => Asked \/ InVain \/ \E t \in Answers(call) : Answered(t)
  BY Zenon DEF FlightInv
<1>3. (Calm => Calm') /\ (Asked => Asked') /\ (InVain => InVain')
  BY Zenon DEF Calm, Asked, InVain
<1>4. ASSUME NEW t \in Answers(call), Answered(t) PROVE Answered(t)' \/ InVain'
  BY <1>4, Zenon DEF Answered, InVain
<1> QED
  BY <1>1, <1>2, <1>3, <1>4, Zenon

LEMMA FlightEvents == TypeOK /\ FlightInv /\ (ReceiveEvent \/ Recv \/ Emit) => FlightInv'
<1> SUFFICES ASSUME TypeOK, FlightInv, ReceiveEvent \/ Recv \/ Emit PROVE FlightInv'
  OBVIOUS
<1> USE DEF conn, queues, server, seen, bounds
<1>1. toClient \in Seq(Messages) /\ events \in Nat /\ call \in Commands
  BY Zenon DEF TypeOK
<1>2. UNCHANGED <<pc, call, toServer, believed, attached, unanswered, transport>>
  BY Zenon DEF ReceiveEvent, Recv, Emit
<1>3. \A t \in Answers(call) : t # "<"
  BY <1>1, AnswerKinds
<1>4. CASE ReceiveEvent
  <2>1. toClient # <<>> /\ Head(toClient).text = "<" /\ toClient' = Tail(toClient)
    BY <1>4, Zenon DEF ReceiveEvent
  <2>2. EventsOnly(toClient) => EventsOnly(Tail(toClient))
    BY <1>1, <2>1, HeadKind
  <2>3. \A t \in Answers(call) : OneReply(toClient, t) => OneReply(Tail(toClient), t)
    BY <1>1, <1>3, <2>1, HeadKind
  <2>4. EventsOnly(toClient) => EventsOnly(toClient)'
    BY <2>1, <2>2, Zenon DEF EventsOnly
  <2>5. \A t \in Answers(call) : OneReply(toClient, t) => OneReply(toClient, t)'
    BY <2>1, <2>3, Zenon DEF OneReply
  <2> QED
    BY <1>2, <2>4, <2>5, EventsMove, Zenon
<1>5. CASE Recv
  <2>1. toClient # <<>> /\ toClient' = Tail(toClient)
    BY <1>5, Zenon DEF Recv
  <2>2. EventsOnly(toClient) => EventsOnly(Tail(toClient))
    BY <1>1, <2>1, HeadKind
  <2>3. \A t \in Answers(call) :
          OneReply(toClient, t) => OneReply(Tail(toClient), t) \/ EventsOnly(Tail(toClient))
    BY <1>1, <1>3, <2>1, HeadKind
  <2>4. EventsOnly(toClient) => EventsOnly(toClient)'
    BY <2>1, <2>2, Zenon DEF EventsOnly
  <2>5. \A t \in Answers(call) :
          OneReply(toClient, t) => OneReply(toClient, t)' \/ EventsOnly(toClient)'
    BY <2>1, <2>3, Zenon DEF OneReply, EventsOnly
  <2> QED
    BY <1>2, <2>4, <2>5, EventsMove, Zenon
<1>6. CASE Emit
  <2>1. toClient' = Append(toClient, Event(events + 1))
    BY <1>6, Zenon DEF Emit
  <2>2. Event(events + 1) \in Messages /\ Event(events + 1).text = "<"
    BY <1>1 DEF Event, Messages
  <2>3. EventsOnly(toClient) => EventsOnly(Append(toClient, Event(events + 1)))
    BY <1>1, <2>2, LastKind
  <2>4. \A t \in Answers(call) :
          OneReply(toClient, t) => OneReply(Append(toClient, Event(events + 1)), t)
    BY <1>1, <2>2, LastKind
  <2>5. EventsOnly(toClient) => EventsOnly(toClient)'
    BY <2>1, <2>3, Zenon DEF EventsOnly
  <2>6. \A t \in Answers(call) : OneReply(toClient, t) => OneReply(toClient, t)'
    BY <2>1, <2>4, Zenon DEF OneReply
  <2> QED
    BY <1>2, <2>5, <2>6, EventsMove, Zenon
<1> QED
  BY <1>4, <1>5, <1>6

\* The reply that is received is the last, and its caller makes of it what the
\* server did.
LEMMA ReplyReceived ==
  ASSUME TypeOK, FlightInv, Receive, unanswered' = 0
  PROVE  /\ unanswered = 0 /\ Head(toClient).text \in Answers(call)
         /\ toServer = <<>> /\ EventsOnly(Tail(toClient))
         /\ Finish(TRUE, Head(toClient).text, Min({Size[Head(toClient).text], len}))
         /\ IF Head(toClient).text = "OK" THEN attached = (call = "ATTACH")
            ELSE believed = attached
<1>1. toClient \in Seq(Messages) /\ call \in Commands
  BY Zenon DEF TypeOK
<1>2. /\ pc = "wait" /\ toClient # <<>> /\ Head(toClient).text # "<" /\ unanswered = 0
      /\ Finish(TRUE, Head(toClient).text, Min({Size[Head(toClient).text], len}))
  <2>1. unanswered + 1 # 0
    BY DEF TypeOK
  <2> QED
    BY <2>1, Zenon DEF Receive
<1>3. ~EventsOnly(toClient)
  BY <1>1, <1>2, HeadKind
<1>4. PICK t \in Answers(call) : Answered(t)
  BY <1>2, <1>3, Zenon DEF FlightInv, Asked, InVain
<1>5. toServer = <<>> /\ OneReply(toClient, t)
      /\ IF t = "OK" THEN attached = (call = "ATTACH") ELSE believed = attached
  BY <1>4, Zenon DEF Answered
<1>6. t # "<"
  BY <1>1, AnswerKinds
<1>7. Head(toClient).text = t /\ EventsOnly(Tail(toClient))
  BY <1>1, <1>2, <1>5, <1>6, HeadKind
<1> QED
  BY <1>2, <1>5, <1>7, Zenon

LEMMA FlightReceive == TypeOK /\ FlightInv /\ Receive => FlightInv'
<1> DEFINE t == Head(toClient).text
           l == Min({Size[t], len})
<1> SUFFICES ASSUME TypeOK, FlightInv, Receive, unanswered' = 0
             PROVE  pc' \in {"send", "open"} /\ Calm'
  BY Zenon DEF FlightInv, Receive
<1>1. /\ t \in Answers(call) /\ toServer = <<>> /\ EventsOnly(Tail(toClient))
      /\ Finish(TRUE, t, l)
      /\ IF t = "OK" THEN attached = (call = "ATTACH") ELSE believed = attached
  BY ReplyReceived, Zenon
<1>2. toClient' = Tail(toClient) /\ UNCHANGED <<toServer, attached>>
  BY Zenon DEF Receive, server
<1>3. call \in Commands
  BY Zenon DEF TypeOK
<1> HIDE DEF t, l
<1>4. t = "OK" => call \in {"ATTACH", "DETACH"}
  BY <1>1, <1>3, AnswerKinds
<1>5. pc' \in {"send", "open"}
  BY <1>1 DEF Finish, Start
<1>6. believed' = attached
  <2>1. CASE t = "OK"
    <3>1. believed' = (call = "ATTACH")
      BY <1>1, <1>4, <2>1 DEF Finish
    <3> QED
      BY <1>1, <2>1, <3>1, Zenon
  <2>2. CASE t # "OK"
    <3>1. believed' = believed
      BY <1>1, <2>2 DEF Finish, Start
    <3> QED
      BY <1>1, <2>2, <3>1, Zenon
  <2> QED
    BY <2>1, <2>2
<1>7. EventsOnly(toClient)'
  BY <1>1, <1>2, Zenon DEF EventsOnly
<1> QED
  BY <1>1, <1>2, <1>5, <1>6, <1>7, Zenon DEF Calm

LEMMA FlightServe == TypeOK /\ FlightInv /\ Serve => FlightInv'
<1> SUFFICES ASSUME TypeOK, FlightInv, Serve, unanswered = 0,
                    pc \in {"step", "send", "open", "wait"}
             PROVE  pc = "wait" /\ (InVain' \/ \E t \in Answers(call) : Answered(t)')
  BY Zenon DEF FlightInv, Serve, bounds, seen
<1>1. toServer # <<>> /\ toServer' = Tail(toServer) /\ UNCHANGED <<pc, call, believed>>
  BY Zenon DEF Serve, seen
<1>2. pc = "wait" /\ Asked
  BY <1>1, Zenon DEF FlightInv, Calm, InVain, Answered
<1>3. toServer = <<call>> /\ EventsOnly(toClient) /\ believed = attached
  BY <1>2, Zenon DEF Asked
<1>4. Head(toServer) = call /\ toServer' = <<>>
  BY <1>1, <1>3
<1>5. PICK t \in Answers(call) :
        /\ toClient' = IF Reachable THEN Append(toClient, Reply(t)) ELSE toClient
        /\ attached' = IF t = "OK" THEN call = "ATTACH" ELSE attached
  BY <1>4, Zenon DEF Serve
<1>6. CASE ~Reachable
  BY <1>2, <1>3, <1>4, <1>5, <1>6, Zenon DEF InVain, EventsOnly
<1>7. CASE Reachable
  <2>1. Reply(t) \in Messages /\ Reply(t).text = t
    BY AnswerKinds DEF TypeOK
  <2>2. OneReply(Append(toClient, Reply(t)), t)
    <3>1. toClient \in Seq(Messages)
      BY Zenon DEF TypeOK
    <3> QED
      BY <1>3, <2>1, <3>1, LastKind
  <2>3. OneReply(toClient, t)'
    BY <1>5, <1>7, <2>2, Zenon DEF OneReply
  <2>4. IF t = "OK" THEN attached' = (call' = "ATTACH") ELSE believed' = attached'
    BY <1>1, <1>3, <1>5, Zenon
  <2> QED
    BY <1>2, <1>4, <2>3, <2>4, Zenon DEF Answered
<1> QED
  BY <1>6, <1>7

LEMMA FlightLose == TypeOK /\ FlightInv /\ Lose => FlightInv'
<1> SUFFICES ASSUME TypeOK, FlightInv, Lose PROVE FlightInv'
  OBVIOUS
<1>1. UNCHANGED <<pc, call, believed, attached, unanswered, transport>>
  BY Zenon DEF Lose, server, bounds
<1>2. CASE toServer # <<>> /\ toServer' = Tail(toServer) /\ UNCHANGED <<toClient, missed>>
  <2> SUFFICES ASSUME unanswered = 0, pc \in {"step", "send", "open", "wait"}
               PROVE  pc = "wait" /\ InVain'
    BY <1>1, Zenon DEF FlightInv
  <2>1. pc = "wait" /\ Asked
    BY <1>2, Zenon DEF FlightInv, Calm, InVain, Answered
  <2>2. toServer = <<call>> /\ EventsOnly(toClient)
    BY <2>1, Zenon DEF Asked
  <2>3. toServer' = <<>>
    BY <1>2, <2>2
  <2> QED
    BY <1>2, <2>1, <2>2, <2>3, Zenon DEF InVain, EventsOnly
<1>3. CASE toClient # <<>> /\ toClient' = Tail(toClient) /\ UNCHANGED toServer
  <2>1. toClient \in Seq(Messages) /\ call \in Commands
    BY Zenon DEF TypeOK
  <2>2. \A t \in Answers(call) : t # "<"
    BY <2>1, AnswerKinds
  <2>3. EventsOnly(toClient) => EventsOnly(Tail(toClient))
    BY <1>3, <2>1, HeadKind
  <2>4. \A t \in Answers(call) :
          OneReply(toClient, t) => OneReply(Tail(toClient), t) \/ EventsOnly(Tail(toClient))
    BY <1>3, <2>1, <2>2, HeadKind
  <2>5. EventsOnly(toClient) => EventsOnly(toClient)'
    BY <1>3, <2>3, Zenon DEF EventsOnly
  <2>6. \A t \in Answers(call) :
          OneReply(toClient, t) => OneReply(toClient, t)' \/ EventsOnly(toClient)'
    BY <1>3, <2>4, Zenon DEF OneReply, EventsOnly
  <2> QED
    BY <1>1, <1>3, <2>5, <2>6, EventsMove, Zenon
<1> QED
  BY <1>2, <1>3, Zenon DEF Lose

LEMMA FlightNext == TypeOK /\ FlightInv /\ [Next]_vars => FlightInv'
<1> SUFFICES ASSUME TypeOK, FlightInv, [Next]_vars PROVE FlightInv'
  OBVIOUS
<1>1. CASE Begin
  BY <1>1, FlightBegin
<1>2. CASE Send
  BY <1>2, FlightSend
<1>3. CASE TimeOut \/ RequestFails
  BY <1>3, FlightTimeOut
<1>4. CASE ReceiveEvent \/ Recv \/ Emit
  BY <1>4, FlightEvents
<1>5. CASE Receive
  BY <1>5, FlightReceive
<1>6. CASE Serve
  BY <1>6, FlightServe
<1>7. CASE Lose
  BY <1>7, FlightLose
<1>8. CASE \/ Close \/ Exit \/ Cleanup \/ Acquire \/ PipeBusy \/ OpenFails \/ SendFails
           \/ \E c \in {"PING", "ATTACH", "DETACH"} : Request(c)
           \/ UNCHANGED vars
  BY <1>8, FlightStill
<1> QED
  BY <1>1, <1>2, <1>3, <1>4, <1>5, <1>6, <1>7, <1>8, Zenon DEF Next, Library, Done

LEMMA TypesAlways == Spec => []TypeOK
<1>1. ResourceInv => TypeOK
  BY Zenon DEF ResourceInv
<1> QED
  BY <1>1, ResourcesAreReleased, PTL

LEMMA FlightAlways == Spec => []FlightInv
  BY TypesAlways, FlightInit, FlightNext, PTL DEF Spec

\* What wpa_ctrl_attach and wpa_ctrl_detach return is what the server did, while
\* no request ended without its reply: a reply belongs to the command in
\* progress, with any events before and after it, or the command or its reply
\* was lost.
THEOREM BeliefIsSound == Spec => []BeliefSound
<1>1. FlightInv => BeliefSound
  BY Zenon DEF FlightInv, Calm, BeliefSound
<1> QED
  BY <1>1, FlightAlways, PTL

-----------------------------------------------------------------------------
(* The name of the remote interface                                        *)

\* The room in the buffer of wpa_ctrl_open.
RoomInv ==
  unanswered = 0 =>
    /\ pc = "step" \/ (pc \in {"send", "wait"} /\ call = "GET_COOKIE") => len = 127
    /\ len \in {127, Size["cookie"]}
    /\ IfnameSound

LEMMA LeastOf ==
  \A a, b \in 0..127 : Min({a, b}) \in {a, b} /\ Min({a, b}) <= a /\ Min({a, b}) <= b
<1> TAKE a, b \in 0..127
<1>1. \E x \in {a, b} : \A y \in {a, b} : x <= y
  OBVIOUS
<1> QED
  BY <1>1 DEF Min

LEMMA Lengths == Size["cookie"] \in 0..127 /\ Size["ifname"] \in 0..127
  BY ClientAssumption DEF Texts

LEMMA RoomInit == Init => RoomInv
  BY Zenon DEF Init, RoomInv, IfnameSound

\* A request ends: if it was for the cookie with the cookie's length, if it was
\* for the name with the name and no less than fits.
LEMMA RoomFinish ==
  ASSUME TypeOK, RoomInv, unanswered = 0, unanswered' = 0,
         NEW ok, NEW t, NEW l, Finish(ok, t, l),
         ok /\ call = "GET_COOKIE" => l = Size["cookie"],
         ok /\ call = "IFNAME" =>
           t = "ifname" /\ l >= Min({Size["ifname"], Size["cookie"]})
  PROVE  RoomInv'
<1>1. len \in {127, Size["cookie"]} /\ IfnameSound /\ call \in Commands
  BY Zenon DEF RoomInv, TypeOK
<1>2. CASE call = "GET_COOKIE"
  <2>1. pc' = "send" /\ call' = "IFNAME" /\ ifname' = ifname /\ len' \in {127, Size["cookie"]}
    BY <1>1, <1>2 DEF Finish, Start
  <2> QED
    BY <1>1, <2>1 DEF RoomInv, IfnameSound
<1>3. CASE call = "IFNAME"
  <2>1. pc' = "open" /\ len' = len
        /\ (ifname' = ifname \/ (ok /\ ifname' = [text |-> t, len |-> l]))
    BY <1>3 DEF Finish
  <2>2. IfnameSound'
    <3>1. CASE ifname' = ifname
      BY <1>1, <3>1 DEF IfnameSound
    <3>2. CASE ok /\ ifname' = [text |-> t, len |-> l]
      BY <1>3, <3>2 DEF IfnameSound
    <3> QED
      BY <2>1, <3>1, <3>2
  <2> QED
    BY <1>1, <2>1, <2>2 DEF RoomInv
<1>4. CASE call \in {"ATTACH", "DETACH", "PING"}
  <2>1. pc' = "open" /\ len' = len /\ ifname' = ifname
    BY <1>4 DEF Finish
  <2> QED
    BY <1>1, <2>1 DEF RoomInv, IfnameSound
<1> QED
  BY <1>1, <1>2, <1>3, <1>4 DEF Commands

LEMMA RoomReceive == ResourceInv /\ FlightInv /\ RoomInv /\ Receive => RoomInv'
<1> SUFFICES ASSUME ResourceInv, FlightInv, RoomInv, Receive, unanswered' = 0
             PROVE  RoomInv'
  BY Zenon DEF RoomInv
<1> DEFINE t == Head(toClient).text
           l == Min({Size[t], len})
<1>1. TypeOK /\ unanswered = 0
  BY ReplyReceived, Zenon DEF ResourceInv
<1>2. CASE call \in {"GET_COOKIE", "IFNAME"}
  <2>2. t \in Answers(call) /\ Finish(TRUE, t, l)
    BY <1>1, ReplyReceived
  <2>3. /\ call = "GET_COOKIE" => t = "cookie"
        /\ call = "IFNAME" => t = "ifname"
    BY <1>1, <2>2, AnswerKinds DEF TypeOK
  <2>4. len \in {127, Size["cookie"]} /\ (call = "GET_COOKIE" => len = 127)
    BY <1>1, Zenon DEF RoomInv, Receive
  <2> DEFINE least == Min({Size["ifname"], Size["cookie"]})
  <2>5. /\ least \in {Size["ifname"], Size["cookie"]}
        /\ least <= Size["ifname"] /\ least <= Size["cookie"]
    BY LeastOf, Lengths, Zenon
  <2>6. len \in 0..127
    BY <2>4, Lengths
  <2>7. call = "GET_COOKIE" => l = Size["cookie"]
    <3>1. Min({Size["cookie"], 127}) = Size["cookie"]
      <4>1. Min({Size["cookie"], 127}) \in {Size["cookie"], 127}
            /\ Min({Size["cookie"], 127}) <= Size["cookie"]
            /\ Min({Size["cookie"], 127}) <= 127
        <5>1. 127 \in 0..127
          OBVIOUS
        <5> QED
          BY <5>1, LeastOf, Lengths, Zenon
      <4> QED
        BY <4>1, Lengths
    <3> QED
      BY <2>3, <2>4, <3>1
  <2>8. call = "IFNAME" => l >= least
    <3>1. Min({Size["ifname"], len}) \in {Size["ifname"], len}
      BY <2>6, LeastOf, Lengths
    <3>2. Size["ifname"] >= least /\ len >= least
      <4> HIDE DEF least
      <4> QED
        BY <2>4, <2>5, Lengths
    <3> QED
      <4> HIDE DEF least
      <4> QED
        BY <2>3, <3>1, <3>2
  <2> HIDE DEF t, l, least
  <2> QED
    BY <1>1, <2>2, <2>3, <2>7, <2>8, RoomFinish DEF least
<1>3. CASE call \notin {"GET_COOKIE", "IFNAME"}
  <2>1. \E x, y : Finish(TRUE, x, y)
    BY Zenon DEF Receive
  <2> QED
    BY <1>1, <1>3, <2>1, RoomFinish
<1> QED
  BY <1>2, <1>3

LEMMA RoomNext == ResourceInv /\ FlightInv /\ RoomInv /\ [Next]_vars => RoomInv'
<1> SUFFICES ASSUME ResourceInv, FlightInv, RoomInv, [Next]_vars PROVE RoomInv'
  OBVIOUS
<1> USE DEF conn, queues, server, seen, bounds
<1>1. TypeOK
  BY Zenon DEF ResourceInv
<1>2. CASE Begin
  <2>1. pc' = "step" /\ len' = 127 /\ ifname' = None
    BY <1>2, Zenon DEF Begin
  <2> QED
    BY <2>1 DEF RoomInv, IfnameSound
<1>3. CASE SendFails
  <2>1. Finish(FALSE, "FAIL", 0) /\ unanswered' = unanswered
    BY <1>3, Zenon DEF SendFails
  <2>2. CASE unanswered = 0
    BY <1>1, <2>1, <2>2, RoomFinish
  <2> QED
    BY <2>1, <2>2 DEF RoomInv
<1>4. CASE Receive
  BY <1>4, RoomReceive
<1>5. CASE TimeOut \/ RequestFails
  <2>1. unanswered \in Nat /\ unanswered' = unanswered + 1
    BY <1>1, <1>5, Zenon DEF TimeOut, RequestFails, TypeOK
  <2>2. unanswered' # 0
    BY <2>1
  <2> QED
    BY <2>2, Zenon DEF RoomInv
<1>6. ASSUME UNCHANGED <<len, ifname, unanswered>>,
             pc' = "step" => pc = "step",
             pc' \in {"send", "wait"} /\ call' = "GET_COOKIE" =>
               pc = "step" \/ (pc \in {"send", "wait"} /\ call = "GET_COOKIE")
      PROVE  RoomInv'
  BY <1>6, Zenon DEF RoomInv, IfnameSound
<1>7. CASE Acquire
  <2>1. UNCHANGED <<len, ifname, unanswered>> /\ pc = "step"
    BY <1>7, Zenon DEF Acquire
  <2> QED
    BY <1>6, <2>1
<1>8. CASE Close \/ Exit \/ OpenFails
  <2>1. UNCHANGED <<len, ifname, unanswered>> /\ pc' = "closed"
    BY <1>8, Zenon DEF Close, Exit, OpenFails
  <2> QED
    BY <1>6, <2>1
<1>9. CASE \E c \in {"PING", "ATTACH", "DETACH"} : Request(c)
  <2>1. UNCHANGED <<len, ifname, unanswered>> /\ pc' = "send"
    BY <1>9, Zenon DEF Request, Start
  <2>2. call' \in {"PING", "ATTACH", "DETACH"}
    BY <1>9, Zenon DEF Request, Start
  <2> QED
    BY <1>6, <2>1, <2>2
<1>10. CASE Send
  <2>1. UNCHANGED <<len, ifname, unanswered, call>> /\ pc = "send" /\ pc' = "wait"
    BY <1>10, Zenon DEF Send
  <2> QED
    BY <1>6, <2>1
<1>11. CASE \/ Cleanup \/ PipeBusy \/ ReceiveEvent \/ Recv \/ Serve \/ Emit \/ Lose
            \/ UNCHANGED vars
  <2>1. UNCHANGED <<len, ifname, unanswered, pc, call>>
    BY <1>11, Zenon DEF Cleanup, PipeBusy, ReceiveEvent, Recv, Serve, Emit, Lose, vars
  <2> QED
    BY <1>6, <2>1
<1> QED
  BY <1>2, <1>3, <1>4, <1>5, <1>7, <1>8, <1>9, <1>10, <1>11, Zenon DEF Next, Library, Done

\* The name of the remote interface is its own, whatever is lost, and cut no
\* shorter than the cookie was, unless one of the two requests ended without its
\* reply.
THEOREM IfnameIsSound == Spec => []IfnameSound
<1>1. RoomInv => IfnameSound
  BY Zenon DEF RoomInv, IfnameSound
<1>2. Spec => []RoomInv
  BY RoomInit, RoomNext, ResourcesAreReleased, FlightAlways, PTL DEF Spec
<1> QED
  BY <1>1, <1>2, PTL

-----------------------------------------------------------------------------
(* No event is missed                                                      *)

\* A program that takes events and attaches or detaches once.
Careful == transport \in {"unix", "android"} /\ Callback /\ monitors <= 1

Monitor == call \in {"ATTACH", "DETACH"}

\* Before the first attach there are no events, nor will there be.
Quiet ==
  ~attached /\ RepliesOnly(toClient) /\ \A i \in DOMAIN toServer : toServer[i] # "ATTACH"

\* While attach or detach waits the next message is no event.
Sheltered ==
  \/ ~attached /\ RepliesOnly(toClient)
  \/ "file" \notin held /\ RepliesOnly(toClient)
  \/ toClient # <<>> /\ Head(toClient).text # "<"

MissInv ==
  Careful =>
    /\ missed = {}
    /\ pc \in {"send", "wait"} /\ Monitor => monitors = 1
    /\ monitors = 0 \/ (pc = "send" /\ Monitor) => Quiet
    /\ pc = "wait" /\ Monitor => Sheltered

LEMMA MissInit == Init => MissInv
<1> SUFFICES ASSUME Init PROVE MissInv
  OBVIOUS
<1>1. /\ toServer = <<>> /\ toClient = <<>> /\ ~attached /\ missed = {} /\ pc = "closed"
  BY Zenon DEF Init
<1>2. Quiet
  BY <1>1 DEF Quiet, RepliesOnly
<1> QED
  BY <1>1, <1>2, Zenon DEF MissInv

LEMMA MissBegin == Begin => MissInv'
<1> SUFFICES ASSUME Begin PROVE MissInv'
  OBVIOUS
<1>1. /\ toServer' = <<>> /\ toClient' = <<>> /\ attached' = FALSE /\ missed' = {}
      /\ pc' = "step"
  BY Zenon DEF Begin
<1>2. Quiet'
  BY <1>1 DEF Quiet, RepliesOnly
<1> QED
  BY <1>1, <1>2, Zenon DEF MissInv

\* A step that leaves queues and server alone and starts no command.
LEMMA NothingMissed ==
  ASSUME MissInv,
         UNCHANGED <<toServer, toClient, attached, missed, monitors, transport>>,
         Careful /\ pc' \in {"send", "wait"} /\ Monitor' => pc = pc' /\ call = call',
         pc' = "wait" /\ "file" \in held' => "file" \in held
  PROVE  MissInv'
<1> SUFFICES ASSUME Careful
             PROVE  /\ missed' = {}
                    /\ pc' \in {"send", "wait"} /\ Monitor' => monitors' = 1
                    /\ monitors' = 0 \/ (pc' = "send" /\ Monitor') => Quiet'
                    /\ pc' = "wait" /\ Monitor' => Sheltered'
  BY Zenon DEF MissInv, Careful
<1>1. /\ missed = {}
      /\ pc \in {"send", "wait"} /\ Monitor => monitors = 1
      /\ monitors = 0 \/ (pc = "send" /\ Monitor) => Quiet
      /\ pc = "wait" /\ Monitor => Sheltered
  BY Zenon DEF MissInv
<1>2. Quiet => Quiet'
  BY Zenon DEF Quiet, RepliesOnly
<1>3. pc' = "wait" /\ Sheltered => Sheltered'
  BY Zenon DEF Sheltered, RepliesOnly
<1>4. call = call' => (Monitor <=> Monitor')
  BY Zenon DEF Monitor
<1> QED
  BY <1>1, <1>2, <1>3, <1>4, Zenon

LEMMA MissStill ==
  ASSUME ResourceInv, MissInv,
         \/ Close \/ Exit \/ Cleanup \/ Acquire \/ PipeBusy \/ OpenFails \/ SendFails
         \/ TimeOut \/ RequestFails \/ UNCHANGED vars
  PROVE  MissInv'
<1> USE DEF conn, queues, server, seen, bounds
<1>1. CASE Close \/ Exit \/ OpenFails
  <2>1. UNCHANGED <<toServer, toClient, attached, missed, monitors, transport>>
        /\ pc' = "closed"
    BY <1>1, Zenon DEF Close, Exit, OpenFails
  <2> QED
    BY <2>1, NothingMissed
<1>2. CASE Cleanup \/ PipeBusy \/ UNCHANGED vars
  <2>1. UNCHANGED <<toServer, toClient, attached, missed, monitors, transport, pc, call>>
    BY <1>2, Zenon DEF Cleanup, PipeBusy, vars
  <2>2. held' \subseteq held
    BY <1>2, Zenon DEF Cleanup, PipeBusy, vars
  <2> QED
    BY <2>1, <2>2, NothingMissed
<1>3. CASE Acquire
  <2>1. UNCHANGED <<toServer, toClient, attached, missed, monitors, transport>>
    BY <1>3, Zenon DEF Acquire
  <2>2. pc' # "wait" /\ (pc' = "send" => transport = "udp")
    BY <1>3 DEF Acquire
  <2>3. Careful => transport # "udp"
    BY DEF Careful
  <2> QED
    BY <2>1, <2>2, <2>3, NothingMissed
<1>4. CASE SendFails \/ TimeOut \/ RequestFails
  <2>1. UNCHANGED <<toServer, toClient, attached, missed, monitors, transport>>
    BY <1>4, Zenon DEF SendFails, TimeOut, RequestFails
  <2>2. Finish(FALSE, "FAIL", 0)
    BY <1>4, Zenon DEF SendFails, TimeOut, RequestFails
  <2>3. pc' \in {"send", "open"} /\ (pc' = "send" => call = "GET_COOKIE")
    BY <2>2 DEF Finish, Start
  <2>4. Careful => call # "GET_COOKIE"
    BY DEF Careful, ResourceInv
  <2> QED
    BY <2>1, <2>3, <2>4, NothingMissed
<1> QED
  BY <1>1, <1>2, <1>3, <1>4

LEMMA MissRequest ==
  ASSUME TypeOK, MissInv, NEW c \in {"PING", "ATTACH", "DETACH"}, Request(c)
  PROVE  MissInv'
<1> SUFFICES ASSUME Careful'
             PROVE  /\ missed' = {}
                    /\ Monitor' => monitors' = 1
                    /\ monitors' = 0 \/ Monitor' => Quiet'
  BY Zenon DEF MissInv, Request, Start
<1>1. /\ pc = "open" /\ call' = c /\ monitors' = monitors + IF c = "PING" THEN 0 ELSE 1
      /\ UNCHANGED <<toServer, toClient, attached, missed, transport>>
  BY Zenon DEF Request, Start, queues, server, bounds
<1>2. monitors \in Nat
  BY Zenon DEF TypeOK
<1>3. Careful
  BY <1>1, <1>2 DEF Careful
<1>4. missed = {} /\ (monitors = 0 => Quiet)
  BY <1>3, Zenon DEF MissInv
<1>5. /\ Monitor' => monitors = 0 /\ monitors' = 1
      /\ monitors' = 0 => monitors = 0
  BY <1>1, <1>2 DEF Monitor, Careful
<1>6. Quiet => Quiet'
  BY <1>1, Zenon DEF Quiet, RepliesOnly
<1> QED
  BY <1>1, <1>4, <1>5, <1>6, Zenon

LEMMA MissSend == TypeOK /\ MissInv /\ Send => MissInv'
<1> SUFFICES ASSUME TypeOK, MissInv, Send, Careful PROVE MissInv'
  BY Zenon DEF MissInv, Careful, Send, seen, bounds
<1>1. /\ pc = "send" /\ pc' = "wait" /\ toServer' = Append(toServer, call)
      /\ UNCHANGED <<call, toClient, attached, missed, monitors>>
  BY Zenon DEF Send, server, seen
<1>2. /\ missed = {} /\ (Monitor => monitors = 1) /\ (monitors = 0 \/ Monitor => Quiet)
  BY <1>1, Zenon DEF MissInv
<1>3. Quiet => Sheltered'
  BY <1>1, Zenon DEF Quiet, Sheltered, RepliesOnly
<1>4. monitors = 0 => ~Monitor
  BY <1>2
<1>5. Quiet /\ ~Monitor => Quiet'
  <2> SUFFICES ASSUME Quiet, ~Monitor PROVE Quiet'
    OBVIOUS
  <2>1. \A i \in DOMAIN Append(toServer, call) : Append(toServer, call)[i] # "ATTACH"
    <3>1. toServer \in Seq(Commands) /\ call \in Commands
      BY Zenon DEF TypeOK
    <3> QED
      BY <3>1, AppendProperties, LenProperties DEF Quiet, Monitor
  <2> QED
    BY <1>1, <2>1, Zenon DEF Quiet, RepliesOnly
<1>6. Monitor' <=> Monitor
  BY <1>1, Zenon DEF Monitor
<1> QED
  BY <1>1, <1>2, <1>3, <1>4, <1>5, <1>6 DEF MissInv

\* A message leaves the queue of the client: a reply, or an event for the
\* callback or for the program.
LEMMA MissReceive ==
  ASSUME ResourceInv, MissInv, ReceiveEvent \/ Receive \/ Recv
  PROVE  MissInv'
<1> SUFFICES ASSUME Careful PROVE MissInv'
  BY Zenon DEF MissInv, Careful, ReceiveEvent, Receive, Recv, bounds, seen
<1> USE DEF conn, server, seen, bounds
<1>1. /\ toClient # <<>> /\ toClient' = Tail(toClient)
      /\ UNCHANGED <<toServer, attached, monitors, transport>>
  BY Zenon DEF ReceiveEvent, Receive, Recv
<1>2. toClient \in Seq(Messages) /\ TypeOK
  BY Zenon DEF ResourceInv, TypeOK
<1>3. Socket /\ call \notin {"GET_COOKIE", "IFNAME"}
  BY DEF Careful, ResourceInv, Socket
<1>4. /\ missed = {} /\ (monitors = 0 => Quiet)
      /\ pc \in {"send", "wait"} /\ Monitor => monitors = 1
      /\ pc = "wait" /\ Monitor => Sheltered
  BY Zenon DEF MissInv
<1>5. Quiet => Quiet'
  <2>1. RepliesOnly(toClient) => RepliesOnly(Tail(toClient))
    BY <1>1, <1>2, HeadKind
  <2> QED
    BY <1>1, <2>1, Zenon DEF Quiet, RepliesOnly
<1>6. pc = "wait" /\ Monitor => Head(toClient).text # "<"
  <2>1. RepliesOnly(toClient) => Head(toClient).text # "<"
    BY <1>1, <1>2, HeadKind
  <2> QED
    BY <1>4, <2>1, Zenon DEF Sheltered
<1>7. CASE ReceiveEvent
  <2>1. pc = "wait" /\ pc' = "wait" /\ Head(toClient).text = "<" /\ call' = call
    BY <1>7, Zenon DEF ReceiveEvent
  <2>2. ~Monitor /\ ~Monitor'
    BY <1>6, <2>1, Zenon DEF Monitor
  <2>3. call = "PING"
    BY <1>2, <1>3, <2>2 DEF Monitor, TypeOK, Commands
  <2>4. missed' = missed
    BY <1>7, <2>3, Zenon DEF ReceiveEvent, Careful
  <2> QED
    BY <1>1, <1>4, <1>5, <2>1, <2>2, <2>4, Zenon DEF MissInv
<1>8. CASE Receive
  <2>1. pc = "wait" /\ Head(toClient).text # "<" /\ missed' = missed
    BY <1>3, <1>8, Zenon DEF Receive
  <2>2. \E t, l : Finish(TRUE, t, l)
    BY <1>8, Zenon DEF Receive
  <2>3. pc' = "open"
    BY <1>3, <2>2 DEF Finish
  <2> QED
    BY <1>1, <1>4, <1>5, <2>1, <2>3 DEF MissInv
<1>9. CASE Recv
  <2>1. pc' = "open" /\ missed' = missed
    BY <1>9, Zenon DEF Recv
  <2> QED
    BY <1>1, <1>4, <1>5, <2>1 DEF MissInv
<1> QED
  BY <1>7, <1>8, <1>9

LEMMA MissEmit == TypeOK /\ MissInv /\ Emit => MissInv'
<1> SUFFICES ASSUME TypeOK, MissInv, Emit, Careful PROVE MissInv'
  BY Zenon DEF MissInv, Careful, Emit, seen, bounds
<1>1. /\ attached /\ Reachable /\ toClient' = Append(toClient, Event(events + 1))
      /\ UNCHANGED <<pc, call, missed, monitors, attached, held>>
  BY Zenon DEF Emit, conn, seen
<1>2. ~Quiet /\ "file" \in held
  BY <1>1, Zenon DEF Quiet, Reachable, Careful
<1>3. /\ missed = {} /\ monitors # 0 /\ ~(pc = "send" /\ Monitor)
      /\ pc \in {"send", "wait"} /\ Monitor => monitors = 1
      /\ pc = "wait" /\ Monitor => Sheltered
  BY <1>2, Zenon DEF MissInv
<1>4. Sheltered => Sheltered'
  <2> SUFFICES ASSUME Sheltered PROVE Sheltered'
    OBVIOUS
  <2>1. toClient # <<>> /\ Head(toClient).text # "<"
    BY <1>1, <1>2, Zenon DEF Sheltered
  <2>2. toClient \in Seq(Messages) /\ Event(events + 1) \in Messages
    BY DEF TypeOK, Event, Messages
  <2>3. Append(toClient, Event(events + 1)) # <<>>
        /\ Head(Append(toClient, Event(events + 1))) = Head(toClient)
    BY <2>1, <2>2
  <2> QED
    BY <1>1, <2>1, <2>3, Zenon DEF Sheltered
<1>5. Monitor' <=> Monitor
  BY <1>1, Zenon DEF Monitor
<1> QED
  BY <1>1, <1>3, <1>4, <1>5, Zenon DEF MissInv

\* The reply to attach is put behind other replies, or is lost because they
\* fill the queue, or with every later message.
LEMMA MissServe == ResourceInv /\ MissInv /\ Serve => MissInv'
<1> SUFFICES ASSUME ResourceInv, MissInv, Serve, Careful PROVE MissInv'
  BY Zenon DEF MissInv, Careful, Serve, seen, bounds
<1>1. /\ toServer # <<>> /\ toServer' = Tail(toServer)
      /\ UNCHANGED <<pc, call, missed, monitors, held>>
  BY Zenon DEF Serve, conn, seen
<1>2. toServer \in Seq(Commands) /\ toClient \in Seq(Messages)
  BY Zenon DEF ResourceInv, TypeOK
<1>3. PICK t \in Answers(Head(toServer)) :
        /\ toClient' = IF Reachable THEN Append(toClient, Reply(t)) ELSE toClient
        /\ attached' = IF t = "OK" THEN Head(toServer) = "ATTACH" ELSE attached
  BY Zenon DEF Serve
<1>4. Reply(t) \in Messages /\ Reply(t).text # "<"
  <2>1. Head(toServer) \in Commands
    BY <1>1, <1>2
  <2> QED
    BY <2>1, AnswerKinds
<1>5. /\ missed = {} /\ (monitors = 0 \/ (pc = "send" /\ Monitor) => Quiet)
      /\ pc \in {"send", "wait"} /\ Monitor => monitors = 1
      /\ pc = "wait" /\ Monitor => Sheltered
  BY Zenon DEF MissInv
<1>6. RepliesOnly(toClient) => RepliesOnly(toClient)'
  <2>1. RepliesOnly(toClient) => RepliesOnly(Append(toClient, Reply(t)))
    BY <1>2, <1>4, LastKind
  <2> QED
    BY <1>3, <2>1, Zenon DEF RepliesOnly
<1>7. Quiet => Quiet'
  <2> SUFFICES ASSUME Quiet PROVE Quiet'
    OBVIOUS
  <2>1. \A i \in DOMAIN toServer : toServer[i] # "ATTACH"
    BY Zenon DEF Quiet
  <2>2. Head(toServer) # "ATTACH" /\ \A i \in DOMAIN Tail(toServer) : Tail(toServer)[i] # "ATTACH"
    BY <1>1, <1>2, <2>1, HeadTailProperties, LenProperties
  <2>3. ~attached'
    BY <1>3, <2>2, Zenon DEF Quiet
  <2> QED
    BY <1>1, <1>6, <2>2, <2>3, Zenon DEF Quiet
<1>8. Sheltered => Sheltered'
  <2>1. CASE "file" \notin held /\ RepliesOnly(toClient)
    BY <1>1, <1>6, <2>1, Zenon DEF Sheltered
  <2>2. CASE toClient # <<>> /\ Head(toClient).text # "<"
    <3>1. Append(toClient, Reply(t)) # <<>>
          /\ Head(Append(toClient, Reply(t))) = Head(toClient)
      BY <1>2, <1>4, <2>2
    <3> QED
      BY <1>3, <2>2, <3>1, Zenon DEF Sheltered
  <2>3. CASE toClient = <<>> /\ "file" \in held
    <3>1. Reachable
      BY <2>3, ClientAssumption DEF Reachable
    <3>2. Append(toClient, Reply(t)) # <<>> /\ Head(Append(toClient, Reply(t))) = Reply(t)
      BY <1>2, <1>4, <2>3
    <3> QED
      BY <1>3, <1>4, <3>1, <3>2, Zenon DEF Sheltered
  <2>4. RepliesOnly(toClient) /\ toClient # <<>> => Head(toClient).text # "<"
    BY <1>2, HeadKind
  <2> QED
    BY <2>1, <2>2, <2>3, <2>4, Zenon DEF Sheltered
<1>9. Monitor' <=> Monitor
  BY <1>1, Zenon DEF Monitor
<1> QED
  BY <1>1, <1>5, <1>7, <1>8, <1>9, Zenon DEF MissInv

LEMMA MissNext == ResourceInv /\ MissInv /\ [Next]_vars => MissInv'
<1> SUFFICES ASSUME ResourceInv, MissInv, [Next]_vars PROVE MissInv'
  OBVIOUS
<1>1. TypeOK
  BY Zenon DEF ResourceInv
<1>2. CASE Begin
  BY <1>2, MissBegin
<1>3. CASE \E c \in {"PING", "ATTACH", "DETACH"} : Request(c)
  BY <1>1, <1>3, MissRequest
<1>4. CASE Send
  BY <1>1, <1>4, MissSend
<1>5. CASE ReceiveEvent \/ Receive \/ Recv
  BY <1>5, MissReceive
<1>6. CASE Emit
  BY <1>1, <1>6, MissEmit
<1>7. CASE Serve
  BY <1>7, MissServe
<1>8. CASE Lose
  <2>1. transport' = "udp"
    BY <1>8, Zenon DEF Lose, bounds
  <2> QED
    BY <2>1 DEF MissInv, Careful
<1>9. CASE \/ Close \/ Exit \/ Cleanup \/ Acquire \/ PipeBusy \/ OpenFails \/ SendFails
           \/ TimeOut \/ RequestFails \/ UNCHANGED vars
  BY <1>9, MissStill
<1> QED
  BY <1>2, <1>3, <1>4, <1>5, <1>6, <1>7, <1>8, <1>9, Zenon DEF Next, Library, Done

\* A program with a callback that attaches or detaches at most once on a
\* connection over a UNIX domain socket loses no event: before the attach there
\* is none, and no event overtakes the reply to it.
THEOREM NoneIsMissed == Spec => []NoEventMissed
<1>1. MissInv => NoEventMissed
  BY Zenon DEF MissInv, Careful, NoEventMissed
<1> QED
  BY <1>1, MissInit, MissNext, ResourcesAreReleased, PTL DEF Spec
=============================================================================
