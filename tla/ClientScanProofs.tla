--------------------------- MODULE ClientScanProofs ---------------------------
(***************************************************************************)
(* Theorems about ClientScan for any handlers, any stations and any number *)
(* of RPCs and changes.                                                    *)
(***************************************************************************)
EXTENDS ClientScan, SequenceTheorems, FiniteSetTheorems, TLAPS

-----------------------------------------------------------------------------
(* Lists of stations                                                       *)

\* A new element goes in anywhere: the order of the others stays.
LEMMA Inserted ==
  ASSUME NEW S, NEW s \in Seq(S), IsInjective(s),
         NEW i \in 1..(Len(s) + 1), NEW x \in S \ ToSet(s)
  PROVE  LET t == InsertAt(s, i, x) IN
         /\ t \in Seq(S) /\ IsInjective(t) /\ ToSet(t) = ToSet(s) \union {x}
         /\ \A y, z : Before(t, y, z) => Before(s, y, z) \/ y = x \/ z = x
<1> DEFINE t == InsertAt(s, i, x)
           n == Len(s)
           a == SubSeq(s, 1, i - 1)
           b == SubSeq(s, i, n)
<1>0. n \in Nat /\ DOMAIN s = 1..n /\ \A j \in 1..n : s[j] \in S
  BY LenProperties, ElementOfSeq
<1>1. a \in Seq(S) /\ Len(a) = i - 1 /\ \A j \in 1..(i - 1) : a[j] = s[j]
  <2>1. \A j \in 1..(i - 1) : s[j] \in S
    BY <1>0
  <2> HIDE DEF n
  <2>2. /\ a \in Seq(S) /\ Len(a) = IF 1 <= i - 1 THEN (i - 1) - 1 + 1 ELSE 0
        /\ \A j \in 1..((i - 1) - 1 + 1) : a[j] = s[1 + j - 1]
    BY <2>1, SubSeqProperties, i - 1 \in Int DEF a
  <2>3. i \in Nat \ {0}
    BY <1>0 DEF n
  <2> QED
    BY <2>2, <2>3
<1>2. b \in Seq(S) /\ Len(b) = n - i + 1 /\ \A j \in 1..(n - i + 1) : b[j] = s[i + j - 1]
  <2>1. \A j \in i..n : s[j] \in S
    BY <1>0
  <2>2. /\ b \in Seq(S) /\ Len(b) = IF i <= n THEN n - i + 1 ELSE 0
        /\ \A j \in 1..(n - i + 1) : b[j] = s[i + j - 1]
    BY <2>1, <1>0, SubSeqProperties DEF b
  <2> QED
    BY <2>2, <1>0
<1>3. <<x>> \in Seq(S) /\ Len(<<x>>) = 1 /\ <<x>>[1] = x
  OBVIOUS
<1> DEFINE ax == a \o <<x>>
<1> HIDE DEF a, b, n
<1>4. /\ ax \in Seq(S) /\ Len(ax) = i
      /\ \A j \in 1..i : ax[j] = IF j < i THEN s[j] ELSE x
  <2>1. /\ ax \in Seq(S) /\ Len(ax) = Len(a) + 1
        /\ \A j \in 1..(Len(a) + 1) : ax[j] = IF j <= Len(a) THEN a[j] ELSE <<x>>[j - Len(a)]
    BY <1>1, <1>3, ConcatProperties
  <2>2. i \in Nat \ {0}
    BY <1>0 DEF n
  <2> HIDE DEF ax
  <2> QED
    BY <2>1, <2>2, <1>1, <1>3
<1>5. t = ax \o b
  BY DEF t, InsertAt, ax, a, b, n
<1> HIDE DEF ax, t
<1>6. /\ t \in Seq(S) /\ Len(t) = n + 1
      /\ \A j \in 1..(n + 1) : t[j] = IF j < i THEN s[j] ELSE IF j = i THEN x ELSE s[j - 1]
  <2>1. /\ t \in Seq(S) /\ Len(t) = Len(ax) + Len(b)
        /\ \A j \in 1..(Len(ax) + Len(b)) : t[j] = IF j <= Len(ax) THEN ax[j] ELSE b[j - Len(ax)]
    BY <1>2, <1>4, <1>5, ConcatProperties
  <2>2. i \in Nat /\ 1 <= i /\ i <= n + 1
    BY <1>0 DEF n
  <2>3. Len(ax) + Len(b) = n + 1
    BY <2>2, <1>0, <1>2, <1>4
  <2>4. ASSUME NEW j \in 1..(n + 1)
        PROVE  t[j] = IF j < i THEN s[j] ELSE IF j = i THEN x ELSE s[j - 1]
    <3>1. t[j] = IF j <= i THEN ax[j] ELSE b[j - i]
      BY <2>1, <2>3, <1>4
    <3>2. CASE j <= i
      BY <3>1, <3>2, <2>2, <1>4
    <3>3. CASE j > i
      <4>1. j - i \in 1..(n - i + 1) /\ i + (j - i) - 1 = j - 1
        BY <3>3, <2>2, <1>0
      <4> QED
        BY <4>1, <3>1, <3>3, <2>2, <1>2
    <3> QED
      BY <3>2, <3>3, <2>2
  <2> QED
    BY <2>1, <2>3, <2>4
<1>7. DOMAIN t = 1..(n + 1)
  BY <1>6, LenProperties
<1>8. i \in 1..(n + 1) /\ \A j \in 1..n : s[j] # x
  BY <1>0 DEF ToSet, n
<1> DEFINE p(m) == IF m < i THEN m ELSE m - 1
<1>9. IsInjective(t)
  <2> SUFFICES ASSUME NEW j \in 1..(n + 1), NEW k \in 1..(n + 1), t[j] = t[k]
               PROVE  j = k
    BY <1>7 DEF IsInjective
  <2>1. \A m \in 1..(n + 1) : m # i => p(m) \in 1..n /\ t[m] = s[p(m)] /\ t[m] # x
    BY <1>0, <1>6, <1>8
  <2>2. j = i <=> k = i
    BY <2>1, <1>6, <1>8
  <2>3. j # i /\ k # i => p(j) = p(k)
    BY <2>1, <2>2, <1>0 DEF IsInjective
  <2> QED
    BY <2>2, <2>3, <1>8
<1>10. ToSet(t) = ToSet(s) \union {x}
  <2>1. ASSUME NEW y \in ToSet(s) PROVE y \in ToSet(t)
    <3>1. PICK j \in 1..n : s[j] = y
      BY <1>0 DEF ToSet
    <3>2. j < i => t[j] = y
      BY <1>6, <1>8, <1>0, <3>1
    <3>3. ~(j < i) => t[j + 1] = y
      BY <1>6, <1>8, <1>0, <3>1
    <3> QED
      BY <3>2, <3>3, <1>7, <1>0, <1>8 DEF ToSet
  <2>2. x \in ToSet(t)
    BY <1>6, <1>7, <1>8 DEF ToSet
  <2>3. ASSUME NEW y \in ToSet(t) PROVE y \in ToSet(s) \union {x}
    <3>1. PICK j \in 1..(n + 1) : t[j] = y
      BY <1>7 DEF ToSet
    <3>2. j # i => p(j) \in 1..n /\ s[p(j)] = y
      BY <3>1, <1>6, <1>8, <1>0
    <3>3. j # i => y \in ToSet(s)
      BY <3>2, <1>0 DEF ToSet
    <3>4. j = i => y = x
      BY <3>1, <1>6, <1>8
    <3> QED
      BY <3>3, <3>4
  <2> QED
    BY <2>1, <2>2, <2>3
<1>11. ASSUME NEW y, NEW z, Before(t, y, z), y # x, z # x
       PROVE  Before(s, y, z)
  <2>1. PICK j, k \in 1..(n + 1) : j < k /\ t[j] = y /\ t[k] = z
    BY <1>7, <1>11 DEF Before
  <2>2. j # i /\ k # i
    BY <2>1, <1>6, <1>8, <1>11
  <2>3. p(j) \in 1..n /\ p(k) \in 1..n /\ p(j) < p(k)
    BY <2>1, <2>2, <1>8, <1>0
  <2>4. s[p(j)] = y /\ s[p(k)] = z
    BY <2>1, <2>2, <1>6
  <2> QED
    BY <2>3, <2>4, <1>0 DEF Before
<1> QED
  BY <1>6, <1>9, <1>10, <1>11 DEF t

\* One element goes: the order of the others stays.
LEMMA Removed ==
  ASSUME NEW S, NEW s \in Seq(S), IsInjective(s), NEW i \in DOMAIN s
  PROVE  LET t == RemoveAt(s, i) IN
         /\ t \in Seq(S) /\ IsInjective(t) /\ ToSet(t) = ToSet(s) \ {s[i]}
         /\ \A y, z : Before(t, y, z) => Before(s, y, z)
<1> DEFINE t == RemoveAt(s, i)
           n == Len(s)
           a == SubSeq(s, 1, i - 1)
           b == SubSeq(s, i + 1, n)
<1>0. n \in Nat /\ DOMAIN s = 1..n /\ \A j \in 1..n : s[j] \in S
  BY LenProperties, ElementOfSeq
<1> HIDE DEF n
<1>1. i \in Nat \ {0} /\ i <= n
  BY <1>0
<1>2. a \in Seq(S) /\ Len(a) = i - 1 /\ \A j \in 1..(i - 1) : a[j] = s[j]
  <2>1. \A j \in 1..(i - 1) : s[j] \in S
    BY <1>0, <1>1
  <2>2. /\ a \in Seq(S) /\ Len(a) = IF 1 <= i - 1 THEN (i - 1) - 1 + 1 ELSE 0
        /\ \A j \in 1..((i - 1) - 1 + 1) : a[j] = s[1 + j - 1]
    BY <2>1, <1>1, SubSeqProperties, i - 1 \in Int DEF a
  <2> QED
    BY <2>2, <1>1
<1>3. b \in Seq(S) /\ Len(b) = n - i /\ \A j \in 1..(n - i) : b[j] = s[i + j]
  <2>1. \A j \in (i + 1)..n : s[j] \in S
    BY <1>0, <1>1
  <2>2. /\ b \in Seq(S) /\ Len(b) = IF i + 1 <= n THEN n - (i + 1) + 1 ELSE 0
        /\ \A j \in 1..(n - (i + 1) + 1) : b[j] = s[(i + 1) + j - 1]
    BY <2>1, <1>0, <1>1, SubSeqProperties, i + 1 \in Int DEF b
  <2> QED
    BY <2>2, <1>0, <1>1
<1>4. t = a \o b
  BY DEF t, RemoveAt, a, b, n
<1> HIDE DEF a, b, t
<1>5. /\ t \in Seq(S) /\ Len(t) = n - 1
      /\ \A j \in 1..(n - 1) : t[j] = IF j < i THEN s[j] ELSE s[j + 1]
  <2>1. /\ t \in Seq(S) /\ Len(t) = Len(a) + Len(b)
        /\ \A j \in 1..(Len(a) + Len(b)) : t[j] = IF j <= Len(a) THEN a[j] ELSE b[j - Len(a)]
    BY <1>2, <1>3, <1>4, ConcatProperties
  <2>2. Len(a) + Len(b) = n - 1
    BY <1>0, <1>1, <1>2, <1>3
  <2>3. ASSUME NEW j \in 1..(n - 1) PROVE t[j] = IF j < i THEN s[j] ELSE s[j + 1]
    <3>1. t[j] = IF j <= i - 1 THEN a[j] ELSE b[j - (i - 1)]
      BY <2>1, <2>2, <1>2
    <3>2. CASE j < i
      BY <3>1, <3>2, <1>1, <1>2
    <3>3. CASE j >= i
      <4>1. j - (i - 1) \in 1..(n - i) /\ i + (j - (i - 1)) = j + 1
        BY <3>3, <1>0, <1>1
      <4> QED
        BY <4>1, <3>1, <3>3, <1>1, <1>3
    <3> QED
      BY <3>2, <3>3, <1>1
  <2> QED
    BY <2>1, <2>2, <2>3
<1>6. DOMAIN t = 1..(n - 1)
  BY <1>5, LenProperties
<1> DEFINE p(m) == IF m < i THEN m ELSE m + 1
<1>7. IsInjective(t)
  <2> SUFFICES ASSUME NEW j \in 1..(n - 1), NEW k \in 1..(n - 1), t[j] = t[k]
               PROVE  j = k
    BY <1>6 DEF IsInjective
  <2>1. \A m \in 1..(n - 1) : p(m) \in 1..n /\ t[m] = s[p(m)]
    BY <1>0, <1>1, <1>5
  <2>2. p(j) = p(k)
    BY <2>1, <1>0 DEF IsInjective
  <2> QED
    BY <2>2, <1>1
<1>8. ToSet(t) = ToSet(s) \ {s[i]}
  <2>1. ASSUME NEW y \in ToSet(s), y # s[i] PROVE y \in ToSet(t)
    <3>1. PICK j \in 1..n : s[j] = y
      BY <1>0 DEF ToSet
    <3>2. j # i
      BY <2>1, <3>1
    <3>3. j < i => t[j] = y
      BY <1>5, <1>1, <1>0, <3>1
    <3>4. ~(j < i) => t[j - 1] = y
      BY <1>5, <1>1, <1>0, <3>1, <3>2
    <3> QED
      BY <3>2, <3>3, <3>4, <1>6, <1>0, <1>1 DEF ToSet
  <2>2. ASSUME NEW y \in ToSet(t) PROVE y \in ToSet(s) \ {s[i]}
    <3>1. PICK j \in 1..(n - 1) : t[j] = y
      BY <1>6 DEF ToSet
    <3>2. PICK k \in 1..n : s[k] = y /\ k # i
      BY <3>1, <1>5, <1>0, <1>1
    <3> QED
      BY <3>2, <1>0, <1>1 DEF ToSet, IsInjective
  <2> QED
    BY <2>1, <2>2
<1>9. ASSUME NEW y, NEW z, Before(t, y, z) PROVE Before(s, y, z)
  <2>1. PICK j, k \in 1..(n - 1) : j < k /\ t[j] = y /\ t[k] = z
    BY <1>6, <1>9 DEF Before
  <2>2. p(j) \in 1..n /\ p(k) \in 1..n /\ p(j) < p(k)
    BY <2>1, <1>0, <1>1
  <2>3. s[p(j)] = y /\ s[p(k)] = z
    BY <2>1, <1>5
  <2> QED
    BY <2>2, <2>3, <1>0 DEF Before
<1> QED
  BY <1>5, <1>7, <1>8, <1>9 DEF t

\* Every element but one found further on is before it, or after.
LEMMA Order ==
  ASSUME NEW S, NEW s \in Seq(S), IsInjective(s)
  PROVE  /\ s # <<>> => Head(s) \in ToSet(s) /\ \A y : ~Before(s, y, Head(s))
         /\ \A y, z : ~(Before(s, y, z) /\ Before(s, z, y)) /\ ~Before(s, y, y)
         /\ \A x, y, z : Before(s, x, y) /\ Before(s, y, z) => Before(s, x, z)
         /\ \A i \in DOMAIN s :
              i = Len(s) => \A y \in ToSet(s) : y = s[i] \/ Before(s, y, s[i])
         /\ \A i \in DOMAIN s :
              i # Len(s) =>
                /\ s[i + 1] \in ToSet(s) /\ Before(s, s[i], s[i + 1])
                /\ \A y : Before(s, y, s[i + 1]) => y = s[i] \/ Before(s, y, s[i])
<1> DEFINE n == Len(s)
<1>1. n \in Nat /\ DOMAIN s = 1..n
  BY LenProperties
<1>2. \A j, k \in 1..n : s[j] = s[k] => j = k
  BY <1>1 DEF IsInjective
<1>3. s # <<>> => n # 0 /\ Head(s) = s[1]
  BY EmptySeq
<1> HIDE DEF n
<1>4. s # <<>> => Head(s) \in ToSet(s) /\ \A y : ~Before(s, y, Head(s))
  BY <1>1, <1>2, <1>3 DEF ToSet, Before
<1>5. \A y, z : ~(Before(s, y, z) /\ Before(s, z, y)) /\ ~Before(s, y, y)
  BY <1>1, <1>2 DEF Before
<1>6. \A x, y, z : Before(s, x, y) /\ Before(s, y, z) => Before(s, x, z)
  BY <1>1, <1>2 DEF Before
<1>7. ASSUME NEW i \in 1..n, i = n, NEW y \in ToSet(s)
      PROVE  y = s[i] \/ Before(s, y, s[i])
  <2>1. PICK j \in 1..n : s[j] = y
    BY <1>1 DEF ToSet
  <2>2. j = i \/ j < i
    BY <1>7, <1>1
  <2> QED
    BY <2>1, <2>2, <1>1 DEF Before
<1>8. ASSUME NEW i \in 1..n, i # n
      PROVE  /\ s[i + 1] \in ToSet(s) /\ Before(s, s[i], s[i + 1])
             /\ \A y : Before(s, y, s[i + 1]) => y = s[i] \/ Before(s, y, s[i])
  <2>1. i + 1 \in 1..n /\ i < i + 1
    BY <1>1, <1>8
  <2>2. s[i + 1] \in ToSet(s) /\ Before(s, s[i], s[i + 1])
    BY <2>1, <1>1 DEF ToSet, Before
  <2>3. ASSUME NEW y, Before(s, y, s[i + 1]) PROVE y = s[i] \/ Before(s, y, s[i])
    <3>1. PICK j, k \in 1..n : j < k /\ s[j] = y /\ s[k] = s[i + 1]
      BY <2>3, <1>1 DEF Before
    <3>2. k = i + 1
      BY <3>1, <2>1, <1>2
    <3>3. j = i \/ j < i
      BY <3>1, <3>2
    <3> QED
      BY <3>1, <3>3, <1>1 DEF Before
  <2> QED
    BY <2>2, <2>3
<1> QED
  BY <1>1, <1>4, <1>5, <1>6, <1>7, <1>8 DEF n

LEMMA Appended ==
  ASSUME NEW S, NEW s \in Seq(S), NEW a \in S
  PROVE  /\ Append(s, a) \in Seq(S) /\ ToSet(Append(s, a)) = ToSet(s) \union {a}
         /\ IsInjective(s) /\ a \notin ToSet(s) => IsInjective(Append(s, a))
<1> DEFINE n == Len(s)
           t == Append(s, a)
<1>1. n \in Nat /\ DOMAIN s = 1..n
  BY LenProperties
<1>2. t \in Seq(S) /\ Len(t) = n + 1 /\ t[n + 1] = a /\ \A j \in 1..n : t[j] = s[j]
  OBVIOUS
<1> HIDE DEF n, t
<1>3. DOMAIN t = 1..(n + 1)
  BY <1>2, LenProperties
<1>4. \A j \in 1..(n + 1) : j = n + 1 \/ j \in 1..n
  BY <1>1
<1>5. n + 1 \in 1..(n + 1) /\ \A j \in 1..n : j \in 1..(n + 1)
  BY <1>1
<1>6. ToSet(t) = ToSet(s) \union {a}
  BY <1>1, <1>2, <1>3, <1>4, <1>5 DEF ToSet
<1>7. ASSUME IsInjective(s), a \notin ToSet(s) PROVE IsInjective(t)
  <2>1. \A j \in 1..n : s[j] # a
    BY <1>1, <1>7 DEF ToSet
  <2>2. \A j, k \in 1..n : s[j] = s[k] => j = k
    BY <1>1, <1>7 DEF IsInjective
  <2> QED
    BY <2>1, <2>2, <1>2, <1>3, <1>4 DEF IsInjective
<1> QED
  BY <1>2, <1>6, <1>7 DEF t

\* What a queue keeps, and what is left of it, are of its type.
LEMMA Queued ==
  ASSUME NEW S, NEW s \in Seq(S), NEW a \in S
  PROVE  /\ Append(s, a) \in Seq(S)
         /\ s # <<>> => Head(s) \in S /\ Tail(s) \in Seq(S)
BY HeadTailProperties, AppendProperties

-----------------------------------------------------------------------------
(* Types                                                                   *)

LEMMA Bounds == MaxCalls \in Nat /\ MaxChurn \in Nat /\ None \notin Caller
BY ScanAssumption

\* A station's address is no reply that ends a walk.
LEMMA Addresses == \A x \in Sta : ~Done(x) /\ x # "PONG"
BY ScanAssumption DEF Done

LEMMA Commands ==
  \A k \in Command :
    /\ k = Ping <=> k.op = "PING"
    /\ k.op = "STA-FIRST" => k = First
    /\ k.op \in {"PING", "STA-FIRST", "STA-NEXT"}
    /\ k.op = "STA-NEXT" => k.addr \in Address
BY DEF Command, Ping, First, NextOf

LEMMA NewCommands ==
  /\ {Ping, First} \subseteq Command /\ Ping.op = "PING" /\ First.op = "STA-FIRST"
  /\ \A a \in Address :
       NextOf(a) \in Command /\ NextOf(a).op = "STA-NEXT" /\ NextOf(a).addr = a
BY DEF Command, Ping, First, NextOf

\* Where hostapd finds the station of a STA-NEXT.
LEMMA Position ==
  ASSUME NEW a \in ToSet(table)
  PROVE  LET i == CHOOSE j \in DOMAIN table : table[j] = a IN
         i \in DOMAIN table /\ table[i] = a
BY DEF ToSet

\* What hostapd answers.
LEMMA Answered ==
  ASSUME table \in Seq(Sta), NEW k \in Command
  PROVE  /\ k.op = "PING" => Answers(k) = "PONG"
         /\ k.op = "STA-FIRST" =>
              Answers(k) = IF table = <<>> THEN "FAIL" ELSE Head(table)
         /\ k.op = "STA-NEXT" /\ k.addr \notin ToSet(table) => Answers(k) = "FAIL"
         /\ k.op = "STA-NEXT" /\ k.addr \in ToSet(table) =>
              \E i \in DOMAIN table :
                /\ table[i] = k.addr
                /\ Answers(k) = IF i = Len(table) THEN "" ELSE table[i + 1]
<1> DEFINE i == CHOOSE j \in DOMAIN table : table[j] = k.addr
<1>1. CASE k.op = "STA-NEXT" /\ k.addr \in ToSet(table)
  <2>1. i \in DOMAIN table /\ table[i] = k.addr
    BY <1>1, Position
  <2>2. Answers(k) = IF i = Len(table) THEN "" ELSE table[i + 1]
    BY <1>1 DEF Answers
  <2> HIDE DEF i
  <2> QED
    BY <1>1, <2>1, <2>2
<1>2. CASE ~(k.op = "STA-NEXT" /\ k.addr \in ToSet(table))
  BY <1>2 DEF Answers
<1> QED
  BY <1>1, <1>2

LEMMA AnswerType ==
  ASSUME table \in Seq(Sta), NEW k \in Command
  PROVE  Answers(k) \in Reply
<1>1. k.op \in {"PING", "STA-FIRST", "STA-NEXT"}
  BY Commands
<1>2. \A x \in Sta : x \in Reply
  BY DEF Reply, Address
<1>3. {"PONG", "FAIL", ""} \subseteq Reply
  BY DEF Reply, Address
<1>4. table # <<>> => Head(table) \in Sta
  BY HeadTailProperties
<1>5. \A i \in DOMAIN table : i # Len(table) => table[i + 1] \in Sta
  <2> DEFINE n == Len(table)
  <2>1. n \in Nat /\ DOMAIN table = 1..n
    BY LenProperties
  <2>2. \A j \in 1..n : table[j] \in Sta
    BY <2>1, ElementOfSeq
  <2> HIDE DEF n
  <2>3. \A i \in 1..n : i # n => i + 1 \in 1..n
    BY <2>1
  <2>4. \A i \in DOMAIN table : i # n => table[i + 1] \in Sta
    BY <2>1, <2>2, <2>3
  <2> QED
    BY <2>4 DEF n
<1> QED
  BY <1>1, <1>2, <1>3, <1>4, <1>5, Answered

LEMMA InitTypeOK == Init => TypeOK
<1> SUFFICES ASSUME Init PROVE TypeOK
  OBVIOUS
<1>1. table \in Seq(Sta) /\ IsInjective(table)
  <2> DEFINE n == Cardinality(Sta)
  <2>1. n \in Nat
    BY ScanAssumption, FS_CardinalityType
  <2>2. table \in [1..n -> Sta] /\ \A i, j \in 1..n : i # j => table[i] # table[j]
    BY DEF Init, SetToSeqs
  <2> HIDE DEF n
  <2>3. table \in Seq(Sta)
    BY <2>1, <2>2
  <2>4. IsInjective(table)
    BY <2>2 DEF IsInjective
  <2> QED
    BY <2>3, <2>4
<1>2. clis \in [Caller -> Seq(Address)] /\ pending \in Seq(Command) /\ replies \in Seq(Reply)
  BY DEF Init
<1>3. cmd \in [Caller -> Command]
  BY NewCommands DEF Init
<1>4. {seen, joined, gone} \subseteq [Caller -> SUBSET Sta]
  BY DEF Init
<1>5. /\ churn \in 0..MaxChurn /\ calls \in 0..MaxCalls
      /\ dead \in BOOLEAN /\ unanswered \in Nat
      /\ smu \in Caller \union {None}
  <2>1. churn = 0 /\ calls = 0 /\ unanswered = 0 /\ smu = None
    BY DEF Init
  <2>2. dead \in BOOLEAN
    BY Zenon DEF Init
  <2> QED
    BY <2>1, <2>2, Bounds
<1>6. /\ pc \in [Caller -> {"idle", "send", "wait"}]
      /\ outcome \in [Caller -> {"none", "ok", "bad", "error"}]
      /\ suspect \in [Caller -> BOOLEAN]
  BY DEF Init
<1> QED
  BY <1>1, <1>2, <1>3, <1>4, <1>5, <1>6 DEF TypeOK

\* The queues of a connection after a send, an answer and a receipt.
LEMMA QueueTypes ==
  ASSUME TypeOK
  PROVE  /\ \A c \in Caller :
              Append(pending, cmd[c]) \in Seq(Command) /\ Append(<<>>, cmd[c]) \in Seq(Command)
         /\ pending # <<>> =>
              /\ Tail(pending) \in Seq(Command) /\ Head(pending) \in Command
              /\ Append(replies, Answers(Head(pending))) \in Seq(Reply)
         /\ replies # <<>> => Tail(replies) \in Seq(Reply) /\ Head(replies) \in Reply
<1>1. pending \in Seq(Command) /\ replies \in Seq(Reply) /\ table \in Seq(Sta)
  BY DEF TypeOK
<1>2. \A c \in Caller : cmd[c] \in Command
  BY DEF TypeOK
<1>3. pending # <<>> => Head(pending) \in Command /\ Tail(pending) \in Seq(Command)
  BY <1>1, HeadTailProperties
<1>4. pending # <<>> => Answers(Head(pending)) \in Reply
  BY <1>1, <1>3, AnswerType
<1>5. replies # <<>> => Head(replies) \in Reply /\ Tail(replies) \in Seq(Reply)
  BY <1>1, HeadTailProperties
<1>6. \A r \in Reply : Append(replies, r) \in Seq(Reply)
  BY <1>1, AppendProperties
<1>7. \A k \in Command : Append(pending, k) \in Seq(Command) /\ Append(<<>>, k) \in Seq(Command)
  BY <1>1, AppendProperties
<1> QED
  BY <1>2, <1>3, <1>4, <1>5, <1>6, <1>7

\* What a change of hostapd's list does: x comes, if any, R go, if any.
Changes(x, R) ==
  /\ ToSet(table)' = (ToSet(table) \union x) \ R
  /\ x \intersect ToSet(table) = {}
  /\ \A y, z : Before(table, y, z)' => Before(table, y, z) \/ y \in x \/ z \in x
  /\ x \subseteq Sta /\ R \subseteq ToSet(table)
  /\ seen' = Add(seen, x) /\ joined' = Add(joined, x) /\ gone' = Add(gone, R)

LEMMA ChurnChanges ==
  ASSUME TypeOK,
         (\E x \in Sta : Join(x) \/ Leave(x)) \/ Restart
  PROVE  /\ table' \in Seq(Sta) /\ IsInjective(table')
         /\ \E x, R \in SUBSET Sta : Changes(x, R)
<1>0. table \in Seq(Sta) /\ IsInjective(table) /\ ToSet(table) \subseteq Sta
  <2>1. table \in Seq(Sta) /\ IsInjective(table)
    BY DEF TypeOK
  <2>2. \A i \in DOMAIN table : table[i] \in Sta
    BY <2>1, LenProperties, ElementOfSeq
  <2> QED
    BY <2>1, <2>2 DEF ToSet
<1>1. Add(seen, {}) = seen /\ Add(joined, {}) = joined /\ Add(gone, {}) = gone
  BY DEF Add, TypeOK
<1>2. ASSUME NEW x \in Sta, Join(x)
      PROVE  table' \in Seq(Sta) /\ IsInjective(table') /\ Changes({x}, {})
  <2>1. PICK i \in 1..(Len(table) + 1) : table' = InsertAt(table, i, x)
    BY <1>2 DEF Join
  <2>2. x \in Sta \ ToSet(table)
    BY <1>2 DEF Join
  <2>3. /\ table' \in Seq(Sta) /\ IsInjective(table') /\ ToSet(table') = ToSet(table) \union {x}
        /\ \A y, z : Before(table', y, z) => Before(table, y, z) \/ y = x \/ z = x
    BY <1>0, <2>1, <2>2, Inserted
  <2>4. seen' = Add(seen, {x}) /\ joined' = Add(joined, {x}) /\ gone' = Add(gone, {})
    BY <1>1, <1>2 DEF Join, history
  <2> QED
    BY <2>2, <2>3, <2>4 DEF Changes
<1>3. ASSUME NEW x \in Sta, Leave(x)
      PROVE  table' \in Seq(Sta) /\ IsInjective(table') /\ Changes({}, {x})
  <2>1. PICK i \in DOMAIN table : table[i] = x /\ table' = RemoveAt(table, i)
    BY <1>3 DEF Leave
  <2>2. /\ table' \in Seq(Sta) /\ IsInjective(table') /\ ToSet(table') = ToSet(table) \ {x}
        /\ \A y, z : Before(table', y, z) => Before(table, y, z)
    BY <1>0, <2>1, Removed
  <2>3. x \in ToSet(table)
    BY <2>1 DEF ToSet
  <2>4. seen' = Add(seen, {}) /\ joined' = Add(joined, {}) /\ gone' = Add(gone, {x})
    BY <1>1, <1>3 DEF Leave, history
  <2> QED
    BY <2>2, <2>3, <2>4 DEF Changes
<1>4. ASSUME Restart
      PROVE  table' \in Seq(Sta) /\ IsInjective(table') /\ Changes({}, ToSet(table))
  <2>1. table' = <<>>
    BY <1>4 DEF Restart
  <2>2. table' \in Seq(Sta) /\ DOMAIN table' = {}
    BY <2>1
  <2>3. ToSet(table') = {} /\ IsInjective(table') /\ \A y, z : ~Before(table', y, z)
    BY <2>2 DEF ToSet, IsInjective, Before
  <2>4. seen' = Add(seen, {}) /\ joined' = Add(joined, {}) /\ gone' = Add(gone, ToSet(table))
    BY <1>1, <1>4 DEF Restart
  <2> QED
    BY <2>2, <2>3, <2>4 DEF Changes
<1> QED
  BY <1>0, <1>2, <1>3, <1>4

LEMMA NextTypeOK == ASSUME TypeOK, [Next]_vars PROVE TypeOK'
<1> USE DEF conn, rpc, history
<1>1. ASSUME NEW c \in Caller, NEW k \in {Ping, First}, Begin(c, k) PROVE TypeOK'
  <2>1. ToSet(table) \subseteq Sta
    <3>1. \A i \in DOMAIN table : table[i] \in Sta
      BY LenProperties, ElementOfSeq DEF TypeOK
    <3> QED
      BY <3>1 DEF ToSet
  <2>2. calls' \in 0..MaxCalls
    BY <1>1, Bounds DEF Begin, TypeOK
  <2>3. /\ pc' \in [Caller -> {"idle", "send", "wait"}]
        /\ outcome' \in [Caller -> {"none", "ok", "bad", "error"}]
        /\ suspect' \in [Caller -> BOOLEAN]
    BY <1>1 DEF Begin, TypeOK
  <2>4. cmd' \in [Caller -> Command] /\ clis' \in [Caller -> Seq(Address)]
    <3>1. k \in Command
      BY NewCommands
    <3> QED
      BY <1>1, <3>1 DEF Begin, TypeOK
  <2>5. {seen', joined', gone'} \subseteq [Caller -> SUBSET Sta]
    BY <1>1, <2>1 DEF Begin, TypeOK
  <2> QED
    BY <1>1, <2>2, <2>3, <2>4, <2>5 DEF Begin, TypeOK
<1>2. ASSUME NEW c \in Caller, Send(c) PROVE TypeOK'
  <2>1. pending' \in Seq(Command) /\ replies' \in Seq(Reply)
    BY <1>2, QueueTypes DEF Send, TypeOK
  <2>2. unanswered' \in Nat /\ smu' \in Caller \union {None} /\ dead' \in BOOLEAN
    BY <1>2 DEF Send, TypeOK
  <2>3. pc' \in [Caller -> {"idle", "send", "wait"}]
    BY <1>2 DEF Send, TypeOK
  <2> QED
    BY <1>2, <2>1, <2>2, <2>3 DEF Send, TypeOK
<1>3. ASSUME NEW c \in Caller, Receive(c) PROVE TypeOK'
  <2>1. replies' \in Seq(Reply) /\ Head(replies) \in Reply
    BY <1>3, QueueTypes DEF Receive
  <2>2. smu' \in Caller \union {None} /\ suspect' \in [Caller -> BOOLEAN]
    BY <1>3 DEF Receive, TypeOK
  <2>3. ASSUME NEW o \in {"ok", "bad"}, Ends(c, o)
        PROVE  /\ pc' \in [Caller -> {"idle", "send", "wait"}]
               /\ outcome' \in [Caller -> {"none", "ok", "bad", "error"}]
               /\ cmd' \in [Caller -> Command] /\ clis' \in [Caller -> Seq(Address)]
    BY <2>3 DEF Ends, TypeOK
  <2>4. ASSUME NEW r \in Reply, ~Done(r), Found(c, r)
        PROVE  /\ pc' \in [Caller -> {"idle", "send", "wait"}]
               /\ outcome' \in [Caller -> {"none", "ok", "bad", "error"}]
               /\ cmd' \in [Caller -> Command] /\ clis' \in [Caller -> Seq(Address)]
    <3>1. r \in Address
      BY <2>4 DEF Done, Reply
    <3>2. NextOf(r) \in Command /\ Append(clis[c], r) \in Seq(Address)
      BY <3>1, NewCommands, AppendProperties DEF TypeOK
    <3> QED
      BY <2>4, <3>2 DEF Found, TypeOK
  <2>5. /\ pc' \in [Caller -> {"idle", "send", "wait"}]
        /\ outcome' \in [Caller -> {"none", "ok", "bad", "error"}]
        /\ cmd' \in [Caller -> Command] /\ clis' \in [Caller -> Seq(Address)]
    BY <1>3, <2>1, <2>3, <2>4 DEF Receive
  <2> QED
    BY <1>3, <2>1, <2>2, <2>5 DEF Receive, TypeOK
<1>4. ASSUME NEW c \in Caller, TimeOut(c) \/ RequestFails(c) \/ Rescue(c) PROVE TypeOK'
  <2>1. CASE TimeOut(c)
    BY <2>1 DEF TimeOut, Ends, TypeOK
  <2>2. CASE RequestFails(c)
    BY <2>2 DEF RequestFails, Ends, TypeOK
  <2>3. CASE Rescue(c)
    <3>1. cmd[c] \in Command
      BY DEF TypeOK
    <3>2. pending' \in Seq(Command) /\ replies' \in Seq(Reply)
      BY <2>3, <3>1 DEF Rescue
    <3> QED
      BY <2>3, <3>2 DEF Rescue, TypeOK
  <2> QED
    BY <1>4, <2>1, <2>2, <2>3
<1>5. ASSUME Answer PROVE TypeOK'
  <2>1. pending' \in Seq(Command) /\ replies' \in Seq(Reply)
    BY <1>5, QueueTypes DEF Answer
  <2> QED
    BY <1>5, <2>1 DEF Answer, TypeOK
<1>6. ASSUME (\E x \in Sta : Join(x) \/ Leave(x)) \/ Restart PROVE TypeOK'
  <2>1. table' \in Seq(Sta) /\ IsInjective(table')
    BY <1>6, ChurnChanges
  <2>2. PICK y, R \in SUBSET Sta : Changes(y, R)
    BY <1>6, ChurnChanges
  <2>3. {seen', joined', gone'} \subseteq [Caller -> SUBSET Sta]
    BY <2>2 DEF Changes, Add, TypeOK
  <2>4. churn' \in 0..MaxChurn
    <3>1. Churns
      BY <1>6 DEF Join, Leave, Restart
    <3> QED
      BY <3>1, Bounds DEF Churns, TypeOK
  <2>5. dead' \in BOOLEAN /\ pending' \in Seq(Command)
    <3>1. CASE Restart
      <4>1. dead' \in BOOLEAN
        BY <3>1, Zenon DEF Restart
      <4>2. pending' \in Seq(Command)
        BY <3>1 DEF Restart
      <4> QED
        BY <4>1, <4>2
    <3>2. CASE \E x \in Sta : Join(x) \/ Leave(x)
      <4>1. UNCHANGED <<dead, pending>>
        BY <3>2 DEF Join, Leave
      <4> QED
        BY <4>1 DEF TypeOK
    <3> QED
      BY <1>6, <3>1, <3>2
  <2>6. UNCHANGED <<calls, replies, unanswered, smu, pc, cmd, clis, outcome, suspect>>
    BY <1>6 DEF Join, Leave, Restart
  <2> QED
    BY <2>1, <2>3, <2>4, <2>5, <2>6 DEF TypeOK
<1>7. ASSUME UNCHANGED vars PROVE TypeOK'
  BY <1>7 DEF vars, TypeOK
<1> QED
  BY <1>1, <1>2, <1>3, <1>4, <1>5, <1>6, <1>7 DEF Next, Finished

-----------------------------------------------------------------------------
(* ScanInv by its parts                                                    *)

Lock == \A c \in Caller : pc[c] = "wait" <=> smu = c

\* What the four properties say of handler c.
Result(c) ==
  /\ ~suspect[c] => Clients(c) \subseteq seen[c]
  /\ outcome[c] = "bad" => suspect[c]
  /\ Listed(c) /\ ~suspect[c] /\ NoneLeft(c) => Constant(c) \subseteq Clients(c)
  /\ ~suspect[c] /\ NoneReturned(c) => IsInjective(clis[c])

Handler(c) == (pc[c] # "idle" => Walk(c)) /\ Result(c)

LEMMA Parts ==
  /\ ScanInv <=> TypeOK /\ Lock /\ InFlight /\ \A c \in Caller : Handler(c)
  /\ ScanInv' <=> TypeOK' /\ Lock' /\ InFlight' /\ \A c \in Caller : Handler(c)'
<1> USE DEF ScanInv, Lock, Handler, Result, Busy, NoPhantom, PingSound, Complete,
            NoRepeat, Clients, NoneLeft, NoneReturned, Constant
<1>1. ScanInv <=> TypeOK /\ Lock /\ InFlight /\ \A c \in Caller : Handler(c)
  OBVIOUS
<1>2. ScanInv' <=> TypeOK' /\ Lock' /\ InFlight' /\ \A c \in Caller : Handler(c)'
  OBVIOUS
<1> QED
  BY <1>1, <1>2

\* A step that leaves the list and a handler alone.
LEMMA Kept ==
  ASSUME NEW c \in Caller,
         UNCHANGED <<table, cmd[c], clis[c], outcome[c], seen[c], joined[c], gone[c],
                     suspect[c]>>
  PROVE  /\ Walk(c) => Walk(c)'
         /\ Result(c) => Result(c)'
         /\ \A r : Sound(c, r) => Sound(c, r)'
<1> USE DEF Clients, NoneLeft, NoneReturned, Constant
<1>1. Walk(c) => Walk(c)'
  BY DEF Walk
<1>2. Result(c) => Result(c)'
  BY DEF Result, Listed
<1>3. ASSUME NEW r, Sound(c, r) PROVE Sound(c, r)'
  BY <1>3 DEF Sound
<1> QED
  BY <1>1, <1>2, <1>3

LEMMA InitScanInv == Init => ScanInv
<1> SUFFICES ASSUME Init PROVE ScanInv
  OBVIOUS
<1>1. TypeOK
  BY InitTypeOK
<1>2. Lock
  BY Bounds DEF Init, Lock
<1>3. InFlight
  BY Bounds DEF Init, InFlight
<1>4. ASSUME NEW c \in Caller PROVE Handler(c)
  <2>1. pc[c] = "idle" /\ outcome[c] = "none" /\ clis[c] = <<>> /\ cmd[c] = Ping
    BY DEF Init
  <2>2. Clients(c) = {} /\ IsInjective(clis[c])
    BY <2>1 DEF Clients, ToSet, IsInjective
  <2> QED
    BY <2>1, <2>2 DEF Handler, Result, Listed
<1> QED
  BY <1>1, <1>2, <1>3, <1>4, Parts

LEMMA BeginInv ==
  ASSUME ScanInv, TypeOK', NEW c \in Caller, NEW k \in {Ping, First}, Begin(c, k)
  PROVE  ScanInv'
<1>0. TypeOK /\ Lock /\ InFlight /\ \A d \in Caller : Handler(d)
  BY Parts
<1>1. ASSUME NEW d \in Caller, d # c
      PROVE  UNCHANGED <<table, pc[d], cmd[d], clis[d], outcome[d], seen[d], joined[d],
                         gone[d], suspect[d]>>
  BY <1>0, <1>1 DEF Begin, TypeOK
<1>2. /\ UNCHANGED <<dead, pending, replies, unanswered, smu>>
      /\ pc[c] = "idle" /\ pc'[c] = "send" /\ smu # c
  BY <1>0 DEF Begin, conn, TypeOK, Lock
<1>3. Lock'
  BY <1>0, <1>1, <1>2 DEF Lock
<1>4. InFlight'
  BY <1>0, <1>1, <1>2, Kept DEF InFlight
<1>5. ASSUME NEW d \in Caller, d # c PROVE Handler(d)'
  BY <1>0, <1>1, <1>5, Kept DEF Handler
<1>6. Handler(c)'
  <2>1. /\ cmd'[c] = k /\ clis'[c] = <<>> /\ outcome'[c] = "none"
        /\ seen'[c] = ToSet(table) /\ joined'[c] = {} /\ gone'[c] = {} /\ table' = table
    BY <1>0 DEF Begin, TypeOK
  <2>2. Clients(c)' = {} /\ IsInjective(clis'[c])
    BY <2>1 DEF Clients, ToSet, IsInjective
  <2>3. k.op # "STA-NEXT"
    BY NewCommands
  <2>4. Walk(c)'
    BY <2>1, <2>3 DEF Walk
  <2>5. Result(c)'
    BY <2>1, <2>2 DEF Result, Listed
  <2> QED
    BY <2>4, <2>5 DEF Handler
<1> QED
  BY <1>3, <1>4, <1>5, <1>6, Parts

LEMMA SendInv ==
  ASSUME ScanInv, TypeOK', NEW c \in Caller, Send(c)
  PROVE  ScanInv'
<1>0. TypeOK /\ Lock /\ InFlight /\ \A d \in Caller : Handler(d)
  BY Parts
<1>1. UNCHANGED <<table, cmd, clis, outcome, seen, joined, gone, suspect>>
  BY DEF Send, history
<1>2. smu = None /\ smu' = c /\ pc[c] = "send" /\ pc' = [pc EXCEPT ![c] = "wait"]
  BY DEF Send, SmuFree
<1>3. Lock'
  BY <1>0, <1>2, Bounds DEF Lock, TypeOK
<1>4. unanswered' = 0 => pending' = <<cmd'[c]>> /\ replies' = <<>>
  <2>1. dead => pending' = Append(<<>>, cmd[c]) /\ replies' = <<>>
    BY DEF Send
  <2>2. ~dead /\ unanswered' = 0 => pending = <<>> /\ replies = <<>>
    BY <1>0, <1>2 DEF Send, InFlight
  <2>3. ~dead => pending' = Append(pending, cmd[c]) /\ replies' = replies
    BY DEF Send
  <2> QED
    BY <1>1, <2>1, <2>2, <2>3
<1>5. InFlight'
  BY <1>2, <1>4, Bounds DEF InFlight
<1>6. ASSUME NEW d \in Caller PROVE Handler(d)'
  <2>1. pc'[d] # "idle" => pc[d] # "idle"
    BY <1>0, <1>2 DEF TypeOK
  <2> QED
    BY <1>0, <1>1, <2>1, Kept DEF Handler
<1> QED
  BY <1>3, <1>5, <1>6, Parts

LEMMA TimeOutInv ==
  ASSUME ScanInv, TypeOK', NEW c \in Caller, TimeOut(c) \/ RequestFails(c)
  PROVE  ScanInv'
<1>0. TypeOK /\ Lock /\ InFlight /\ \A d \in Caller : Handler(d)
  BY Parts
<1>1. UNCHANGED <<table, cmd, clis, seen, joined, gone, suspect>>
  BY DEF TimeOut, RequestFails, Ends, history
<1>2. /\ smu = c /\ smu' = None /\ unanswered' # 0
      /\ pc' = [pc EXCEPT ![c] = "idle"] /\ outcome' = [outcome EXCEPT ![c] = "error"]
  BY <1>0 DEF TimeOut, RequestFails, Ends, Lock, TypeOK
<1>3. Lock'
  BY <1>0, <1>2, Bounds DEF Lock, TypeOK
<1>4. InFlight'
  BY <1>2 DEF InFlight
<1>5. ASSUME NEW d \in Caller, d # c PROVE Handler(d)'
  <2>1. UNCHANGED <<pc[d], outcome[d]>>
    BY <1>0, <1>2, <1>5 DEF TypeOK
  <2> QED
    BY <1>0, <1>1, <2>1, Kept DEF Handler
<1>6. Handler(c)'
  <2>1. pc'[c] = "idle" /\ outcome'[c] = "error"
    BY <1>0, <1>2 DEF TypeOK
  <2>2. Result(c)'
    BY <1>0, <1>1, <2>1 DEF Handler, Result, Listed, Clients, NoneReturned
  <2> QED
    BY <2>1, <2>2 DEF Handler
<1> QED
  BY <1>3, <1>4, <1>5, <1>6, Parts

LEMMA RescueInv ==
  ASSUME ScanInv, TypeOK', NEW c \in Caller, Rescue(c)
  PROVE  ScanInv'
<1>0. TypeOK /\ Lock /\ InFlight /\ \A d \in Caller : Handler(d)
  BY Parts
<1>1. UNCHANGED <<table, smu, pc, cmd, clis, outcome, seen, joined, gone, suspect>>
  BY DEF Rescue, rpc, history
<1>2. pc[c] = "wait" /\ pending' = <<cmd'[c]>> /\ replies' = <<>>
  BY <1>1 DEF Rescue
<1>3. Lock' /\ smu' = c
  BY <1>0, <1>1, <1>2 DEF Lock
<1>4. InFlight'
  BY <1>2, <1>3, Bounds DEF InFlight
<1>5. ASSUME NEW d \in Caller PROVE Handler(d)'
  BY <1>0, <1>1, Kept DEF Handler
<1> QED
  BY <1>3, <1>4, <1>5, Parts

\* On a connection that gave no command up, what hostapd answers to the command
\* of c is sound.
LEMMA AnswerSound ==
  ASSUME TypeOK, NEW c \in Caller, Walk(c), Result(c)
  PROVE  Sound(c, Answers(cmd[c]))
<1> DEFINE k == cmd[c]
           r == Answers(k)
<1>1. table \in Seq(Sta) /\ IsInjective(table) /\ k \in Command
  BY DEF TypeOK
<1>2. k.op \in {"PING", "STA-FIRST", "STA-NEXT"}
  BY <1>1, Commands
<1>3. ToSet(table) \subseteq seen[c] /\ seen[c] \ gone[c] \subseteq ToSet(table)
  BY DEF Walk
<1>4. \A x \in ToSet(table) : ~Done(x)
  <2>1. \A i \in DOMAIN table : table[i] \in Sta
    BY <1>1, LenProperties, ElementOfSeq
  <2> QED
    BY <2>1, Addresses DEF ToSet
<1>5. Constant(c) \subseteq ToSet(table)
  BY <1>3 DEF Constant
<1>6. CASE k.op = "PING"
  BY <1>1, <1>6, Answered DEF Sound
<1>7. CASE k.op = "STA-FIRST"
  <2>1. clis[c] = <<>> /\ Clients(c) = {}
    BY <1>7 DEF Walk, Clients, ToSet
  <2>2. CASE table = <<>>
    <3>1. r = "FAIL" /\ Done(r)
      BY <1>1, <1>7, <2>2, Answered DEF Done
    <3>2. ToSet(table) = {}
      BY <2>2 DEF ToSet
    <3>3. Constant(c) \subseteq Clients(c)
      BY <1>5, <3>2
    <3> HIDE DEF r
    <3> QED
      BY <1>7, <3>1, <3>3 DEF Sound, r
  <2>3. CASE table # <<>>
    <3>1. r = Head(table)
      BY <1>1, <1>7, <2>3, Answered
    <3> HIDE DEF r
    <3>2. r \in ToSet(table) /\ \A y : ~Before(table, y, r)
      <4>1. Head(table) \in ToSet(table) /\ \A y : ~Before(table, y, Head(table))
        BY <1>1, <2>3, Order
      <4> QED
        BY <4>1, <3>1
    <3>3. ~Done(r)
      BY <3>2, <1>4
    <3> QED
      BY <1>3, <1>7, <2>1, <3>2, <3>3 DEF Sound, r
  <2> QED
    BY <2>2, <2>3
<1>8. CASE k.op = "STA-NEXT"
  <2> DEFINE a == k.addr
  <2>1. /\ a \in Clients(c)
        /\ ~suspect[c] /\ NoneLeft(c) =>
             \A x \in Constant(c) : Before(table, x, a) => x \in Clients(c)
        /\ ~suspect[c] /\ NoneReturned(c) => \A x \in Clients(c) : ~Before(table, a, x)
    BY <1>8 DEF Walk
  <2>2. CASE a \notin ToSet(table)
    <3>1. r = "FAIL" /\ Done(r)
      BY <1>1, <1>8, <2>2, Answered DEF Done
    <3>2. ~suspect[c] => ~NoneLeft(c)
      <4> HIDE DEF a
      <4>1. ~suspect[c] => a \in seen[c]
        BY <2>1 DEF Result
      <4>2. ~suspect[c] => a \in gone[c]
        BY <4>1, <2>2, <1>3
      <4> QED
        BY <4>2, <2>1 DEF NoneLeft
    <3> QED
      BY <1>8, <3>1, <3>2 DEF Sound
  <2>3. CASE a \in ToSet(table)
    <3>1. PICK i \in DOMAIN table :
            table[i] = a /\ r = IF i = Len(table) THEN "" ELSE table[i + 1]
      BY <1>1, <1>8, <2>3, Answered
    <3> HIDE DEF a, r
    <3>2. CASE i = Len(table)
      <4>1. r = "" /\ Done(r)
        BY <3>1, <3>2 DEF Done
      <4>2. \A y \in ToSet(table) : y = a \/ Before(table, y, a)
        BY <1>1, <3>1, <3>2, Order
      <4>3. ~suspect[c] /\ NoneLeft(c) => Constant(c) \subseteq Clients(c)
        BY <4>2, <2>1, <1>5
      <4> QED
        BY <1>8, <4>1, <4>3 DEF Sound, r
    <3>3. CASE i # Len(table)
      <4>1. /\ r \in ToSet(table) /\ Before(table, a, r)
            /\ \A y : Before(table, y, r) => y = a \/ Before(table, y, a)
        BY <1>1, <3>1, <3>3, Order
      <4>2. \A x : Before(table, r, x) => Before(table, a, x)
        BY <1>1, <4>1, Order
      <4>3. ~suspect[c] /\ NoneLeft(c) =>
              \A x \in Constant(c) : Before(table, x, r) => x \in Clients(c)
        BY <2>1, <4>1
      <4>4. ~suspect[c] /\ NoneReturned(c) =>
              r \notin Clients(c) /\ \A x \in Clients(c) : ~Before(table, r, x)
        BY <2>1, <4>1, <4>2
      <4> QED
        BY <1>3, <1>4, <1>8, <4>1, <4>3, <4>4 DEF Sound, r
    <3> QED
      BY <3>2, <3>3
  <2> QED
    BY <2>2, <2>3
<1> QED
  BY <1>2, <1>6, <1>7, <1>8

LEMMA AnswerInv ==
  ASSUME ScanInv, TypeOK', Answer
  PROVE  ScanInv'
<1>0. TypeOK /\ Lock /\ InFlight /\ \A d \in Caller : Handler(d)
  BY Parts
<1>1. UNCHANGED <<table, unanswered, smu, pc, cmd, clis, outcome, seen, joined, gone, suspect>>
  BY DEF Answer, rpc, history
<1>2. Lock'
  BY <1>0, <1>1 DEF Lock
<1>3. InFlight'
  <2> SUFFICES ASSUME unanswered = 0 PROVE InFlight'
    BY <1>1 DEF InFlight
  <2>1. pending # <<>> /\ smu # None
    BY <1>0 DEF Answer, InFlight
  <2>2. PICK c \in Caller : smu = c
    BY <1>0, <2>1 DEF TypeOK
  <2>3. pending = <<cmd[c]>> /\ replies = <<>>
    BY <1>0, <2>1, <2>2 DEF InFlight
  <2>4. Head(pending) = cmd[c] /\ Tail(pending) = <<>>
    BY <2>3
  <2>5. pending' = <<>> /\ replies' = <<Answers(cmd[c])>>
    BY <2>3, <2>4 DEF Answer
  <2>6. pc[c] = "wait"
    BY <1>0, <2>2 DEF Lock
  <2>7. Walk(c) /\ Result(c)
    BY <1>0, <2>6 DEF Handler
  <2>8. cmd[c] \in Command /\ table \in Seq(Sta)
    BY <1>0 DEF TypeOK
  <2>9. PICK r \in Reply : r = Answers(cmd[c])
    BY <2>8, AnswerType
  <2>10. Sound(c, r)
    BY <1>0, <2>7, <2>9, AnswerSound
  <2>11. Sound(c, r)'
    BY <1>1, <2>10, Kept
  <2> QED
    BY <1>1, <2>1, <2>2, <2>5, <2>9, <2>11 DEF InFlight
<1>4. ASSUME NEW d \in Caller PROVE Handler(d)'
  BY <1>0, <1>1, Kept DEF Handler
<1> QED
  BY <1>2, <1>3, <1>4, Parts

\* What a change of the list means for a busy handler: nothing new about the
\* stations it is about.
LEMMA Churned ==
  ASSUME TypeOK, NEW c \in Caller, pc[c] # "idle", Walk(c), Result(c),
         NEW X \in SUBSET Sta, NEW R \in SUBSET Sta, Changes(X, R),
         UNCHANGED <<cmd, clis, outcome, suspect>>
  PROVE  Walk(c)' /\ Result(c)' /\ \A r : Sound(c, r) => Sound(c, r)'
<1>1. /\ seen'[c] = seen[c] \union X /\ joined'[c] = joined[c] \union X
      /\ gone'[c] = gone[c] \union R
  BY DEF Changes, Add, Busy
<1>2. /\ ToSet(table) \subseteq seen[c] /\ seen[c] \ gone[c] \subseteq ToSet(table)
      /\ outcome[c] = "none"
  BY DEF Walk
<1>3. \A x \in X : x \in seen[c] => x \in gone[c]
  BY <1>2 DEF Changes
<1>4. Clients(c)' = Clients(c)
  BY DEF Clients
<1>5. /\ NoneLeft(c)' => NoneLeft(c)
      /\ NoneReturned(c)' => NoneReturned(c)
      /\ Constant(c)' \subseteq Constant(c) /\ \A x \in Constant(c)' : x \notin X
  BY <1>1, <1>4 DEF NoneLeft, NoneReturned, Constant
<1>6. \A y, z : Before(table, y, z)' => Before(table, y, z) \/ y \in X \/ z \in X
  BY DEF Changes
<1>7. ToSet(table)' \subseteq seen'[c] /\ seen'[c] \ gone'[c] \subseteq ToSet(table)'
  BY <1>1, <1>2 DEF Changes
<1>8. ~suspect[c] /\ NoneLeft(c) => \A x \in Clients(c) : x \notin X
  BY <1>3 DEF Result, NoneLeft
<1>9. ~suspect[c] /\ NoneReturned(c)' => \A x \in Clients(c) : x \notin X
  BY <1>1, <1>3, <1>4 DEF Result, NoneReturned
<1>10. Walk(c)'
  <2> DEFINE a == cmd[c].addr
  <2>1. a' = a /\ cmd'[c].op = cmd[c].op
    OBVIOUS
  <2>2. CASE cmd[c].op # "STA-NEXT"
    BY <1>2, <1>7, <2>1, <2>2 DEF Walk
  <2>3. CASE cmd[c].op = "STA-NEXT"
    <3>1. /\ a \in Clients(c)
          /\ ~suspect[c] /\ NoneLeft(c) =>
               \A x \in Constant(c) : Before(table, x, a) => x \in Clients(c)
          /\ ~suspect[c] /\ NoneReturned(c) => \A x \in Clients(c) : ~Before(table, a, x)
      BY <2>3 DEF Walk
    <3> HIDE DEF a
    <3>2. ~suspect[c] /\ NoneLeft(c)' =>
            \A x \in Constant(c)' : Before(table, x, a)' => x \in Clients(c)
      BY <3>1, <2>1, <1>5, <1>6, <1>8
    <3>3. ~suspect[c] /\ NoneReturned(c)' => \A x \in Clients(c) : ~Before(table, a, x)'
      BY <3>1, <2>1, <1>5, <1>6, <1>9
    <3> QED
      BY <1>2, <1>4, <1>7, <2>1, <2>3, <3>1, <3>2, <3>3 DEF Walk, a
  <2> QED
    BY <2>2, <2>3
<1>11. Result(c)'
  <2>1. ~suspect[c] => Clients(c)' \subseteq seen'[c]
    BY <1>1, <1>4 DEF Result
  <2>2. ~suspect[c] /\ NoneReturned(c)' => IsInjective(clis'[c])
    BY <1>5 DEF Result
  <2> QED
    BY <1>2, <2>1, <2>2 DEF Result, Listed
<1>12. ASSUME NEW r, Sound(c, r) PROVE Sound(c, r)'
  <2>1. cmd[c].op # "PING" => r \in seen'[c] \union {"FAIL", ""}
    BY <1>1, <1>12 DEF Sound
  <2>2. cmd[c].op # "PING" /\ Done(r) /\ ~suspect[c] /\ NoneLeft(c)' =>
          Constant(c)' \subseteq Clients(c)
    BY <1>5, <1>12 DEF Sound
  <2>3. ASSUME cmd[c].op # "PING", ~Done(r), ~suspect[c]
        PROVE  /\ NoneLeft(c)' /\ r \notin gone'[c] =>
                    \A x \in Constant(c)' : Before(table, x, r)' => x \in Clients(c)
               /\ NoneReturned(c)' /\ r \notin gone'[c] \intersect joined'[c] =>
                    r \notin Clients(c) /\ \A x \in Clients(c) : ~Before(table, r, x)'
    <3>1. r \in seen[c]
      BY <1>12, <2>3 DEF Sound, Done
    <3>2. /\ NoneLeft(c) /\ r \notin gone[c] =>
               \A x \in Constant(c) : Before(table, x, r) => x \in Clients(c)
          /\ NoneReturned(c) /\ r \notin gone[c] \intersect joined[c] =>
               r \notin Clients(c) /\ \A x \in Clients(c) : ~Before(table, r, x)
      BY <1>12, <2>3 DEF Sound
    <3>3. r \in X => r \in gone'[c] \intersect joined'[c]
      BY <1>1, <1>3, <3>1
    <3>4. r \notin gone'[c] => r \notin gone[c]
      BY <1>1
    <3>5. r \notin gone'[c] \intersect joined'[c] => r \notin gone[c] \intersect joined[c]
      BY <1>1
    <3>6. NoneLeft(c)' /\ r \notin gone'[c] =>
            \A x \in Constant(c)' : Before(table, x, r)' => x \in Clients(c)
      BY <1>5, <1>6, <3>2, <3>3, <3>4
    <3>7. NoneReturned(c)' /\ r \notin gone'[c] \intersect joined'[c] =>
            r \notin Clients(c) /\ \A x \in Clients(c) : ~Before(table, r, x)'
      BY <1>5, <1>6, <1>9, <2>3, <3>2, <3>3, <3>5
    <3> QED
      BY <3>6, <3>7
  <2>4. cmd[c].op = "PING" => r = "PONG"
    BY <1>12 DEF Sound
  <2> QED
    BY <1>4, <2>1, <2>2, <2>3, <2>4 DEF Sound, Done
<1> QED
  BY <1>10, <1>11, <1>12

LEMMA ChurnInv ==
  ASSUME ScanInv, TypeOK',
         (\E x \in Sta : Join(x) \/ Leave(x)) \/ Restart
  PROVE  ScanInv'
<1>0. TypeOK /\ Lock /\ InFlight /\ \A d \in Caller : Handler(d)
  BY Parts
<1>1. UNCHANGED <<replies, unanswered, smu, pc, cmd, clis, outcome, suspect>>
  <2>1. CASE Restart
    BY <2>1 DEF Restart, rpc
  <2>2. CASE \E x \in Sta : Join(x) \/ Leave(x)
    BY <2>2 DEF Join, Leave, conn, rpc
  <2> QED
    BY <2>1, <2>2
<1>2. UNCHANGED pending \/ pending' = <<>>
  BY DEF Restart, Join, Leave, conn
<1>3. PICK X, R \in SUBSET Sta : Changes(X, R)
  BY <1>0, ChurnChanges
<1>4. ASSUME NEW c \in Caller, pc[c] # "idle"
      PROVE  Handler(c)' /\ \A r : Sound(c, r) => Sound(c, r)'
  <2>1. Walk(c) /\ Result(c)
    BY <1>0, <1>4 DEF Handler
  <2>2. Walk(c)' /\ Result(c)' /\ \A r : Sound(c, r) => Sound(c, r)'
    BY <1>0, <1>1, <1>3, <1>4, <2>1, Churned
  <2> QED
    BY <2>2 DEF Handler
<1>5. ASSUME NEW c \in Caller, pc[c] = "idle" PROVE Handler(c)'
  <2>1. UNCHANGED <<seen[c], joined[c], gone[c]>>
    BY <1>3, <1>5 DEF Changes, Add, Busy
  <2>2. Result(c)
    BY <1>0 DEF Handler
  <2>3. Result(c)'
    BY <1>1, <2>1, <2>2 DEF Result, Listed, Clients, NoneLeft, NoneReturned, Constant
  <2> QED
    BY <1>1, <1>5, <2>3 DEF Handler
<1>6. Lock'
  BY <1>0, <1>1 DEF Lock
<1>7. InFlight'
  <2> SUFFICES ASSUME unanswered = 0 PROVE InFlight'
    BY <1>1 DEF InFlight
  <2>1. smu = None => pending' = <<>> /\ replies' = <<>>
    BY <1>0, <1>1, <1>2 DEF InFlight
  <2>2. ASSUME NEW c \in Caller, smu = c
        PROVE  \/ pending' = <<>> /\ replies' = <<>>
               \/ pending' = <<cmd'[c]>> /\ replies' = <<>>
               \/ pending' = <<>> /\ \E r \in Reply : replies' = <<r>> /\ Sound(c, r)'
    <3>1. pc[c] # "idle"
      BY <1>0, <2>2 DEF Lock
    <3>2. CASE replies = <<>>
      <4>1. pending' = <<>> \/ pending' = <<cmd[c]>>
        BY <1>0, <1>2, <2>2, <3>2 DEF InFlight
      <4> QED
        BY <1>1, <3>2, <4>1
    <3>3. CASE replies # <<>>
      <4>1. pending = <<>> /\ \E r \in Reply : replies = <<r>> /\ Sound(c, r)
        BY <1>0, <2>2, <3>3 DEF InFlight
      <4> QED
        BY <1>1, <1>2, <1>4, <3>1, <4>1
    <3> QED
      BY <3>2, <3>3
  <2> QED
    BY <1>1, <2>1, <2>2 DEF InFlight
<1> QED
  BY <1>0, <1>4, <1>5, <1>6, <1>7, Parts

\* A client found in a sound reply.
LEMMA FoundInv ==
  ASSUME ScanInv, NEW c \in Caller, pc[c] = "wait", NEW r \in Reply, ~Done(r),
         cmd[c] # Ping, Found(c, r), UNCHANGED <<table, seen, joined, gone>>,
         suspect'[c] \/ (~suspect[c] /\ Sound(c, r))
  PROVE  Handler(c)'
<1>0. TypeOK /\ Handler(c)
  BY Parts
<1>1. r \in Address /\ cmd[c] \in Command /\ clis[c] \in Seq(Address)
  BY <1>0 DEF Reply, Done, TypeOK
<1>2. Walk(c) /\ Result(c) /\ cmd[c].op # "PING"
  BY <1>0, <1>1, Commands DEF Handler
<1>3. /\ cmd'[c] = NextOf(r) /\ clis'[c] = Append(clis[c], r) /\ outcome'[c] = "none"
  BY <1>0, <1>2 DEF Found, TypeOK, Walk
<1>4. /\ Clients(c)' = Clients(c) \union {r}
      /\ IsInjective(clis[c]) /\ r \notin Clients(c) => IsInjective(clis'[c])
  BY <1>1, <1>3, Appended DEF Clients
<1>5. cmd'[c].op = "STA-NEXT" /\ cmd'[c].addr = r
  BY <1>1, <1>3, NewCommands
<1>6. Constant(c)' = Constant(c)
  BY DEF Constant
<1>7. /\ NoneLeft(c)' => NoneLeft(c) /\ r \notin gone[c]
      /\ NoneReturned(c)' => NoneReturned(c) /\ r \notin gone[c] \intersect joined[c]
  BY <1>4 DEF NoneLeft, NoneReturned
<1>8. ASSUME ~suspect'[c]
      PROVE  /\ r \in seen[c] /\ Clients(c) \subseteq seen[c]
             /\ NoneLeft(c)' => \A x \in Constant(c) : Before(table, x, r) => x \in Clients(c)
             /\ NoneReturned(c)' =>
                  /\ IsInjective(clis'[c])
                  /\ \A x \in Clients(c)' : ~Before(table, r, x)
  <2>1. ~suspect[c] /\ Sound(c, r)
    BY <1>8
  <2>2. r \in seen[c] /\ Clients(c) \subseteq seen[c]
    BY <1>2, <2>1 DEF Sound, Result, Done
  <2>3. NoneLeft(c)' => \A x \in Constant(c) : Before(table, x, r) => x \in Clients(c)
    BY <1>2, <1>7, <2>1 DEF Sound
  <2>4. NoneReturned(c)' => r \notin Clients(c) /\ \A x \in Clients(c) : ~Before(table, r, x)
    BY <1>2, <1>7, <2>1 DEF Sound
  <2>5. NoneReturned(c)' => IsInjective(clis'[c])
    BY <1>2, <1>4, <1>7, <2>1, <2>4 DEF Result
  <2>6. ~Before(table, r, r)
    BY <1>0, Order DEF TypeOK
  <2> QED
    BY <1>4, <2>2, <2>3, <2>4, <2>5, <2>6
<1>9. ToSet(table)' \subseteq seen'[c] /\ seen'[c] \ gone'[c] \subseteq ToSet(table)'
  BY <1>2 DEF Walk
<1>10. Walk(c)'
  BY <1>3, <1>4, <1>5, <1>6, <1>8, <1>9 DEF Walk
<1>11. Result(c)'
  BY <1>3, <1>4, <1>8 DEF Result, Listed
<1> QED
  BY <1>10, <1>11 DEF Handler

LEMMA ReceiveInv ==
  ASSUME ScanInv, TypeOK', NEW c \in Caller, Receive(c)
  PROVE  ScanInv'
<1>0. TypeOK /\ Lock /\ InFlight /\ \A d \in Caller : Handler(d)
  BY Parts
<1>1. /\ pc[c] = "wait" /\ smu = c /\ smu' = None
      /\ UNCHANGED <<table, pending, unanswered, seen, joined, gone>>
      /\ suspect' = [suspect EXCEPT ![c] = @ \/ unanswered > 0]
      /\ replies # <<>> /\ replies' = Tail(replies)
  BY <1>0 DEF Receive, Lock
<1>2. PICK r \in Reply : r = Head(replies)
  BY <1>0, <1>1, QueueTypes
<1>3. \/ cmd[c] = Ping /\ Ends(c, IF r = "PONG" THEN "ok" ELSE "bad")
      \/ cmd[c] # Ping /\ Done(r) /\ Ends(c, "ok")
      \/ cmd[c] # Ping /\ ~Done(r) /\ Found(c, r)
  BY <1>2 DEF Receive
<1>4. \/ unanswered # 0 /\ suspect'[c]
      \/ /\ unanswered = 0 /\ pending = <<>> /\ Tail(replies) = <<>> /\ Sound(c, r)
         /\ suspect'[c] = suspect[c]
  <2>1. CASE unanswered # 0
    <3>1. unanswered > 0
      BY <1>0, <2>1 DEF TypeOK
    <3>2. suspect \in [Caller -> BOOLEAN]
      BY <1>0 DEF TypeOK
    <3>3. suspect'[c] = (suspect[c] \/ unanswered > 0)
      BY <1>1, <3>2, Zenon
    <3> QED
      BY <2>1, <3>1, <3>3
  <2>2. CASE unanswered = 0
    <3>1. pending = <<>> /\ \E q \in Reply : replies = <<q>> /\ Sound(c, q)
      BY <1>0, <1>1, <2>2 DEF InFlight
    <3>2. PICK q \in Reply : replies = <<q>> /\ Sound(c, q)
      BY <3>1
    <3>3. q = r /\ Tail(replies) = <<>>
      BY <3>2, <1>2
    <3>4. suspect'[c] = suspect[c]
      BY <1>0, <1>1, <2>2 DEF TypeOK
    <3> QED
      BY <2>2, <3>1, <3>2, <3>3, <3>4
  <2> QED
    BY <2>1, <2>2
<1>5. /\ \A d \in Caller \ {c} : UNCHANGED <<pc[d], cmd[d], clis[d], outcome[d], suspect[d]>>
      /\ pc'[c] # "wait"
  BY <1>0, <1>1, <1>3 DEF Ends, Found, TypeOK
<1>6. Lock'
  BY <1>0, <1>1, <1>5, Bounds DEF Lock
<1>7. InFlight'
  BY <1>1, <1>4, Bounds DEF InFlight
<1>8. ASSUME NEW d \in Caller, d # c PROVE Handler(d)'
  <2>1. Walk(d) => Walk(d)'
    BY <1>1, <1>5, <1>8, Kept
  <2>2. Result(d) => Result(d)'
    BY <1>1, <1>5, <1>8, Kept
  <2> QED
    BY <1>0, <1>5, <1>8, <2>1, <2>2 DEF Handler
<1>9. Handler(c)'
  <2>1. cmd[c] \in Command /\ Handler(c)
    BY <1>0 DEF TypeOK
  <2>2. ASSUME NEW o \in {"ok", "bad"}, Ends(c, o)
        PROVE  /\ pc'[c] = "idle" /\ outcome'[c] = o /\ cmd'[c] = cmd[c] /\ clis'[c] = clis[c]
               /\ Clients(c)' = Clients(c) /\ Constant(c)' = Constant(c)
               /\ NoneLeft(c)' = NoneLeft(c) /\ NoneReturned(c)' = NoneReturned(c)
    BY <1>0, <1>1, <2>2 DEF Ends, TypeOK, Clients, Constant, NoneLeft, NoneReturned
  <2>3. ~suspect'[c] => ~suspect[c] /\ Sound(c, r)
    BY <1>4
  <2>4. CASE cmd[c] = Ping /\ Ends(c, IF r = "PONG" THEN "ok" ELSE "bad")
    <3> DEFINE o == IF r = "PONG" THEN "ok" ELSE "bad"
    <3>1. o \in {"ok", "bad"} /\ (o = "bad" => r # "PONG")
      OBVIOUS
    <3> HIDE DEF o
    <3>2. /\ pc'[c] = "idle" /\ outcome'[c] = o /\ cmd'[c] = Ping
          /\ Clients(c)' = Clients(c) /\ NoneReturned(c)' = NoneReturned(c)
          /\ clis'[c] = clis[c]
      BY <2>2, <2>4, <3>1 DEF o
    <3>3. o = "bad" => suspect'[c]
      BY <2>3, <2>4, <3>1, NewCommands DEF Sound
    <3>4. Result(c)'
      BY <1>1, <2>1, <2>3, <3>2, <3>3 DEF Result, Listed, Handler
    <3> QED
      BY <3>2, <3>4 DEF Handler
  <2>5. CASE cmd[c] # Ping /\ Done(r) /\ Ends(c, "ok")
    <3>1. cmd[c].op # "PING"
      BY <2>1, <2>5, Commands
    <3>2. ~suspect'[c] /\ NoneLeft(c) => Constant(c) \subseteq Clients(c)
      BY <2>3, <2>5, <3>1 DEF Sound
    <3>3. Result(c)'
      BY <1>1, <2>1, <2>2, <2>3, <2>5, <3>2 DEF Result, Handler
    <3> QED
      BY <2>2, <2>5, <3>3 DEF Handler
  <2>6. CASE cmd[c] # Ping /\ ~Done(r) /\ Found(c, r)
    BY <1>1, <2>3, <2>6, FoundInv
  <2> QED
    BY <1>3, <2>4, <2>5, <2>6
<1> QED
  BY <1>6, <1>7, <1>8, <1>9, Parts

-----------------------------------------------------------------------------
(* The theorems                                                            *)

LEMMA NextScanInv == ASSUME ScanInv, [Next]_vars PROVE ScanInv'
<1>1. TypeOK'
  BY NextTypeOK DEF ScanInv
<1>2. ASSUME UNCHANGED vars PROVE ScanInv'
  <2>1. Lock' /\ InFlight'
    <3>1. Lock /\ InFlight
      BY Parts
    <3>2. UNCHANGED <<table, pending, replies, unanswered, smu, pc, cmd, clis, outcome, seen,
                      joined, gone, suspect>>
      BY <1>2 DEF vars, conn, rpc, history
    <3> QED
      BY <3>1, <3>2, Kept DEF Lock, InFlight
  <2>2. ASSUME NEW c \in Caller PROVE Handler(c)'
    BY <1>2, Parts, Kept DEF Handler, vars, rpc, history
  <2> QED
    BY <1>1, <2>1, <2>2, Parts
<1> QED
  BY <1>1, <1>2, BeginInv, SendInv, ReceiveInv, TimeOutInv, RescueInv, AnswerInv, ChurnInv
     DEF Next, Finished

\* The invariant behind the others: what is in flight on a connection that has
\* given no command up is that of the handler inside SendRawCmd or its reply,
\* and a listing that goes on has all the lasting stations before its place.
THEOREM ScanInvHolds == Spec => []ScanInv
<1>1. Init => ScanInv
  BY InitScanInv
<1>2. ScanInv /\ [Next]_vars => ScanInv'
  BY NextScanInv
<1> QED
  BY <1>1, <1>2, PTL DEF Spec

\* Every client a listing of listClientsOnSock returns was a station of hostapd
\* during the RPC, unless a command of the connection had been given up before.
THEOREM NoPhantomHolds == Spec => []NoPhantom
<1>1. ScanInv => NoPhantom
  BY DEF ScanInv
<1> QED
  BY <1>1, ScanInvHolds, PTL

\* pingSocket gets "PONG", and not the reply to another RPC's command, unless the
\* connection had given up a command before.
THEOREM PingSoundHolds == Spec => []PingSound
<1>1. ScanInv => PingSound
  BY DEF ScanInv
<1> QED
  BY <1>1, ScanInvHolds, PTL

\* A listing has every station that was there all along, unless one it had
\* listed left meanwhile.
THEOREM CompleteHolds == Spec => []Complete
<1>1. ScanInv => Complete
  BY DEF ScanInv
<1> QED
  BY <1>1, ScanInvHolds, PTL

\* A listing has no station twice, unless one it had listed left and returned.
THEOREM NoRepeatHolds == Spec => []NoRepeat
<1>1. ScanInv => NoRepeat
  BY DEF ScanInv
<1> QED
  BY <1>1, ScanInvHolds, PTL
=============================================================================
