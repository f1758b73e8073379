---------------------------- MODULE HostapOsProofs ----------------------------
(***************************************************************************)
(* Theorems about the helpers of hostap, for any addresses, patterns,      *)
(* buffers and sizes.                                                      *)
(*                                                                         *)
(* What a recursive function computes is proved from the principle of the  *)
(* least number (lemma Least): first that a function with the recursion of *)
(* the definition exists, larger domain by larger domain, then what it     *)
(* returns.                                                                *)
(***************************************************************************)
EXTENDS HostapOs, FiniteSetTheorems, SequenceTheorems, WellFoundedInduction, TLAPS

-----------------------------------------------------------------------------
(* Induction                                                               *)

LEMMA Least ==
  ASSUME NEW T, T \subseteq Nat, T # {}
  PROVE  \E x \in T : \A y \in T : x <= y
<1>1. IsWellFoundedOn(OpToRel(<, Nat), Nat)
  BY NatLessThanWellFounded
<1>2. PICK x \in T : \A y \in T : ~ (<<y, x>> \in OpToRel(<, Nat))
  BY <1>1, WFMin
<1>3. \A y \in T : ~ (y < x)
  <2>1. \A y \in Nat : y < x => <<y, x>> \in OpToRel(<, Nat)
    BY Zenon DEF OpToRel
  <2> QED
    BY <1>2, <2>1, Zenon
<1> QED
  BY <1>3

\* A set of numbers with 0 and with the successor of each is all of them.
LEMMA Induction ==
  ASSUME NEW T, 0 \in T, \A m \in Nat : m \in T => m + 1 \in T
  PROVE  \A m \in Nat : m \in T
<1> SUFFICES ASSUME NEW k \in Nat, k \notin T PROVE FALSE
  OBVIOUS
<1>1. PICK x \in Nat \ T : \A y \in Nat \ T : x <= y
  <2>1. Nat \ T \subseteq Nat /\ Nat \ T # {}
    OBVIOUS
  <2> QED
    BY <2>1, Least
<1>2. x # 0 /\ x - 1 \in Nat
  BY <1>1
<1>3. x - 1 \in T
  BY <1>1, <1>2
<1> QED
  BY <1>1, <1>2, <1>3

-----------------------------------------------------------------------------
(* The list of headers                                                     *)

LEMMA Link ==
  ASSUME NEW S, NEW s \in Seq(S), NEW a \in S, IsInjective(s), a \notin ToSet(s)
  PROVE  /\ <<a>> \o s \in Seq(S) /\ IsInjective(<<a>> \o s)
         /\ ToSet(<<a>> \o s) = ToSet(s) \union {a}
<1> DEFINE r == <<a>> \o s
           m == Len(s)
<1>1. m \in Nat /\ DOMAIN s = 1..m
  BY LenProperties
<1>2. r \in Seq(S) /\ Len(r) = m + 1 /\ \A i \in 1..(m + 1) : r[i] = IF i = 1 THEN a ELSE s[i - 1]
  BY <1>1, ConcatProperties
<1>3. DOMAIN r = 1..(m + 1)
  BY <1>2, LenProperties
<1> HIDE DEF r, m
<1>4. \A i \in 1..m : s[i] # a /\ \A j \in 1..m : s[i] = s[j] => i = j
  BY <1>1 DEF IsInjective, ToSet
<1>5. \A i, j \in 1..(m + 1) : r[i] = r[j] => i = j
  BY <1>1, <1>2, <1>4
<1>6. ToSet(r) = ToSet(s) \union {a}
  <2>1. ASSUME NEW i \in 1..(m + 1) PROVE r[i] \in ToSet(s) \union {a}
    BY <1>1, <1>2 DEF ToSet
  <2>2. a = r[1] /\ 1 \in 1..(m + 1)
    BY <1>1, <1>2
  <2>3. ASSUME NEW i \in 1..m PROVE i + 1 \in 1..(m + 1) /\ s[i] = r[i + 1]
    BY <1>1, <1>2
  <2>4. ToSet(r) = {r[i] : i \in 1..(m + 1)} /\ ToSet(s) = {s[i] : i \in 1..m}
    BY <1>1, <1>3, Zenon DEF ToSet
  <2> QED
    BY <2>1, <2>2, <2>3, <2>4, Zenon
<1> QED
  BY <1>2, <1>3, <1>5, <1>6 DEF IsInjective, r

\* A member leaves its place, those behind it move up.
LEMMA TakenOut ==
  ASSUME NEW S, NEW s \in Seq(S), NEW k \in 1..Len(s)
  PROVE  /\ RemoveAt(s, k) \in Seq(S) /\ Len(RemoveAt(s, k)) = Len(s) - 1
         /\ \A i \in 1..(Len(s) - 1) : RemoveAt(s, k)[i] = IF i < k THEN s[i] ELSE s[i + 1]
<1> DEFINE m == Len(s)
           p == SubSeq(s, 1, k - 1)
           q == SubSeq(s, k + 1, m)
<1>1. m \in Nat /\ k \in Nat /\ k >= 1 /\ k <= m /\ \A i \in 1..m : s[i] \in S
  BY LenProperties
<1>2. p \in Seq(S) /\ Len(p) = k - 1 /\ \A i \in 1..(k - 1) : p[i] = s[i]
  BY <1>1, SubSeqProperties
<1>3. q \in Seq(S) /\ Len(q) = m - k /\ \A i \in 1..(m - k) : q[i] = s[k + i]
  BY <1>1, SubSeqProperties
<1>4. RemoveAt(s, k) = p \o q
  BY DEF RemoveAt
<1> HIDE DEF m, p, q
<1>5. /\ p \o q \in Seq(S) /\ Len(p \o q) = m - 1
      /\ \A i \in 1..(m - 1) : (p \o q)[i] = IF i <= k - 1 THEN p[i] ELSE q[i - (k - 1)]
  <2>1. Len(p) = k - 1 /\ Len(p) + Len(q) = m - 1
    BY <1>1, <1>2, <1>3
  <2>2. /\ p \o q \in Seq(S) /\ Len(p \o q) = Len(p) + Len(q)
        /\ \A i \in 1..(Len(p) + Len(q)) :
             (p \o q)[i] = IF i <= Len(p) THEN p[i] ELSE q[i - Len(p)]
    BY <1>2, <1>3, ConcatProperties, Zenon
  <2> QED
    BY <2>1, <2>2, Zenon
<1>6. ASSUME NEW i \in 1..(m - 1) PROVE (p \o q)[i] = IF i < k THEN s[i] ELSE s[i + 1]
  <2>1. CASE i < k
    BY <1>1, <1>2, <1>5, <2>1
  <2>2. CASE ~ (i < k)
    <3>1. i - (k - 1) \in 1..(m - k) /\ k + (i - (k - 1)) = i + 1
      BY <1>1, <2>2
    <3> QED
      BY <1>1, <1>3, <1>5, <2>2, <3>1
  <2> QED
    BY <2>1, <2>2
<1> QED
  BY <1>4, <1>5, <1>6 DEF m

LEMMA Unlink ==
  ASSUME NEW S, NEW s \in Seq(S), NEW a \in ToSet(s), IsInjective(s)
  PROVE  /\ RemoveFirst(s, a) \in Seq(S) /\ IsInjective(RemoveFirst(s, a))
         /\ ToSet(RemoveFirst(s, a)) = ToSet(s) \ {a}
<1> DEFINE m == Len(s)
           I == {i \in 1..m : s[i] = a}
           k == Min(I)
           r == RemoveAt(s, k)
<1>1. m \in Nat /\ DOMAIN s = 1..m
  BY LenProperties
<1>2. I # {} /\ I \subseteq Nat
  BY <1>1 DEF ToSet
<1>3. k \in I
  <2>1. \E i \in I : \A j \in I : i <= j
    BY <1>2, Least
  <2> HIDE DEF I
  <2> QED
    BY <2>1 DEF Min
<1>4. RemoveFirst(s, a) = r
  <2>1. \E i \in 1..m : s[i] = a
    BY <1>2
  <2>2. SelectInSeq(s, LAMBDA v : v = a) = k
    BY <1>2 DEF SelectInSeq
  <2> QED
    BY <2>1, <2>2 DEF RemoveFirst
<1> HIDE DEF k
<1>5. k \in 1..m /\ s[k] = a
  BY <1>3
<1>6. r \in Seq(S) /\ Len(r) = m - 1 /\ \A i \in 1..(m - 1) : r[i] = IF i < k THEN s[i] ELSE s[i + 1]
  BY <1>5, TakenOut
<1> HIDE DEF r, I
<1>7. DOMAIN r = 1..(m - 1)
  BY <1>6, LenProperties
<1> HIDE DEF m
<1>8. \A i, j \in 1..m : s[i] = s[j] => i = j
  BY <1>1 DEF IsInjective
<1>9. \A i, j \in 1..(m - 1) : r[i] = r[j] => i = j
  BY <1>1, <1>5, <1>6, <1>8
<1>10. ToSet(r) = ToSet(s) \ {a}
  <2>1. ASSUME NEW i \in 1..(m - 1) PROVE r[i] \in ToSet(s) \ {a}
    <3>1. /\ i \in 1..m /\ i + 1 \in 1..m /\ i \in Nat
          /\ i < k => i # k
          /\ ~ (i < k) => i + 1 # k
      BY <1>1, <1>5
    <3>2. \E j \in 1..m : j # k /\ r[i] = s[j]
      BY <1>6, <3>1
    <3> QED
      BY <1>1, <1>5, <1>8, <3>2 DEF ToSet
  <2>2. ASSUME NEW i \in 1..m, i # k PROVE \E j \in 1..(m - 1) : r[j] = s[i]
    <3>1. CASE i < k
      BY <1>1, <1>5, <1>6, <3>1
    <3>2. CASE ~ (i < k)
      <4>1. i - 1 \in 1..(m - 1) /\ ~ (i - 1 < k) /\ (i - 1) + 1 = i
        BY <1>1, <1>5, <2>2, <3>2
      <4> QED
        BY <1>6, <4>1
    <3> QED
      BY <3>1, <3>2
  <2>3. ToSet(r) = {r[i] : i \in 1..(m - 1)} /\ ToSet(s) = {s[i] : i \in 1..m}
    BY <1>1, <1>7, Zenon DEF ToSet
  <2>4. \A i \in 1..m : s[i] # a => i # k
    BY <1>5
  <2> QED
    BY <2>1, <2>2, <2>3, <2>4
<1> QED
  BY <1>4, <1>6, <1>7, <1>9, <1>10 DEF IsInjective

-----------------------------------------------------------------------------
(* The allocator                                                           *)

Stuff == Member \union {Zero, Junk}

Blocks == [magic : {"none", "alloc", "freed"}, len : Nat, data : Seq(Stuff)]

LEMMA Largest ==
  /\ \A k \in Nat : Max(1..(k + 1)) = k + 1 /\ 1..(k + 1) # {} /\ (1..(k + 1)) \ {k + 1} = 1..k
  /\ \A k \in Nat : \A x \in SUBSET (1..(k + 1)) : x # {} =>
       Max(x) \in x /\ x \ {Max(x)} \in SUBSET (1..k)
<1>1. ASSUME NEW k \in Nat, NEW x \in SUBSET (1..k), x # {}
      PROVE  Max(x) \in x /\ \A y \in x : Max(x) >= y
  <2> DEFINE T == {z \in Nat : k - z \in x}
  <2>1. PICK y \in x : TRUE
    BY <1>1
  <2>2. k - y \in T
    BY <2>1
  <2>3. PICK z \in T : \A w \in T : z <= w
    BY <2>2, Least
  <2>4. ASSUME NEW w \in x PROVE k - z >= w
    <3>1. k - w \in T /\ w \in Nat
      BY <2>4
    <3>2. z <= k - w /\ z \in Nat
      BY <2>3, <3>1
    <3> QED
      BY <3>1, <3>2
  <2>5. \E v \in x : \A w \in x : v >= w
    BY <2>3, <2>4
  <2> QED
    BY <2>5 DEF Max
<1>2. ASSUME NEW k \in Nat, NEW x \in SUBSET (1..(k + 1)), x # {}
      PROVE  Max(x) \in x /\ x \ {Max(x)} \in SUBSET (1..k)
  <2> DEFINE w == Max(x)
  <2>1. w \in x /\ \A y \in x : w >= y
    <3>1. k + 1 \in Nat
      OBVIOUS
    <3> QED
      BY <1>1, <1>2, <3>1, Zenon
  <2> HIDE DEF w
  <2>2. ASSUME NEW y \in x, y # w PROVE y \in 1..k
    <3>1. y \in 1..(k + 1) /\ w \in 1..(k + 1) /\ w >= y
      BY <2>1
    <3> QED
      BY <2>2, <3>1
  <2> QED
    BY <2>1, <2>2 DEF w
<1>3. ASSUME NEW k \in Nat PROVE Max(1..(k + 1)) = k + 1
  <2> DEFINE w == Max(1..(k + 1))
  <2>1. k + 1 \in Nat /\ 1..(k + 1) \in SUBSET (1..(k + 1)) /\ k + 1 \in 1..(k + 1)
    OBVIOUS
  <2>2. w \in 1..(k + 1) /\ \A y \in 1..(k + 1) : w >= y
    BY <1>1, <2>1, Zenon
  <2> HIDE DEF w
  <2>3. w = k + 1
    BY <2>1, <2>2
  <2> QED
    BY <2>3 DEF w
<1>4. \A k \in Nat : 1..(k + 1) # {} /\ (1..(k + 1)) \ {k + 1} = 1..k
  OBVIOUS
<1> QED
  BY <1>2, <1>3, <1>4, Zenon

\* The total is no less than any of its terms.
LEMMA TotalIsZero ==
  ASSUME NEW s \in Seq(Addr), heap \in [Addr -> Blocks]
  PROVE  Total(s) = 0 <=> \A a \in ToSet(s) : heap[a].len = 0
<1> DEFINE h(i) == heap[s[i]].len
           Step(g, x) == IF x = {} THEN 0 ELSE g[x \ {Max(x)}] + h(Max(x))
           Sums(g, k) == g = [x \in SUBSET (1..k) |-> Step(g, x)]
           m == Len(s)
           iter == CHOOSE g : g = [x \in SUBSET (DOMAIN s) |-> Step(g, x)]
<1>1. m \in Nat /\ DOMAIN s = 1..m /\ \A i \in 1..m : h(i) \in Nat
  <2>1. m \in Nat /\ DOMAIN s = 1..m /\ \A i \in 1..m : s[i] \in Addr
    BY LenProperties
  <2>2. \A a \in Addr : heap[a].len \in Nat
    BY DEF Blocks
  <2> QED
    BY <2>1, <2>2
<1>2. Total(s) = iter[DOMAIN s]
  BY DEF Total, FoldLeft, MapThenFoldSet
<1> HIDE DEF m, h
<1>3. \A k \in Nat : \E g : Sums(g, k)
  <2> DEFINE T == {k \in Nat : \E g : Sums(g, k)}
  <2>1. 0 \in T
    <3> DEFINE g == [x \in SUBSET (1..0) |-> 0]
    <3>1. \A x \in SUBSET (1..0) : x = {}
      OBVIOUS
    <3>2. Sums(g, 0)
      BY <3>1
    <3> QED
      BY <3>2
  <2>2. ASSUME NEW k \in Nat, k \in T PROVE k + 1 \in T
    <3>1. PICK g : Sums(g, k)
      BY <2>2
    <3> DEFINE f == [x \in SUBSET (1..(k + 1)) |-> Step(g, x)]
    <3>2. \A x \in SUBSET (1..k) : f[x] = g[x] /\ x \in SUBSET (1..(k + 1))
      <4>1. \A x \in SUBSET (1..k) : x \in SUBSET (1..(k + 1))
        OBVIOUS
      <4>2. \A x \in SUBSET (1..k) : g[x] = Step(g, x)
        <5> HIDE DEF Step
        <5> QED
          BY <3>1
      <4>3. \A x \in SUBSET (1..(k + 1)) : f[x] = Step(g, x)
        <5> HIDE DEF Step
        <5> QED
          OBVIOUS
      <4> QED
        BY <4>1, <4>2, <4>3, Zenon
    <3>3. ASSUME NEW x \in SUBSET (1..(k + 1)) PROVE f[x] = Step(f, x)
      <4>1. x # {} => x \ {Max(x)} \in SUBSET (1..k)
        BY Largest
      <4>2. x # {} => f[x \ {Max(x)}] = g[x \ {Max(x)}]
        BY <3>2, <4>1
      <4> QED
        BY <4>2
    <3>4. Sums(f, k + 1)
      BY <3>3
    <3> HIDE DEF f, Sums
    <3> QED
      BY <3>4
  <2> HIDE DEF T
  <2>3. \A k \in Nat : k \in T
    BY <2>1, <2>2, Induction
  <2> QED
    BY <2>3 DEF T
<1>4. Sums(iter, m)
  BY <1>1, <1>3
<1> HIDE DEF iter
<1>5. \A k \in Nat : k <= m => iter[1..k] \in Nat /\ (iter[1..k] = 0 <=> \A i \in 1..k : h(i) = 0)
  <2> DEFINE P(k) == iter[1..k] \in Nat /\ (iter[1..k] = 0 <=> \A i \in 1..k : h(i) = 0)
             T == {k \in Nat : k <= m => P(k)}
  <2>1. 0 \in T
    <3>1. 1..0 = {} /\ 1..0 \in SUBSET (1..m)
      OBVIOUS
    <3>2. iter[1..0] = 0
      BY <1>4, <3>1
    <3> QED
      BY <3>1, <3>2
  <2>2. ASSUME NEW k \in Nat, k \in T PROVE k + 1 \in T
    <3> SUFFICES ASSUME k + 1 <= m PROVE P(k + 1)
      BY <2>2
    <3>1. P(k)
      BY <1>1, <2>2
    <3>2. iter[1..(k + 1)] = iter[1..k] + h(k + 1)
      <4>1. 1..(k + 1) \in SUBSET (1..m)
        BY <1>1
      <4>2. iter[1..(k + 1)] = Step(iter, 1..(k + 1))
        BY <1>4, <4>1
      <4> QED
        BY <4>2, Largest
    <3>3. h(k + 1) \in Nat
      BY <1>1
    <3>4. (\A i \in 1..(k + 1) : h(i) = 0) <=> (\A i \in 1..k : h(i) = 0) /\ h(k + 1) = 0
      OBVIOUS
    <3> QED
      BY <3>1, <3>2, <3>3, <3>4
  <2> HIDE DEF T
  <2>3. \A k \in Nat : k \in T
    BY <2>1, <2>2, Induction
  <2> QED
    BY <2>3 DEF T
<1>6. Total(s) = 0 <=> \A i \in 1..m : h(i) = 0
  BY <1>1, <1>2, <1>5
<1> QED
  BY <1>1, <1>6, Zenon DEF ToSet, h

\* What an owner made its block hold is what is there.
Holds(s, d) == Len(s) <= Len(d) /\ \A i \in 1..Len(s) : s[i] = d[i]

MemoryTypes ==
  /\ heap \in [Addr -> Blocks] /\ alloc_list \in Seq(Addr)
  /\ Held \subseteq Addr /\ owned \in [Held -> Seq(Stuff)]
  /\ buf \in Addr \union {NULL} /\ room \in Nat /\ cwd \in Nat /\ rel \in Nat

Live == {a \in Addr : heap[a].magic = "alloc"}

MemoryInv ==
  /\ MemoryTypes
  /\ IsInjective(alloc_list) /\ ToSet(alloc_list) = Live
  /\ Live = Held \union ({buf} \ {NULL}) /\ buf \notin Held
  /\ \A a \in Addr : heap[a].len = Len(heap[a].data)
  /\ \A a \in Held : Holds(owned[a], heap[a].data)
  /\ call = "none" => buf = NULL /\ ~stream
  /\ call # "none" => leaks = NULL /\ (buf # NULL => heap[buf].len = room)
  /\ leaks # NULL =>
       leaks.blocks = Held /\ (leaks.total = 0 <=> \A a \in Held : heap[a].len = 0)

\* Blocks are sequences.
LEMMA Fillings ==
  /\ \A k \in Nat, v \in Stuff : Filled(k, v) \in Seq(Stuff) /\ Len(Filled(k, v)) = k
  /\ \A k \in Nat : BoundedSeq(Member, k) \subseteq Seq(Stuff)
<1>1. ASSUME NEW k \in Nat, NEW v \in Stuff PROVE Filled(k, v) \in Seq(Stuff) /\ Len(Filled(k, v)) = k
  BY DEF Filled
<1>2. ASSUME NEW k \in Nat, NEW s \in BoundedSeq(Member, k) PROVE s \in Seq(Stuff)
  <2>1. PICK z \in 0..k : s \in [1..z -> Member]
    BY DEF BoundedSeq, SeqOf
  <2>2. z \in Nat /\ s \in [1..z -> Stuff]
    BY <2>1 DEF Stuff
  <2> QED
    BY <2>2, SeqDef
<1> QED
  BY <1>1, <1>2

LEMMA Headers ==
  /\ Freed \in Blocks /\ Freed.magic = "freed" /\ Freed.len = Len(Freed.data)
  /\ \A s \in Seq(Stuff) :
       /\ Header("alloc", s) \in Blocks /\ Header("alloc", s).magic = "alloc"
       /\ Header("alloc", s).len = Len(s) /\ Header("alloc", s).data = s
<1>1. <<>> \in Seq(Stuff) /\ \A s \in Seq(Stuff) : Len(s) \in Nat
  BY EmptySeq, LenProperties
<1> QED
  BY <1>1 DEF Freed, Header, Blocks

LEMMA Copies == \A s \in Seq(Stuff) : Holds(s, s)
<1> QED
  BY LenProperties DEF Holds

LEMMA HoldsIsPrefix ==
  ASSUME NEW s \in Seq(Stuff), NEW d \in Seq(Stuff), Holds(s, d)
  PROVE  s = SubSeq(d, 1, Len(s))
<1> DEFINE z == Len(s)
           p == SubSeq(d, 1, z)
<1>1. z \in Nat /\ Len(d) \in Nat /\ z <= Len(d) /\ \A i \in 1..Len(d) : d[i] \in Stuff
  BY LenProperties DEF Holds
<1>2. \A i \in 1..z : d[i] \in Stuff
  BY <1>1
<1>3. /\ p \in Seq(Stuff) /\ Len(p) = (IF 1 <= z THEN z - 1 + 1 ELSE 0)
      /\ \A i \in 1..(z - 1 + 1) : p[i] = d[1 + i - 1]
  BY <1>1, <1>2, SubSeqProperties
<1> HIDE DEF p
<1>4. Len(p) = z /\ \A i \in 1..z : p[i] = s[i]
  BY <1>1, <1>3 DEF Holds
<1> QED
  BY <1>3, <1>4, SeqEqual DEF p

LEMMA MemoryInvSuffices == MemoryInv => HeapInv
<1> SUFFICES ASSUME MemoryInv PROVE HeapInv
  OBVIOUS
<1>1. \A a \in Held : owned[a] = SubSeq(heap[a].data, 1, Len(owned[a]))
  <2> SUFFICES ASSUME NEW a \in Held PROVE owned[a] = SubSeq(heap[a].data, 1, Len(owned[a]))
    OBVIOUS
  <2>1. owned[a] \in Seq(Stuff) /\ heap[a].data \in Seq(Stuff)
    BY DEF MemoryInv, MemoryTypes, Blocks
  <2>2. Holds(owned[a], heap[a].data)
    BY DEF MemoryInv
  <2> QED
    BY <2>1, <2>2, HoldsIsPrefix
<1> QED
  BY <1>1, Zenon DEF HeapInv, MemoryInv, Live

LEMMA MemoryStarts == MemoryInit => MemoryInv
<1> SUFFICES ASSUME MemoryInit PROVE MemoryInv
  OBVIOUS
<1>1. Header("none", <<>>) \in Blocks /\ Header("none", <<>>).len = Len(Header("none", <<>>).data)
  BY EmptySeq DEF Header, Blocks
<1>2. heap \in [Addr -> Blocks] /\ Live = {}
  BY <1>1 DEF MemoryInit, Header, Live
<1>3. alloc_list = <<>> /\ <<>> \in Seq(Addr) /\ IsInjective(<<>>) /\ ToSet(<<>>) = {}
  BY EmptySeq DEF MemoryInit, IsInjective, ToSet
<1>4. Held = {} /\ owned \in [Held -> Seq(Stuff)]
  BY DEF MemoryInit, Held
<1> QED
  BY <1>1, <1>2, <1>3, <1>4, MemoryAssumption DEF MemoryInit, MemoryInv, MemoryTypes

\* The heap h and the list l fit together, with the live blocks L.
Books(h, l, L) ==
  /\ h \in [Addr -> Blocks] /\ l \in Seq(Addr) /\ IsInjective(l) /\ ToSet(l) = L
  /\ L = {a \in Addr : h[a].magic = "alloc"}
  /\ \A a \in Addr : h[a].len = Len(h[a].data)

LEMMA BooksOf == MemoryInv => Books(heap, alloc_list, Live)
  BY Zenon DEF MemoryInv, MemoryTypes, Books, Live

LEMMA BooksLinked ==
  ASSUME NEW h, NEW l, NEW L, Books(h, l, L), NEW a \in Addr \ L, NEW s \in Seq(Stuff)
  PROVE  Books([h EXCEPT ![a] = Header("alloc", s)], <<a>> \o l, L \union {a})
<1> DEFINE g == [h EXCEPT ![a] = Header("alloc", s)]
<1>1. l \in Seq(Addr) /\ IsInjective(l) /\ a \in Addr /\ ToSet(l) = L
  BY DEF Books
<1>2. /\ <<a>> \o l \in Seq(Addr) /\ IsInjective(<<a>> \o l)
      /\ ToSet(<<a>> \o l) = L \union {a}
  <2>1. a \notin ToSet(l)
    BY <1>1
  <2> QED
    BY <1>1, <2>1, Link
<1>3. g \in [Addr -> Blocks] /\ g[a] = Header("alloc", s) /\ \A x \in Addr \ {a} : g[x] = h[x]
  BY Headers DEF Books
<1> HIDE DEF g
<1>4. L \union {a} = {x \in Addr : g[x].magic = "alloc"}
  BY <1>3, Headers DEF Books
<1>5. \A x \in Addr : g[x].len = Len(g[x].data)
  BY <1>3, Headers DEF Books
<1> QED
  BY <1>2, <1>3, <1>4, <1>5, Zenon DEF Books, g

LEMMA BooksFreed ==
  ASSUME NEW h, NEW l, NEW L, Books(h, l, L), NEW a \in L
  PROVE  Books([h EXCEPT ![a] = Freed], RemoveFirst(l, a), L \ {a})
<1> DEFINE g == [h EXCEPT ![a] = Freed]
<1>1. l \in Seq(Addr) /\ IsInjective(l) /\ a \in ToSet(l) /\ a \in Addr
  BY DEF Books
<1>2. /\ RemoveFirst(l, a) \in Seq(Addr) /\ IsInjective(RemoveFirst(l, a))
      /\ ToSet(RemoveFirst(l, a)) = L \ {a}
  BY <1>1, Unlink, Zenon DEF Books
<1>3. g \in [Addr -> Blocks] /\ g[a] = Freed /\ \A x \in Addr \ {a} : g[x] = h[x]
  BY <1>1, Headers DEF Books
<1> HIDE DEF g
<1>4. L \ {a} = {x \in Addr : g[x].magic = "alloc"}
  BY <1>1, <1>3, Headers DEF Books
<1>5. \A x \in Addr : g[x].len = Len(g[x].data)
  BY <1>3, Headers DEF Books
<1> QED
  BY <1>2, <1>3, <1>4, <1>5, Zenon DEF Books, g

\* A new block takes the place of a.
LEMMA BooksMoved ==
  ASSUME NEW h, NEW l, NEW L, Books(h, l, L), NEW a \in L,
         NEW new \in Addr \ L, NEW s \in Seq(Stuff)
  PROVE  Books([h EXCEPT ![new] = Header("alloc", s), ![a] = Freed],
               <<new>> \o RemoveFirst(l, a), (L \ {a}) \union {new})
<1> DEFINE g == [h EXCEPT ![a] = Freed]
<1>1. Books(g, RemoveFirst(l, a), L \ {a})
  BY BooksFreed
<1>2. Books([g EXCEPT ![new] = Header("alloc", s)], <<new>> \o RemoveFirst(l, a),
            (L \ {a}) \union {new})
  <2> HIDE DEF g
  <2>1. new \in Addr \ (L \ {a})
    OBVIOUS
  <2> QED
    BY <1>1, <2>1, BooksLinked
<1>3. [g EXCEPT ![new] = Header("alloc", s)]
      = [h EXCEPT ![new] = Header("alloc", s), ![a] = Freed]
  <2>1. a # new /\ h \in [Addr -> Blocks]
    BY DEF Books
  <2> HIDE DEF Header, Freed
  <2> QED
    BY <2>1
<1> QED
  BY <1>2, <1>3

\* The contents of block a change.
LEMMA BooksFilled ==
  ASSUME NEW h, NEW l, NEW L, Books(h, l, L), NEW a \in Addr, NEW s \in Seq(Stuff),
         Len(s) = h[a].len
  PROVE  Books([h EXCEPT ![a].data = s], l, L)
<1> DEFINE g == [h EXCEPT ![a].data = s]
<1>1. /\ g \in [Addr -> Blocks]
      /\ g[a].magic = h[a].magic /\ g[a].len = h[a].len /\ g[a].data = s
      /\ \A x \in Addr \ {a} : g[x] = h[x]
  BY DEF Books, Blocks
<1> HIDE DEF g
<1>2. L = {x \in Addr : g[x].magic = "alloc"}
  BY <1>1 DEF Books
<1>3. \A x \in Addr : g[x].len = Len(g[x].data)
  BY <1>1 DEF Books
<1> QED
  BY <1>1, <1>2, <1>3, Zenon DEF Books, g

\* What the invariant says of the books and of the rest.
LEMMA InvFromBooks ==
  ASSUME NEW L, Books(heap', alloc_list', L),
         Held' \subseteq Addr, owned' \in [Held' -> Seq(Stuff)],
         buf' \in Addr \union {NULL}, room' \in Nat, cwd' \in Nat, rel' \in Nat,
         L = Held' \union ({buf'} \ {NULL}), buf' \notin Held',
         \A a \in Held' : Holds(owned'[a], heap'[a].data),
         call' = "none" => buf' = NULL /\ ~stream',
         call' # "none" => leaks' = NULL /\ (buf' # NULL => heap'[buf'].len = room'),
         leaks' = NULL
  PROVE  MemoryInv'
<1>1. L = Live'
  BY Zenon DEF Books, Live
<1> QED
  BY <1>1, Zenon DEF MemoryInv, MemoryTypes, Books

\* A block of its own for the program.
LEMMA MemdupKeeps ==
  ASSUME MemoryInv, NEW a \in Addr, NEW s \in Seq(Stuff), os_memdup(a, s)
  PROVE  MemoryInv'
<1>1. /\ a \in Fresh /\ heap' = [heap EXCEPT ![a] = Header("alloc", s)]
      /\ alloc_list' = <<a>> \o alloc_list
      /\ owned' = [x \in Held \union {a} |-> IF x = a THEN s ELSE owned[x]]
      /\ UNCHANGED <<call, buf, room, cwd, rel, stream>> /\ leaks' = NULL /\ call = "none"
  BY Zenon DEF os_memdup, os_malloc, Owns, local, Idle
<1>2. /\ Held \subseteq Addr /\ owned \in [Held -> Seq(Stuff)] /\ heap \in [Addr -> Blocks]
      /\ room \in Nat /\ cwd \in Nat /\ rel \in Nat
      /\ buf = NULL /\ ~stream /\ Live = Held
      /\ \A x \in Held : Holds(owned[x], heap[x].data)
  BY <1>1 DEF MemoryInv, MemoryTypes
<1>3. a \in Addr \ Live
  BY <1>1 DEF Fresh, Live
<1>4. Books(heap', alloc_list', Live \union {a})
  BY <1>1, <1>3, BooksOf, BooksLinked
<1>5. Held' = Held \union {a} /\ owned' \in [Held' -> Seq(Stuff)]
  BY <1>1, <1>2 DEF Held
<1>6. \A x \in Held' : Holds(owned'[x], heap'[x].data)
  <2>1. owned'[a] = s /\ heap'[a].data = s
    BY <1>1, <1>2, Headers
  <2>2. \A x \in Held : x # a /\ owned'[x] = owned[x] /\ heap'[x] = heap[x]
    BY <1>1, <1>2, <1>3
  <2> QED
    BY <1>2, <1>5, <2>1, <2>2, Copies
<1>7. buf' = NULL /\ NULL \notin Held' /\ Live \union {a} = Held' \union ({buf'} \ {NULL})
  BY <1>1, <1>2, <1>5, MemoryAssumption
<1> QED
  BY <1>1, <1>2, <1>4, <1>5, <1>6, <1>7, InvFromBooks

LEMMA FreeKeeps ==
  ASSUME MemoryInv, NEW a, os_free(a)
  PROVE  MemoryInv'
<1>1. /\ a \in Held /\ heap' = [heap EXCEPT ![a] = Freed]
      /\ alloc_list' = RemoveFirst(alloc_list, a)
      /\ owned' = [x \in Held \ {a} |-> owned[x]]
      /\ UNCHANGED <<call, buf, room, cwd, rel, stream>> /\ leaks' = NULL /\ call = "none"
  BY Zenon DEF os_free, Unlinked, local, Idle
<1>2. /\ Held \subseteq Addr /\ owned \in [Held -> Seq(Stuff)] /\ heap \in [Addr -> Blocks]
      /\ room \in Nat /\ cwd \in Nat /\ rel \in Nat
      /\ buf = NULL /\ ~stream /\ Live = Held
      /\ \A x \in Held : Holds(owned[x], heap[x].data)
  BY <1>1 DEF MemoryInv, MemoryTypes
<1>3. Books(heap', alloc_list', Live \ {a})
  BY <1>1, <1>2, BooksOf, BooksFreed
<1>4. Held' = Held \ {a} /\ owned' \in [Held' -> Seq(Stuff)]
  BY <1>1, <1>2 DEF Held
<1>5. \A x \in Held' : Holds(owned'[x], heap'[x].data)
  <2>1. \A x \in Held' : owned'[x] = owned[x] /\ heap'[x] = heap[x]
    BY <1>1, <1>2, <1>4
  <2> QED
    BY <1>2, <1>4, <2>1
<1>6. buf' = NULL /\ NULL \notin Held' /\ Live \ {a} = Held' \union ({buf'} \ {NULL})
  BY <1>1, <1>2, <1>4, MemoryAssumption
<1> QED
  BY <1>1, <1>2, <1>3, <1>4, <1>5, <1>6, InvFromBooks

\* An array is resized: its members are kept as far as there is room, and the
\* new ones are cleared.
LEMMA Resizing ==
  ASSUME NEW o \in Seq(Stuff), NEW a \in Addr, heap \in [Addr -> Blocks],
         heap[a].len = Len(heap[a].data), Holds(o, heap[a].data), NEW k \in Nat
  PROVE  /\ Cleared(o, k, Len(o)) \in Seq(Stuff)
         /\ Cleared(Resized(a, k), k, Len(o)) = Cleared(o, k, Len(o))
<1> DEFINE d == heap[a].data
           had == Len(o)
<1>1. had \in Nat /\ \A i \in 1..had : o[i] \in Stuff
  BY LenProperties
<1>2. d \in Seq(Stuff)
  BY DEF Blocks
<1>3. Len(d) \in Nat /\ had <= Len(d) /\ \A i \in 1..had : o[i] = d[i]
  BY <1>2, LenProperties DEF Holds
<1>4. Cleared(o, k, had) \in Seq(Stuff)
  <2>1. \A i \in 1..k : (IF i <= had THEN o[i] ELSE Zero) \in Stuff
    BY <1>1 DEF Stuff
  <2> HIDE DEF had
  <2> QED
    BY <2>1 DEF Cleared
<1>5. ASSUME NEW i \in 1..k, i <= had PROVE Resized(a, k)[i] = o[i]
  BY <1>1, <1>3, <1>5 DEF Resized
<1>6. Cleared(Resized(a, k), k, had) = Cleared(o, k, had)
  <2> HIDE DEF had
  <2> QED
    BY <1>5 DEF Cleared
<1> QED
  BY <1>4, <1>6

LEMMA ReallocKeeps ==
  ASSUME MemoryInv, NEW a, NEW new \in Addr, NEW k \in Nat, os_realloc_array(a, new, k)
  PROVE  MemoryInv'
<1> DEFINE c == Cleared(owned[a], k, Len(owned[a]))
           e == Cleared(Resized(a, k), k, Len(owned[a]))
<1>1. /\ a \in Held /\ new \in Fresh
      /\ heap' = [heap EXCEPT
           ![new] = Header("alloc", e), ![a] = Freed]
      /\ owned' = [x \in (Held \ {a}) \union {new} |-> IF x = new THEN c ELSE owned[x]]
      /\ alloc_list' = <<new>> \o RemoveFirst(alloc_list, a)
      /\ UNCHANGED <<call, buf, room, cwd, rel, stream>> /\ leaks' = NULL /\ call = "none"
  BY Zenon DEF os_realloc_array, Unlinked, local, Idle
<1>2. /\ Held \subseteq Addr /\ owned \in [Held -> Seq(Stuff)] /\ heap \in [Addr -> Blocks]
      /\ room \in Nat /\ cwd \in Nat /\ rel \in Nat
      /\ buf = NULL /\ ~stream /\ Live = Held
      /\ \A x \in Held : Holds(owned[x], heap[x].data)
      /\ heap[a].len = Len(heap[a].data)
  BY <1>1 DEF MemoryInv, MemoryTypes
<1>3. c \in Seq(Stuff) /\ e = c
  BY <1>1, <1>2, Resizing
<1> HIDE DEF c, e
<1>4. new \in Addr \ Live /\ a \in Live /\ a # new
  BY <1>1, <1>2 DEF Fresh, Live
<1>5. Books(heap', alloc_list', (Live \ {a}) \union {new})
  BY <1>1, <1>3, <1>4, BooksOf, BooksMoved, Zenon
<1>6. Held' = (Held \ {a}) \union {new} /\ owned' \in [Held' -> Seq(Stuff)]
  BY <1>1, <1>2, <1>3 DEF Held
<1>7. \A x \in Held' : Holds(owned'[x], heap'[x].data)
  <2>1. owned'[new] = c /\ heap'[new].data = e
    BY <1>1, <1>2, <1>3, <1>4, Headers
  <2>2. \A x \in Held \ {a} : x # new /\ owned'[x] = owned[x] /\ heap'[x] = heap[x]
    BY <1>1, <1>2, <1>4
  <2> QED
    BY <1>2, <1>3, <1>6, <2>1, <2>2, Copies
<1>8. /\ buf' = NULL /\ NULL \notin Held'
      /\ (Live \ {a}) \union {new} = Held' \union ({buf'} \ {NULL})
  BY <1>1, <1>2, <1>6, MemoryAssumption
<1> QED
  BY <1>1, <1>2, <1>5, <1>6, <1>7, <1>8, InvFromBooks

\* A member is removed: what moves up is what comes after it.
LEMMA RemoveKeeps ==
  ASSUME MemoryInv, NEW a, NEW i, os_remove_in_array(a, i)
  PROVE  MemoryInv'
<1> DEFINE o == owned[a]
           d == heap[a].data
           c == [k \in DOMAIN d |-> IF k \in i..(Len(o) - 1) THEN d[k + 1] ELSE d[k]]
<1>1. /\ a \in Held /\ i \in 1..Len(o)
      /\ heap' = [heap EXCEPT ![a].data =
           [k \in DOMAIN @ |-> IF k \in i..(Len(o) - 1) THEN @[k + 1] ELSE @[k]]]
      /\ owned' = [owned EXCEPT ![a] = RemoveAt(@, i)] /\ alloc_list' = alloc_list
      /\ UNCHANGED <<call, buf, room, cwd, rel, stream>> /\ leaks' = NULL /\ call = "none"
  BY Zenon DEF os_remove_in_array, local, Idle
<1>2. /\ Held \subseteq Addr /\ owned \in [Held -> Seq(Stuff)] /\ heap \in [Addr -> Blocks]
      /\ room \in Nat /\ cwd \in Nat /\ rel \in Nat
      /\ buf = NULL /\ ~stream /\ Live = Held
      /\ \A x \in Held : Holds(owned[x], heap[x].data)
      /\ heap[a].len = Len(d)
  BY <1>1 DEF MemoryInv, MemoryTypes
<1>3. heap' = [heap EXCEPT ![a].data = c]
  BY <1>1, <1>2
<1>4. owned' = [owned EXCEPT ![a] = RemoveAt(o, i)]
  BY <1>1, <1>2
<1>5. o \in Seq(Stuff) /\ d \in Seq(Stuff) /\ Holds(o, d) /\ a \in Addr
  BY <1>1, <1>2 DEF Blocks
<1> DEFINE r == RemoveAt(o, i)
<1>6. r \in Seq(Stuff) /\ c \in Seq(Stuff) /\ Len(c) = Len(d) /\ Holds(r, c)
  <2> DEFINE z == Len(o)
  <2>1. /\ z \in Nat /\ Len(d) \in Nat /\ z <= Len(d) /\ DOMAIN d = 1..Len(d)
        /\ \A k \in 1..Len(d) : d[k] \in Stuff
        /\ \A k \in 1..z : o[k] = d[k]
    BY <1>5, LenProperties DEF Holds
  <2>2. /\ r \in Seq(Stuff) /\ Len(r) = z - 1
        /\ \A k \in 1..(z - 1) : r[k] = IF k < i THEN o[k] ELSE o[k + 1]
    BY <1>1, <1>5, TakenOut
  <2> HIDE DEF r, o, z
  <2>3. c = [k \in 1..Len(d) |-> IF k \in i..(Len(o) - 1) THEN d[k + 1] ELSE d[k]]
    BY <2>1
  <2> HIDE DEF d, c
  <2>4. i \in Nat /\ i >= 1 /\ i <= z
    BY <1>1, <2>1 DEF o, z
  <2>5. \A k \in 1..Len(d) : (IF k \in i..(Len(o) - 1) THEN d[k + 1] ELSE d[k]) \in Stuff
    BY <2>1, <2>4 DEF z
  <2>6. c \in [1..Len(d) -> Stuff]
    BY <2>3, <2>5
  <2>7. c \in Seq(Stuff) /\ Len(c) = Len(d)
    BY <2>1, <2>6
  <2>8. ASSUME NEW k \in 1..(z - 1) PROVE r[k] = c[k]
    <3>1. k \in 1..z /\ k + 1 \in 1..z /\ k \in 1..Len(d)
      BY <2>1
    <3>2. CASE k < i
      BY <2>1, <2>2, <2>3, <2>4, <3>1, <3>2 DEF z
    <3>3. CASE ~ (k < i)
      <4>1. k \in i..(Len(o) - 1)
        BY <2>1, <2>4, <3>3 DEF z
      <4>2. c[k] = d[k + 1]
        BY <2>3, <3>1, <4>1
      <4> QED
        BY <2>1, <2>2, <3>1, <3>3, <4>2
    <3> QED
      BY <3>2, <3>3
  <2>9. Holds(r, c)
    BY <2>1, <2>2, <2>7, <2>8 DEF Holds
  <2> QED
    BY <2>2, <2>7, <2>9
<1> HIDE DEF c, r
<1>7. Books(heap', alloc_list', Live)
  <2>1. Books(heap, alloc_list, Live)
    BY BooksOf
  <2>2. Len(c) = heap[a].len /\ a \in Addr
    BY <1>2, <1>5, <1>6
  <2>3. Books([heap EXCEPT ![a].data = c], alloc_list, Live)
    BY <1>6, <2>1, <2>2, BooksFilled
  <2> QED
    BY <1>1, <1>3, <2>3, Zenon
<1>8. Held' = Held /\ owned' \in [Held' -> Seq(Stuff)]
  BY <1>1, <1>2, <1>4, <1>6 DEF Held, r
<1>9. \A x \in Held' : Holds(owned'[x], heap'[x].data)
  <2>1. owned'[a] = r /\ heap'[a].data = c
    BY <1>1, <1>2, <1>3, <1>4, <1>5 DEF r, Blocks
  <2>2. \A x \in Held : x # a => owned'[x] = owned[x] /\ heap'[x] = heap[x]
    BY <1>2, <1>3, <1>4
  <2> QED
    BY <1>2, <1>6, <1>8, <2>1, <2>2
<1>10. buf' = NULL /\ NULL \notin Held' /\ Live = Held' \union ({buf'} \ {NULL})
  BY <1>1, <1>2, <1>8, MemoryAssumption
<1> QED
  BY <1>1, <1>2, <1>7, <1>8, <1>9, <1>10, InvFromBooks

\* The report: the blocks linked are those owned.
LEMMA DeinitKeeps == MemoryInv /\ os_program_deinit => MemoryInv'
<1> SUFFICES ASSUME MemoryInv, os_program_deinit PROVE MemoryInv'
  OBVIOUS
<1>1. /\ leaks' = [blocks |-> {a \in ToSet(alloc_list) : heap[a].magic = "alloc"},
                   total |-> Total(alloc_list)]
      /\ UNCHANGED <<heap, alloc_list, owned, call, buf, room, cwd, rel, stream>>
      /\ call = "none"
  BY Zenon DEF os_program_deinit, local, Idle
<1>2. /\ heap \in [Addr -> Blocks] /\ alloc_list \in Seq(Addr)
      /\ ToSet(alloc_list) = Live /\ Live = Held
  BY <1>1, MemoryAssumption DEF MemoryInv, MemoryTypes
<1>3. leaks'.blocks = Held
  BY <1>1, <1>2 DEF Live
<1>4. leaks'.total = 0 <=> \A a \in Held : heap[a].len = 0
  <2>1. Total(alloc_list) = 0 <=> \A a \in Held : heap[a].len = 0
    BY <1>2, TotalIsZero, Zenon
  <2>2. leaks'.total = Total(alloc_list)
    BY <1>1
  <2> QED
    BY <2>1, <2>2, Zenon
<1> QED
  BY <1>1, <1>3, <1>4, Zenon DEF MemoryInv, MemoryTypes, Held, Live

\* A call that allocates on its own begins.
LEMMA BeginKeeps ==
  ASSUME MemoryInv, Idle, UNCHANGED <<heap, alloc_list, owned, buf, leaks>>,
         room' \in Nat, cwd' \in Nat, rel' \in Nat, call' # "none"
  PROVE  MemoryInv'
<1>1. buf' = NULL /\ leaks' = NULL
  BY Zenon DEF Idle, MemoryInv
<1> QED
  BY <1>1, Zenon DEF MemoryInv, MemoryTypes, Held, Live

LEMMA AllocBufKeeps ==
  ASSUME MemoryInv, NEW a \in Addr, AllocBuf(a)
  PROVE  MemoryInv'
<1> DEFINE s == Filled(room, Junk)
<1>1. /\ a \in Fresh /\ heap' = [heap EXCEPT ![a] = Header("alloc", s)]
      /\ alloc_list' = <<a>> \o alloc_list /\ buf' = a
      /\ UNCHANGED <<owned, call, room, cwd, rel, stream, leaks>>
      /\ call # "none" /\ buf = NULL
  BY Zenon DEF AllocBuf, os_malloc
<1>2. /\ Held \subseteq Addr /\ owned \in [Held -> Seq(Stuff)] /\ heap \in [Addr -> Blocks]
      /\ room \in Nat /\ cwd \in Nat /\ rel \in Nat
      /\ leaks = NULL /\ Live = Held
      /\ \A x \in Held : Holds(owned[x], heap[x].data)
  BY <1>1 DEF MemoryInv, MemoryTypes
<1>3. s \in Seq(Stuff) /\ Len(s) = room
  BY <1>2, Fillings DEF Stuff
<1> HIDE DEF s
<1>4. a \in Addr \ Live
  BY <1>1 DEF Fresh, Live
<1>5. Books(heap', alloc_list', Live \union {a})
  BY <1>1, <1>3, <1>4, BooksOf, BooksLinked
<1>6. \A x \in Held : Holds(owned[x], heap'[x].data)
  <2>1. \A x \in Held : heap'[x] = heap[x]
    BY <1>1, <1>2, <1>4
  <2> QED
    BY <1>2, <2>1
<1>7. Held' = Held /\ Live \union {a} = Held' \union ({buf'} \ {NULL}) /\ buf' \notin Held'
  BY <1>1, <1>2, <1>4, MemoryAssumption DEF Held
<1>8. heap'[a].len = room
  BY <1>1, <1>2, <1>3, Headers
<1> QED
  BY <1>1, <1>2, <1>5, <1>6, <1>7, <1>8, InvFromBooks

\* What a call gives back when it is over, or tries again.
LEMMA NoBufKeeps == MemoryInv /\ NoBuf => MemoryInv'
<1> SUFFICES ASSUME MemoryInv, NoBuf PROVE MemoryInv'
  OBVIOUS
<1>1. /\ UNCHANGED <<heap, alloc_list, owned, leaks>> /\ buf = NULL /\ call # "none"
      /\ call' = "none" /\ buf' = NULL /\ room' = 0 /\ cwd' = 0 /\ rel' = 0 /\ ~stream'
  BY Zenon DEF NoBuf, Return
<1>2. 0 \in Nat /\ leaks' = NULL
  BY <1>1 DEF MemoryInv
<1> QED
  BY <1>1, <1>2, Zenon DEF MemoryInv, MemoryTypes, Held, Live

LEMMA FreeBufKeeps ==
  ASSUME MemoryInv, buf # NULL, FreeBuf, UNCHANGED <<owned, leaks>>, buf' = NULL,
         room' \in Nat, cwd' \in Nat, rel' \in Nat, call' = "none" => ~stream'
  PROVE  MemoryInv'
<1>1. /\ heap' = [heap EXCEPT ![buf] = Freed] /\ alloc_list' = RemoveFirst(alloc_list, buf)
  BY Zenon DEF FreeBuf, Unlinked
<1>2. /\ Held \subseteq Addr /\ owned \in [Held -> Seq(Stuff)] /\ heap \in [Addr -> Blocks]
      /\ leaks = NULL /\ Live = Held \union {buf} /\ buf \notin Held /\ buf \in Addr
      /\ \A x \in Held : Holds(owned[x], heap[x].data)
  BY DEF MemoryInv, MemoryTypes
<1>3. Books(heap', alloc_list', Live \ {buf})
  BY <1>1, <1>2, BooksOf, BooksFreed
<1>4. \A x \in Held : Holds(owned[x], heap'[x].data)
  <2>1. \A x \in Held : heap'[x] = heap[x]
    BY <1>1, <1>2
  <2> QED
    BY <1>2, <2>1
<1>5. Held' = Held /\ Live \ {buf} = Held' \union ({buf'} \ {NULL}) /\ NULL \notin Held'
  BY <1>2, MemoryAssumption DEF Held
<1> QED
  BY <1>2, <1>3, <1>4, <1>5, InvFromBooks

LEMMA TooSmallKeeps == MemoryInv /\ TooSmall => MemoryInv'
<1> SUFFICES ASSUME MemoryInv, TooSmall PROVE MemoryInv'
  OBVIOUS
<1>1. /\ buf # NULL /\ FreeBuf /\ UNCHANGED <<owned, leaks>> /\ buf' = NULL
      /\ call # "none"
      /\ \/ Return
         \/ room' = room * 2 /\ UNCHANGED <<call, cwd, rel, stream>>
  BY DEF TooSmall, Return
<1>2. room' \in Nat /\ cwd' \in Nat /\ rel' \in Nat /\ (call' = "none" => ~stream')
  BY <1>1 DEF Return, MemoryInv, MemoryTypes
<1> QED
  BY <1>1, <1>2, FreeBufKeeps

LEMMA GivesUpKeeps == MemoryInv /\ GivesUp => MemoryInv'
<1> SUFFICES ASSUME MemoryInv, GivesUp PROVE MemoryInv'
  OBVIOUS
<1>1. /\ buf # NULL /\ FreeBuf /\ UNCHANGED <<owned, leaks>> /\ buf' = NULL
      /\ room' = 0 /\ cwd' = 0 /\ rel' = 0 /\ ~stream'
  BY DEF GivesUp, Return
<1> QED
  BY <1>1, FreeBufKeeps

\* The path takes the place of the buffer.
LEMMA JoinKeeps ==
  ASSUME MemoryInv, NEW a \in Addr, Join(a)
  PROVE  MemoryInv'
<1> DEFINE s == Filled(cwd + 1 + rel + 1, Zero)
<1>1. /\ a \in Fresh /\ buf # NULL
      /\ heap' = [heap EXCEPT ![a] = Header("alloc", s), ![buf] = Freed]
      /\ owned' = [x \in Held \union {a} |-> IF x = a THEN s ELSE owned[x]]
      /\ alloc_list' = <<a>> \o RemoveFirst(alloc_list, buf)
      /\ call' = "none" /\ buf' = NULL /\ room' = 0 /\ cwd' = 0 /\ rel' = 0 /\ ~stream'
      /\ leaks' = leaks
  BY Zenon DEF Join, Owns, Unlinked, Return
<1>2. /\ Held \subseteq Addr /\ owned \in [Held -> Seq(Stuff)] /\ heap \in [Addr -> Blocks]
      /\ leaks = NULL /\ Live = Held \union {buf} /\ buf \notin Held /\ buf \in Addr
      /\ \A x \in Held : Holds(owned[x], heap[x].data)
      /\ cwd \in Nat /\ rel \in Nat
  BY <1>1 DEF MemoryInv, MemoryTypes
<1>3. s \in Seq(Stuff)
  <2>1. cwd + 1 + rel + 1 \in Nat
    BY <1>2
  <2> QED
    BY <2>1, Fillings DEF Stuff
<1> HIDE DEF s
<1>4. a \in Addr \ Live /\ buf \in Live
  BY <1>1, <1>2 DEF Fresh, Live
<1>5. Books(heap', alloc_list', (Live \ {buf}) \union {a})
  BY <1>1, <1>3, <1>4, BooksOf, BooksMoved, Zenon
<1>6. Held' = Held \union {a} /\ owned' \in [Held' -> Seq(Stuff)]
  BY <1>1, <1>2, <1>3 DEF Held
<1>7. \A x \in Held' : Holds(owned'[x], heap'[x].data)
  <2>1. owned'[a] = s /\ heap'[a].data = s
    BY <1>1, <1>2, <1>3, <1>4, Headers
  <2>2. \A x \in Held : x # a /\ owned'[x] = owned[x] /\ heap'[x] = heap[x]
    BY <1>1, <1>2, <1>4
  <2> QED
    BY <1>2, <1>3, <1>6, <2>1, <2>2, Copies
<1>8. NULL \notin Held' /\ (Live \ {buf}) \union {a} = Held' \union ({buf'} \ {NULL})
  BY <1>1, <1>2, <1>6, MemoryAssumption
<1> QED
  BY <1>1, <1>2, <1>5, <1>6, <1>7, <1>8, InvFromBooks

\* The buffer becomes the caller's.
LEMMA ReadWholeKeeps == MemoryInv /\ ReadWhole => MemoryInv'
<1> SUFFICES ASSUME MemoryInv, ReadWhole PROVE MemoryInv'
  OBVIOUS
<1> DEFINE s == Filled(room, Zero)
<1>1. /\ buf # NULL /\ call # "none"
      /\ heap' = [heap EXCEPT ![buf].data = s]
      /\ owned' = [x \in Held \union {buf} |-> IF x = buf THEN s ELSE owned[x]]
      /\ alloc_list' = alloc_list
      /\ call' = "none" /\ buf' = NULL /\ room' = 0 /\ cwd' = 0 /\ rel' = 0 /\ ~stream'
      /\ leaks' = leaks
  BY DEF ReadWhole, Owns, Return
<1>2. /\ Held \subseteq Addr /\ owned \in [Held -> Seq(Stuff)] /\ heap \in [Addr -> Blocks]
      /\ leaks = NULL /\ Live = Held \union {buf} /\ buf \notin Held /\ buf \in Addr
      /\ \A x \in Held : Holds(owned[x], heap[x].data)
      /\ room \in Nat /\ heap[buf].len = room
  BY <1>1 DEF MemoryInv, MemoryTypes
<1>3. s \in Seq(Stuff) /\ Len(s) = heap[buf].len
  BY <1>2, Fillings DEF Stuff
<1> HIDE DEF s
<1>4. Books(heap', alloc_list', Live)
  <2>1. Books([heap EXCEPT ![buf].data = s], alloc_list, Live)
    BY <1>2, <1>3, BooksOf, BooksFilled
  <2> QED
    BY <1>1, <2>1, Zenon
<1>5. Held' = Held \union {buf} /\ owned' \in [Held' -> Seq(Stuff)]
  BY <1>1, <1>2, <1>3 DEF Held
<1>6. \A x \in Held' : Holds(owned'[x], heap'[x].data)
  <2>1. owned'[buf] = s /\ heap'[buf].data = s
    BY <1>1, <1>2 DEF Blocks
  <2>2. \A x \in Held : x # buf /\ owned'[x] = owned[x] /\ heap'[x] = heap[x]
    BY <1>1, <1>2
  <2> QED
    BY <1>2, <1>3, <1>5, <2>1, <2>2, Copies
<1>7. NULL \notin Held' /\ Live = Held' \union ({buf'} \ {NULL})
  BY <1>1, <1>2, <1>5, MemoryAssumption
<1> QED
  BY <1>1, <1>2, <1>4, <1>5, <1>6, <1>7, InvFromBooks

LEMMA MemoryKeeps == MemoryInv /\ MemoryNext => MemoryInv'
<1> SUFFICES ASSUME MemoryInv, MemoryNext PROVE MemoryInv'
  OBVIOUS
<1>1. CASE \E a \in Addr, s \in BoundedSeq(Member, MaxMembers) : os_memdup(a, s)
  BY <1>1, MemdupKeeps, Fillings, MemoryAssumption
<1>2. CASE \E a \in Addr, k \in 0..MaxMembers : os_calloc(a, k)
  <2>1. PICK a \in Addr, k \in 0..MaxMembers : os_memdup(a, Filled(k, Zero))
    BY <1>2 DEF os_calloc
  <2>2. k \in Nat /\ Zero \in Stuff
    BY DEF Stuff
  <2>3. Filled(k, Zero) \in Seq(Stuff)
    BY <2>2, Fillings
  <2> QED
    BY <2>1, <2>3, MemdupKeeps
<1>3. CASE \E a \in Held : os_free(a)
  BY <1>3, FreeKeeps
<1>4. CASE \E a \in Arrays, new \in Addr, k \in 1..MaxMembers : os_realloc_array(a, new, k)
  <2>1. \A k \in 1..MaxMembers : k \in Nat
    OBVIOUS
  <2> QED
    BY <1>4, <2>1, ReallocKeeps, Zenon
<1>5. CASE \E a \in Arrays : \E i \in 1..Len(owned[a]) : os_remove_in_array(a, i)
  BY <1>5, RemoveKeeps, Zenon
<1>6. CASE \E c \in CwdLen, r \in RelLen : Rel2Abs(c, r)
  <2>1. /\ Idle /\ UNCHANGED <<heap, alloc_list, owned, buf, leaks>>
        /\ room' = 128 /\ cwd' \in CwdLen /\ rel' \in RelLen /\ call' # "none"
    BY <1>6 DEF Rel2Abs
  <2>2. room' \in Nat /\ cwd' \in Nat /\ rel' \in Nat
    BY <2>1, MemoryAssumption
  <2> QED
    BY <2>1, <2>2, BeginKeeps
<1>7. CASE \E a \in Addr : AllocBuf(a) \/ Join(a)
  BY <1>7, AllocBufKeeps, JoinKeeps, Zenon
<1>8. CASE \E z \in FileLen : ReadFile(z)
  <2>1. /\ Idle /\ UNCHANGED <<heap, alloc_list, owned, buf, leaks, cwd, rel>>
        /\ room' \in FileLen /\ call' # "none"
    BY <1>8 DEF ReadFile
  <2>2. room' \in Nat /\ cwd' \in Nat /\ rel' \in Nat
    BY <2>1, MemoryAssumption DEF MemoryInv, MemoryTypes
  <2> QED
    BY <2>1, <2>2, BeginKeeps
<1>9. CASE TooSmall \/ GivesUp \/ NoBuf \/ ReadWhole \/ os_program_deinit
  BY <1>9, TooSmallKeeps, GivesUpKeeps, NoBufKeeps, ReadWholeKeeps, DeinitKeeps, Zenon
<1> QED
  BY <1>1, <1>2, <1>3, <1>4, <1>5, <1>6, <1>7, <1>8, <1>9, Zenon DEF MemoryNext

\* Whatever is allocated, resized, freed or read in whatever order, and
\* wherever a call runs out of memory: what is linked is exactly what somebody
\* has, a block holds what its owner made it hold, and the report of
\* os_program_deinit is of the blocks still owned (os_unix.c, WPA_TRACE).
THEOREM Memory == Spec => []HeapInv
<1>1. Init => MemoryInv
  BY MemoryStarts, Zenon DEF Init
<1>2. MemoryInv /\ [Next]_vars => MemoryInv'
  <2> SUFFICES ASSUME MemoryInv, [Next]_vars PROVE MemoryInv'
    OBVIOUS
  <2>1. CASE MemoryNext
    BY <2>1, MemoryKeeps
  <2>2. CASE UNCHANGED memory
    BY <2>2, Zenon DEF memory, MemoryInv, MemoryTypes, Held, Live
  <2> QED
    BY <2>1, <2>2, Zenon DEF Next, vars
<1>3. MemoryInv => HeapInv
  BY MemoryInvSuffices
<1> QED
  BY <1>1, <1>2, <1>3, PTL DEF Spec

-----------------------------------------------------------------------------
(* Fault injection                                                         *)

Mode == {"", "=", "?"}

\* A pattern and a backtrace.
Chain(p) == p \in Seq([mode : Mode, name : STRING]) /\ p # <<>>
Trace(f) == f \in Seq(STRING)

LEMMA Lengths ==
  ASSUME NEW p, Chain(p), NEW f, Trace(f)
  PROVE  /\ Len(p) \in Nat \ {0} /\ DOMAIN p = 1..Len(p) /\ Len(f) \in Nat
         /\ \A j \in 1..Len(p) : p[j].mode \in Mode
<1>1. Len(p) \in Nat /\ Len(p) # 0 /\ \A j \in 1..Len(p) : p[j] \in [mode : Mode, name : STRING]
  BY LenProperties, EmptySeq DEF Chain
<1>2. Len(f) \in Nat /\ DOMAIN p = 1..Len(p)
  BY LenProperties DEF Trace, Chain
<1> QED
  BY <1>1, <1>2

\* What the loop does with frame i and name j.
Turn(p, f, g, i, j) ==
  IF i > Len(f) THEN 0
  ELSE IF Fits(p[j], f[i]) THEN IF j = Len(p) THEN i ELSE g[<<i + 1, j + 1>>]
  ELSE IF p[j].mode = "?" /\ j < Len(p) THEN g[<<i, j + 1>>]
  ELSE IF p[j].mode = "=" THEN 0 ELSE g[<<i + 1, j>>]

\* The loop ends: it is a recursion over what is left of frames and names.
LEMMA LoopEnds ==
  ASSUME NEW p, Chain(p), NEW f, Trace(f)
  PROVE  \A i \in 1..(Len(f) + 1), j \in 1..Len(p) :
           Found(p, f)[<<i, j>>] = Turn(p, f, Found(p, f), i, j)
<1> DEFINE lf == Len(f)
           lp == Len(p)
           D == (1..(lf + 1)) \X (1..lp)
           Step(g, x) == Turn(p, f, g, x[1], x[2])
           E(k) == {x \in D : x[1] + x[2] + k >= lf + 1 + lp}
           Loop(g, k) == g = [x \in E(k) |-> Step(g, x)]
           found == CHOOSE g : g = [x \in D |-> Step(g, x)]
<1>1. lf \in Nat /\ lp \in Nat \ {0}
  BY Lengths
<1>2. Found(p, f) = found
  BY DEF Found, Turn
<1>3. \A k \in Nat : \A x \in E(k + 1) :
        \A g, h : (\A y \in E(k) : g[y] = h[y]) => Step(g, x) = Step(h, x)
  <2> SUFFICES ASSUME NEW k \in Nat, NEW x \in E(k + 1),
                      NEW g, NEW h, \A y \in E(k) : g[y] = h[y]
               PROVE  Step(g, x) = Step(h, x)
    OBVIOUS
  <2>1. PICK i \in 1..(lf + 1), j \in 1..lp : x = <<i, j>> /\ i + j + (k + 1) >= lf + 1 + lp
    <3>1. x[1] \in 1..(lf + 1) /\ x[2] \in 1..lp /\ x = <<x[1], x[2]>>
      OBVIOUS
    <3> QED
      BY <3>1
  <2> HIDE DEF lf, lp
  <2>2. i <= lf /\ j < lp => <<i + 1, j + 1>> \in E(k)
    BY <1>1, <2>1
  <2>3. j < lp => <<i, j + 1>> \in E(k)
    BY <1>1, <2>1
  <2>4. i <= lf => <<i + 1, j>> \in E(k)
    BY <1>1, <2>1
  <2>5. \A y \in E(k) : g[y] = h[y]
    OBVIOUS
  <2> HIDE DEF E
  <2>6. j # lp => j < lp
    BY <1>1, <2>1
  <2>7. ~ (i > lf) => i <= lf
    BY <1>1, <2>1
  <2>8. x[1] = i /\ x[2] = j
    BY <2>1
  <2> QED
    BY <2>2, <2>3, <2>4, <2>5, <2>6, <2>7, <2>8 DEF Turn, lf, lp
<1> HIDE DEF Step
<1>4. \A k \in Nat : \E g : Loop(g, k)
  <2> DEFINE T == {k \in Nat : \E g : Loop(g, k)}
  <2>1. 0 \in T
    <3> DEFINE g == [x \in E(0) |-> 0]
    <3>1. ASSUME NEW x \in E(0) PROVE Step(g, x) = 0
      <4>1. x[1] = lf + 1
        BY <1>1
      <4> QED
        BY <1>1, <4>1 DEF Step, Turn
    <3>2. Loop(g, 0)
      BY <3>1
    <3> QED
      BY <3>2
  <2>2. ASSUME NEW k \in Nat, k \in T PROVE k + 1 \in T
    <3>1. PICK g : Loop(g, k)
      BY <2>2
    <3> DEFINE h == [x \in E(k + 1) |-> Step(g, x)]
    <3>2. \A x \in E(k) : x \in E(k + 1)
      BY <1>1
    <3>3. \A x \in E(k) : h[x] = g[x]
      <4> HIDE DEF E
      <4> QED
        BY <3>1, <3>2
    <3>4. \A x \in E(k + 1) : Step(h, x) = Step(g, x)
      <4> HIDE DEF E, h
      <4> QED
        BY <1>3, <3>3, Zenon
    <3>5. Loop(h, k + 1)
      <4> HIDE DEF E
      <4> QED
        BY <3>4
    <3> HIDE DEF h, Loop
    <3> QED
      BY <3>5
  <2> HIDE DEF T
  <2>3. \A k \in Nat : k \in T
    BY <2>1, <2>2, Induction
  <2> QED
    BY <2>3 DEF T
<1>5. found = [x \in D |-> Step(found, x)]
  <2>1. lf + 1 + lp \in Nat /\ E(lf + 1 + lp) = D
    BY <1>1
  <2>2. PICK g : Loop(g, lf + 1 + lp)
    BY <1>4, <2>1
  <2>3. g = [x \in D |-> Step(g, x)]
    BY <2>1, <2>2
  <2> HIDE DEF D
  <2> QED
    BY <2>3
<1> HIDE DEF found
<1>6. ASSUME NEW i \in 1..(lf + 1), NEW j \in 1..lp
      PROVE  found[<<i, j>>] = Turn(p, f, found, i, j)
  <2>1. <<i, j>> \in D
    OBVIOUS
  <2>2. found[<<i, j>>] = Step(found, <<i, j>>)
    BY <1>5, <2>1
  <2> QED
    BY <2>2 DEF Step
<1> QED
  BY <1>2, <1>6

\* The names from j on stand for the frames pl[j], pl[j + 1] .. from i on.
Lands(p, f, i, j, pl) ==
  \A k \in j..Len(p) :
    \/ pl[k] = 0 /\ p[k].mode = "?" /\ k < Len(p)
    \/ /\ pl[k] \in i..Len(f) /\ Fits(p[k], f[pl[k]])
       /\ \A b \in j..(k - 1) : pl[b] < pl[k]
       /\ p[k].mode = "=" => pl[k] = i \/ \E b \in j..(k - 1) : pl[b] = pl[k] - 1

\* What one turn of the loop makes of a placement of the rest.
LEMMA Placing ==
  ASSUME NEW p, Chain(p), NEW f, Trace(f), NEW i \in 1..Len(f), NEW j \in 1..Len(p),
         NEW pl \in [1..Len(p) -> Nat]
  PROVE  /\ Fits(p[j], f[i]) /\ (j = Len(p) \/ Lands(p, f, i + 1, j + 1, pl))
              => Lands(p, f, i, j, [pl EXCEPT ![j] = i])
         /\ p[j].mode = "?" /\ j < Len(p) /\ Lands(p, f, i, j + 1, pl)
              => Lands(p, f, i, j, [pl EXCEPT ![j] = 0])
         /\ p[j].mode # "=" /\ ~ (p[j].mode = "?" /\ j < Len(p)) /\ Lands(p, f, i + 1, j, pl)
              => Lands(p, f, i, j, pl)
<1> DEFINE lf == Len(f)
           lp == Len(p)
<1>1. lf \in Nat /\ lp \in Nat \ {0}
  BY Lengths
<1> HIDE DEF lf, lp
<1>2. i \in 1..lf /\ j \in 1..lp /\ pl \in [1..lp -> Nat]
  BY DEF lf, lp
<1>3. ASSUME Fits(p[j], f[i]), j = lp \/ Lands(p, f, i + 1, j + 1, pl)
      PROVE  Lands(p, f, i, j, [pl EXCEPT ![j] = i])
  <2> DEFINE q == [pl EXCEPT ![j] = i]
  <2>1. q[j] = i /\ \A k \in 1..lp : k # j => q[k] = pl[k]
    BY <1>2
  <2> HIDE DEF q
  <2>2. ASSUME NEW k \in (j + 1)..lp
        PROVE  \/ pl[k] = 0 /\ p[k].mode = "?" /\ k < lp
               \/ /\ pl[k] \in (i + 1)..lf /\ Fits(p[k], f[pl[k]])
                  /\ \A b \in (j + 1)..(k - 1) : pl[b] < pl[k]
                  /\ p[k].mode = "=" =>
                       pl[k] = i + 1 \/ \E b \in (j + 1)..(k - 1) : pl[b] = pl[k] - 1
    <3>1. j # lp
      BY <1>1, <1>2
    <3> QED
      BY <1>3, <3>1 DEF Lands, lp, lf
  <2>3. ASSUME NEW k \in j..lp
        PROVE  \/ q[k] = 0 /\ p[k].mode = "?" /\ k < lp
               \/ /\ q[k] \in i..lf /\ Fits(p[k], f[q[k]])
                  /\ \A b \in j..(k - 1) : q[b] < q[k]
                  /\ p[k].mode = "=" => q[k] = i \/ \E b \in j..(k - 1) : q[b] = q[k] - 1
    <3>1. CASE k = j
      BY <1>1, <1>2, <1>3, <2>1, <3>1
    <3>2. CASE k # j
      <4>1. k \in (j + 1)..lp /\ q[k] = pl[k] /\ k \in Nat
        BY <1>1, <1>2, <2>1, <3>2
      <4>2. \A b \in j..(k - 1) : b = j \/ (b \in (j + 1)..(k - 1) /\ q[b] = pl[b])
        BY <1>1, <1>2, <2>1, <4>1
      <4>3. \A b \in (j + 1)..(k - 1) : b \in j..(k - 1) /\ q[b] = pl[b]
        BY <1>1, <1>2, <2>1, <4>1
      <4>4. CASE pl[k] = 0 /\ p[k].mode = "?" /\ k < lp
        BY <4>1, <4>4
      <4>5. CASE ~ (pl[k] = 0 /\ p[k].mode = "?" /\ k < lp)
        <5>1. /\ pl[k] \in (i + 1)..lf /\ Fits(p[k], f[pl[k]])
              /\ \A b \in (j + 1)..(k - 1) : pl[b] < pl[k]
              /\ p[k].mode = "=" =>
                   pl[k] = i + 1 \/ \E b \in (j + 1)..(k - 1) : pl[b] = pl[k] - 1
          BY <2>2, <4>1, <4>5
        <5>2. q[k] \in i..lf /\ Fits(p[k], f[q[k]])
          BY <1>1, <1>2, <4>1, <5>1
        <5>3. \A b \in j..(k - 1) : q[b] < q[k]
          <6>1. i < pl[k]
            BY <1>1, <1>2, <5>1
          <6> QED
            BY <2>1, <4>1, <4>2, <5>1, <6>1
        <5>4. ASSUME p[k].mode = "=" PROVE \E b \in j..(k - 1) : q[b] = q[k] - 1
          <6>1. CASE pl[k] = i + 1
            <7>1. j \in j..(k - 1) /\ q[j] = q[k] - 1
              BY <1>1, <1>2, <2>1, <4>1, <6>1
            <7> QED
              BY <7>1
          <6>2. CASE \E b \in (j + 1)..(k - 1) : pl[b] = pl[k] - 1
            BY <4>1, <4>3, <6>2
          <6> QED
            BY <5>1, <5>4, <6>1, <6>2
        <5> QED
          BY <5>2, <5>3, <5>4
      <4> QED
        BY <4>4, <4>5
    <3> QED
      BY <3>1, <3>2
  <2> QED
    BY <2>3 DEF Lands, q, lp, lf
<1>4. ASSUME p[j].mode = "?", j < lp, Lands(p, f, i, j + 1, pl)
      PROVE  Lands(p, f, i, j, [pl EXCEPT ![j] = 0])
  <2> DEFINE q == [pl EXCEPT ![j] = 0]
  <2>1. q[j] = 0 /\ \A k \in 1..lp : k # j => q[k] = pl[k]
    BY <1>2
  <2> HIDE DEF q
  <2>2. ASSUME NEW k \in j..lp
        PROVE  \/ q[k] = 0 /\ p[k].mode = "?" /\ k < lp
               \/ /\ q[k] \in i..lf /\ Fits(p[k], f[q[k]])
                  /\ \A b \in j..(k - 1) : q[b] < q[k]
                  /\ p[k].mode = "=" => q[k] = i \/ \E b \in j..(k - 1) : q[b] = q[k] - 1
    <3>1. CASE k = j
      BY <1>4, <2>1, <3>1
    <3>2. CASE k # j
      <4>1. k \in (j + 1)..lp /\ q[k] = pl[k] /\ k \in Nat
        BY <1>1, <1>2, <2>1, <3>2
      <4>2. \A b \in j..(k - 1) : b = j \/ (b \in (j + 1)..(k - 1) /\ q[b] = pl[b])
        BY <1>1, <1>2, <2>1, <4>1
      <4>3. \A b \in (j + 1)..(k - 1) : b \in j..(k - 1) /\ q[b] = pl[b]
        BY <1>1, <1>2, <2>1, <4>1
      <4>4. CASE pl[k] = 0 /\ p[k].mode = "?" /\ k < lp
        BY <4>1, <4>4
      <4>5. CASE ~ (pl[k] = 0 /\ p[k].mode = "?" /\ k < lp)
        <5>1. /\ pl[k] \in i..lf /\ Fits(p[k], f[pl[k]])
              /\ \A b \in (j + 1)..(k - 1) : pl[b] < pl[k]
              /\ p[k].mode = "=" =>
                   pl[k] = i \/ \E b \in (j + 1)..(k - 1) : pl[b] = pl[k] - 1
          BY <1>4, <4>1, <4>5 DEF Lands, lp, lf
        <5>2. q[k] \in i..lf /\ Fits(p[k], f[q[k]])
          BY <4>1, <5>1
        <5>3. \A b \in j..(k - 1) : q[b] < q[k]
          <6>1. 0 < pl[k]
            BY <1>1, <1>2, <5>1
          <6> QED
            BY <2>1, <4>1, <4>2, <5>1, <6>1
        <5>4. p[k].mode = "=" => q[k] = i \/ \E b \in j..(k - 1) : q[b] = q[k] - 1
          BY <4>1, <4>3, <5>1
        <5> QED
          BY <5>2, <5>3, <5>4
      <4> QED
        BY <4>4, <4>5
    <3> QED
      BY <3>1, <3>2
  <2> QED
    BY <2>2 DEF Lands, q, lp, lf
<1>5. ASSUME p[j].mode # "=", ~ (p[j].mode = "?" /\ j < lp), Lands(p, f, i + 1, j, pl)
      PROVE  Lands(p, f, i, j, pl)
  <2>1. \A k \in j..lp :
          \/ pl[k] = 0 /\ p[k].mode = "?" /\ k < lp
          \/ /\ pl[k] \in (i + 1)..lf /\ Fits(p[k], f[pl[k]])
             /\ \A b \in j..(k - 1) : pl[b] < pl[k]
             /\ p[k].mode = "=" =>
                  pl[k] = i + 1 \/ \E b \in j..(k - 1) : pl[b] = pl[k] - 1
    BY <1>5 DEF Lands, lp, lf
  <2>2. j \in j..lp /\ pl[j] >= i + 1
    BY <1>1, <1>2, <1>5, <2>1
  <2>3. ASSUME NEW k \in j..lp, ~ (pl[k] = 0 /\ p[k].mode = "?" /\ k < lp)
        PROVE  /\ pl[k] \in i..lf /\ Fits(p[k], f[pl[k]])
               /\ \A b \in j..(k - 1) : pl[b] < pl[k]
               /\ p[k].mode = "=" => pl[k] = i \/ \E b \in j..(k - 1) : pl[b] = pl[k] - 1
    <3>1. /\ pl[k] \in (i + 1)..lf /\ Fits(p[k], f[pl[k]])
          /\ \A b \in j..(k - 1) : pl[b] < pl[k]
          /\ p[k].mode = "=" =>
               pl[k] = i + 1 \/ \E b \in j..(k - 1) : pl[b] = pl[k] - 1
      BY <2>1, <2>3
    <3>2. pl[k] \in i..lf
      BY <1>1, <1>2, <3>1
    <3>3. p[k].mode = "=" => pl[k] # i + 1
      <4>1. p[k].mode = "=" => j \in j..(k - 1)
        BY <1>1, <1>2, <1>5
      <4> QED
        BY <1>1, <1>2, <2>2, <3>1, <4>1
    <3> QED
      BY <3>1, <3>2, <3>3
  <2> QED
    BY <2>3 DEF Lands, lp, lf
<1> QED
  BY <1>3, <1>4, <1>5 DEF lp

\* What the loop finds came along the chain.
LEMMA FoundLands ==
  ASSUME NEW p, Chain(p), NEW f, Trace(f)
  PROVE  \A i \in 1..(Len(f) + 1), j \in 1..Len(p) : Found(p, f)[<<i, j>>] # 0 =>
           \E pl \in [1..Len(p) -> Nat] : Lands(p, f, i, j, pl)
<1> DEFINE lf == Len(f)
           lp == Len(p)
           g == Found(p, f)
           Good(i, j) == g[<<i, j>>] # 0 => \E pl \in [1..lp -> Nat] : Lands(p, f, i, j, pl)
           T == {k \in Nat : \A i \in 1..(lf + 1), j \in 1..lp :
                               i + j + k >= lf + 1 + lp => Good(i, j)}
<1>1. lf \in Nat /\ lp \in Nat \ {0} /\ \A j \in 1..lp : p[j].mode \in Mode
  BY Lengths
<1>2. \A i \in 1..(lf + 1), j \in 1..lp : g[<<i, j>>] = Turn(p, f, g, i, j)
  BY LoopEnds
<1>3. \A i \in 1..lf, j \in 1..lp : \A pl \in [1..lp -> Nat] :
        /\ Fits(p[j], f[i]) /\ (j = lp \/ Lands(p, f, i + 1, j + 1, pl))
             => Lands(p, f, i, j, [pl EXCEPT ![j] = i])
        /\ p[j].mode = "?" /\ j < lp /\ Lands(p, f, i, j + 1, pl)
             => Lands(p, f, i, j, [pl EXCEPT ![j] = 0])
        /\ p[j].mode # "=" /\ ~ (p[j].mode = "?" /\ j < lp) /\ Lands(p, f, i + 1, j, pl)
             => Lands(p, f, i, j, pl)
  BY Placing
<1>4. ASSUME NEW i \in 1..(lf + 1), NEW j \in 1..lp, g[<<i, j>>] # 0,
             i <= lf /\ j < lp => Good(i + 1, j + 1) /\ Good(i, j + 1),
             i <= lf => Good(i + 1, j)
      PROVE  \E pl \in [1..lp -> Nat] : Lands(p, f, i, j, pl)
  <2> HIDE DEF g, lf, lp
  <2>1. g[<<i, j>>] = Turn(p, f, g, i, j)
    BY <1>2
  <2>2. i \in 1..lf /\ i \in Nat
    BY <1>1, <1>4, <2>1 DEF Turn, lf
  <2>3. \A pl \in [1..lp -> Nat], v \in Nat : [pl EXCEPT ![j] = v] \in [1..lp -> Nat]
    OBVIOUS
  <2>4. j = lp \/ j < lp
    BY <1>1
  <2>5. CASE Fits(p[j], f[i])
    <3>1. \E pl \in [1..lp -> Nat] : j = lp \/ Lands(p, f, i + 1, j + 1, pl)
      <4>1. CASE j = lp
        <5>1. [k \in 1..lp |-> 0] \in [1..lp -> Nat]
          OBVIOUS
        <5> QED
          BY <4>1, <5>1
      <4>2. CASE j < lp
        <5>1. g[<<i + 1, j + 1>>] # 0
          BY <1>1, <1>4, <2>1, <2>2, <2>5, <4>2 DEF Turn, lf, lp
        <5>2. i <= lf
          BY <1>1, <2>2
        <5> QED
          BY <1>4, <4>2, <5>1, <5>2
      <4> QED
        BY <2>4, <4>1, <4>2
    <3> QED
      BY <1>3, <2>2, <2>3, <2>5, <3>1, Zenon
  <2>6. CASE ~ Fits(p[j], f[i]) /\ p[j].mode = "?" /\ j < lp
    <3>1. g[<<i, j + 1>>] # 0
      BY <1>1, <1>4, <2>1, <2>2, <2>6 DEF Turn, lf, lp
    <3>2. i <= lf
      BY <1>1, <2>2
    <3>3. \E pl \in [1..lp -> Nat] : Lands(p, f, i, j + 1, pl)
      BY <1>4, <2>6, <3>1, <3>2
    <3>4. 0 \in Nat
      OBVIOUS
    <3> QED
      BY <1>3, <2>2, <2>3, <2>6, <3>3, <3>4, Zenon
  <2>7. CASE ~ Fits(p[j], f[i]) /\ ~ (p[j].mode = "?" /\ j < lp)
    <3>1. g[<<i + 1, j>>] # 0 /\ p[j].mode # "="
      BY <1>1, <1>4, <2>1, <2>2, <2>7 DEF Turn, lf, lp
    <3>2. i <= lf
      BY <1>1, <2>2
    <3>3. \E pl \in [1..lp -> Nat] : Lands(p, f, i + 1, j, pl)
      BY <1>4, <3>1, <3>2
    <3> QED
      BY <1>3, <2>2, <2>7, <3>1, <3>3, Zenon
  <2> QED
    BY <2>5, <2>6, <2>7
<1> HIDE DEF g, lf, lp
<1>5. 0 \in T
  <2>1. ASSUME NEW i \in 1..(lf + 1), NEW j \in 1..lp, i + j + 0 >= lf + 1 + lp
        PROVE  Good(i, j)
    <3>1. i = lf + 1
      BY <1>1, <2>1
    <3>2. g[<<i, j>>] = Turn(p, f, g, i, j) /\ i > lf
      BY <1>1, <1>2, <3>1
    <3>3. g[<<i, j>>] = 0
      BY <3>2 DEF Turn, lf
    <3> QED
      BY <3>3
  <2> HIDE DEF Good
  <2> QED
    BY <2>1
<1>6. ASSUME NEW k \in Nat, k \in T PROVE k + 1 \in T
  <2>1. ASSUME NEW i \in 1..(lf + 1), NEW j \in 1..lp, i + j + (k + 1) >= lf + 1 + lp
        PROVE  Good(i, j)
    <3> HIDE DEF Good
    <3>1. i <= lf /\ j < lp => Good(i + 1, j + 1) /\ Good(i, j + 1)
      <4> SUFFICES ASSUME i <= lf, j < lp PROVE Good(i + 1, j + 1) /\ Good(i, j + 1)
        OBVIOUS
      <4>1. /\ i + 1 \in 1..(lf + 1) /\ j + 1 \in 1..lp
            /\ (i + 1) + (j + 1) + k >= lf + 1 + lp /\ i + (j + 1) + k >= lf + 1 + lp
        BY <1>1, <2>1
      <4> QED
        BY <1>6, <4>1
    <3>2. i <= lf => Good(i + 1, j)
      <4> SUFFICES ASSUME i <= lf PROVE Good(i + 1, j)
        OBVIOUS
      <4>1. i + 1 \in 1..(lf + 1) /\ (i + 1) + j + k >= lf + 1 + lp
        BY <1>1, <2>1
      <4> QED
        BY <1>6, <4>1
    <3> QED
      BY <1>4, <3>1, <3>2, Zenon DEF Good
  <2>2. k + 1 \in Nat
    OBVIOUS
  <2> HIDE DEF Good
  <2> QED
    BY <2>1, <2>2
<1>7. \A k \in Nat : k \in T
  <2> HIDE DEF T
  <2> QED
    BY <1>5, <1>6, Induction
<1>8. lf + 1 + lp \in T /\ \A i \in 1..(lf + 1), j \in 1..lp : i + j + (lf + 1 + lp) >= lf + 1 + lp
  <2>1. lf + 1 + lp \in Nat
    BY <1>1
  <2>2. lf + 1 + lp \in T
    <3> HIDE DEF T
    <3> QED
      BY <1>7, <2>1, Zenon
  <2>3. \A i \in 1..(lf + 1), j \in 1..lp : i + j + (lf + 1 + lp) >= lf + 1 + lp
    BY <1>1
  <2> HIDE DEF T
  <2> QED
    BY <2>2, <2>3
<1>9. \A i \in 1..(lf + 1), j \in 1..lp : Good(i, j)
  <2> HIDE DEF Good
  <2> QED
    BY <1>8
<1> QED
  BY <1>9, Zenon DEF g, lf, lp

LEMMA PlainModes ==
  ASSUME NEW p, Plain(p)
  PROVE  \A j \in DOMAIN p : p[j].mode # "?" /\ p[j].mode # "="
  BY Zenon DEF Plain

\* A chain of plain names, each with a frame of its own in order, is found.
LEMMA PlainFound ==
  ASSUME NEW p, Chain(p), Plain(p), NEW f, Trace(f)
  PROVE  \A i \in 1..(Len(f) + 1), j \in 1..Len(p) : \A pl :
           (\A k \in j..Len(p) : /\ pl[k] \in i..Len(f) /\ Fits(p[k], f[pl[k]])
                                 /\ \A b \in j..(k - 1) : pl[b] < pl[k])
           => Found(p, f)[<<i, j>>] # 0
<1> DEFINE lf == Len(f)
           lp == Len(p)
           g == Found(p, f)
           Spread(i, j, pl) ==
             \A k \in j..lp : /\ pl[k] \in i..lf /\ Fits(p[k], f[pl[k]])
                              /\ \A b \in j..(k - 1) : pl[b] < pl[k]
           Good(i, j) == \A pl : Spread(i, j, pl) => g[<<i, j>>] # 0
           T == {k \in Nat : \A i \in 1..(lf + 1), j \in 1..lp :
                               i + j + k >= lf + 1 + lp => Good(i, j)}
<1>1. lf \in Nat /\ lp \in Nat \ {0}
  BY Lengths
<1>plain. \A j \in 1..lp : p[j].mode # "?" /\ p[j].mode # "="
  BY Lengths, PlainModes, Zenon
<1>2. \A i \in 1..(lf + 1), j \in 1..lp : g[<<i, j>>] = Turn(p, f, g, i, j)
  BY LoopEnds
<1> HIDE DEF g, lf, lp
<1>3. ASSUME NEW i \in 1..(lf + 1), NEW j \in 1..lp, NEW pl, Spread(i, j, pl),
             i <= lf /\ j < lp => Good(i + 1, j + 1),
             i <= lf => Good(i + 1, j)
      PROVE  g[<<i, j>>] # 0
  <2> HIDE DEF Good, Spread
  <2>1. g[<<i, j>>] = Turn(p, f, g, i, j)
    BY <1>2
  <2>2. pl[j] \in i..lf /\ Fits(p[j], f[pl[j]]) /\ j \in j..lp
    <3>1. j \in j..lp
      BY <1>1
    <3> QED
      BY <1>3, <3>1 DEF Spread
  <2>3. i \in 1..lf /\ ~ (i > lf) /\ i <= lf /\ i # 0
    BY <1>1, <2>2
  <2>4. p[j].mode # "?" /\ p[j].mode # "="
    BY <1>plain
  <2>5. CASE Fits(p[j], f[i]) /\ j = lp
    BY <2>1, <2>3, <2>5 DEF Turn, lf, lp
  <2>6. CASE Fits(p[j], f[i]) /\ j # lp
    <3>1. Spread(i + 1, j + 1, pl)
      <4>1. ASSUME NEW k \in (j + 1)..lp
            PROVE  /\ pl[k] \in (i + 1)..lf /\ Fits(p[k], f[pl[k]])
                   /\ \A b \in (j + 1)..(k - 1) : pl[b] < pl[k]
        <5>1. k \in j..lp /\ j \in j..(k - 1) /\ \A b \in (j + 1)..(k - 1) : b \in j..(k - 1)
          BY <1>1
        <5>2. /\ pl[k] \in i..lf /\ Fits(p[k], f[pl[k]])
              /\ \A b \in j..(k - 1) : pl[b] < pl[k]
          BY <1>3, <5>1 DEF Spread
        <5>3. pl[k] \in (i + 1)..lf
          <6>1. pl[j] < pl[k]
            BY <5>1, <5>2
          <6> QED
            BY <1>1, <2>2, <5>2, <6>1
        <5> QED
          BY <5>1, <5>2, <5>3
      <4> QED
        BY <4>1 DEF Spread
    <3>2. j < lp
      BY <1>1, <2>6
    <3>3. g[<<i + 1, j + 1>>] # 0
      BY <1>3, <2>3, <3>1, <3>2 DEF Good
    <3> QED
      BY <2>1, <2>3, <2>6, <3>3 DEF Turn, lf, lp
  <2>7. CASE ~ Fits(p[j], f[i])
    <3>1. Spread(i + 1, j, pl)
      <4>1. ASSUME NEW k \in j..lp
            PROVE  /\ pl[k] \in (i + 1)..lf /\ Fits(p[k], f[pl[k]])
                   /\ \A b \in j..(k - 1) : pl[b] < pl[k]
        <5>1. /\ pl[k] \in i..lf /\ Fits(p[k], f[pl[k]])
              /\ \A b \in j..(k - 1) : pl[b] < pl[k]
          BY <1>3 DEF Spread
        <5>2. pl[j] # i
          BY <2>2, <2>7
        <5>3. k = j \/ pl[j] < pl[k]
          <6>1. k # j => j \in j..(k - 1)
            BY <1>1
          <6> QED
            BY <5>1, <6>1
        <5>4. pl[k] \in (i + 1)..lf
          BY <1>1, <2>2, <5>1, <5>2, <5>3
        <5> QED
          BY <5>1, <5>4
      <4> QED
        BY <4>1 DEF Spread
    <3>2. g[<<i + 1, j>>] # 0
      BY <1>3, <2>3, <3>1 DEF Good
    <3> QED
      BY <2>1, <2>3, <2>4, <2>7, <3>2 DEF Turn, lf, lp
  <2> QED
    BY <2>5, <2>6, <2>7
<1> HIDE DEF Spread
<1>4. 0 \in T
  <2>1. ASSUME NEW i \in 1..(lf + 1), NEW j \in 1..lp, i + j + 0 >= lf + 1 + lp
        PROVE  Good(i, j)
    <3>1. i = lf + 1
      BY <1>1, <2>1
    <3>2. \A pl : ~ Spread(i, j, pl)
      <4>1. j \in j..lp /\ i..lf = {}
        BY <1>1, <3>1
      <4> QED
        BY <4>1 DEF Spread
    <3> QED
      BY <3>2
  <2> HIDE DEF Good
  <2> QED
    BY <2>1
<1>5. ASSUME NEW k \in Nat, k \in T PROVE k + 1 \in T
  <2>1. ASSUME NEW i \in 1..(lf + 1), NEW j \in 1..lp, i + j + (k + 1) >= lf + 1 + lp
        PROVE  Good(i, j)
    <3> HIDE DEF Good
    <3>1. i <= lf /\ j < lp => Good(i + 1, j + 1)
      <4> SUFFICES ASSUME i <= lf, j < lp PROVE Good(i + 1, j + 1)
        OBVIOUS
      <4>1. /\ i + 1 \in 1..(lf + 1) /\ j + 1 \in 1..lp
            /\ (i + 1) + (j + 1) + k >= lf + 1 + lp
        BY <1>1, <2>1
      <4> QED
        BY <1>5, <4>1
    <3>2. i <= lf => Good(i + 1, j)
      <4> SUFFICES ASSUME i <= lf PROVE Good(i + 1, j)
        OBVIOUS
      <4>1. i + 1 \in 1..(lf + 1) /\ (i + 1) + j + k >= lf + 1 + lp
        BY <1>1, <2>1
      <4> QED
        BY <1>5, <4>1
    <3> QED
      BY <1>3, <3>1, <3>2, Zenon DEF Good
  <2>2. k + 1 \in Nat
    OBVIOUS
  <2> HIDE DEF Good
  <2> QED
    BY <2>1, <2>2
<1>6. \A k \in Nat : k \in T
  <2> HIDE DEF T
  <2> QED
    BY <1>4, <1>5, Induction
<1>7. \A i \in 1..(lf + 1), j \in 1..lp : Good(i, j)
  <2>1. lf + 1 + lp \in Nat
    BY <1>1
  <2>2. lf + 1 + lp \in T
    <3> HIDE DEF T
    <3> QED
      BY <1>6, <2>1, Zenon
  <2>3. \A i \in 1..(lf + 1), j \in 1..lp : i + j + (lf + 1 + lp) >= lf + 1 + lp
    BY <1>1
  <2> HIDE DEF Good
  <2> QED
    BY <2>2, <2>3
<1> QED
  BY <1>7, Zenon DEF g, lf, lp, Spread

\* A match is a call along the chain, and of plain names every such call.
LEMMA MatchesAreCalls ==
  ASSUME NEW p, Chain(p), NEW f, Trace(f), NEW first \in 1..(Len(f) + 1)
  PROVE  /\ Matches(p, f, first) => Along(p, f, first)
         /\ Plain(p) /\ Along(p, f, first) => Matches(p, f, first)
<1> DEFINE lf == Len(f)
           lp == Len(p)
<1>1. lf \in Nat /\ lp \in Nat \ {0} /\ DOMAIN p = 1..lp
  BY Lengths
<1> HIDE DEF lf, lp
<1>2. ASSUME Matches(p, f, first) PROVE Along(p, f, first)
  <2>1. 1 \in 1..lp
    BY <1>1
  <2>2. PICK pl \in [1..lp -> Nat] : Lands(p, f, first, 1, pl)
    BY <1>2, <2>1, FoundLands DEF Matches, lp
  <2>3. ASSUME NEW k \in 1..lp
        PROVE  \/ pl[k] = 0 /\ p[k].mode = "?" /\ k < lp
               \/ /\ pl[k] \in first..lf /\ Fits(p[k], f[pl[k]])
                  /\ \A b \in 1..(k - 1) : pl[b] < pl[k]
                  /\ p[k].mode = "=" =>
                       pl[k] = first \/ \E b \in 1..(k - 1) : pl[b] = pl[k] - 1
    BY <2>2 DEF Lands, lp, lf
  <2>4. pl \in [DOMAIN p -> {0} \union (first..lf)]
    BY <1>1, <2>3
  <2>5. ASSUME NEW k \in 1..lp
        PROVE  LET before == {pl[b] : b \in 1..(k - 1)} \union {first - 1} IN
               \/ pl[k] = 0 /\ p[k].mode = "?" /\ k < lp
               \/ /\ pl[k] # 0 /\ Fits(p[k], f[pl[k]])
                  /\ \A b \in before : b < pl[k]
                  /\ p[k].mode = "=" => pl[k] - 1 \in before
    <3>1. CASE pl[k] = 0 /\ p[k].mode = "?" /\ k < lp
      BY <3>1
    <3>2. CASE ~ (pl[k] = 0 /\ p[k].mode = "?" /\ k < lp)
      <4>1. /\ pl[k] \in first..lf /\ Fits(p[k], f[pl[k]])
            /\ \A b \in 1..(k - 1) : pl[b] < pl[k]
            /\ p[k].mode = "=" =>
                 pl[k] = first \/ \E b \in 1..(k - 1) : pl[b] = pl[k] - 1
        BY <2>3, <3>2
      <4>2. pl[k] # 0 /\ first - 1 < pl[k]
        BY <1>1, <4>1
      <4> QED
        BY <4>1, <4>2
    <3> QED
      BY <3>1, <3>2
  <2>6. Placed(p, f, first, pl)
    BY <1>1, <2>5 DEF Placed, lp
  <2> QED
    BY <2>4, <2>6 DEF Along, lf
<1>3. ASSUME Plain(p), Along(p, f, first) PROVE Matches(p, f, first)
  <2>1. PICK pl \in [1..lp -> {0} \union (first..lf)] : Placed(p, f, first, pl)
    BY <1>1, <1>3 DEF Along, lf
  <2>2. ASSUME NEW k \in 1..lp
        PROVE  /\ pl[k] \in first..lf /\ Fits(p[k], f[pl[k]])
               /\ \A b \in 1..(k - 1) : pl[b] < pl[k]
    <3>1. p[k].mode # "?"
      BY <1>1, <1>3, PlainModes, Zenon
    <3>2. /\ pl[k] # 0 /\ Fits(p[k], f[pl[k]])
          /\ \A b \in {pl[z] : z \in 1..(k - 1)} \union {first - 1} : b < pl[k]
      BY <1>1, <2>1, <3>1 DEF Placed
    <3> QED
      BY <2>1, <3>2
  <2>3. 1 \in 1..lp
    BY <1>1
  <2>4. Found(p, f)[<<first, 1>>] # 0
    BY <1>3, <2>2, <2>3, PlainFound DEF lf, lp
  <2> QED
    BY <2>4 DEF Matches
<1> QED
  BY <1>2, <1>3

\* The caller's frame is one of the trace, or there is none.
LEMMA SkipsFrames ==
  ASSUME NEW f, Trace(f), NEW s, NEW m \in Nat, DOMAIN s = 1..m
  PROVE  FoldLeft(LAMBDA i, w : IF i <= Len(f) /\ f[i] = w THEN i + 1 ELSE i, 1, s)
           \in 1..(Len(f) + 1)
<1> DEFINE lf == Len(f)
           Skip(i, w) == IF i <= lf /\ f[i] = w THEN i + 1 ELSE i
           Step(g, x) == IF x = {} THEN 1 ELSE Skip(g[x \ {Max(x)}], s[Max(x)])
           Frames(g, k) == g = [x \in SUBSET (1..k) |-> Step(g, x)]
           iter == CHOOSE g : g = [x \in SUBSET (DOMAIN s) |-> Step(g, x)]
<1>1. m \in Nat /\ DOMAIN s = 1..m /\ lf \in Nat
  BY LenProperties DEF Trace
<1>2. FoldLeft(LAMBDA i, w : IF i <= Len(f) /\ f[i] = w THEN i + 1 ELSE i, 1, s)
        = iter[DOMAIN s]
  BY DEF FoldLeft, MapThenFoldSet
<1> HIDE DEF lf
<1>3. \A k \in Nat : \E g : Frames(g, k)
  <2> DEFINE T == {k \in Nat : \E g : Frames(g, k)}
  <2>1. 0 \in T
    <3> DEFINE g == [x \in SUBSET (1..0) |-> 1]
    <3>1. \A x \in SUBSET (1..0) : x = {}
      OBVIOUS
    <3>2. Frames(g, 0)
      BY <3>1
    <3> QED
      BY <3>2
  <2>2. ASSUME NEW k \in Nat, k \in T PROVE k + 1 \in T
    <3>1. PICK g : Frames(g, k)
      BY <2>2
    <3> DEFINE h == [x \in SUBSET (1..(k + 1)) |-> Step(g, x)]
    <3>2. \A x \in SUBSET (1..k) : h[x] = g[x]
      <4>1. \A x \in SUBSET (1..k) : x \in SUBSET (1..(k + 1))
        OBVIOUS
      <4> HIDE DEF Step
      <4>2. \A x \in SUBSET (1..k) : g[x] = Step(g, x)
        BY <3>1
      <4>3. \A x \in SUBSET (1..(k + 1)) : h[x] = Step(g, x)
        OBVIOUS
      <4> QED
        BY <4>1, <4>2, <4>3, Zenon
    <3> HIDE DEF Skip
    <3>3. ASSUME NEW x \in SUBSET (1..(k + 1)) PROVE Step(h, x) = Step(g, x)
      <4>1. x # {} => x \ {Max(x)} \in SUBSET (1..k)
        BY Largest
      <4>2. x # {} => h[x \ {Max(x)}] = g[x \ {Max(x)}]
        BY <3>2, <4>1
      <4> HIDE DEF h
      <4> QED
        BY <4>2, Zenon
    <3>4. Frames(h, k + 1)
      <4> HIDE DEF Step
      <4> QED
        BY <3>3
    <3> HIDE DEF h, Frames
    <3> QED
      BY <3>4
  <2> HIDE DEF T
  <2>3. \A k \in Nat : k \in T
    BY <2>1, <2>2, Induction
  <2> QED
    BY <2>3 DEF T
<1>4. Frames(iter, m)
  <2>1. DOMAIN s = 1..m /\ \E g : Frames(g, m)
    BY <1>1, <1>3
  <2> HIDE DEF Step
  <2> QED
    BY <2>1
<1> HIDE DEF iter
<1>5. \A k \in Nat : k <= m => iter[1..k] \in 1..(lf + 1)
  <2> DEFINE T == {k \in Nat : k <= m => iter[1..k] \in 1..(lf + 1)}
  <2>1. 0 \in T
    <3>1. 1..0 = {} /\ 1..0 \in SUBSET (1..m)
      OBVIOUS
    <3>2. iter[1..0] = 1
      BY <1>4, <3>1
    <3> QED
      BY <1>1, <3>2
  <2>2. ASSUME NEW k \in Nat, k \in T PROVE k + 1 \in T
    <3> SUFFICES ASSUME k + 1 <= m PROVE iter[1..(k + 1)] \in 1..(lf + 1)
      BY <2>2
    <3>1. iter[1..k] \in 1..(lf + 1)
      BY <1>1, <2>2
    <3>2. iter[1..(k + 1)] = Skip(iter[1..k], s[k + 1])
      <4>1. 1..(k + 1) \in SUBSET (1..m)
        BY <1>1
      <4>2. iter[1..(k + 1)] = Step(iter, 1..(k + 1))
        BY <1>4, <4>1
      <4> HIDE DEF Skip
      <4> QED
        BY <4>2, Largest
    <3> QED
      BY <1>1, <3>1, <3>2
  <2> HIDE DEF T
  <2>3. \A k \in Nat : k \in T
    BY <2>1, <2>2, Induction
  <2> QED
    BY <2>3 DEF T
<1>6. m <= m
  BY <1>1
<1> QED
  BY <1>1, <1>2, <1>5, <1>6, Zenon DEF lf

LEMMA CallerFrame ==
  ASSUME NEW c \in Copy, NEW f, Trace(f)
  PROVE  Caller(c, f) \in 1..(Len(f) + 1)
<1>1. DOMAIN Wrappers.alloc = 1..8
  BY DEF Wrappers
<1>2. DOMAIN Wrappers.test = 1..1
  BY DEF Wrappers
<1>3. PICK m \in Nat : DOMAIN Wrappers[c] = 1..m
  <2>1. c = "alloc" \/ c = "test"
    BY DEF Copy
  <2>2. 8 \in Nat /\ 1 \in Nat
    OBVIOUS
  <2> QED
    BY <1>1, <1>2, <2>1, <2>2, Zenon
<1> QED
  BY <1>3, SkipsFrames, Zenon DEF Caller

\* How far copy c has counted, and what it has made fail.
Counting(c) ==
  /\ armed[c] \in Nat /\ fail_after[c] \in Nat /\ along[c] \in Nat /\ failed[c] \in Seq(Seq(STRING))
  /\ armed[c] = 0 => fail_after[c] = 0 /\ along[c] = 0 /\ failed[c] = <<>>
  /\ armed[c] # 0 => fail_func[c] \in Pattern
  /\ fail_after[c] <= armed[c] /\ armed[c] - fail_after[c] <= along[c]
  /\ failed[c] # <<>> <=> armed[c] # 0 /\ fail_after[c] = 0
  /\ Len(failed[c]) <= 1
  /\ \A k \in DOMAIN failed[c] : Along(fail_func[c], failed[c][k], Caller(c, failed[c][k]))
  /\ armed[c] # 0 /\ Plain(fail_func[c]) /\ fail_after[c] # 0 =>
       along[c] = armed[c] - fail_after[c]

TestingInv ==
  /\ DOMAIN fail_func = Copy /\ DOMAIN fail_after = Copy /\ DOMAIN armed = Copy
  /\ DOMAIN along = Copy /\ DOMAIN failed = Copy
  /\ \A c \in Copy : Counting(c)

LEMMA TestingInvSuffices == TestingInv => InjectionSound
<1> SUFFICES ASSUME TestingInv, NEW c \in Copy
             PROVE  /\ Len(failed[c]) <= 1
                    /\ \A k \in DOMAIN failed[c] :
                         Along(fail_func[c], failed[c][k], Caller(c, failed[c][k]))
                    /\ failed[c] # <<>> => along[c] >= armed[c]
                    /\ armed[c] # 0 /\ Plain(fail_func[c]) /\ along[c] >= armed[c]
                         => failed[c] # <<>>
  BY Zenon DEF InjectionSound
<1>1. Counting(c)
  BY DEF TestingInv
<1>2. ASSUME failed[c] # <<>> PROVE along[c] >= armed[c]
  BY <1>1, <1>2 DEF Counting
<1>3. ASSUME armed[c] # 0, Plain(fail_func[c]), along[c] >= armed[c] PROVE failed[c] # <<>>
  BY <1>1, <1>3 DEF Counting
<1> QED
  BY <1>1, <1>2, <1>3 DEF Counting

LEMMA TestingStarts == TestingInit => TestingInv
<1> SUFFICES ASSUME TestingInit, NEW c \in Copy PROVE Counting(c)
  BY Zenon DEF TestingInit, TestingInv
<1>1. /\ armed[c] = 0 /\ fail_after[c] = 0 /\ along[c] = 0 /\ failed[c] = <<>>
  BY DEF TestingInit
<1>2. <<>> \in Seq(Seq(STRING)) /\ Len(<<>>) = 0 /\ DOMAIN <<>> = {}
  BY EmptySeq
<1> QED
  BY <1>1, <1>2 DEF Counting

\* A copy whose variables stay.
LEMMA CopyStays ==
  ASSUME NEW c, Counting(c), fail_func'[c] = fail_func[c], fail_after'[c] = fail_after[c],
         armed'[c] = armed[c], along'[c] = along[c], failed'[c] = failed[c]
  PROVE  Counting(c)'
  BY Zenon DEF Counting

LEMMA PatternIsChain == \A p \in Pattern : Chain(p)
  BY TestingAssumption, Zenon DEF Chain, Mode

LEMMA ArmKeeps ==
  ASSUME TestingInv, NEW c \in Copy, NEW p \in Pattern, NEW k \in 1..MaxAfter, Arm(c, p, k)
  PROVE  TestingInv'
<1>1. /\ armed[c] = 0 /\ armed' = [armed EXCEPT ![c] = k]
      /\ fail_func' = [fail_func EXCEPT ![c] = p]
      /\ fail_after' = [fail_after EXCEPT ![c] = k]
      /\ along' = along /\ failed' = failed
  BY Zenon DEF Arm
<1>2. /\ DOMAIN fail_func = Copy /\ DOMAIN fail_after = Copy /\ DOMAIN armed = Copy
      /\ DOMAIN along = Copy /\ DOMAIN failed = Copy /\ \A d \in Copy : Counting(d)
  BY DEF TestingInv
<1>3. /\ DOMAIN fail_func' = Copy /\ DOMAIN fail_after' = Copy /\ DOMAIN armed' = Copy
      /\ armed'[c] = k /\ fail_func'[c] = p /\ fail_after'[c] = k
      /\ \A d \in Copy \ {c} : /\ armed'[d] = armed[d] /\ fail_func'[d] = fail_func[d]
                               /\ fail_after'[d] = fail_after[d]
  BY <1>1, <1>2
<1>4. Counting(c)'
  <2>1. along[c] = 0 /\ failed[c] = <<>> /\ failed[c] \in Seq(Seq(STRING))
    BY <1>1, <1>2 DEF Counting
  <2>2. k \in Nat /\ k # 0
    OBVIOUS
  <2>3. Len(failed[c]) = 0 /\ DOMAIN failed[c] = {}
    BY <2>1
  <2>4. k <= k /\ k - k = 0 /\ 0 <= 0 /\ 0 \in Nat /\ 0 <= 1
    BY <2>2
  <2> QED
    BY <1>1, <1>3, <2>1, <2>2, <2>3, <2>4, Zenon DEF Counting
<1>5. \A d \in Copy \ {c} : Counting(d)'
  BY <1>1, <1>2, <1>3, CopyStays, Zenon
<1> QED
  BY <1>1, <1>2, <1>3, <1>4, <1>5, Zenon DEF TestingInv

\* What a call does to the count of its copy.
LEMMA AskedKeeps ==
  ASSUME TestingInv, NEW c \in Copy, NEW f \in Backtrace[c], Passes(c, f) \/ Counts(c, f)
  PROVE  TestingInv'
<1> DEFINE came == Along(fail_func[c], f, Caller(c, f))
           match == Matches(fail_func[c], f, Caller(c, f))
<1>1. /\ fail_func' = fail_func /\ armed' = armed
      /\ along' = [along EXCEPT ![c] = IF armed[c] # 0 /\ came THEN @ + 1 ELSE @]
  BY Zenon DEF Passes, Counts, Asked
<1>2. /\ DOMAIN fail_func = Copy /\ DOMAIN fail_after = Copy /\ DOMAIN armed = Copy
      /\ DOMAIN along = Copy /\ DOMAIN failed = Copy /\ \A d \in Copy : Counting(d)
  BY DEF TestingInv
<1>3. f \in Seq(STRING) /\ Trace(f)
  BY TestingAssumption DEF Trace
<1>4. armed[c] # 0 => (match => came) /\ (Plain(fail_func[c]) /\ came => match)
  <2> SUFFICES ASSUME armed[c] # 0 
               PROVE  (match => came) /\ (Plain(fail_func[c]) /\ came => match)
    OBVIOUS
  <2>1. Chain(fail_func[c])
    BY <1>2, PatternIsChain DEF Counting
  <2>2. Caller(c, f) \in 1..(Len(f) + 1)
    BY <1>3, CallerFrame
  <2> QED
    BY <1>3, <2>1, <2>2, MatchesAreCalls, Zenon
<1>5. Meant(c, f) <=> fail_after[c] # 0 /\ match
  BY Zenon DEF Meant
<1>6. Counting(c)
  BY <1>2
<1>7. \A d \in Copy \ {c} : along'[d] = along[d]
  BY <1>1, <1>2
<1>8. along'[c] = IF armed[c] # 0 /\ came THEN along[c] + 1 ELSE along[c]
  BY <1>1, <1>2, Zenon
<1>9. DOMAIN along' = Copy
  BY <1>1, <1>2
<1>10. CASE Passes(c, f)
  <2>1. fail_after' = fail_after /\ failed' = failed /\ (fail_after[c] = 0 \/ ~ match)
    BY <1>5, <1>10, Zenon DEF Passes
  <2> HIDE DEF came, match
  <2>2. along'[c] \in Nat /\ along[c] <= along'[c]
    BY <1>6, <1>8 DEF Counting
  <2>3. armed[c] # 0 /\ Plain(fail_func[c]) /\ fail_after[c] # 0 => along'[c] = along[c]
    BY <1>4, <1>8, <2>1
  <2>4. armed[c] = 0 => along'[c] = along[c]
    BY <1>8
  <2>5. armed[c] - fail_after[c] <= along'[c]
    BY <1>6, <2>2 DEF Counting
  <2>6. Counting(c)'
    BY <1>1, <1>6, <2>1, <2>2, <2>3, <2>4, <2>5, Zenon DEF Counting
  <2>7. \A d \in Copy \ {c} : Counting(d)'
    BY <1>1, <1>2, <1>7, <2>1, CopyStays, Zenon
  <2> QED
    BY <1>1, <1>2, <1>9, <2>1, <2>6, <2>7, Zenon DEF TestingInv
<1>11. CASE Counts(c, f)
  <2>1. /\ fail_after[c] # 0 /\ match
        /\ fail_after' = [fail_after EXCEPT ![c] = @ - 1]
        /\ failed' = IF fail_after[c] = 1 THEN [failed EXCEPT ![c] = Append(@, f)] ELSE failed
    BY <1>5, <1>11, Zenon DEF Counts
  <2> HIDE DEF match
  <2>2. armed[c] # 0 /\ came
    BY <1>4, <1>6, <2>1 DEF Counting
  <2>3. along'[c] = along[c] + 1
    BY <1>8, <2>2
  <2> DEFINE z == fail_after[c] - 1
  <2>4. fail_after'[c] = z /\ DOMAIN fail_after' = Copy /\ DOMAIN failed' = Copy
    BY <1>2, <2>1
  <2>5. /\ z \in Nat /\ z <= armed[c] /\ armed[c] - z <= along[c] + 1 /\ along[c] + 1 \in Nat
        /\ (z = 0 <=> fail_after[c] = 1)
        /\ (Plain(fail_func[c]) => along[c] + 1 = armed[c] - z)
    BY <1>6, <2>1, <2>2 DEF Counting
  <2>6. failed[c] = <<>>
    BY <1>6, <2>1 DEF Counting
  <2>7. failed'[c] = IF z = 0 THEN <<f>> ELSE <<>>
    <3>1. CASE z = 0
      <4>1. failed' = [failed EXCEPT ![c] = Append(@, f)]
        BY <2>1, <2>5, <3>1, Zenon
      <4>2. failed'[c] = Append(<<>>, f)
        BY <1>2, <2>6, <4>1
      <4> QED
        BY <3>1, <4>2
    <3>2. CASE z # 0
      BY <2>1, <2>5, <2>6, <3>2
    <3> QED
      BY <3>1, <3>2
  <2>8. \A d \in Copy \ {c} : fail_after'[d] = fail_after[d] /\ failed'[d] = failed[d]
    BY <1>2, <2>1
  <2>9. /\ failed'[c] \in Seq(Seq(STRING)) /\ Len(failed'[c]) <= 1
        /\ failed'[c] # <<>> <=> z = 0
        /\ \A k \in DOMAIN failed'[c] : failed'[c][k] = f
    <3>1. /\ <<>> \in Seq(Seq(STRING)) /\ Len(<<>>) = 0 /\ DOMAIN <<>> = {}
          /\ <<f>> \in Seq(Seq(STRING)) /\ Len(<<f>>) = 1 /\ <<f>> # <<>>
          /\ \A k \in DOMAIN <<f>> : <<f>>[k] = f
      BY <1>3
    <3>2. 1 <= 1 /\ 0 <= 1
      OBVIOUS
    <3> HIDE DEF z
    <3>3. (z = 0 /\ failed'[c] = <<f>>) \/ (z # 0 /\ failed'[c] = <<>>)
      BY <2>7, Zenon
    <3>4. PICK r : r = failed'[c]
      OBVIOUS
    <3>5. /\ r \in Seq(Seq(STRING)) /\ Len(r) <= 1
          /\ r # <<>> <=> z = 0
          /\ \A k \in DOMAIN r : r[k] = f
      <4>1. CASE z = 0 /\ r = <<f>>
        BY <3>1, <3>2, <4>1, Zenon
      <4>2. CASE z # 0 /\ r = <<>>
        BY <3>1, <3>2, <4>2, Zenon
      <4> QED
        BY <3>3, <3>4, <4>1, <4>2, Zenon
    <3> QED
      BY <3>4, <3>5, Zenon
  <2> HIDE DEF z
  <2>10. \A k \in DOMAIN failed'[c] :
           Along(fail_func[c], failed'[c][k], Caller(c, failed'[c][k]))
    BY <2>2, <2>9, Zenon
  <2>11. Counting(c)'
    BY <1>1, <1>6, <2>2, <2>3, <2>4, <2>5, <2>9, <2>10, Zenon DEF Counting
  <2>12. \A d \in Copy \ {c} : Counting(d)'
    BY <1>1, <1>2, <1>7, <2>8, CopyStays, Zenon
  <2> QED
    BY <1>1, <1>2, <1>9, <2>4, <2>11, <2>12, Zenon DEF TestingInv
<1> QED
  BY <1>10, <1>11

\* However many calls are made along whatever chains: a call is made to fail
\* only if it came along the chain, as the last of so many that did, and only
\* one is; a chain of plain names misses none (testing_fail_alloc and
\* testing_test_fail of os_unix.c).
THEOREM CallsFailInTurn == Spec => []InjectionSound
<1>1. Init => TestingInv
  BY TestingStarts, Zenon DEF Init
<1>2. TestingInv /\ [Next]_vars => TestingInv'
  <2> SUFFICES ASSUME TestingInv, [Next]_vars PROVE TestingInv'
    OBVIOUS
  <2>1. CASE \E c \in Copy, p \in Pattern, k \in 1..MaxAfter : Arm(c, p, k)
    BY <2>1, ArmKeeps, Zenon
  <2>2. CASE \E f \in Backtrace["alloc"] : testing_fail_alloc(f)
    <3>1. "alloc" \in Copy
      BY DEF Copy
    <3> QED
      BY <2>2, <3>1, AskedKeeps, Zenon DEF testing_fail_alloc
  <2>3. CASE \E f \in Backtrace["test"] : testing_test_fail(f)
    <3>1. "test" \in Copy
      BY DEF Copy
    <3> QED
      BY <2>3, <3>1, AskedKeeps, Zenon DEF testing_test_fail
  <2>4. CASE UNCHANGED testing
    BY <2>4, Zenon DEF testing, TestingInv, Counting
  <2> QED
    BY <2>1, <2>2, <2>3, <2>4, Zenon DEF Next, TestingNext, vars
<1>3. TestingInv => InjectionSound
  BY TestingInvSuffices
<1> QED
  BY <1>1, <1>2, <1>3, PTL DEF Spec

-----------------------------------------------------------------------------
(* Integers in memory                                                      *)

LEMMA Dividing ==
  /\ \A v \in Nat, b \in Nat \ {0} :
       v = b * (v \div b) + (v % b) /\ v % b \in 0..(b - 1) /\ v \div b \in Nat
  /\ \A q \in Nat, b \in Nat \ {0} : \A r \in 0..(b - 1) :
       (b * q + r) \div b = q /\ (b * q + r) % b = r
<1>1. ASSUME NEW v \in Nat, NEW b \in Nat \ {0}
      PROVE  v = b * (v \div b) + (v % b) /\ v % b \in 0..(b - 1) /\ v \div b \in Nat
  OBVIOUS
<1>2. ASSUME NEW q \in Nat, NEW b \in Nat \ {0}, NEW r \in 0..(b - 1)
      PROVE  (b * q + r) \div b = q /\ (b * q + r) % b = r
  OBVIOUS
<1> QED
  BY <1>1, <1>2

LEMMA Quotient ==
  ASSUME NEW x, NEW q \in Nat, NEW b \in Nat \ {0}, NEW r \in 0..(b - 1), x = b * q + r
  PROVE  x \div b = q /\ x % b = r
  BY Dividing, Zenon

LEMMA Powers ==
  /\ Power[0] = 1
  /\ \A k \in Nat : Power[k] \in Nat \ {0} /\ Power[k + 1] = Byte * Power[k]
<1> DEFINE Step(g, i) == IF i = 0 THEN 1 ELSE Byte * g[i - 1]
           Upto(g, k) == g = [i \in 0..k |-> Step(g, i)]
           Same(g, h, k) == \A i \in 0..k : g[i] = h[i]
<1>1. \A k \in Nat : \E g : Upto(g, k)
  <2> DEFINE T == {k \in Nat : \E g : Upto(g, k)}
  <2>1. 0 \in T
    <3> DEFINE g == [i \in 0..0 |-> 1]
    <3>1. Upto(g, 0)
      OBVIOUS
    <3> HIDE DEF g, Upto
    <3> QED
      BY <3>1
  <2>2. ASSUME NEW k \in Nat, k \in T PROVE k + 1 \in T
    <3>1. PICK g : Upto(g, k)
      BY <2>2
    <3> DEFINE h == [i \in 0..(k + 1) |-> Step(g, i)]
    <3>2. \A i \in 0..(k + 1) : h[i] = Step(g, i)
      OBVIOUS
    <3>3. \A i \in 0..k : h[i] = g[i]
      BY <3>1, <3>2
    <3>4. ASSUME NEW i \in 0..(k + 1) PROVE Step(h, i) = Step(g, i)
      <4>1. i # 0 => i - 1 \in 0..k
        OBVIOUS
      <4> HIDE DEF h
      <4> QED
        BY <3>3, <4>1
    <3>5. Upto(h, k + 1)
      <4> HIDE DEF Step
      <4> QED
        BY <3>4
    <3> HIDE DEF h, Upto
    <3> QED
      BY <3>5
  <2> HIDE DEF T
  <2>3. \A k \in Nat : k \in T
    BY <2>1, <2>2, Induction
  <2> QED
    BY <2>3 DEF T
<1>2. \A k \in Nat : \A g, h : Upto(g, k) /\ Upto(h, k + 1) => Same(g, h, k)
  <2> HIDE DEF Upto, Same
  <2> SUFFICES ASSUME NEW k \in Nat, NEW g, NEW h, Upto(g, k), Upto(h, k + 1)
               PROVE  Same(g, h, k)
    OBVIOUS
  <2> USE DEF Upto, Same
  <2>1. /\ \A i \in 0..k : g[i] = IF i = 0 THEN 1 ELSE Byte * g[i - 1]
        /\ \A i \in 0..k : h[i] = IF i = 0 THEN 1 ELSE Byte * h[i - 1]
    OBVIOUS
  <2> HIDE DEF Upto
  <2> DEFINE T == {i \in Nat : i <= k => g[i] = h[i]}
  <2>2. 0 \in T
    BY <2>1
  <2>3. ASSUME NEW i \in Nat, i \in T PROVE i + 1 \in T
    <3> SUFFICES ASSUME i + 1 <= k PROVE g[i + 1] = h[i + 1]
      OBVIOUS
    <3>1. g[i] = h[i] /\ i + 1 \in 0..k /\ i + 1 # 0 /\ (i + 1) - 1 = i
      BY <2>3
    <3> QED
      BY <2>1, <3>1
  <2> HIDE DEF T
  <2>4. \A i \in Nat : i \in T
    BY <2>2, <2>3, Induction
  <2> QED
    BY <2>4 DEF T
<1> DEFINE ext == CHOOSE e : e = [k \in Nat |-> CHOOSE g : Upto(g, k)]
<1>3. ext = [k \in Nat |-> CHOOSE g : Upto(g, k)]
  <2> HIDE DEF Upto
  <2> QED
    OBVIOUS
<1>4. \A k \in Nat : Upto(ext[k], k)
  <2> HIDE DEF Upto, ext
  <2> QED
    BY <1>1, <1>3
<1> HIDE DEF ext
<1> DEFINE whole == [i \in Nat |-> ext[i][i]]
<1>5. whole = [i \in Nat |-> Step(whole, i)]
  <2>1. ASSUME NEW i \in Nat PROVE ext[i][i] = Step(whole, i)
    <3>1. \A j \in 0..i : ext[i][j] = Step(ext[i], j)
      BY <1>4
    <3>2. i \in 0..i
      OBVIOUS
    <3>3. ext[i][i] = Step(ext[i], i)
      BY <3>1, <3>2
    <3>4. CASE i = 0
      BY <3>3, <3>4
    <3>5. CASE i # 0
      <4>1. i - 1 \in Nat /\ (i - 1) + 1 = i
        BY <3>5
      <4>2. Upto(ext[i - 1], i - 1) /\ Upto(ext[i], (i - 1) + 1)
        BY <1>4, <4>1
      <4>3. Same(ext[i - 1], ext[i], i - 1)
        <5> HIDE DEF Upto, Same
        <5> QED
          BY <1>2, <4>1, <4>2
      <4>4. i - 1 \in 0..(i - 1)
        BY <4>1
      <4>5. ext[i][i - 1] = ext[i - 1][i - 1]
        BY <4>3, <4>4
      <4> QED
        BY <3>3, <3>5, <4>1, <4>5
    <3> QED
      BY <3>4, <3>5
  <2> QED
    BY <2>1
<1>6. Power = [i \in Nat |-> Step(Power, i)]
  <2>1. Power = CHOOSE g : g = [i \in Nat |-> Step(g, i)]
    BY DEF Power
  <2> HIDE DEF Step, whole
  <2> QED
    BY <1>5, <2>1
<1>7. Power[0] = 1 /\ \A k \in Nat : Power[k + 1] = Byte * Power[k]
  <2>1. \A i \in Nat : Power[i] = IF i = 0 THEN 1 ELSE Byte * Power[i - 1]
    BY <1>6
  <2>2. ASSUME NEW k \in Nat PROVE Power[k + 1] = Byte * Power[k]
    <3>1. k + 1 \in Nat /\ k + 1 # 0 /\ (k + 1) - 1 = k
      OBVIOUS
    <3> QED
      BY <2>1, <3>1
  <2> QED
    BY <2>1, <2>2
<1>8. \A k \in Nat : Power[k] \in Nat \ {0}
  <2> DEFINE T == {k \in Nat : Power[k] \in Nat \ {0}}
  <2>1. 0 \in T
    BY <1>7
  <2>2. ASSUME NEW k \in Nat, k \in T PROVE k + 1 \in T
    BY <1>7, <2>2, ByteAssumption
  <2> HIDE DEF T
  <2>3. \A k \in Nat : k \in T
    BY <2>1, <2>2, Induction
  <2> QED
    BY <2>3 DEF T
<1> QED
  BY <1>7, <1>8

\* The partial sums of Joined.
Sums(sum, k, o) ==
  sum[0] = 0 /\ \A i \in 0..(k - 1) : sum[i + 1] = sum[i] + o[i] * Power[i]

LEMMA JoinedSum ==
  ASSUME NEW k \in Nat, NEW o
  PROVE  \E sum : Joined(k, o) = sum[k] /\ Sums(sum, k, o)
<1> DEFINE Step(g, i) == IF i = 0 THEN 0 ELSE g[i - 1] + o[i - 1] * Power[i - 1]
           Upto(g, m) == g = [i \in 0..m |-> Step(g, i)]
           sum == CHOOSE g : g = [i \in 0..k |-> Step(g, i)]
<1>1. Joined(k, o) = sum[k]
  BY DEF Joined
<1>2. \A m \in Nat : \E g : Upto(g, m)
  <2> DEFINE T == {m \in Nat : \E g : Upto(g, m)}
  <2>1. 0 \in T
    <3> DEFINE g == [i \in 0..0 |-> 0]
    <3>1. Upto(g, 0)
      OBVIOUS
    <3> HIDE DEF g, Upto
    <3> QED
      BY <3>1
  <2>2. ASSUME NEW m \in Nat, m \in T PROVE m + 1 \in T
    <3>1. PICK g : Upto(g, m)
      BY <2>2
    <3> DEFINE h == [i \in 0..(m + 1) |-> Step(g, i)]
    <3>2. \A i \in 0..(m + 1) : h[i] = Step(g, i)
      OBVIOUS
    <3>3. \A i \in 0..m : h[i] = g[i]
      BY <3>1, <3>2
    <3>4. ASSUME NEW i \in 0..(m + 1) PROVE Step(h, i) = Step(g, i)
      <4>1. i # 0 => i - 1 \in 0..m
        OBVIOUS
      <4> HIDE DEF h
      <4> QED
        BY <3>3, <4>1
    <3>5. Upto(h, m + 1)
      <4> HIDE DEF Step
      <4> QED
        BY <3>4
    <3> HIDE DEF h, Upto
    <3> QED
      BY <3>5
  <2> HIDE DEF T
  <2>3. \A m \in Nat : m \in T
    BY <2>1, <2>2, Induction
  <2> QED
    BY <2>3 DEF T
<1>3. Upto(sum, k)
  <2>1. \E g : Upto(g, k)
    BY <1>2
  <2> HIDE DEF Step
  <2> QED
    BY <2>1
<1> HIDE DEF sum
<1>4. \A i \in 0..k : sum[i] = Step(sum, i)
  BY <1>3
<1>5. Sums(sum, k, o)
  <2>1. sum[0] = 0
    BY <1>4
  <2>2. ASSUME NEW i \in 0..(k - 1) PROVE sum[i + 1] = sum[i] + o[i] * Power[i]
    <3>1. i + 1 \in 0..k /\ i + 1 # 0 /\ (i + 1) - 1 = i
      OBVIOUS
    <3> QED
      BY <1>4, <3>1
  <2> QED
    BY <2>1, <2>2 DEF Sums
<1> QED
  BY <1>1, <1>5

LEMMA Factor ==
  ASSUME NEW i \in Nat
  PROVE  \A m \in Nat : m >= i => \E c \in Nat : Power[m] = Power[i] * c
<1> DEFINE T == {m \in Nat : m >= i => \E c \in Nat : Power[m] = Power[i] * c}
<1>0. Power[i] \in Nat
  BY Powers
<1>1. Power[i] = Power[i] * 1
  BY <1>0
<1>2. 0 \in T
  <2>1. 0 >= i => Power[0] = Power[i] * 1
    BY <1>1
  <2> QED
    BY <2>1
<1>3. ASSUME NEW m \in Nat, m \in T PROVE m + 1 \in T
  <2> SUFFICES ASSUME m + 1 >= i PROVE \E c \in Nat : Power[m + 1] = Power[i] * c
    OBVIOUS
  <2>1. CASE m + 1 = i
    BY <1>1, <2>1
  <2>2. CASE m + 1 # i
    <3>1. m >= i
      BY <2>2
    <3>2. PICK c \in Nat : Power[m] = Power[i] * c
      BY <1>3, <3>1
    <3>3. Power[m + 1] = Byte * (Power[i] * c)
      BY <3>2, Powers
    <3>4. Power[m + 1] = Power[i] * (Byte * c) /\ Byte * c \in Nat
      <4> HIDE DEF T
      <4> QED
        BY <1>0, <3>3, ByteAssumption
    <3> QED
      BY <3>4
  <2> QED
    BY <2>1, <2>2
<1> HIDE DEF T
<1>4. \A m \in Nat : m \in T
  BY <1>2, <1>3, Induction
<1> QED
  BY <1>4 DEF T

IsOctets(k, o) == \A i \in 0..(k - 1) : o[i] \in 0..(Byte - 1)

\* Octets put together are a number that fits, with those octets.
LEMMA Joining ==
  ASSUME NEW k \in Nat, NEW o, IsOctets(k, o)
  PROVE  /\ Joined(k, o) \in Nat /\ Joined(k, o) < Power[k]
         /\ \A i \in 0..(k - 1) : Octet(Joined(k, o), i) = o[i]
<1>1. PICK sum : Joined(k, o) = sum[k] /\ Sums(sum, k, o)
  BY JoinedSum
<1>2. sum[0] = 0 /\ \A i \in 0..(k - 1) : sum[i + 1] = sum[i] + o[i] * Power[i]
  BY <1>1 DEF Sums
<1>3. Byte \in Nat \ {0, 1}
  BY ByteAssumption
<1>4. \A i \in Nat : i <= k => sum[i] \in Nat /\ sum[i] < Power[i]
  <2> DEFINE T == {i \in Nat : i <= k => sum[i] \in Nat /\ sum[i] < Power[i]}
  <2>1. 0 \in T
    BY <1>2, Powers
  <2>2. ASSUME NEW i \in Nat, i \in T PROVE i + 1 \in T
    <3> SUFFICES ASSUME i + 1 <= k PROVE sum[i + 1] \in Nat /\ sum[i + 1] < Power[i + 1]
      OBVIOUS
    <3>1. /\ sum[i] \in Nat /\ sum[i] < Power[i] /\ sum[i + 1] = sum[i] + o[i] * Power[i]
          /\ o[i] \in 0..(Byte - 1)
      BY <1>2, <2>2 DEF IsOctets
    <3>2. Power[i] \in Nat /\ Power[i + 1] = Byte * Power[i]
      BY Powers
    <3>3. o[i] * Power[i] \in Nat /\ o[i] * Power[i] <= (Byte - 1) * Power[i]
          /\ (Byte - 1) * Power[i] = Byte * Power[i] - Power[i]
      <4> DEFINE P == Power[i]
                 d == o[i]
      <4>1. P \in Nat /\ d \in 0..(Byte - 1)
        BY <3>1, <3>2
      <4> HIDE DEF P, d, T
      <4>2. d * P \in Nat /\ d * P <= (Byte - 1) * P /\ (Byte - 1) * P = Byte * P - P
        BY <1>3, <4>1
      <4> QED
        BY <4>2 DEF P, d
    <3>4. Byte * Power[i] \in Nat
      BY <1>3, <3>2
    <3> QED
      BY <3>1, <3>2, <3>3, <3>4
  <2> HIDE DEF T
  <2>3. \A i \in Nat : i \in T
    BY <2>1, <2>2, Induction
  <2> QED
    BY <2>3 DEF T
<1>5. ASSUME NEW i \in 0..(k - 1) PROVE Octet(sum[k], i) = o[i]
  <2> DEFINE P == Power[i]
             Q == Power[i + 1]
             T == {m \in Nat : m >= i + 1 /\ m <= k => \E q \in Nat : sum[m] = Q * q + sum[i + 1]}
  <2>1. i \in Nat /\ i + 1 \in Nat /\ i <= k /\ i + 1 <= k
    OBVIOUS
  <2>2. P \in Nat \ {0} /\ Q \in Nat \ {0} /\ Q = Byte * P
    BY <2>1, Powers
  <2>3. /\ sum[i] \in Nat /\ sum[i] < P /\ sum[i + 1] \in Nat
        /\ sum[i + 1] = sum[i] + o[i] * P /\ o[i] \in 0..(Byte - 1)
    BY <1>2, <1>4, <2>1 DEF IsOctets
  <2>4. sum[i + 1] = Q * 0 + sum[i + 1]
    BY <2>2, <2>3
  <2> HIDE DEF P, Q
  <2>5. 0 \in T
    OBVIOUS
  <2>6. ASSUME NEW m \in Nat, m \in T PROVE m + 1 \in T
    <3> SUFFICES ASSUME m + 1 >= i + 1, m + 1 <= k
                 PROVE  \E q \in Nat : sum[m + 1] = Q * q + sum[i + 1]
      OBVIOUS
    <3>1. CASE m + 1 = i + 1
      <4>1. sum[m + 1] = Q * 0 + sum[i + 1] /\ 0 \in Nat
        BY <2>4, <3>1
      <4> QED
        BY <4>1
    <3>2. CASE m + 1 # i + 1
      <4>1. PICK q \in Nat : sum[m] = Q * q + sum[i + 1]
        BY <2>6, <3>2
      <4>2. m >= i + 1 /\ m \in 0..(k - 1)
        BY <3>2
      <4>3. PICK c \in Nat : Power[m] = Q * c
        BY <2>1, <4>2, Factor DEF Q
      <4>4. sum[m + 1] = Q * q + sum[i + 1] + o[m] * (Q * c) /\ o[m] \in Nat
        BY <1>2, <1>3, <4>1, <4>2, <4>3 DEF IsOctets
      <4> DEFINE d == o[m]
                 s == sum[i + 1]
      <4>5. sum[m + 1] = Q * q + s + d * (Q * c) /\ d \in Nat /\ s \in Nat /\ Q \in Nat
        BY <2>2, <2>3, <4>4
      <4> HIDE DEF d, s, T
      <4>6. Q * q + s + d * (Q * c) = Q * (q + d * c) + s /\ q + d * c \in Nat
        BY <4>5
      <4> QED
        BY <4>5, <4>6 DEF s
    <3> QED
      BY <3>1, <3>2
  <2> HIDE DEF T
  <2>7. k \in T
    BY <2>5, <2>6, Induction
  <2>8. PICK q \in Nat : sum[k] = Q * q + sum[i + 1]
    BY <2>1, <2>7 DEF T
  <2> DEFINE d == o[i]
             s == sum[i]
  <2>9. sum[k] = (Byte * P) * q + (s + d * P) /\ s \in Nat /\ s < P /\ d \in 0..(Byte - 1)
    BY <2>2, <2>3, <2>8
  <2> HIDE DEF d, s
  <2>10. (Byte * P) * q + (s + d * P) = P * (Byte * q + d) + s /\ Byte * q + d \in Nat
    BY <1>3, <2>2, <2>9
  <2>11. sum[k] \div P = Byte * q + d
    <3>1. s \in 0..(P - 1)
      BY <2>2, <2>9
    <3>2. sum[k] = P * (Byte * q + d) + s
      BY <2>9, <2>10
    <3>3. PICK y \in Nat : y = Byte * q + d
      BY <2>10
    <3>4. sum[k] = P * y + s /\ P \in Nat \ {0}
      BY <2>2, <3>2, <3>3
    <3>5. sum[k] \div P = y
      BY <3>1, <3>4, Quotient, Zenon
    <3> QED
      BY <3>3, <3>5
  <2>12. (Byte * q + d) % Byte = d
    BY <1>3, <2>9, Dividing
  <2> QED
    BY <2>11, <2>12 DEF Octet, P, d
<1> QED
  BY <1>1, <1>4, <1>5

\* A number that fits is its octets put together.
LEMMA OctetsJoined ==
  ASSUME NEW k \in Nat, NEW v \in Nat, v < Power[k], NEW o,
         \A i \in 0..(k - 1) : o[i] = Octet(v, i)
  PROVE  Joined(k, o) = v
<1>1. PICK sum : Joined(k, o) = sum[k] /\ Sums(sum, k, o)
  BY JoinedSum
<1>2. sum[0] = 0 /\ \A i \in 0..(k - 1) : sum[i + 1] = sum[i] + o[i] * Power[i]
  BY <1>1 DEF Sums
<1>3. Byte \in Nat \ {0, 1}
  BY ByteAssumption
<1>4. \A i \in Nat : i <= k => sum[i] = v % Power[i]
  <2> DEFINE T == {i \in Nat : i <= k => sum[i] = v % Power[i]}
  <2>1. 0 \in T
    <3>1. v % 1 = 0
      OBVIOUS
    <3> QED
      BY <1>2, <3>1, Powers
  <2>2. ASSUME NEW i \in Nat, i \in T PROVE i + 1 \in T
    <3> SUFFICES ASSUME i + 1 <= k PROVE sum[i + 1] = v % Power[i + 1]
      OBVIOUS
    <3> DEFINE P == Power[i]
               z == v \div P
               r == z % Byte
               w == z \div Byte
               s == v % P
    <3>1. sum[i] = s /\ sum[i + 1] = sum[i] + r * P
      BY <1>2, <2>2 DEF Octet
    <3>2. P \in Nat \ {0} /\ Power[i + 1] = Byte * P
      BY Powers
    <3> HIDE DEF P
    <3>3. v = P * z + s /\ s \in 0..(P - 1) /\ z \in Nat
      BY <3>2, Dividing
    <3> HIDE DEF z, s
    <3>4. z = Byte * w + r /\ r \in 0..(Byte - 1) /\ w \in Nat
      BY <1>3, <3>3, Dividing
    <3> HIDE DEF r, w, T
    <3>5. P * (Byte * w + r) + s = (Byte * P) * w + (s + r * P)
      BY <1>3, <3>2, <3>3, <3>4
    <3>6. s + r * P \in 0..(Byte * P - 1)
      <4>1. r * P \in Nat /\ r * P <= (Byte - 1) * P /\ (Byte - 1) * P = Byte * P - P
        BY <1>3, <3>2, <3>4
      <4>2. Byte * P \in Nat
        BY <1>3, <3>2
      <4> QED
        BY <3>2, <3>3, <4>1, <4>2
    <3>7. Byte * P \in Nat \ {0}
      BY <1>3, <3>2
    <3>8. v = (Byte * P) * w + (s + r * P)
      BY <3>3, <3>4, <3>5
    <3>9. v % (Byte * P) = s + r * P
      BY <3>4, <3>6, <3>7, <3>8, Quotient, Zenon
    <3> QED
      BY <3>1, <3>2, <3>9
  <2> HIDE DEF T
  <2>3. \A i \in Nat : i \in T
    BY <2>1, <2>2, Induction
  <2> QED
    BY <2>3 DEF T
<1>5. v % Power[k] = v
  <2> DEFINE P == Power[k]
  <2>1. P \in Nat \ {0} /\ v \in 0..(P - 1)
    BY Powers
  <2> HIDE DEF P
  <2>2. v = P * 0 + v
    BY <2>1
  <2>3. 0 \in Nat
    OBVIOUS
  <2> QED
    BY <2>1, <2>2, <2>3, Quotient, Zenon DEF P
<1> QED
  BY <1>1, <1>4, <1>5

LEMMA OctetIsOne == \A v, i \in Nat : Octet(v, i) \in 0..(Byte - 1)
<1>1. ASSUME NEW v \in Nat, NEW i \in Nat PROVE Octet(v, i) \in 0..(Byte - 1)
  <2>1. Power[i] \in Nat \ {0} /\ Byte \in Nat \ {0}
    BY Powers, ByteAssumption
  <2>2. v \div Power[i] \in Nat
    BY <2>1, Dividing
  <2> QED
    BY <2>1, <2>2, Dividing, Zenon DEF Octet
<1> QED
  BY <1>1

LEMMA PutShape ==
  ASSUME NEW k \in Nat, NEW v
  PROVE  /\ Len(PutBE(k, v)) = k /\ Len(PutLE(k, v)) = k
         /\ \A j \in 1..k : PutBE(k, v)[j] = Octet(v, k - j) /\ PutLE(k, v)[j] = Octet(v, j - 1)
  BY DEF PutBE, PutLE

\* What was put is got.
LEMMA PutGet ==
  ASSUME NEW k \in Nat, NEW v \in Nat, v < Power[k]
  PROVE  GetLE(PutLE(k, v)) = v /\ GetBE(PutBE(k, v)) = v
<1> DEFINE a == PutLE(k, v)
           b == PutBE(k, v)
           o == [i \in 0..(Len(a) - 1) |-> a[i + 1]]
           p == [i \in 0..(Len(b) - 1) |-> b[Len(b) - i]]
<1>1. /\ Len(a) = k /\ \A j \in 1..k : a[j] = Octet(v, j - 1)
      /\ Len(b) = k /\ \A j \in 1..k : b[j] = Octet(v, k - j)
  BY PutShape
<1>2. GetLE(a) = Joined(Len(a), o) /\ GetBE(b) = Joined(Len(b), p)
  BY DEF GetLE, GetBE
<1> HIDE DEF a, b
<1>3. ASSUME NEW i \in 0..(k - 1) PROVE o[i] = Octet(v, i) /\ p[i] = Octet(v, i)
  <2>1. i + 1 \in 1..k /\ (i + 1) - 1 = i /\ k - i \in 1..k /\ k - (k - i) = i
    OBVIOUS
  <2>2. o[i] = a[i + 1] /\ p[i] = b[k - i]
    BY <1>1
  <2>3. a[i + 1] = Octet(v, (i + 1) - 1) /\ b[k - i] = Octet(v, k - (k - i))
    BY <1>1, <2>1
  <2> QED
    BY <2>1, <2>2, <2>3
<1> HIDE DEF o, p
<1>4. Joined(k, o) = v /\ Joined(k, p) = v
  BY <1>3, OctetsJoined
<1> QED
  BY <1>1, <1>2, <1>4 DEF a, b

\* Swapped bytes are those of the other order.
LEMMA Swapping ==
  ASSUME NEW k \in Nat, NEW v \in Nat
  PROVE  /\ bswap(k, v) \in Nat /\ bswap(k, v) < Power[k]
         /\ PutLE(k, bswap(k, v)) = PutBE(k, v) /\ PutBE(k, bswap(k, v)) = PutLE(k, v)
<1> DEFINE o == [i \in 0..(k - 1) |-> Octet(v, k - 1 - i)]
           w == bswap(k, v)
<1>1. \A i \in 0..(k - 1) : o[i] = Octet(v, k - 1 - i) /\ k - 1 - i \in Nat
  OBVIOUS
<1>2. w = Joined(k, o)
  BY DEF bswap
<1> HIDE DEF o, w
<1>3. IsOctets(k, o)
  BY <1>1, OctetIsOne DEF IsOctets
<1>4. w \in Nat /\ w < Power[k] /\ \A i \in 0..(k - 1) : Octet(w, i) = o[i]
  BY <1>2, <1>3, Joining
<1>5. ASSUME NEW j \in 1..k
      PROVE  Octet(w, j - 1) = Octet(v, k - j) /\ Octet(w, k - j) = Octet(v, j - 1)
  <2>1. /\ j - 1 \in 0..(k - 1) /\ k - 1 - (j - 1) = k - j
        /\ k - j \in 0..(k - 1) /\ k - 1 - (k - j) = j - 1
    OBVIOUS
  <2>2. Octet(w, j - 1) = Octet(v, k - 1 - (j - 1)) /\ Octet(w, k - j) = Octet(v, k - 1 - (k - j))
    BY <1>1, <1>4, <2>1
  <2> QED
    BY <2>1, <2>2
<1>6. PutLE(k, w) = PutBE(k, v) /\ PutBE(k, w) = PutLE(k, v)
  BY <1>5 DEF PutLE, PutBE
<1> QED
  BY <1>4, <1>6 DEF w

\* Integer v of k bytes in memory, in byte order o.
Laid(o, k, v) == IF o = "big" THEN PutBE(k, v) ELSE PutLE(k, v)

\* On hosts of either order, a converted integer is stored in the order it was
\* converted to, and loading and converting it back gives it again.
LEMMA Conversion ==
  ASSUME NEW h \in Orders, NEW o \in Orders, NEW k \in Nat, NEW v \in Nat, v < Power[k]
  PROVE  /\ Stored(h, k, Converted(h, o, k, v)) = Laid(o, k, v)
         /\ (IF o = "big" THEN GetBE(Laid(o, k, v)) ELSE GetLE(Laid(o, k, v))) = v
         /\ Converted(h, o, k, Loaded(h, Laid(o, k, v))) = v
<1> DEFINE w == bswap(k, v)
<1>1. /\ w \in Nat /\ w < Power[k] /\ PutLE(k, w) = PutBE(k, v) /\ PutBE(k, w) = PutLE(k, v)
  BY Swapping
<1>2. GetLE(PutLE(k, v)) = v /\ GetBE(PutBE(k, v)) = v
  BY PutGet
<1>3. GetLE(PutBE(k, v)) = w /\ GetBE(PutLE(k, v)) = w
  <2> HIDE DEF w
  <2>1. GetLE(PutLE(k, w)) = w /\ GetBE(PutBE(k, w)) = w
    BY <1>1, PutGet
  <2> QED
    BY <1>1, <2>1
<1>4. bswap(k, w) = v
  <2> HIDE DEF w
  <2> DEFINE z == bswap(k, w)
  <2>1. z \in Nat /\ z < Power[k] /\ PutLE(k, z) = PutBE(k, w)
    BY <1>1, Swapping
  <2> HIDE DEF z
  <2>2. GetLE(PutLE(k, z)) = z
    BY <2>1, PutGet
  <2> QED
    BY <1>1, <1>2, <2>1, <2>2 DEF z
<1>5. (h = "little" \/ h = "big") /\ (o = "little" \/ o = "big") /\ "little" # "big"
  BY DEF Orders
<1>6. CASE h = o
  <2>1. CASE h = "little" /\ o = "little"
    BY <1>2, <1>5, <2>1, Zenon DEF Stored, Converted, Laid, Loaded
  <2>2. CASE h = "big" /\ o = "big"
    BY <1>2, <1>5, <2>2, Zenon DEF Stored, Converted, Laid, Loaded
  <2> QED
    BY <1>5, <1>6, <2>1, <2>2
<1>7. CASE h # o
  <2>1. CASE h = "little" /\ o = "big"
    BY <1>1, <1>2, <1>3, <1>4, <1>5, <2>1, Zenon DEF Stored, Converted, Laid, Loaded
  <2>2. CASE h = "big" /\ o = "little"
    BY <1>1, <1>2, <1>3, <1>4, <1>5, <2>2, Zenon DEF Stored, Converted, Laid, Loaded
  <2> QED
    BY <1>5, <1>7, <2>1, <2>2
<1> QED
  BY <1>6, <1>7

-----------------------------------------------------------------------------
(* Buffers                                                                 *)

Items == [at : Nat, n : Widths, order : Orders]

\* Item it lies within the first u bytes of memory m, as it was put.
Lies(m, u, it) ==
  /\ it.at + it.n <= u
  /\ \A j \in 1..it.n : m[it.at + j] = Laid(it.order, it.n, Val[it.n])[j]

BufferTypes ==
  /\ host \in Orders
  /\ size \in [Buf -> Nat] /\ used \in [Buf -> Nat] /\ data \in [Buf -> Buf]
  /\ DOMAIN flags = Buf /\ DOMAIN mem = Buf /\ DOMAIN items = Buf
  /\ \A b \in Buf : mem[b] \in [1..Cap[b] -> Nat] /\ items[b] \in Seq(Items)

\* A buffer that refers to another's data is full; one that does not has the
\* memory it was allocated with, and no other sees further into that.
Bounds ==
  /\ \A b \in Buf : used[b] <= size[b] /\ size[b] <= Cap[data[b]]
  /\ \A b \in Buf : IF flags[b] = {} THEN data[b] = b ELSE used[b] = size[b]
  /\ \A b, c \in Buf : flags[c] = {} /\ data[b] = c => used[b] <= used[c]

BufferInv ==
  /\ BufferTypes /\ Bounds
  /\ \A b \in Buf : \A k \in 1..Len(items[b]) : Lies(mem[data[b]], used[b], items[b][k])

LEMMA Widths8 == \A k \in Widths : k \in Nat \ {0} /\ Val[k] \in Nat /\ Val[k] < Power[k]
<1>1. Widths \subseteq 1..8
  BY WpabufAssumption, Zenon
<1>2. \A k \in Widths : Val[k] \in Nat /\ Val[k] < Power[k]
  BY WpabufAssumption
<1> QED
  BY <1>1, <1>2

LEMMA LaidBytes ==
  ASSUME NEW k \in Widths, NEW o \in Orders
  PROVE  Laid(o, k, Val[k]) \in Seq(Nat) /\ Len(Laid(o, k, Val[k])) = k
<1>1. k \in Nat /\ Val[k] \in Nat
  BY Widths8
<1>2. \A j \in 1..k : k - j \in Nat /\ j - 1 \in Nat
  BY <1>1
<1>3. \A j \in 1..k : Octet(Val[k], k - j) \in Nat /\ Octet(Val[k], j - 1) \in Nat
  <2>1. \A i \in Nat : Octet(Val[k], i) \in 0..(Byte - 1)
    BY <1>1, OctetIsOne
  <2>2. \A i \in Nat : Octet(Val[k], i) \in Nat
    <3> SUFFICES ASSUME NEW i \in Nat PROVE Octet(Val[k], i) \in Nat
      OBVIOUS
    <3>1. Octet(Val[k], i) \in 0..(Byte - 1)
      BY <2>1
    <3> QED
      BY <3>1, ByteAssumption
  <2> QED
    BY <1>2, <2>2
<1>4. PutBE(k, Val[k]) \in Seq(Nat) /\ PutLE(k, Val[k]) \in Seq(Nat)
  BY <1>1, <1>3 DEF PutBE, PutLE
<1>5. Len(PutBE(k, Val[k])) = k /\ Len(PutLE(k, Val[k])) = k
  BY <1>1, PutShape
<1> QED
  BY <1>4, <1>5, Zenon DEF Laid

LEMMA BufferInvSuffices == BufferInv => ReadsBack
<1> SUFFICES ASSUME BufferInv, NEW b \in Buf, NEW k \in DOMAIN items[b]
             PROVE  LET it == items[b][k]
                        s == Octets(b, it)
                    IN /\ it.at + it.n <= used[b]
                       /\ (IF it.order = "big" THEN GetBE(s) ELSE GetLE(s)) = Val[it.n]
                       /\ it.n \in {2, 4, 8} =>
                            Converted(host, it.order, it.n, Loaded(host, s)) = Val[it.n]
  BY Zenon DEF ReadsBack
<1> DEFINE it == items[b][k]
           s == Octets(b, it)
           w == it.n
           o == it.order
           l == Laid(o, w, Val[w])
           m == mem[data[b]]
<1>1. it \in Items /\ Lies(m, used[b], it)
  <2>1. items[b] \in Seq(Items)
    BY DEF BufferInv, BufferTypes
  <2>2. k \in 1..Len(items[b]) /\ items[b][k] \in Items
    BY <2>1, LenProperties
  <2> QED
    BY <2>2 DEF BufferInv
<1> HIDE DEF it, m
<1>2. w \in Widths /\ o \in Orders /\ it.at \in Nat
  BY <1>1 DEF Items
<1>3. w \in Nat \ {0} /\ Val[w] \in Nat /\ Val[w] < Power[w]
  BY <1>2, Widths8
<1>4. l \in Seq(Nat) /\ Len(l) = w /\ \A j \in 1..w : l[j] \in Nat
  <2>1. l \in Seq(Nat) /\ Len(l) = w
    BY <1>2, LaidBytes
  <2> HIDE DEF l
  <2> QED
    BY <2>1, LenProperties
<1>5. it.at + w <= used[b] /\ \A j \in 1..w : m[it.at + j] = l[j]
  BY <1>1 DEF Lies
<1>6. s = SubSeq(m, it.at + 1, it.at + w)
  BY DEF Octets, m
<1> HIDE DEF s, l, w, o
<1>7. s = l
  <2>1. it.at \in Nat /\ w \in Nat /\ \A j \in 1..w : m[it.at + j] \in Nat
    BY <1>2, <1>3, <1>4, <1>5
  <2>2. PICK a \in Nat : a = it.at
    BY <2>1
  <2>3. PICK g : g = m
    OBVIOUS
  <2>4. \A j \in 1..w : g[a + j] \in Nat
    BY <2>1, <2>2, <2>3
  <2> DEFINE r == SubSeq(g, a + 1, a + w)
  <2>5. r \in Seq(Nat) /\ Len(r) = w /\ \A j \in 1..w : r[j] = g[a + j]
    BY <2>1, <2>4
  <2>6. s = r
    BY <1>6, <2>2, <2>3, Zenon
  <2> HIDE DEF r
  <2>7. s \in Seq(Nat) /\ Len(s) = w /\ \A j \in 1..w : s[j] = m[it.at + j]
    BY <2>2, <2>3, <2>5, <2>6, Zenon
  <2> QED
    BY <1>4, <1>5, <2>7, SeqEqual
<1>8. host \in Orders
  BY DEF BufferInv, BufferTypes
<1>9. /\ (IF o = "big" THEN GetBE(l) ELSE GetLE(l)) = Val[w]
      /\ Converted(host, o, w, Loaded(host, l)) = Val[w]
  <2>1. w \in Nat
    BY <1>3
  <2> QED
    BY <1>2, <1>3, <1>8, <2>1, Conversion DEF l
<1> QED
  BY <1>5, <1>7, <1>9, Zenon DEF it, s, w, o

LEMMA BuffersStart == host \in Orders /\ WpabufInit => BufferInv
<1> SUFFICES ASSUME host \in Orders, WpabufInit PROVE BufferInv
  OBVIOUS
<1>1. Cap \in [Buf -> Nat]
  BY WpabufAssumption, Zenon
<1>2. \A b \in Buf : mem[b] \in [1..Cap[b] -> Nat] /\ items[b] \in Seq(Items) /\ Len(items[b]) = 0
  BY EmptySeq DEF WpabufInit
<1>3. BufferTypes
  BY <1>1, <1>2 DEF WpabufInit, BufferTypes
<1>4. Bounds
  BY <1>1 DEF WpabufInit, Bounds
<1> QED
  BY <1>2, <1>3, <1>4 DEF BufferInv

\* Items its lie in the bytes s that come after the first u.
Come(s, u, its) ==
  \A k \in 1..Len(its) :
    /\ its[k].at >= u /\ its[k].at + its[k].n <= u + Len(s)
    /\ \A j \in 1..its[k].n :
         s[its[k].at - u + j] = Laid(its[k].order, its[k].n, Val[its[k].n])[j]

LEMMA ExtendKeeps ==
  ASSUME BufferInv, NEW b \in Buf, NEW s \in Seq(Nat), NEW its \in Seq(Items),
         Come(s, used[b], its), Extend(b, s, its)
  PROVE  BufferInv'
<1> DEFINE ls == Len(s)
           u == used[b]
           d == data[b]
<1>1. /\ host' = host /\ size' = size /\ flags' = flags /\ data' = data
      /\ used' = [used EXCEPT ![b] = @ + ls]
      /\ mem' = [mem EXCEPT ![d] =
           [i \in DOMAIN @ |-> IF i - u \in 1..ls THEN s[i - u] ELSE @[i]]]
      /\ items' = [items EXCEPT ![b] = @ \o its]
      /\ size[b] - u >= ls
  BY Zenon DEF Extend, wpabuf_tailroom
<1>2. BufferTypes /\ Bounds
  BY DEF BufferInv
<1>3. /\ ls \in Nat /\ u \in Nat /\ d \in Buf /\ size[b] \in Nat /\ u + ls <= size[b]
      /\ Cap[d] \in Nat /\ size[b] <= Cap[d] /\ mem[d] \in [1..Cap[d] -> Nat]
      /\ \A j \in 1..ls : s[j] \in Nat
  <2>1. Cap \in [Buf -> Nat]
    BY WpabufAssumption, Zenon
  <2>2. /\ u \in Nat /\ d \in Buf /\ size[b] \in Nat /\ Cap[d] \in Nat /\ size[b] <= Cap[d]
        /\ mem[d] \in [1..Cap[d] -> Nat]
    BY <1>2, <2>1 DEF BufferTypes, Bounds
  <2>3. ls \in Nat /\ \A j \in 1..ls : s[j] \in Nat
    BY LenProperties
  <2> HIDE DEF ls, u, d
  <2>4. u + ls <= size[b]
    BY <1>1, <2>2, <2>3
  <2> QED
    BY <2>2, <2>3, <2>4
<1> DEFINE new == [i \in 1..Cap[d] |-> IF i - u \in 1..ls THEN s[i - u] ELSE mem[d][i]]
<1>4. mem' = [mem EXCEPT ![d] = new]
  BY <1>1, <1>3
<1>5. /\ DOMAIN mem' = Buf /\ mem'[d] = new /\ \A x \in Buf \ {d} : mem'[x] = mem[x]
      /\ new \in [1..Cap[d] -> Nat]
  BY <1>2, <1>3, <1>4 DEF BufferTypes
<1>6. /\ used' \in [Buf -> Nat] /\ used'[b] = u + ls /\ \A x \in Buf \ {b} : used'[x] = used[x]
  BY <1>1, <1>2, <1>3 DEF BufferTypes
<1>7. /\ DOMAIN items' = Buf /\ items'[b] = items[b] \o its
      /\ \A x \in Buf \ {b} : items'[x] = items[x]
  BY <1>1, <1>2 DEF BufferTypes
<1>8. \A j \in 1..ls : new[u + j] = s[j]
  <2> SUFFICES ASSUME NEW j \in 1..ls PROVE new[u + j] = s[j]
    OBVIOUS
  <2>1. u + j \in 1..Cap[d] /\ (u + j) - u = j
    BY <1>3
  <2> QED
    BY <2>1
<1>9. \A i \in 1..u : new[i] = mem[d][i]
  <2> SUFFICES ASSUME NEW i \in 1..u PROVE new[i] = mem[d][i]
    OBVIOUS
  <2>1. i \in 1..Cap[d] /\ ~ (i - u \in 1..ls)
    BY <1>3
  <2> QED
    BY <2>1
<1>10. flags[b] = {} \/ ls = 0
  <2>1. flags[b] # {} => u = size[b]
    BY <1>2 DEF Bounds
  <2> HIDE DEF u, ls, d, new
  <2> QED
    BY <1>3, <2>1
<1>11. ls = 0 => new = mem[d]
  <2> HIDE DEF ls, u, d
  <2>1. ls = 0 => \A i \in 1..Cap[d] : ~ (i - u \in 1..ls)
    OBVIOUS
  <2>2. ls = 0 => new = [i \in 1..Cap[d] |-> mem[d][i]]
    BY <2>1
  <2> HIDE DEF new
  <2> QED
    BY <1>3, <2>2
<1> HIDE DEF new, ls, u, d
\* What any buffer had seen is as it was.
<1>12. ASSUME NEW x \in Buf, NEW i \in 1..used[x]
       PROVE  mem'[data[x]][i] = mem[data[x]][i]
  <2>1. data[x] \in Buf /\ used[x] \in Nat
    BY <1>2 DEF BufferTypes
  <2>2. CASE data[x] # d
    BY <1>5, <2>1, <2>2
  <2>3. CASE data[x] = d /\ ls = 0
    BY <1>5, <1>11, <2>3
  <2>4. CASE data[x] = d /\ flags[b] = {}
    <3>1. d = b
      BY <1>2, <2>4 DEF Bounds, d
    <3>2. used[x] <= u
      BY <1>2, <2>4, <3>1 DEF Bounds, u
    <3>3. i \in 1..u
      BY <1>3, <2>1, <3>2
    <3> QED
      BY <1>5, <1>9, <2>4, <3>3
  <2> QED
    BY <1>10, <2>2, <2>3, <2>4
<1>13. \A x \in Buf : used[x] <= used'[x]
  <2>1. \A x \in Buf : used[x] \in Nat
    BY <1>2 DEF BufferTypes
  <2>2. used[b] = u /\ u <= u + ls
    BY <1>3 DEF u
  <2> QED
    BY <1>6, <2>1, <2>2
<1>14. ASSUME NEW x \in Buf, NEW it \in Items, Lies(mem[data[x]], used[x], it)
       PROVE  Lies(mem'[data[x]], used'[x], it)
  <2>1. it.at \in Nat /\ it.n \in Nat
    BY Widths8 DEF Items
  <2>2. used[x] \in Nat /\ used'[x] \in Nat
    BY <1>2, <1>6 DEF BufferTypes
  <2>3. it.at + it.n <= used[x] /\ \A j \in 1..it.n : it.at + j \in 1..used[x]
    BY <1>14, <2>1, <2>2 DEF Lies
  <2>4. it.at + it.n <= used'[x]
    BY <1>13, <2>1, <2>2, <2>3
  <2>5. \A j \in 1..it.n : mem'[data[x]][it.at + j] = mem[data[x]][it.at + j]
    BY <1>12, <2>3
  <2> QED
    BY <1>14, <2>4, <2>5, Zenon DEF Lies
<1>15. /\ items[b] \in Seq(Items) /\ Len(items[b]) \in Nat /\ Len(its) \in Nat
       /\ items'[b] \in Seq(Items) /\ Len(items'[b]) = Len(items[b]) + Len(its)
       /\ \A k \in 1..(Len(items[b]) + Len(its)) :
            items'[b][k] = IF k <= Len(items[b]) THEN items[b][k] ELSE its[k - Len(items[b])]
  <2>1. items[b] \in Seq(Items)
    BY <1>2 DEF BufferTypes
  <2>2. Len(items[b]) \in Nat /\ Len(its) \in Nat
    BY <2>1, LenProperties
  <2>3. /\ items[b] \o its \in Seq(Items) /\ Len(items[b] \o its) = Len(items[b]) + Len(its)
        /\ \A k \in 1..(Len(items[b]) + Len(its)) :
             (items[b] \o its)[k] = IF k <= Len(items[b]) THEN items[b][k]
                                    ELSE its[k - Len(items[b])]
    BY <2>1, ConcatProperties, Zenon
  <2> QED
    BY <1>7, <2>1, <2>2, <2>3, Zenon
<1>16. BufferTypes'
  <2>1. \A x \in Buf : mem'[x] \in [1..Cap[x] -> Nat] /\ items'[x] \in Seq(Items)
    <3> SUFFICES ASSUME NEW x \in Buf
                 PROVE  mem'[x] \in [1..Cap[x] -> Nat] /\ items'[x] \in Seq(Items)
      OBVIOUS
    <3>1. mem[x] \in [1..Cap[x] -> Nat] /\ items[x] \in Seq(Items)
      BY <1>2 DEF BufferTypes
    <3>2. mem'[x] \in [1..Cap[x] -> Nat]
      BY <1>5, <3>1, Zenon
    <3>3. items'[x] \in Seq(Items)
      BY <1>7, <1>15, <3>1, Zenon
    <3> QED
      BY <3>2, <3>3
  <2> QED
    BY <1>1, <1>2, <1>5, <1>6, <1>7, <2>1, Zenon DEF BufferTypes
<1>17. Bounds'
  <2>1. \A x \in Buf : used'[x] <= size[x] /\ size[x] <= Cap[data[x]]
    BY <1>2, <1>3, <1>6 DEF Bounds
  <2>2. \A x \in Buf : IF flags[x] = {} THEN data[x] = x ELSE used'[x] = size[x]
    <3> SUFFICES ASSUME NEW x \in Buf, flags[x] # {} PROVE used'[x] = size[x]
      BY <1>2 DEF Bounds
    <3>1. used[x] = size[x]
      BY <1>2 DEF Bounds
    <3>2. x = b => u + ls = u
      BY <1>3, <1>10
    <3> QED
      BY <1>6, <3>1, <3>2 DEF u
  <2>3. ASSUME NEW x \in Buf, NEW c \in Buf, flags[c] = {}, data[x] = c
        PROVE  used'[x] <= used'[c]
    <3>1. used[x] <= used[c]
      BY <1>2, <2>3 DEF Bounds
    <3>2. used[c] <= used'[c] /\ used[c] \in Nat /\ used'[c] \in Nat /\ used[x] \in Nat
      BY <1>2, <1>6, <1>13 DEF BufferTypes
    <3>3. CASE x # b
      BY <1>6, <3>1, <3>2, <3>3
    <3>4. CASE x = b /\ c = b
      BY <3>2, <3>4
    <3>5. CASE x = b /\ c # b
      <4>1. flags[b] # {}
        BY <1>2, <2>3, <3>5 DEF Bounds
      <4>2. ls = 0
        BY <1>10, <4>1
      <4>3. used'[x] = used[x]
        BY <1>3, <1>6, <3>5, <4>2 DEF u
      <4> QED
        BY <3>1, <3>2, <4>3
    <3> QED
      BY <3>3, <3>4, <3>5
  <2> QED
    BY <1>1, <2>1, <2>2, <2>3, Zenon DEF Bounds
<1>18. ASSUME NEW x \in Buf, NEW k \in 1..Len(items'[x])
       PROVE  Lies(mem'[data[x]], used'[x], items'[x][k])
  <2>1. \A y \in Buf : \A z \in 1..Len(items[y]) :
          items[y][z] \in Items /\ Lies(mem[data[y]], used[y], items[y][z])
    <3>1. \A y \in Buf : items[y] \in Seq(Items)
      BY <1>2 DEF BufferTypes
    <3>2. \A y \in Buf : \A z \in 1..Len(items[y]) : items[y][z] \in Items
      BY <3>1, LenProperties
    <3> QED
      BY <3>2, Zenon DEF BufferInv
  <2>2. CASE x # b
    BY <1>7, <1>14, <1>18, <2>1, <2>2, Zenon
  <2>3. CASE x = b /\ k <= Len(items[b])
    <3>1. k \in 1..Len(items[b]) /\ items'[b][k] = items[b][k]
      BY <1>15, <1>18, <2>3
    <3> QED
      BY <1>14, <2>1, <2>3, <3>1, Zenon
  <2>4. CASE x = b /\ ~ (k <= Len(items[b]))
    <3> DEFINE z == k - Len(items[b])
               it == its[z]
    <3>1. z \in 1..Len(its) /\ items'[b][k] = it
      BY <1>15, <1>18, <2>4
    <3>2. it \in Items
      BY <3>1, LenProperties
    <3>3. /\ it.at >= u /\ it.at + it.n <= u + ls
          /\ \A j \in 1..it.n : s[it.at - u + j] = Laid(it.order, it.n, Val[it.n])[j]
      BY <3>1, Zenon DEF Come, u, ls
    <3> HIDE DEF it, z
    <3>4. it.at \in Nat /\ it.n \in Nat
      BY <3>2, Widths8 DEF Items
    <3>5. ASSUME NEW j \in 1..it.n
          PROVE  new[it.at + j] = Laid(it.order, it.n, Val[it.n])[j]
      <4>1. it.at - u + j \in 1..ls /\ u + (it.at - u + j) = it.at + j
        <5>1. j \in Nat /\ j >= 1 /\ j <= it.n
          BY <3>4
        <5>2. PICK v, y : v = it.at /\ y = it.n
          OBVIOUS
        <5>3. v \in Nat /\ y \in Nat /\ v >= u /\ v + y <= u + ls /\ j <= y
          BY <3>3, <3>4, <5>1, <5>2
        <5>4. v - u + j \in 1..ls /\ u + (v - u + j) = v + j
          BY <1>3, <5>1, <5>3
        <5> QED
          BY <5>2, <5>4
      <4>2. new[u + (it.at - u + j)] = s[it.at - u + j]
        BY <1>8, <4>1
      <4> QED
        BY <3>3, <4>1, <4>2
    <3>6. Lies(new, u + ls, it)
      BY <3>3, <3>5, Zenon DEF Lies
    <3> QED
      BY <1>5, <1>6, <2>4, <3>1, <3>6, Zenon DEF d
  <2> QED
    BY <2>2, <2>3, <2>4
<1> QED
  BY <1>1, <1>16, <1>17, <1>18, Zenon DEF BufferInv

\* An integer goes to the end of a buffer.
LEMMA PutKeeps ==
  ASSUME BufferInv, NEW b \in Buf, NEW k \in Widths, NEW o \in Orders,
         Extend(b, Laid(o, k, Val[k]), <<Item(used[b], k, o)>>)
  PROVE  BufferInv'
<1> DEFINE l == Laid(o, k, Val[k])
           it == Item(used[b], k, o)
           its == <<it>>
<1>1. l \in Seq(Nat) /\ Len(l) = k
  BY LaidBytes
<1>2. used[b] \in Nat /\ k \in Nat
  BY Widths8 DEF BufferInv, BufferTypes
<1>3. it \in Items /\ it.at = used[b] /\ it.n = k /\ it.order = o
  BY <1>2 DEF Item, Items
<1>4. Extend(b, l, its)
  OBVIOUS
<1> HIDE DEF l, it
<1>5. its \in Seq(Items) /\ Len(its) = 1 /\ \A z \in 1..Len(its) : its[z] = it
  BY <1>3
<1>6. Come(l, used[b], its)
  <2> HIDE DEF its
  <2>1. /\ it.at >= used[b] /\ it.at + it.n <= used[b] + Len(l)
        /\ \A j \in 1..it.n : it.at - used[b] + j = j
    BY <1>1, <1>2, <1>3
  <2>2. \A j \in 1..it.n : l[it.at - used[b] + j] = Laid(it.order, it.n, Val[it.n])[j]
    BY <1>3, <2>1, Zenon DEF l
  <2> QED
    BY <1>5, <2>1, <2>2, Zenon DEF Come
<1> HIDE DEF its
<1> QED
  BY <1>1, <1>4, <1>5, <1>6, ExtendKeeps

LEMMA Shifted ==
  ASSUME NEW it \in Items, NEW u \in Nat
  PROVE  LET new == [it EXCEPT !.at = @ + u] IN
         /\ new \in Items /\ new.at = it.at + u /\ new.n = it.n /\ new.order = it.order
         /\ it.n \in Nat /\ it.at \in Nat
<1>1. it.n \in Nat
  BY Widths8 DEF Items
<1> QED
  BY <1>1 DEF Items

\* The contents of a buffer go to the end of another, or to its own.
LEMMA PutBufKeeps ==
  ASSUME BufferInv, NEW b \in Buf, NEW src \in Buf, PutBuf(b, src)
  PROVE  BufferInv'
<1> DEFINE m == mem[data[src]]
           w == used[src]
           u == used[b]
           s == Content(src)
           old == items[src]
           its == [k \in DOMAIN old |-> [old[k] EXCEPT !.at = @ + u]]
<1>1. Extend(b, s, its)
  BY DEF PutBuf
<1>2. BufferTypes /\ Bounds
  BY DEF BufferInv
<1>3. /\ w \in Nat /\ u \in Nat /\ data[src] \in Buf /\ Cap[data[src]] \in Nat
      /\ w <= Cap[data[src]] /\ m \in [1..Cap[data[src]] -> Nat]
  <2>1. Cap \in [Buf -> Nat]
    BY WpabufAssumption, Zenon
  <2>2. /\ w \in Nat /\ u \in Nat /\ size[src] \in Nat /\ data[src] \in Buf
        /\ Cap[data[src]] \in Nat /\ m \in [1..Cap[data[src]] -> Nat]
    BY <1>2, <2>1 DEF BufferTypes
  <2>3. w <= size[src] /\ size[src] <= Cap[data[src]]
    BY <1>2 DEF Bounds
  <2> HIDE DEF w, u, m
  <2> QED
    BY <2>2, <2>3
<1>4. s \in Seq(Nat) /\ Len(s) = w /\ \A j \in 1..w : s[j] = m[j]
  <2>1. s = SubSeq(m, 1, w)
    BY DEF Content
  <2> HIDE DEF s, w, m
  <2>2. \A j \in 1..w : m[j] \in Nat
    BY <1>3
  <2>3. /\ SubSeq(m, 1, w) \in Seq(Nat) /\ Len(SubSeq(m, 1, w)) = w
        /\ \A j \in 1..w : SubSeq(m, 1, w)[j] = m[j]
    BY <1>3, <2>2
  <2> QED
    BY <2>1, <2>3
<1>5. /\ old \in Seq(Items) /\ Len(old) \in Nat /\ DOMAIN old = 1..Len(old)
      /\ \A k \in 1..Len(old) : old[k] \in Items /\ Lies(m, w, old[k])
  <2>1. old \in Seq(Items)
    BY <1>2 DEF BufferTypes
  <2>2. Len(old) \in Nat /\ DOMAIN old = 1..Len(old) /\ \A k \in 1..Len(old) : old[k] \in Items
    BY <2>1, LenProperties
  <2>3. \A k \in 1..Len(old) : Lies(m, w, old[k])
    BY Zenon DEF BufferInv
  <2> QED
    BY <2>1, <2>2, <2>3
<1> HIDE DEF s, w, u, m, old
<1>6. ASSUME NEW k \in 1..Len(old)
      PROVE  /\ its[k] \in Items /\ its[k].at = old[k].at + u
             /\ its[k].n = old[k].n /\ its[k].order = old[k].order /\ its[k].n \in Nat
             /\ old[k].at \in Nat
  <2>1. old[k] \in Items /\ its[k] = [old[k] EXCEPT !.at = @ + u]
    BY <1>5
  <2> HIDE DEF its
  <2> QED
    BY <1>3, <2>1, Shifted
<1>7. its \in Seq(Items) /\ Len(its) = Len(old)
  <2>1. its \in [1..Len(old) -> Items]
    <3>1. its = [k \in 1..Len(old) |-> its[k]]
      BY <1>5
    <3> HIDE DEF its
    <3> QED
      BY <1>6, <3>1
  <2> HIDE DEF its
  <2> QED
    BY <1>5, <2>1
<1> HIDE DEF its
<1>8. Come(s, u, its)
  <2> SUFFICES ASSUME NEW k \in 1..Len(its)
               PROVE  /\ its[k].at >= u /\ its[k].at + its[k].n <= u + Len(s)
                      /\ \A j \in 1..its[k].n :
                           s[its[k].at - u + j] = Laid(its[k].order, its[k].n, Val[its[k].n])[j]
    BY Zenon DEF Come
  <2>0. k \in 1..Len(old)
    BY <1>7
  <2>1. PICK p, y, o : p = old[k].at /\ y = old[k].n /\ o = old[k].order
    OBVIOUS
  <2>2. its[k].at = p + u /\ its[k].n = y /\ its[k].order = o /\ y \in Nat /\ p \in Nat
    BY <1>6, <2>0, <2>1
  <2>3. p + y <= w /\ \A j \in 1..y : m[p + j] = Laid(o, y, Val[y])[j]
    BY <1>5, <2>0, <2>1 DEF Lies
  <2>4. p + u >= u /\ p + u + y <= u + w
    BY <1>3, <2>2, <2>3
  <2>5. \A j \in 1..y : p + u - u + j = p + j /\ p + j \in 1..w
    BY <1>3, <2>2, <2>3
  <2>6. \A j \in 1..y : s[p + u - u + j] = Laid(o, y, Val[y])[j]
    BY <1>4, <2>3, <2>5
  <2>7. p + u >= u /\ p + u + y <= u + Len(s)
    BY <1>4, <2>4
  <2>8. its[k].at >= u /\ its[k].at + its[k].n <= u + Len(s)
    BY <2>2, <2>7
  <2>9. ASSUME NEW j \in 1..its[k].n
        PROVE  s[its[k].at - u + j] = Laid(its[k].order, its[k].n, Val[its[k].n])[j]
    <3>1. j \in 1..y
      BY <2>2
    <3>2. s[p + u - u + j] = Laid(o, y, Val[y])[j]
      BY <2>6, <3>1
    <3>3. PICK q : q = its[k].at
      OBVIOUS
    <3>4. q = p + u
      BY <2>2, <3>3, Zenon
    <3>5. j \in Nat /\ p \in Nat /\ u \in Nat
      BY <1>3, <2>2, <3>1
    <3>6. q - u + j = p + u - u + j
      BY <3>4, <3>5
    <3>7. s[q - u + j] = Laid(o, y, Val[y])[j]
      BY <3>2, <3>6, Zenon
    <3> QED
      BY <2>2, <3>3, <3>7, Zenon
  <2> QED
    BY <2>8, <2>9
<1> QED
  BY <1>1, <1>4, <1>7, <1>8, ExtendKeeps DEF u

\* A buffer comes to refer to the data of another.
LEMMA SetKeeps ==
  ASSUME BufferInv, NEW b \in Buf, NEW src \in Buf, b # src, Set(b, src)
  PROVE  BufferInv'
<1>1. /\ host' = host /\ mem' = mem
      /\ data' = [data EXCEPT ![b] = data[src]] /\ flags' = [flags EXCEPT ![b] = {"EXT_DATA"}]
      /\ size' = [size EXCEPT ![b] = used[src]] /\ used' = [used EXCEPT ![b] = used[src]]
      /\ items' = [items EXCEPT ![b] = items[src]]
  BY Zenon DEF Set
<1>2. BufferTypes /\ Bounds
  BY DEF BufferInv
<1>3. BufferTypes'
  BY <1>1, <1>2 DEF BufferTypes
<1>4. /\ data'[b] = data[src] /\ flags'[b] # {} /\ size'[b] = used[src] /\ used'[b] = used[src]
      /\ items'[b] = items[src]
      /\ \A x \in Buf \ {b} : /\ data'[x] = data[x] /\ flags'[x] = flags[x] /\ size'[x] = size[x]
                              /\ used'[x] = used[x] /\ items'[x] = items[x]
  BY <1>1, <1>2 DEF BufferTypes
<1>5. Bounds'
  <2>1. \A x \in Buf : /\ used[x] \in Nat /\ size[x] \in Nat /\ data[x] \in Buf
                       /\ Cap[data[x]] \in Nat
    <3>1. Cap \in [Buf -> Nat]
      BY WpabufAssumption, Zenon
    <3> QED
      BY <1>2, <3>1 DEF BufferTypes
  <2>2. \A x \in Buf : used'[x] <= size'[x] /\ size'[x] <= Cap[data'[x]]
    BY <1>2, <1>4, <2>1 DEF Bounds
  <2>3. \A x \in Buf : IF flags'[x] = {} THEN data'[x] = x ELSE used'[x] = size'[x]
    BY <1>2, <1>4 DEF Bounds
  <2>4. \A x, c \in Buf : flags'[c] = {} /\ data'[x] = c => used'[x] <= used'[c]
    BY <1>2, <1>4 DEF Bounds
  <2> QED
    BY <2>2, <2>3, <2>4, Zenon DEF Bounds
<1>6. ASSUME NEW x \in Buf, NEW k \in 1..Len(items'[x])
      PROVE  Lies(mem'[data'[x]], used'[x], items'[x][k])
  <2>1. \A y \in Buf : \A z \in 1..Len(items[y]) : Lies(mem[data[y]], used[y], items[y][z])
    BY DEF BufferInv
  <2>2. CASE x = b
    <3>1. items'[x] = items[src] /\ data'[x] = data[src] /\ used'[x] = used[src]
      BY <1>4, <2>2
    <3>2. k \in 1..Len(items[src])
      BY <1>6, <3>1
    <3>3. Lies(mem[data[src]], used[src], items[src][k])
      BY <2>1, <3>2
    <3> QED
      BY <1>1, <3>1, <3>3, Zenon
  <2>3. CASE x # b
    BY <1>1, <1>4, <1>6, <2>1, <2>3, Zenon
  <2> QED
    BY <2>2, <2>3
<1> QED
  BY <1>3, <1>5, <1>6, Zenon DEF BufferInv

LEMMA BuffersKeep == BufferInv /\ WpabufNext => BufferInv'
<1> SUFFICES ASSUME BufferInv, WpabufNext PROVE BufferInv'
  OBVIOUS
<1>1. ASSUME NEW b \in Buf, NEW k \in Widths, NEW o \in Orders, PutInteger(b, k, o)
      PROVE  BufferInv'
  <2>1. Extend(b, Laid(o, k, Val[k]), <<Item(used[b], k, o)>>)
    BY <1>1, Zenon DEF PutInteger, Laid
  <2> QED
    BY <2>1, PutKeeps
<1>2. ASSUME NEW b \in Buf, NEW k \in Widths, NEW o \in Orders, PutField(b, k, o)
      PROVE  BufferInv'
  <2>1. Stored(host, k, Converted(host, o, k, Val[k])) = Laid(o, k, Val[k])
    <3>1. host \in Orders
      BY DEF BufferInv, BufferTypes
    <3>2. k \in Nat /\ Val[k] \in Nat /\ Val[k] < Power[k]
      BY Widths8
    <3> QED
      BY <3>1, <3>2, Conversion
  <2>2. Extend(b, Laid(o, k, Val[k]), <<Item(used[b], k, o)>>)
    BY <1>2, <2>1, Zenon DEF PutField
  <2> QED
    BY <2>2, PutKeeps
<1>3. ASSUME NEW b \in Buf, NEW src \in Buf, PutBuf(b, src) \/ (b # src /\ Set(b, src))
      PROVE  BufferInv'
  BY <1>3, PutBufKeeps, SetKeeps
<1> QED
  BY <1>1, <1>2, <1>3, Zenon DEF WpabufNext

\* Whatever is put into which buffer, and through whichever of two buffers that
\* share memory, on a host of either byte order: each integer is found again
\* where it was put, by WPA_GET_* and by the load and conversion of a field
\* (wpabuf.h, common.h).
THEOREM PutIsFound == Spec => []ReadsBack
<1>1. Init => BufferInv
  <2>1. Init => host \in Orders /\ WpabufInit
    BY Zenon DEF Init, WpabufInit
  <2> QED
    BY <2>1, BuffersStart, Zenon
<1>2. BufferInv /\ [Next]_vars => BufferInv'
  <2> SUFFICES ASSUME BufferInv, [Next]_vars PROVE BufferInv'
    OBVIOUS
  <2>1. CASE WpabufNext
    BY <2>1, BuffersKeep
  <2>2. CASE UNCHANGED buffers
    BY <2>2, Zenon DEF buffers, BufferInv, BufferTypes, Bounds
  <2> QED
    BY <2>1, <2>2, Zenon DEF Next, vars
<1>3. BufferInv => ReadsBack
  BY BufferInvSuffices
<1> QED
  BY <1>1, <1>2, <1>3, PTL DEF Spec

-----------------------------------------------------------------------------
(* Functions that keep nothing                                             *)

\* A sequence with v put first.
First(v, r) == <<v>> \o r

LEMMA Prepended ==
  ASSUME NEW S, NEW v \in S, NEW r \in Seq(S)
  PROVE  /\ First(v, r) \in Seq(S) /\ Len(r) \in Nat /\ Len(First(v, r)) = Len(r) + 1
         /\ First(v, r)[1] = v /\ \A j \in 1..Len(r) : First(v, r)[j + 1] = r[j]
<1> DEFINE m == Len(r)
           c == <<v>> \o r
<1>1. m \in Nat
  BY LenProperties
<1>2. c \in Seq(S) /\ Len(c) = m + 1 /\ \A i \in 1..(m + 1) : c[i] = IF i = 1 THEN v ELSE r[i - 1]
  BY <1>1, ConcatProperties
<1> HIDE DEF c, m
<1>3. c[1] = v /\ \A j \in 1..m : c[j + 1] = r[j]
  BY <1>1, <1>2
<1> QED
  BY <1>1, <1>2, <1>3, Zenon DEF First, c, m

LEMMA Lesser ==
  ASSUME NEW a \in Int, NEW c \in Int
  PROVE  Min({a, c}) = IF a <= c THEN a ELSE c
<1> DEFINE l == IF a <= c THEN a ELSE c
<1>1. l \in {a, c} /\ \A w \in {a, c} : l <= w
  OBVIOUS
<1>2. \A v \in {a, c} : (\A w \in {a, c} : v <= w) => v = l
  OBVIOUS
<1> HIDE DEF l
<1>3. Min({a, c}) = l
  BY <1>1, <1>2 DEF Min
<1> QED
  BY <1>3 DEF l

\* The copy of a text t with room for z, from position k on.
Copied(t, z, g, k) ==
  IF k = z \/ Append(t, NUL)[k] = NUL THEN <<NUL>> ELSE <<Append(t, NUL)[k]>> \o g[k + 1]

LEMMA CopyEnds ==
  ASSUME NEW S, NEW t \in Seq(S), NEW z \in Nat \ {0}
  PROVE  \E g : os_strlcpy(t, z) = g[1] /\ \A k \in 1..(Len(t) + 1) : g[k] = Copied(t, z, g, k)
<1> DEFINE s == Append(t, NUL)
           L == Len(s)
           Step(g, k) == Copied(t, z, g, k)
           E(m) == {k \in 1..L : k + m >= L}
           Loop(g, m) == g = [k \in E(m) |-> Step(g, k)]
           from == CHOOSE g : g = [k \in 1..L |-> Step(g, k)]
<1>1. Len(t) \in Nat /\ L = Len(t) + 1 /\ s[L] = NUL
  BY LenProperties, AppendProperties
<1>2. os_strlcpy(t, z) = from[1]
  BY DEF os_strlcpy, Copied
<1> HIDE DEF s, L
<1>3. \A m \in Nat : \A k \in E(m + 1) :
        \A g, h : (\A y \in E(m) : g[y] = h[y]) => Step(g, k) = Step(h, k)
  <2> SUFFICES ASSUME NEW m \in Nat, NEW k \in E(m + 1),
                      NEW g, NEW h, \A y \in E(m) : g[y] = h[y]
               PROVE  Step(g, k) = Step(h, k)
    OBVIOUS
  <2>1. k = L \/ k + 1 \in E(m)
    BY <1>1
  <2> HIDE DEF E
  <2> QED
    BY <1>1, <2>1, Zenon DEF Copied, s
<1> HIDE DEF Step
<1>4. \A m \in Nat : \E g : Loop(g, m)
  <2> DEFINE T == {m \in Nat : \E g : Loop(g, m)}
  <2>1. 0 \in T
    <3> DEFINE g == [k \in E(0) |-> <<NUL>>]
    <3>1. ASSUME NEW k \in E(0) PROVE Step(g, k) = <<NUL>>
      <4>1. k = L
        BY <1>1
      <4> QED
        BY <1>1, <4>1, Zenon DEF Step, Copied, s
    <3>2. Loop(g, 0)
      BY <3>1
    <3> QED
      BY <3>2
  <2>2. ASSUME NEW m \in Nat, m \in T PROVE m + 1 \in T
    <3>1. PICK g : Loop(g, m)
      BY <2>2
    <3> DEFINE h == [k \in E(m + 1) |-> Step(g, k)]
    <3>2. \A k \in E(m) : k \in E(m + 1)
      BY <1>1
    <3>3. \A k \in E(m) : h[k] = g[k]
      <4> HIDE DEF E
      <4> QED
        BY <3>1, <3>2
    <3>4. \A k \in E(m + 1) : Step(h, k) = Step(g, k)
      <4> HIDE DEF E, h
      <4> QED
        BY <1>3, <3>3, Zenon
    <3>5. Loop(h, m + 1)
      <4> HIDE DEF E
      <4> QED
        BY <3>4
    <3> HIDE DEF h, Loop
    <3> QED
      BY <3>5
  <2> HIDE DEF T
  <2>3. \A m \in Nat : m \in T
    BY <2>1, <2>2, Induction
  <2> QED
    BY <2>3 DEF T
<1>5. from = [k \in 1..L |-> Step(from, k)]
  <2>1. L \in Nat /\ E(L) = 1..L
    BY <1>1
  <2>2. PICK g : Loop(g, L)
    BY <1>4, <2>1
  <2>3. g = [k \in 1..L |-> Step(g, k)]
    BY <2>1, <2>2
  <2> QED
    BY <2>3
<1> HIDE DEF from
<1>6. \A k \in 1..L : from[k] = Step(from, k)
  BY <1>5
<1>7. \A k \in 1..(Len(t) + 1) : from[k] = Copied(t, z, from, k)
  BY <1>1, <1>6 DEF Step
<1> QED
  BY <1>2, <1>7

\* What is copied of a text with room for z is m bytes, with the terminator.
LEMMA CopyShape ==
  ASSUME NEW S, NUL \notin S, NEW t \in Seq(S), NEW z \in Nat \ {0},
         NEW m \in Nat, m = IF z <= Len(t) + 1 THEN z ELSE Len(t) + 1
  PROVE  /\ os_strlcpy(t, z) \in Seq(S \union {NUL}) /\ Len(os_strlcpy(t, z)) = m
         /\ os_strlcpy(t, z)[m] = NUL
         /\ m - 1 <= Len(t) /\ \A j \in 1..(m - 1) : os_strlcpy(t, z)[j] = t[j]
<1> DEFINE U == S \union {NUL}
           lt == Len(t)
           Good(g, k) == /\ g[k] \in Seq(U) /\ Len(g[k]) = m - k + 1 /\ g[k][m - k + 1] = NUL
                         /\ \A j \in 1..(m - k) : g[k][j] = t[k - 1 + j]
<1>1. lt \in Nat /\ \A k \in 1..lt : Append(t, NUL)[k] = t[k] /\ t[k] \in S
  BY LenProperties, AppendProperties
<1>2. Append(t, NUL)[lt + 1] = NUL
  BY <1>1, AppendProperties
<1>3. PICK g : os_strlcpy(t, z) = g[1] /\ \A k \in 1..(lt + 1) : g[k] = Copied(t, z, g, k)
  BY CopyEnds, Zenon
<1>4. m \in 1..(lt + 1) /\ (m = z \/ m = lt + 1) /\ \A k \in 1..(m - 1) : k \in 1..lt /\ k # z
  BY <1>1
<1> HIDE DEF lt
<1>5. Good(g, m)
  <2>1. g[m] = <<NUL>>
    <3>1. m = z \/ Append(t, NUL)[m] = NUL
      BY <1>2, <1>4
    <3>2. g[m] = Copied(t, z, g, m)
      BY <1>3, <1>4
    <3> QED
      BY <3>1, <3>2, Zenon DEF Copied
  <2>2. <<NUL>> \in Seq(U) /\ Len(<<NUL>>) = 1 /\ <<NUL>>[1] = NUL
    OBVIOUS
  <2>3. m - m + 1 = 1 /\ 1..(m - m) = {}
    OBVIOUS
  <2> HIDE DEF U
  <2> QED
    BY <2>1, <2>2, <2>3
<1>6. ASSUME NEW k \in 1..(m - 1), Good(g, k + 1) PROVE Good(g, k)
  <2>1. g[k] = <<t[k]>> \o g[k + 1] /\ t[k] \in U
    <3>1. k \in 1..lt /\ k # z /\ k \in 1..(lt + 1)
      BY <1>1, <1>4
    <3>2. Append(t, NUL)[k] = t[k] /\ t[k] \in S /\ t[k] # NUL
      BY <1>1, <3>1
    <3>3. g[k] = Copied(t, z, g, k)
      BY <1>3, <3>1
    <3> QED
      BY <3>1, <3>2, <3>3, Zenon DEF Copied, U
  <2>2. PICK r : r = g[k + 1]
    OBVIOUS
  <2>3. PICK c : c = g[k]
    OBVIOUS
  <2>4. /\ r \in Seq(U) /\ Len(r) = m - (k + 1) + 1 /\ r[m - (k + 1) + 1] = NUL
        /\ \A j \in 1..(m - (k + 1)) : r[j] = t[k + 1 - 1 + j]
    BY <1>6, <2>2
  <2> HIDE DEF U
  <2>5. c \in Seq(U) /\ Len(c) = Len(r) + 1 /\ c[1] = t[k] /\ \A j \in 1..Len(r) : c[j + 1] = r[j]
    <3>1. PICK v \in U : v = t[k]
      BY <2>1
    <3>2. /\ First(v, r) \in Seq(U) /\ Len(First(v, r)) = Len(r) + 1 /\ First(v, r)[1] = v
          /\ \A j \in 1..Len(r) : First(v, r)[j + 1] = r[j]
      <4>1. r \in Seq(U)
        BY <2>4
      <4> QED
        BY <4>1, Prepended
    <3>3. c = First(v, r)
      BY <2>1, <2>2, <2>3, <3>1, Zenon DEF First
    <3> QED
      BY <3>1, <3>2, <3>3, Zenon
  <2>6. Len(c) = m - k + 1 /\ c[m - k + 1] = NUL
    <3>1. m - k \in 1..Len(r) /\ m - (k + 1) + 1 = m - k
      BY <2>4
    <3> QED
      BY <2>4, <2>5, <3>1
  <2>7. ASSUME NEW j \in 1..(m - k) PROVE c[j] = t[k - 1 + j]
    <3>1. CASE j = 1
      <4>1. k - 1 + j = k
        BY <3>1
      <4> QED
        BY <2>5, <3>1, <4>1
    <3>2. CASE j # 1
      <4>1. /\ j - 1 \in 1..Len(r) /\ j - 1 \in 1..(m - (k + 1)) /\ (j - 1) + 1 = j
            /\ k + 1 - 1 + (j - 1) = k - 1 + j
        BY <2>4, <3>2
      <4>2. c[(j - 1) + 1] = r[j - 1] /\ r[j - 1] = t[k + 1 - 1 + (j - 1)]
        BY <2>4, <2>5, <4>1
      <4> QED
        BY <4>1, <4>2, Zenon
    <3> QED
      BY <3>1, <3>2
  <2> QED
    BY <2>3, <2>5, <2>6, <2>7
<1> HIDE DEF Good
<1>7. \A i \in Nat : i < m => Good(g, m - i)
  <2> DEFINE T == {i \in Nat : i < m => Good(g, m - i)}
  <2>1. 0 \in T
    BY <1>5
  <2>2. ASSUME NEW i \in Nat, i \in T PROVE i + 1 \in T
    <3> SUFFICES ASSUME i + 1 < m PROVE Good(g, m - (i + 1))
      OBVIOUS
    <3>1. m - (i + 1) \in 1..(m - 1) /\ (m - (i + 1)) + 1 = m - i /\ i < m
      BY <1>4
    <3>2. Good(g, (m - (i + 1)) + 1)
      BY <2>2, <3>1
    <3> QED
      BY <1>6, <3>1, <3>2
  <2> HIDE DEF T
  <2>3. \A i \in Nat : i \in T
    BY <2>1, <2>2, Induction
  <2> QED
    BY <2>3 DEF T
<1>8. Good(g, 1)
  <2>1. m - 1 \in Nat /\ m - 1 < m /\ m - (m - 1) = 1
    BY <1>4
  <2> QED
    BY <1>7, <2>1
<1>9. /\ g[1] \in Seq(U) /\ Len(g[1]) = m /\ g[1][m] = NUL
      /\ \A j \in 1..(m - 1) : g[1][j] = t[j]
  <2> HIDE DEF U
  <2>1. m - 1 + 1 = m /\ \A j \in 1..(m - 1) : 1 - 1 + j = j
    BY <1>4
  <2> QED
    BY <1>8, <2>1 DEF Good
<1>10. m - 1 <= lt
  BY <1>1, <1>4
<1> QED
  BY <1>3, <1>9, <1>10, Zenon DEF U, lt

LEMMA CopyRight ==
  ASSUME NEW S, NUL \notin S, NEW t \in Seq(S), NEW z \in Nat
  PROVE  LET d == os_strlcpy(t, z) IN
         /\ d # <<>> => Last(d) = NUL /\ IsPrefix(Front(d), t)
         /\ Len(d) = Min({z, Len(t) + 1})
<1> DEFINE d == os_strlcpy(t, z)
           lt == Len(t)
<1>1. lt \in Nat /\ \A k \in 1..lt : t[k] \in S
  BY LenProperties
<1>2. CASE z = 0
  <2>1. d = <<>>
    BY <1>2, Zenon DEF os_strlcpy
  <2>2. Min({z, lt + 1}) = 0 /\ Len(<<>>) = 0
    BY <1>1, <1>2, Lesser
  <2> HIDE DEF d, lt
  <2> QED
    BY <2>1, <2>2 DEF d, lt
<1>3. CASE z # 0
  <2> DEFINE m == IF z <= lt + 1 THEN z ELSE lt + 1
             U == S \union {NUL}
  <2>1. m \in Nat /\ m >= 1 /\ m - 1 <= lt /\ Min({z, lt + 1}) = m
    BY <1>1, <1>3, Lesser
  <2>2. /\ d \in Seq(U) /\ Len(d) = m /\ d[m] = NUL
        /\ \A j \in 1..(m - 1) : d[j] = t[j]
    <3>1. m = (IF z <= Len(t) + 1 THEN z ELSE Len(t) + 1) /\ z \in Nat \ {0}
      BY <1>3
    <3> HIDE DEF m
    <3>2. /\ os_strlcpy(t, z) \in Seq(S \union {NUL}) /\ Len(os_strlcpy(t, z)) = m
          /\ os_strlcpy(t, z)[m] = NUL
          /\ \A j \in 1..(m - 1) : os_strlcpy(t, z)[j] = t[j]
      BY <2>1, <3>1, CopyShape, ZenonT(60)
    <3> QED
      BY <3>2, Zenon
  <2> HIDE DEF d, lt, m
  <2>3. Last(d) = NUL
    BY <2>2 DEF Last
  <2> DEFINE e == Front(d)
  <2>4. \A j \in 1..(m - 1) : d[j] \in S
    BY <1>1, <2>1, <2>2
  <2>5. /\ e \in Seq(S) /\ Len(e) = m - 1 /\ \A j \in 1..(m - 1) : e[j] = d[j]
    <3>1. e = SubSeq(d, 1, m - 1)
      BY <2>2 DEF Front
    <3>2. /\ SubSeq(d, 1, m - 1) \in Seq(S) /\ Len(SubSeq(d, 1, m - 1)) = m - 1
          /\ \A j \in 1..(m - 1) : SubSeq(d, 1, m - 1)[j] = d[j]
      BY <2>1, <2>4
    <3> QED
      BY <3>1, <3>2, Zenon
  <2> HIDE DEF e
  <2>6. SubSeq(e, 1, m - 1) = SubSeq(t, 1, m - 1)
    <3>1. \A j \in 1..(m - 1) : e[j] = t[j] /\ t[j] \in S /\ e[j] \in S
      BY <1>1, <2>1, <2>2, <2>4, <2>5
    <3> QED
      BY <2>1, <3>1
  <2>7. IsPrefix(e, t)
    BY <2>1, <2>5, <2>6 DEF IsPrefix, lt
  <2> QED
    BY <2>1, <2>2, <2>3, <2>7, Zenon DEF d, lt, e
<1> QED
  BY <1>2, <1>3

LEMMA Division ==
  ASSUME NEW h \in Int, NEW p \in Int, p > 0
  PROVE  /\ h \div p \in Int /\ h % p \in Int /\ 0 <= h % p /\ h % p < p
         /\ h = (h \div p) * p + (h % p)
OBVIOUS

LEMMA Calendar ==
  ASSUME NEW h \in Int
  PROVE  /\ h \div 24 \in Int /\ h % 24 \in 0..23
         /\ (h \div 24) * 24 + (h % 24) = h
         /\ h \div 24 >= 0 <=> h >= 0
<1>1. 24 \in Int /\ 24 > 0
  OBVIOUS
<1>2. PICK d, e : d = h \div 24 /\ e = h % 24
  OBVIOUS
<1>3. d \in Int /\ e \in Int /\ 0 <= e /\ e < 24 /\ h = d * 24 + e
  BY <1>1, <1>2, Division, Zenon
<1>4. e \in 0..23 /\ d * 24 + e = h /\ (d >= 0 <=> h >= 0)
  BY <1>3
<1> QED
  BY <1>2, <1>3, <1>4, Zenon

LEMMA TimeBack ==
  ASSUME NEW q \in Zone, NEW h \in Hours
  PROVE  os_mktime(q, os_gmtime(h).day, os_gmtime(h).hour)
           = IF h >= 0 THEN [res |-> 0, t |-> h] ELSE [res |-> -1]
<1>1. q.std \in Int /\ h \in Int
  BY PureAssumption, Zenon
<1> DEFINE l == h - q.std
           Summer == IF l \in q.dst THEN 1 ELSE 0
<1>2. Summer \in Int
  OBVIOUS
<1>3. mktime(q, [clock |-> h, isdst |-> FALSE]) = l
  BY <1>1 DEF mktime
<1>4. mktime(q, localtime(q, l)) = l + q.std + Summer - q.std - Summer
  <2>1. PICK w : w = localtime(q, l)
    OBVIOUS
  <2>2. w = [clock |-> l + q.std + Summer, isdst |-> l \in q.dst]
    BY <2>1, Zenon DEF localtime
  <2>3. w.clock = l + q.std + Summer /\ w.isdst = (l \in q.dst)
    BY <2>2, Zenon
  <2>4. mktime(q, w) = w.clock - q.std - (IF w.isdst THEN 1 ELSE 0)
    BY Zenon DEF mktime
  <2>5. (IF w.isdst THEN 1 ELSE 0) = Summer
    BY <2>3, Zenon
  <2> HIDE DEF Summer
  <2>6. PICK c, e : c = w.clock /\ e = (IF w.isdst THEN 1 ELSE 0)
    OBVIOUS
  <2>7. c = l + q.std + Summer /\ e = Summer
    BY <2>3, <2>5, <2>6, Zenon
  <2>8. mktime(q, w) = c - q.std - e
    BY <2>4, <2>6, Zenon
  <2>9. mktime(q, w) = l + q.std + Summer - q.std - Summer
    BY <1>1, <1>2, <2>7, <2>8
  <2> QED
    BY <2>1, <2>9, Zenon
<1>5. mktime(q, gmtime(l)) = l - q.std
  BY <1>1 DEF mktime, gmtime
<1>6. PICK day, hour : day = h \div 24 /\ hour = h % 24
  OBVIOUS
<1>7. os_gmtime(h).day = day /\ os_gmtime(h).hour = hour
  BY <1>6, Zenon DEF os_gmtime, gmtime
<1>8. day * 24 + hour = h /\ (InRange(day, hour) <=> h >= 0)
  BY <1>1, <1>6, Calendar DEF InRange
<1> HIDE DEF Summer
<1>9. mktime(q, localtime(q, l)) = l
  BY <1>1, <1>2, <1>4
<1>10. PICK back : back = l - ((l - q.std) - l)
  OBVIOUS
<1>11. os_mktime(q, day, hour) = IF InRange(day, hour) THEN [res |-> 0, t |-> back] ELSE [res |-> -1]
  BY <1>3, <1>5, <1>8, <1>9, <1>10, Zenon DEF os_mktime
<1>12. back = h
  BY <1>1, <1>10
<1> QED
  BY <1>7, <1>8, <1>11, <1>12, Zenon

\* The word of a text that begins at k.
Word(t, k) == SubSeq(t, k, WordEnd(t, k) - 1)

LEMMA WordEnds ==
  ASSUME NEW S, NEW t \in Seq(S), NEW k \in 1..Len(t), t[k] # Space,
         NEW e, e = WordEnd(t, k)
  PROVE  /\ e \in (k + 1)..(Len(t) + 1) /\ (e = Len(t) + 1 \/ t[e] = Space)
         /\ \A j \in k..(e - 1) : t[j] # Space
<1> DEFINE lt == Len(t)
           Ends(d) == d = lt + 1 \/ t[d] = Space
           T == {d \in k..(lt + 1) : Ends(d)}
<1>1. lt \in Nat
  BY LenProperties
<1>2. PICK l \in T : \A d \in T : l <= d
  <2>1. T \subseteq Nat /\ lt + 1 \in T
    BY <1>1
  <2> HIDE DEF T
  <2>2. T # {}
    BY <2>1
  <2> QED
    BY <2>1, <2>2, Least
<1>3. l \in k..(lt + 1) /\ Ends(l) /\ \A j \in k..(l - 1) : t[j] # Space
  <2>1. l \in k..(lt + 1) /\ Ends(l)
    OBVIOUS
  <2>2. ASSUME NEW j \in k..(l - 1), t[j] = Space PROVE FALSE
    <3>1. j \in T
      BY <1>1, <2>2
    <3> HIDE DEF T
    <3>2. l <= j
      BY <1>2, <3>1
    <3> QED
      BY <1>1, <2>1, <3>2
  <2> QED
    BY <2>1, <2>2
<1>4. e \in k..(lt + 1) /\ Ends(e) /\ \A j \in k..(e - 1) : t[j] # Space
  BY <1>3, Zenon DEF WordEnd
<1>5. e # k
  BY <1>1, <1>4
<1> QED
  BY <1>1, <1>4, <1>5

\* What os_exec makes of position k of the text when the next word is argv[i].
Passing(t, g, k, i) ==
  IF i = MAX_ARG \/ k > Len(t) THEN <<>>
  ELSE IF t[k] = Space THEN g[<<k + 1, i>>]
  ELSE <<Word(t, k)>> \o g[<<WordEnd(t, k) + 1, i + 1>>]

LEMMA ExecEnds ==
  ASSUME NEW S, NEW t \in Seq(S)
  PROVE  \E g : /\ Argv(t) = g[<<1, 1>>]
                /\ \A k \in 1..(Len(t) + 2), i \in 1..MAX_ARG : g[<<k, i>>] = Passing(t, g, k, i)
<1> DEFINE L == Len(t) + 2
           D == (1..L) \X (1..MAX_ARG)
           Step(g, x) == Passing(t, g, x[1], x[2])
           E(m) == {x \in D : x[1] + m >= L}
           Loop(g, m) == g = [x \in E(m) |-> Step(g, x)]
           from == CHOOSE g : g = [x \in D |-> Step(g, x)]
<1>1. Len(t) \in Nat /\ L \in Nat /\ L = Len(t) + 2 /\ MAX_ARG \in Nat \ {0}
  BY LenProperties, PureAssumption
<1>2. Argv(t) = from[<<1, 1>>]
  BY DEF Argv, Passing, Word
<1> HIDE DEF L
<1>3. \A m \in Nat : \A x \in E(m + 1) :
        \A g, h : (\A y \in E(m) : g[y] = h[y]) => Step(g, x) = Step(h, x)
  <2> SUFFICES ASSUME NEW m \in Nat, NEW x \in E(m + 1),
                      NEW g, NEW h, \A y \in E(m) : g[y] = h[y]
               PROVE  Step(g, x) = Step(h, x)
    OBVIOUS
  <2>1. PICK k \in 1..L, i \in 1..MAX_ARG : x = <<k, i>> /\ k + (m + 1) >= L
    <3>1. x[1] \in 1..L /\ x[2] \in 1..MAX_ARG /\ x = <<x[1], x[2]>>
      OBVIOUS
    <3> QED
      BY <3>1
  <2>2. CASE i = MAX_ARG \/ k > Len(t)
    <3>1. Passing(t, g, k, i) = <<>> /\ Passing(t, h, k, i) = <<>>
      BY <2>2, Zenon DEF Passing
    <3> QED
      BY <2>1, <3>1
  <2>3. CASE i # MAX_ARG /\ ~ (k > Len(t)) /\ t[k] = Space
    <3>1. <<k + 1, i>> \in E(m)
      BY <1>1, <2>1, <2>3
    <3>2. g[<<k + 1, i>>] = h[<<k + 1, i>>]
      BY <3>1
    <3>3. Passing(t, g, k, i) = g[<<k + 1, i>>] /\ Passing(t, h, k, i) = h[<<k + 1, i>>]
      BY <2>3, Zenon DEF Passing
    <3> QED
      BY <2>1, <3>2, <3>3
  <2>4. CASE i # MAX_ARG /\ ~ (k > Len(t)) /\ t[k] # Space
    <3>1. PICK e : e = WordEnd(t, k)
      OBVIOUS
    <3>2. k \in 1..Len(t)
      BY <1>1, <2>4
    <3>3. e \in (k + 1)..(Len(t) + 1)
      BY <2>4, <3>1, <3>2, WordEnds, Zenon
    <3>4. <<e + 1, i + 1>> \in E(m)
      BY <1>1, <2>1, <2>4, <3>3
    <3>5. g[<<e + 1, i + 1>>] = h[<<e + 1, i + 1>>]
      BY <3>4
    <3>6. /\ Passing(t, g, k, i) = <<Word(t, k)>> \o g[<<e + 1, i + 1>>]
          /\ Passing(t, h, k, i) = <<Word(t, k)>> \o h[<<e + 1, i + 1>>]
      BY <2>4, <3>1, Zenon DEF Passing
    <3>7. Passing(t, g, k, i) = Passing(t, h, k, i)
      BY <3>5, <3>6, Zenon
    <3> QED
      BY <2>1, <3>7
  <2> QED
    BY <2>2, <2>3, <2>4
<1> HIDE DEF Step
<1>4. \A m \in Nat : \E g : Loop(g, m)
  <2> DEFINE T == {m \in Nat : \E g : Loop(g, m)}
  <2>1. 0 \in T
    <3> DEFINE g == [x \in E(0) |-> <<>>]
    <3>1. ASSUME NEW x \in E(0) PROVE Step(g, x) = <<>>
      <4>1. x[1] > Len(t)
        BY <1>1
      <4> QED
        BY <4>1, Zenon DEF Step, Passing
    <3>2. Loop(g, 0)
      BY <3>1
    <3> QED
      BY <3>2
  <2>2. ASSUME NEW m \in Nat, m \in T PROVE m + 1 \in T
    <3>1. PICK g : Loop(g, m)
      BY <2>2
    <3> DEFINE h == [x \in E(m + 1) |-> Step(g, x)]
    <3>2. \A x \in E(m) : x \in E(m + 1)
      BY <1>1
    <3>3. \A x \in E(m) : h[x] = g[x]
      <4> HIDE DEF E
      <4> QED
        BY <3>1, <3>2
    <3>4. \A x \in E(m + 1) : Step(h, x) = Step(g, x)
      <4> HIDE DEF E, h
      <4> QED
        BY <1>3, <3>3, Zenon
    <3>5. Loop(h, m + 1)
      <4> HIDE DEF E
      <4> QED
        BY <3>4
    <3> HIDE DEF h, Loop
    <3> QED
      BY <3>5
  <2> HIDE DEF T
  <2>3. \A m \in Nat : m \in T
    BY <2>1, <2>2, Induction
  <2> QED
    BY <2>3 DEF T
<1>5. from = [x \in D |-> Step(from, x)]
  <2>1. E(L) = D
    BY <1>1
  <2>2. PICK g : Loop(g, L)
    BY <1>1, <1>4
  <2>3. g = [x \in D |-> Step(g, x)]
    BY <2>1, <2>2
  <2> HIDE DEF D
  <2> QED
    BY <2>3
<1> HIDE DEF from
<1>6. ASSUME NEW k \in 1..(Len(t) + 2), NEW i \in 1..MAX_ARG
      PROVE  from[<<k, i>>] = Passing(t, from, k, i)
  <2>1. <<k, i>> \in D
    BY <1>1
  <2>2. from[<<k, i>>] = Step(from, <<k, i>>)
    BY <1>5, <2>1
  <2> QED
    BY <2>2 DEF Step
<1> QED
  BY <1>2, <1>6

\* Words from k on, and those of them up to x.
Later(t, k) == {y \in Starts(t) : k <= y}
Upto(t, k, x) == {y \in Starts(t) : k <= y /\ y <= x}

\* No word has begun before k and is not over.
Between(t, k) == k = 1 \/ k > Len(t) \/ t[k - 1] = Space

LEMMA Finite ==
  ASSUME NEW S, NEW t \in Seq(S), NEW k \in Nat
  PROVE  /\ Starts(t) \subseteq 1..Len(t)
         /\ IsFiniteSet(Later(t, k)) /\ Cardinality(Later(t, k)) \in Nat
         /\ \A x \in Nat : IsFiniteSet(Upto(t, k, x)) /\ Cardinality(Upto(t, k, x)) \in Nat
<1>1. Len(t) \in Nat /\ DOMAIN t = 1..Len(t)
  BY LenProperties
<1>2. Starts(t) \subseteq 1..Len(t)
  BY <1>1 DEF Starts
<1>3. \A T \in SUBSET (1..Len(t)) : IsFiniteSet(T) /\ Cardinality(T) \in Nat
  <2>1. IsFiniteSet(1..Len(t))
    BY <1>1, FS_Interval
  <2> QED
    BY <2>1, FS_Subset, FS_CardinalityType
<1>4. /\ Later(t, k) \in SUBSET (1..Len(t))
      /\ \A x \in Nat : Upto(t, k, x) \in SUBSET (1..Len(t))
  BY <1>2 DEF Later, Upto
<1> QED
  BY <1>2, <1>3, <1>4

\* A space is no word.
LEMMA SpaceSkipped ==
  ASSUME NEW S, NEW t \in Seq(S), NEW k \in 1..Len(t), t[k] = Space
  PROVE  /\ Between(t, k + 1) /\ Later(t, k) = Later(t, k + 1)
         /\ \A x : Upto(t, k, x) = Upto(t, k + 1, x)
<1>1. Len(t) \in Nat /\ DOMAIN t = 1..Len(t)
  BY LenProperties
<1>2. \A y \in Starts(t) : y \in Nat /\ (k <= y <=> k + 1 <= y)
  BY <1>1 DEF Starts
<1>3. Between(t, k + 1)
  <2>1. (k + 1) - 1 = k
    OBVIOUS
  <2> QED
    BY <2>1, Zenon DEF Between
<1> QED
  BY <1>2, <1>3, Zenon DEF Later, Upto

\* The word at k is followed by those behind its end e.
LEMMA WordTaken ==
  ASSUME NEW S, NEW t \in Seq(S), NEW k \in 1..Len(t), t[k] # Space, Between(t, k),
         NEW e, e = WordEnd(t, k)
  PROVE  /\ e \in (k + 1)..(Len(t) + 1) /\ Between(t, e + 1)
         /\ Cardinality(Later(t, k)) = Cardinality(Later(t, e + 1)) + 1
         /\ \A x \in Later(t, k) :
              \/ x = k /\ Cardinality(Upto(t, k, x)) = 1
              \/ /\ x \in Later(t, e + 1)
                 /\ Cardinality(Upto(t, k, x)) = Cardinality(Upto(t, e + 1, x)) + 1
<1>1. Len(t) \in Nat /\ DOMAIN t = 1..Len(t)
  BY LenProperties
<1>2. /\ e \in (k + 1)..(Len(t) + 1) /\ (e = Len(t) + 1 \/ t[e] = Space)
      /\ \A j \in k..(e - 1) : t[j] # Space
  BY WordEnds, Zenon
<1>3. Between(t, e + 1) /\ e + 1 \in Nat
  <2>1. (e + 1) - 1 = e /\ (e = Len(t) + 1 => e + 1 > Len(t)) /\ e + 1 \in Nat
    BY <1>1, <1>2
  <2> QED
    BY <1>2, <2>1, Zenon DEF Between
<1>4. k \in Starts(t)
  BY <1>1 DEF Starts, Between
<1>5. \A y \in Starts(t) : y \in Nat /\ (k <= y <=> (y = k \/ e + 1 <= y))
  <2> SUFFICES ASSUME NEW y \in Starts(t), k <= y, y # k, ~ (e + 1 <= y)
               PROVE  FALSE
    BY <1>1, <1>2 DEF Starts
  <2>1. y \in 1..Len(t) /\ t[y] # Space /\ (y = 1 \/ t[y - 1] = Space)
    BY <1>1 DEF Starts
  <2>2. y - 1 \in k..(e - 1) /\ y # 1
    BY <1>2, <2>1
  <2> QED
    BY <1>2, <2>1, <2>2
<1>6. Later(t, k) = Later(t, e + 1) \union {k} /\ k \notin Later(t, e + 1)
  <2>1. ~ (e + 1 <= k)
    BY <1>2
  <2>2. ASSUME NEW y PROVE y \in Later(t, k) <=> y \in Later(t, e + 1) \union {k}
    BY <1>4, <1>5 DEF Later
  <2> QED
    BY <2>1, <2>2, Zenon DEF Later
<1>7. Cardinality(Later(t, k)) = Cardinality(Later(t, e + 1)) + 1
  <2>1. IsFiniteSet(Later(t, e + 1))
    BY <1>3, Finite
  <2>2. Cardinality(Later(t, e + 1) \union {k}) = Cardinality(Later(t, e + 1)) + 1
    BY <1>6, <2>1, FS_AddElement
  <2> QED
    BY <1>6, <2>2, Zenon
<1>8. ASSUME NEW x \in Later(t, k), x # k
      PROVE  /\ x \in Later(t, e + 1)
             /\ Cardinality(Upto(t, k, x)) = Cardinality(Upto(t, e + 1, x)) + 1
  <2>1. x \in Later(t, e + 1)
    BY <1>6, <1>8
  <2>2. x \in Nat /\ e + 1 <= x /\ k <= x /\ ~ (e + 1 <= k)
    BY <1>2, <1>5, <2>1 DEF Later
  <2>3. Upto(t, k, x) = Upto(t, e + 1, x) \union {k} /\ k \notin Upto(t, e + 1, x)
    <3>1. ASSUME NEW y PROVE y \in Upto(t, k, x) <=> y \in Upto(t, e + 1, x) \union {k}
      BY <1>4, <1>5, <2>2 DEF Upto
    <3> QED
      BY <2>2, <3>1, Zenon DEF Upto
  <2>4. IsFiniteSet(Upto(t, e + 1, x))
    BY <1>3, <2>2, Finite
  <2>5. Cardinality(Upto(t, e + 1, x) \union {k}) = Cardinality(Upto(t, e + 1, x)) + 1
    BY <2>3, <2>4, FS_AddElement
  <2> QED
    BY <2>1, <2>3, <2>5, Zenon
<1>9. Cardinality(Upto(t, k, k)) = 1
  <2>1. Upto(t, k, k) = {k}
    <3>1. ASSUME NEW y \in Upto(t, k, k) PROVE y = k
      <4>1. y \in Nat /\ k <= y /\ y <= k
        BY <1>5 DEF Upto
      <4> QED
        BY <4>1
    <3>2. k \in Upto(t, k, k)
      BY <1>4, <1>5 DEF Upto
    <3> QED
      BY <3>1, <3>2
  <2> QED
    BY <2>1, FS_Singleton
<1> QED
  BY <1>2, <1>3, <1>7, <1>8, <1>9

\* os_exec passes the words of a text in their order.
LEMMA WordsPassed ==
  ASSUME NEW S, NEW t \in Seq(S), NEW v, v = Argv(t)
  PROVE  /\ Len(v) = Min({MAX_ARG - 1, Cardinality(Starts(t))})
         /\ \A k \in Starts(t) :
              Cardinality({y \in Starts(t) : y <= k}) < MAX_ARG =>
                v[Cardinality({y \in Starts(t) : y <= k})] = Word(t, k)
<1> DEFINE W == Seq(S)
           lt == Len(t)
           Right(a, k, i) ==
             /\ a \in Seq(W)
             /\ Len(a) = IF MAX_ARG - i <= Cardinality(Later(t, k)) THEN MAX_ARG - i
                         ELSE Cardinality(Later(t, k))
             /\ \A x \in Later(t, k) : Cardinality(Upto(t, k, x)) <= MAX_ARG - i =>
                                         a[Cardinality(Upto(t, k, x))] = Word(t, x)
<1>1. /\ lt \in Nat /\ MAX_ARG \in Nat \ {0} /\ \A k \in 1..lt : t[k] \in S
  BY LenProperties, PureAssumption, Zenon
<1>2. PICK g : /\ Argv(t) = g[<<1, 1>>]
               /\ \A k \in 1..(lt + 2), i \in 1..MAX_ARG : g[<<k, i>>] = Passing(t, g, k, i)
  BY ExecEnds, Zenon
<1>3. \A k \in Nat : /\ Starts(t) \subseteq 1..lt
                     /\ Cardinality(Later(t, k)) \in Nat
                     /\ \A x \in Nat : Cardinality(Upto(t, k, x)) \in Nat
                     /\ \A x \in Later(t, k) : k <= x /\ Cardinality(Upto(t, k, x)) >= 1
  <2> SUFFICES ASSUME NEW k \in Nat
               PROVE  /\ Starts(t) \subseteq 1..lt
                      /\ Cardinality(Later(t, k)) \in Nat
                      /\ \A x \in Nat : Cardinality(Upto(t, k, x)) \in Nat
                      /\ \A x \in Later(t, k) : k <= x /\ Cardinality(Upto(t, k, x)) >= 1
    OBVIOUS
  <2>1. /\ Starts(t) \subseteq 1..lt /\ Cardinality(Later(t, k)) \in Nat
        /\ \A x \in Nat : IsFiniteSet(Upto(t, k, x)) /\ Cardinality(Upto(t, k, x)) \in Nat
    BY Finite
  <2>2. ASSUME NEW x \in Later(t, k) PROVE k <= x /\ Cardinality(Upto(t, k, x)) >= 1
    <3>1. x \in Nat /\ k <= x /\ x \in Upto(t, k, x)
      BY <2>1 DEF Later, Upto
    <3>2. Upto(t, k, x) # {} /\ IsFiniteSet(Upto(t, k, x)) /\ Cardinality(Upto(t, k, x)) \in Nat
      BY <2>1, <3>1
    <3>3. Cardinality(Upto(t, k, x)) # 0
      BY <3>2, FS_EmptySet
    <3> QED
      BY <3>1, <3>2, <3>3
  <2> QED
    BY <2>1, <2>2
<1> HIDE DEF lt, W
<1>4. ASSUME NEW k \in 1..(lt + 2), NEW i \in 1..MAX_ARG, i = MAX_ARG \/ k > lt
      PROVE  Right(g[<<k, i>>], k, i)
  <2>1. g[<<k, i>>] = <<>>
    BY <1>2, <1>4, Zenon DEF Passing, lt
  <2>2. k \in Nat /\ Cardinality(Later(t, k)) \in Nat
    BY <1>1, <1>3
  <2>3. <<>> \in Seq(W) /\ Len(<<>>) = 0
    OBVIOUS
  <2>4. i = MAX_ARG \/ Later(t, k) = {}
    <3>1. k > lt => Later(t, k) = {}
      BY <1>1, <1>3, <2>2 DEF Later
    <3> QED
      BY <1>4, <3>1
  <2>5. 0 = IF MAX_ARG - i <= Cardinality(Later(t, k)) THEN MAX_ARG - i
            ELSE Cardinality(Later(t, k))
    <3>1. CASE i = MAX_ARG
      BY <1>1, <2>2, <3>1
    <3>2. CASE Later(t, k) = {}
      <4>1. Cardinality(Later(t, k)) = 0
        BY <3>2, FS_EmptySet
      <4> QED
        BY <1>1, <4>1
    <3> QED
      BY <2>4, <3>1, <3>2
  <2>6. ASSUME NEW x \in Later(t, k), Cardinality(Upto(t, k, x)) <= MAX_ARG - i PROVE FALSE
    <3>1. i = MAX_ARG
      BY <2>4
    <3>2. x \in Nat /\ Cardinality(Upto(t, k, x)) \in Nat /\ Cardinality(Upto(t, k, x)) >= 1
      BY <1>1, <1>3, <2>2 DEF Later
    <3> QED
      BY <1>1, <2>6, <3>1, <3>2
  <2> QED
    BY <2>1, <2>3, <2>5, <2>6
<1>5. ASSUME NEW k \in 1..lt, NEW i \in 1..(MAX_ARG - 1), t[k] = Space,
             Right(g[<<k + 1, i>>], k + 1, i)
      PROVE  Right(g[<<k, i>>], k, i)
  <2>1. k \in 1..(lt + 2) /\ i \in 1..MAX_ARG /\ i # MAX_ARG /\ ~ (k > lt)
    BY <1>1
  <2>2. g[<<k, i>>] = g[<<k + 1, i>>]
    BY <1>2, <1>5, <2>1, Zenon DEF Passing, lt
  <2>3. Later(t, k) = Later(t, k + 1) /\ \A x : Upto(t, k, x) = Upto(t, k + 1, x)
    BY <1>5, SpaceSkipped DEF lt
  <2>4. PICK a : a = g[<<k + 1, i>>]
    OBVIOUS
  <2>5. Right(a, k + 1, i) /\ g[<<k, i>>] = a
    BY <1>5, <2>2, <2>4, Zenon
  <2>6. Right(a, k, i)
    BY <2>3, <2>5, Zenon
  <2> HIDE DEF Right
  <2> QED
    BY <2>5, <2>6, Zenon
<1>6. ASSUME NEW k \in 1..lt, NEW i \in 1..(MAX_ARG - 1), t[k] # Space, Between(t, k),
             NEW e, e = WordEnd(t, k),
             Right(g[<<e + 1, i + 1>>], e + 1, i + 1)
      PROVE  Right(g[<<k, i>>], k, i)
  <2>1. k \in 1..(lt + 2) /\ i \in 1..MAX_ARG /\ i # MAX_ARG /\ ~ (k > lt) /\ k \in Nat
    BY <1>1
  <2>2. PICK a, r, w : a = g[<<k, i>>] /\ r = g[<<e + 1, i + 1>>] /\ w = Word(t, k)
    OBVIOUS
  <2>3. a = First(w, r)
    <3>1. g[<<k, i>>] = <<w>> \o g[<<e + 1, i + 1>>]
      BY <1>2, <1>6, <2>1, <2>2, Zenon DEF Passing, lt
    <3> QED
      BY <2>2, <3>1, Zenon DEF First
  <2>4. /\ e \in (k + 1)..(lt + 1)
        /\ Cardinality(Later(t, k)) = Cardinality(Later(t, e + 1)) + 1
        /\ \A x \in Later(t, k) :
             \/ x = k /\ Cardinality(Upto(t, k, x)) = 1
             \/ /\ x \in Later(t, e + 1)
                /\ Cardinality(Upto(t, k, x)) = Cardinality(Upto(t, e + 1, x)) + 1
    <3>1. k \in 1..Len(t) /\ t[k] # Space /\ Between(t, k) /\ e = WordEnd(t, k)
      BY <1>6, Zenon DEF lt
    <3> QED
      BY <3>1, WordTaken DEF lt
  <2>5. w \in W
    <3>1. e - 1 \in Int /\ \A j \in k..(e - 1) : t[j] \in S
      BY <1>1, <2>4
    <3>2. SubSeq(t, k, e - 1) \in Seq(S)
      BY <3>1, <2>1, SubSeqProperties
    <3> QED
      BY <1>6, <2>2, <3>2, Zenon DEF Word, W
  <2>6. /\ r \in Seq(W)
        /\ Len(r) = IF MAX_ARG - (i + 1) <= Cardinality(Later(t, e + 1)) THEN MAX_ARG - (i + 1)
                    ELSE Cardinality(Later(t, e + 1))
        /\ \A x \in Later(t, e + 1) : Cardinality(Upto(t, e + 1, x)) <= MAX_ARG - (i + 1) =>
                                        r[Cardinality(Upto(t, e + 1, x))] = Word(t, x)
    BY <1>6, <2>2, Zenon
  <2>7. /\ a \in Seq(W) /\ Len(r) \in Nat /\ Len(a) = Len(r) + 1
        /\ a[1] = w /\ \A j \in 1..Len(r) : a[j + 1] = r[j]
    <3>1. r \in Seq(W)
      BY <2>6
    <3>2. /\ First(w, r) \in Seq(W) /\ Len(r) \in Nat /\ Len(First(w, r)) = Len(r) + 1
          /\ First(w, r)[1] = w /\ \A j \in 1..Len(r) : First(w, r)[j + 1] = r[j]
      BY <2>5, <3>1, Prepended
    <3> QED
      BY <2>3, <3>2, Zenon
  <2>8. e + 1 \in Nat /\ Cardinality(Later(t, k)) \in Nat /\ Cardinality(Later(t, e + 1)) \in Nat
    BY <1>1, <1>3, <2>1, <2>4
  <2>9. Len(a) = IF MAX_ARG - i <= Cardinality(Later(t, k)) THEN MAX_ARG - i
                 ELSE Cardinality(Later(t, k))
    <3>1. PICK c, d : c = Cardinality(Later(t, k)) /\ d = Cardinality(Later(t, e + 1))
      OBVIOUS
    <3>2. c = d + 1 /\ d \in Nat /\ Len(r) = (IF MAX_ARG - (i + 1) <= d THEN MAX_ARG - (i + 1) ELSE d)
      BY <2>4, <2>6, <2>8, <3>1, Zenon
    <3>3. Len(a) = IF MAX_ARG - i <= c THEN MAX_ARG - i ELSE c
      BY <1>1, <2>7, <3>2
    <3> QED
      BY <3>1, <3>3, Zenon
  <2>10. ASSUME NEW x \in Later(t, k), Cardinality(Upto(t, k, x)) <= MAX_ARG - i
         PROVE  a[Cardinality(Upto(t, k, x))] = Word(t, x)
    <3>1. CASE x = k /\ Cardinality(Upto(t, k, x)) = 1
      BY <2>2, <2>7, <3>1, Zenon
    <3>2. CASE /\ x \in Later(t, e + 1)
               /\ Cardinality(Upto(t, k, x)) = Cardinality(Upto(t, e + 1, x)) + 1
      <4>1. PICK c : c = Cardinality(Upto(t, e + 1, x))
        OBVIOUS
      <4>2. PICK d : d = Cardinality(Later(t, e + 1))
        OBVIOUS
      <4>3. c \in Nat /\ c >= 1 /\ c <= d /\ d \in Nat
        <5>1. x \in Nat
          BY <1>1, <1>3, <2>8, <3>2 DEF Later
        <5>2. c \in Nat /\ c >= 1
          BY <1>3, <2>8, <3>2, <4>1, <5>1
        <5>3. Upto(t, e + 1, x) \in SUBSET Later(t, e + 1)
          BY DEF Upto, Later
        <5>4. IsFiniteSet(Later(t, e + 1))
          BY <2>8, Finite
        <5>5. Cardinality(Upto(t, e + 1, x)) <= Cardinality(Later(t, e + 1))
          BY <5>3, <5>4, FS_Subset
        <5> QED
          BY <2>8, <4>1, <4>2, <5>2, <5>5
      <4>4. c + 1 <= MAX_ARG - i
        BY <2>10, <3>2, <4>1
      <4>5. c <= MAX_ARG - (i + 1)
        BY <1>1, <4>3, <4>4
      <4>6. r[c] = Word(t, x)
        BY <2>6, <3>2, <4>1, <4>5, Zenon
      <4>7. c \in 1..Len(r)
        <5>1. Len(r) = IF MAX_ARG - (i + 1) <= d THEN MAX_ARG - (i + 1) ELSE d
          BY <2>6, <4>2, Zenon
        <5> QED
          BY <1>1, <4>3, <4>5, <5>1
      <4>8. a[c + 1] = Word(t, x)
        BY <2>7, <4>6, <4>7
      <4> QED
        BY <3>2, <4>1, <4>8
    <3> QED
      BY <2>4, <3>1, <3>2, Zenon
  <2> QED
    BY <2>2, <2>7, <2>9, <2>10, Zenon
<1> DEFINE Good(k, i) == Between(t, k) => Right(g[<<k, i>>], k, i)
           T == {m \in Nat : \A k \in 1..(lt + 2), i \in 1..MAX_ARG : k + m >= lt + 2 => Good(k, i)}
<1> HIDE DEF Right
<1>7. 0 \in T
  <2>1. \A k \in 1..(lt + 2) : k + 0 >= lt + 2 => k > lt
    BY <1>1
  <2> QED
    BY <1>4, <2>1
<1>8. ASSUME NEW m \in Nat, m \in T PROVE m + 1 \in T
  <2>1. ASSUME NEW k \in 1..(lt + 2), NEW i \in 1..MAX_ARG, k + (m + 1) >= lt + 2, Between(t, k)
        PROVE  Right(g[<<k, i>>], k, i)
    <3>1. CASE i = MAX_ARG \/ k > lt
      BY <1>4, <3>1
    <3>2. CASE ~ (i = MAX_ARG \/ k > lt) /\ t[k] = Space
      <4>1. k \in 1..lt /\ i \in 1..(MAX_ARG - 1) /\ k + 1 \in 1..(lt + 2) /\ (k + 1) + m >= lt + 2
        BY <1>1, <2>1, <3>2
      <4>2. Between(t, k + 1)
        BY <3>2, <4>1, SpaceSkipped DEF lt
      <4>3. Right(g[<<k + 1, i>>], k + 1, i)
        BY <1>8, <4>1, <4>2
      <4> QED
        BY <1>5, <3>2, <4>1, <4>3
    <3>3. CASE ~ (i = MAX_ARG \/ k > lt) /\ t[k] # Space
      <4>1. k \in 1..lt /\ i \in 1..(MAX_ARG - 1) /\ i + 1 \in 1..MAX_ARG
        BY <1>1, <2>1, <3>3
      <4>2. PICK e : e = WordEnd(t, k)
        OBVIOUS
      <4>3. e \in (k + 1)..(lt + 1) /\ Between(t, e + 1)
        BY <2>1, <3>3, <4>1, <4>2, WordTaken, ZenonT(60) DEF lt
      <4>4. e + 1 \in 1..(lt + 2) /\ (e + 1) + m >= lt + 2
        BY <1>1, <2>1, <4>1, <4>3
      <4>5. Right(g[<<e + 1, i + 1>>], e + 1, i + 1)
        BY <1>8, <4>1, <4>3, <4>4
      <4> QED
        BY <1>6, <2>1, <3>3, <4>1, <4>2, <4>5, Zenon
    <3> QED
      BY <3>1, <3>2, <3>3
  <2>2. m + 1 \in Nat
    OBVIOUS
  <2> QED
    BY <2>1, <2>2
<1>9. Right(g[<<1, 1>>], 1, 1)
  <2>1. \A m \in Nat : m \in T
    <3> HIDE DEF T
    <3> QED
      BY <1>7, <1>8, Induction
  <2>2. /\ lt + 2 \in Nat /\ 1 \in 1..(lt + 2) /\ 1 \in 1..MAX_ARG /\ 1 + (lt + 2) >= lt + 2
    BY <1>1
  <2>3. lt + 2 \in T
    <3> HIDE DEF T
    <3> QED
      BY <2>1, <2>2, Zenon
  <2>4. Good(1, 1)
    <3> HIDE DEF Good
    <3> QED
      BY <2>2, <2>3
  <2> QED
    BY <2>4 DEF Between
<1>10. /\ Len(v) = IF MAX_ARG - 1 <= Cardinality(Later(t, 1)) THEN MAX_ARG - 1
                   ELSE Cardinality(Later(t, 1))
       /\ \A x \in Later(t, 1) : Cardinality(Upto(t, 1, x)) <= MAX_ARG - 1 =>
                                   v[Cardinality(Upto(t, 1, x))] = Word(t, x)
  BY <1>2, <1>9, Zenon DEF Right
<1>11. Later(t, 1) = Starts(t) /\ \A x : Upto(t, 1, x) = {y \in Starts(t) : y <= x}
  <2>1. \A y \in Starts(t) : 1 <= y
    <3>1. 1 \in Nat
      OBVIOUS
    <3>2. Starts(t) \subseteq 1..lt
      BY <1>3, <3>1, Zenon
    <3> QED
      BY <1>1, <3>2
  <2> QED
    BY <2>1, Zenon DEF Later, Upto
<1>12. Len(v) = Min({MAX_ARG - 1, Cardinality(Starts(t))})
  <2>1. PICK c : c = Cardinality(Starts(t))
    OBVIOUS
  <2>2. c \in Nat
    BY <1>3, <1>11, <2>1
  <2>3. Len(v) = IF MAX_ARG - 1 <= c THEN MAX_ARG - 1 ELSE c
    BY <1>10, <1>11, <2>1, Zenon
  <2>4. Len(v) = Min({MAX_ARG - 1, c})
    BY <1>1, <2>2, <2>3, Lesser
  <2> QED
    BY <2>1, <2>4, Zenon
<1>13. ASSUME NEW k \in Starts(t), NEW c, c = Cardinality({y \in Starts(t) : y <= k}), c < MAX_ARG
       PROVE  v[c] = Word(t, k)
  <2>1. c = Cardinality(Upto(t, 1, k)) /\ k \in Later(t, 1)
    BY <1>11, <1>13, Zenon
  <2>2. c \in Nat
    <3>1. k \in Nat
      BY <1>1, <1>3
    <3> QED
      BY <1>3, <2>1, <3>1
  <2>3. c <= MAX_ARG - 1
    BY <1>1, <1>13, <2>2
  <2> QED
    BY <1>10, <2>1, <2>3, Zenon
<1> QED
  BY <1>12, <1>13, Zenon

Text == [text : BoundedSeq(Char \union {Space}, MaxText), size : Sizes]
Moment == [zone : Zone, hour : Hours]

\* The arguments of a call do not change.
ArgsInv == args \in Text \union Moment

LEMMA ArgsInvSuffices == ArgsInv => HelpersRight
<1> SUFFICES ASSUME ArgsInv PROVE HelpersRight
  OBVIOUS
<1> DEFINE S == Char \union {Space}
<1>1. NUL \notin S /\ Sizes \subseteq Nat
  <2>1. NUL # Space
    BY DEF NUL, Space
  <2> QED
    BY <2>1, PureAssumption, Zenon
<1>2. ASSUME "text" \in DOMAIN args PROVE args.text \in Seq(S) /\ args.size \in Nat
  <2>1. args \in Text
    <3>1. ASSUME args \in Moment PROVE FALSE
      BY <1>2, <3>1 DEF Moment
    <3> QED
      BY <3>1 DEF ArgsInv
  <2>2. args.text \in BoundedSeq(S, MaxText) /\ args.size \in Sizes
    BY <2>1 DEF Text
  <2>3. args.text \in Seq(S)
    <3>1. BoundedSeq(S, MaxText) = UNION {[1..m -> S] : m \in 0..MaxText}
      BY Zenon DEF BoundedSeq, SeqOf
    <3>2. PICK m \in 0..MaxText : args.text \in [1..m -> S]
      BY <2>2, <3>1, Zenon
    <3> HIDE DEF S
    <3>3. m \in Nat
      BY PureAssumption
    <3> QED
      BY <3>2, <3>3
  <2> QED
    BY <1>1, <2>2, <2>3
<1>3. ASSUME "zone" \in DOMAIN args PROVE args.zone \in Zone /\ args.hour \in Hours
  <2>1. args \in Moment
    <3>1. ASSUME args \in Text PROVE FALSE
      BY <1>3, <3>1 DEF Text
    <3> QED
      BY <3>1 DEF ArgsInv
  <2> QED
    BY <2>1 DEF Moment
<1> HIDE DEF S
<1>4. ASSUME "text" \in DOMAIN args, NEW s, s = args.text
      PROVE  LET d == os_strlcpy(s, args.size)
                 v == Argv(s)
                 Nth(k) == Cardinality({i \in Starts(s) : i <= k})
             IN /\ d # <<>> => Last(d) = NUL /\ IsPrefix(Front(d), s)
                /\ Len(d) = Min({args.size, Len(s) + 1})
                /\ Len(v) = Min({MAX_ARG - 1, Cardinality(Starts(s))})
                /\ \A k \in Starts(s) :
                     Nth(k) < MAX_ARG => v[Nth(k)] = SubSeq(s, k, WordEnd(s, k) - 1)
  <2>1. s \in Seq(S) /\ args.size \in Nat
    BY <1>2, <1>4
  <2>2. LET d == os_strlcpy(s, args.size)
        IN  /\ d # <<>> => Last(d) = NUL /\ IsPrefix(Front(d), s)
            /\ Len(d) = Min({args.size, Len(s) + 1})
    BY <1>1, <2>1, CopyRight, Zenon
  <2>3. /\ Len(Argv(s)) = Min({MAX_ARG - 1, Cardinality(Starts(s))})
        /\ \A k \in Starts(s) :
             Cardinality({y \in Starts(s) : y <= k}) < MAX_ARG =>
               Argv(s)[Cardinality({y \in Starts(s) : y <= k})] = Word(s, k)
    BY <2>1, WordsPassed, Zenon
  <2> QED
    BY <2>2, <2>3, Zenon DEF Word
<1>5. ASSUME "zone" \in DOMAIN args
      PROVE  LET tm == os_gmtime(args.hour) IN
             os_mktime(args.zone, tm.day, tm.hour)
               = IF args.hour >= 0 THEN [res |-> 0, t |-> args.hour] ELSE [res |-> -1]
  BY <1>3, <1>5, TimeBack, Zenon
<1> QED
  BY <1>4, <1>5, Zenon DEF HelpersRight

\* os_strlcpy, os_exec and os_mktime give their callers what those want of them,
\* for every text, size, number of arguments, zone and time (os_unix.c): the words,
\* the terminated copy, and the time from 1970 on or a refusal.
THEOREM Helpers == Spec => []HelpersRight
<1>1. Init => ArgsInv
  BY Zenon DEF Init, PureInit, ArgsInv, Text, Moment
<1>2. ArgsInv /\ [Next]_vars => ArgsInv'
  BY Zenon DEF Next, vars, ArgsInv, Text, Moment
<1>3. ArgsInv => HelpersRight
  BY ArgsInvSuffices
<1> QED
  BY <1>1, <1>2, <1>3, PTL DEF Spec
=============================================================================
