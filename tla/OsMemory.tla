------------------------------ MODULE OsMemory ------------------------------
(***************************************************************************)
(* The allocator of os_unix.c in a build with WPA_TRACE, and what os.h and *)
(* os_unix.c put on top of it: zeroed, copied and resized blocks, arrays,  *)
(* os_rel2abs_path, which allocates in a loop, and os_readfile.            *)
(*                                                                         *)
(* A malloc may fail at any time, on its own or by testing_fail_alloc (see *)
(* TestingFail): a call that then returns NULL without having changed      *)
(* anything is a step that is not taken.  An address may come back after   *)
(* free.  A block of the program is an array, a sequence of members.       *)
(* The list has no lock: these are the calls of one thread.                *)
(***************************************************************************)
EXTENDS Naturals, Sequences, FiniteSets, SequencesExt

CONSTANTS
  Addr,        \* addresses malloc may return
  NULL,
  Member,      \* what a member of an array may hold
  Zero, Junk,  \* a zeroed member; one that nobody has written
  MaxMembers,  \* bound: members of an array
  Room,        \* how many members a size_t can count
  CwdLen, RelLen, PathMax, \* lengths of paths; of the longest buffer tried
  FileLen      \* lengths of files

ASSUME MemoryAssumption ==
  /\ IsFiniteSet(Addr) /\ NULL \notin Addr
  /\ Junk \notin Member \union {Zero}
  /\ MaxMembers \in Nat /\ Room \in Nat \ {0}
  /\ CwdLen \subseteq Nat \ {0} /\ RelLen \subseteq Nat /\ PathMax \in Nat
  /\ FileLen \subseteq Nat

VARIABLES
  heap,        \* the blocks with their headers (struct os_alloc_trace)
  alloc_list,  \* the headers linked, newest first
  owned,       \* history: what the owner of a block made it hold
  call,        \* "os_rel2abs_path", "os_readfile" or "none"
  buf, room,   \* its buffer, the length of that
  cwd, rel,    \* lengths of the paths to join
  stream,      \* the file is open
  leaks        \* what os_program_deinit reports, NULL before

local == <<call, buf, room, cwd, rel, stream>>

Header(m, s) == [magic |-> m, len |-> Len(s), data |-> s]
Filled(n, v) == [i \in 1..n |-> v]

MemoryInit ==
  /\ heap = [a \in Addr |-> Header("none", <<>>)]
  /\ alloc_list = <<>> /\ owned = [a \in {} |-> <<>>]
  /\ call = "none" /\ buf = NULL /\ room = 0 /\ cwd = 0 /\ rel = 0
  /\ stream = FALSE /\ leaks = NULL

Held == DOMAIN owned
Idle == call = "none" /\ leaks = NULL

\* What malloc may return: an address that is not in use.
Fresh == {a \in Addr : heap[a].magic # "alloc"}

Unlinked(a) == RemoveFirst(alloc_list, a)
Freed == Header("freed", <<>>)

os_malloc(a, s) ==
  /\ a \in Fresh
  /\ heap' = [heap EXCEPT ![a] = Header("alloc", s)]
  /\ alloc_list' = <<a>> \o alloc_list

Owns(a, s) ==
  owned' = [x \in Held \union {a} |-> IF x = a THEN s ELSE owned[x]]

\* os_memdup, os_strdup, and os_malloc by an owner that fills the block.
os_memdup(a, s) ==
  Idle /\ os_malloc(a, s) /\ Owns(a, s) /\ UNCHANGED <<local, leaks>>

\* A product beyond size_t is NULL, any other is for os_zalloc.
os_calloc(a, n) == n <= Room /\ os_memdup(a, Filled(n, Zero))

\* NULL changes nothing; nor does a wrong magic, which aborts.
os_free(a) ==
  /\ Idle /\ a \in Held /\ heap[a].magic = "alloc"
  /\ heap' = [heap EXCEPT ![a] = Freed] /\ alloc_list' = Unlinked(a)
  /\ owned' = [x \in Held \ {a} |-> owned[x]]
  /\ UNCHANGED <<local, leaks>>

\* The block of os_realloc: as much of the old one as both lengths allow.
Resized(a, n) ==
  [i \in 1..n |-> IF i <= heap[a].len THEN heap[a].data[i] ELSE Junk]

\* The owner of an array of n members clears those it had not.
Cleared(s, n, had) == [i \in 1..n |-> IF i <= had THEN s[i] ELSE Zero]

\* Always a new block, and the old one is freed when that is there.
os_realloc_array(a, new, n) ==
  /\ Idle /\ a \in Held /\ heap[a].magic = "alloc" /\ new \in Fresh /\ n <= Room
  /\ LET had == Len(owned[a]) IN
       /\ heap' = [heap EXCEPT
            ![new] = Header("alloc", Cleared(Resized(a, n), n, had)),
            ![a] = Freed]
       /\ owned' = [x \in (Held \ {a}) \union {new} |->
            IF x = new THEN Cleared(owned[a], n, had) ELSE owned[x]]
  /\ alloc_list' = <<new>> \o Unlinked(a)
  /\ UNCHANGED <<local, leaks>>

\* The members after i move up; the owner has one less from then on.
os_remove_in_array(a, i) ==
  /\ Idle /\ a \in Held /\ i \in 1..Len(owned[a])
  /\ LET n == Len(owned[a]) IN
       heap' = [heap EXCEPT ![a].data =
         [k \in DOMAIN @ |-> IF k \in i..(n - 1) THEN @[k + 1] ELSE @[k]]]
  /\ owned' = [owned EXCEPT ![a] = RemoveAt(@, i)]
  /\ UNCHANGED <<alloc_list, local, leaks>>

\* The total length of the linked blocks.
Total(list) == FoldLeft(LAMBDA t, a : t + heap[a].len, 0, list)

\* The dump of what is still linked.
os_program_deinit ==
  /\ Idle
  /\ leaks' = [blocks |-> {a \in ToSet(alloc_list) : heap[a].magic = "alloc"},
               total |-> Total(alloc_list)]
  /\ UNCHANGED <<heap, alloc_list, owned, local>>

-----------------------------------------------------------------------------
(* os_rel2abs_path of a relative path                                      *)

Rel2Abs(c, r) ==
  /\ Idle /\ call' = "os_rel2abs_path" /\ room' = 128 /\ cwd' = c /\ rel' = r
  /\ UNCHANGED <<heap, alloc_list, owned, buf, stream, leaks>>

\* The buffer for getcwd, or for the whole file.
AllocBuf(a) ==
  /\ call # "none" /\ buf = NULL
  /\ os_malloc(a, Filled(room, Junk)) /\ buf' = a
  /\ UNCHANGED <<owned, call, room, cwd, rel, stream, leaks>>

\* The call is over.
Return == call' = "none" /\ buf' = NULL /\ room' = 0 /\ cwd' = 0 /\ rel' = 0 /\ stream' = FALSE

NoBuf ==
  /\ call # "none" /\ buf = NULL
  /\ Return /\ UNCHANGED <<heap, alloc_list, owned, leaks>>

FreeBuf == heap' = [heap EXCEPT ![buf] = Freed] /\ alloc_list' = Unlinked(buf)

\* Variant: the buffer that was too small is forgotten.
TooSmallKept ==
  /\ call = "os_rel2abs_path" /\ buf # NULL /\ cwd >= room
  /\ IF room * 2 > PathMax
       THEN Return
       ELSE buf' = NULL /\ room' = room * 2 /\ UNCHANGED <<call, cwd, rel, stream>>
  /\ UNCHANGED <<heap, alloc_list, owned, leaks>>

\* getcwd fails with ERANGE.
TooSmall ==
  /\ call = "os_rel2abs_path" /\ buf # NULL /\ cwd >= room
  /\ FreeBuf
  /\ IF room * 2 > PathMax
       THEN Return
       ELSE buf' = NULL /\ room' = room * 2 /\ UNCHANGED <<call, cwd, rel, stream>>
  /\ UNCHANGED <<owned, leaks>>

\* getcwd fails with another error, or there is no memory for ret; fread gets
\* less than the file had when its length was taken.
GivesUp ==
  /\ buf # NULL
  /\ FreeBuf /\ Return /\ UNCHANGED <<owned, leaks>>

\* ret is cwd, "/", rel_path and the terminator, and the buffer is freed.
Join(a) ==
  /\ call = "os_rel2abs_path" /\ buf # NULL /\ cwd < room /\ a \in Fresh
  /\ LET s == Filled(cwd + 1 + rel + 1, Zero) IN
       /\ heap' = [heap EXCEPT ![a] = Header("alloc", s), ![buf] = Freed]
       /\ Owns(a, s)
  /\ alloc_list' = <<a>> \o Unlinked(buf)
  /\ Return /\ UNCHANGED leaks

-----------------------------------------------------------------------------
(* os_readfile                                                             *)

\* fopen, and the length; of the failures before, none has anything to free
\* but the stream.
ReadFile(n) ==
  /\ Idle /\ call' = "os_readfile" /\ room' = n /\ stream' = TRUE
  /\ UNCHANGED <<heap, alloc_list, owned, buf, cwd, rel, leaks>>

\* fread gets it all: the buffer is the caller's.
ReadWhole ==
  /\ call = "os_readfile" /\ buf # NULL
  /\ heap' = [heap EXCEPT ![buf].data = Filled(room, Zero)]
  /\ Owns(buf, Filled(room, Zero))
  /\ Return /\ UNCHANGED <<alloc_list, leaks>>

\* Arrays short enough to grow; a path, which is longer, is only freed.
Arrays == {a \in Held : Len(owned[a]) <= MaxMembers}

MemoryNext ==
  \/ \E a \in Addr, s \in BoundedSeq(Member, MaxMembers) : os_memdup(a, s)
  \/ \E a \in Addr, n \in 0..MaxMembers : os_calloc(a, n)
  \/ \E a \in Held : os_free(a)
  \/ \E a \in Arrays, new \in Addr, n \in 1..MaxMembers : os_realloc_array(a, new, n)
  \/ \E a \in Arrays : \E i \in 1..Len(owned[a]) : os_remove_in_array(a, i)
  \/ \E c \in CwdLen, r \in RelLen : Rel2Abs(c, r)
  \/ \E a \in Addr : AllocBuf(a) \/ Join(a)
  \/ \E n \in FileLen : ReadFile(n)
  \/ TooSmall \/ GivesUp \/ NoBuf \/ ReadWhole \/ os_program_deinit

-----------------------------------------------------------------------------
(* Properties                                                              *)

\* Whatever was allocated, resized and freed in whatever order, and wherever
\* a call ran out of memory: what is linked is exactly what somebody has, once
\* each; a header belongs to its block; a block holds what its owner made it
\* hold; and the report of leaks is of the blocks still owned.
HeapInv ==
  /\ IsInjective(alloc_list)
  /\ ToSet(alloc_list) = Held \union ({buf} \ {NULL})
  /\ ToSet(alloc_list) = {a \in Addr : heap[a].magic = "alloc"}
  /\ buf \notin Held
  /\ \A a \in Held : owned[a] = SubSeq(heap[a].data, 1, Len(owned[a]))
  /\ \A a \in Addr : heap[a].len = Len(heap[a].data)
  /\ call = "none" => buf = NULL /\ ~stream
  /\ leaks # NULL =>
       leaks.blocks = Held /\ (leaks.total = 0 <=> \A a \in Held : heap[a].len = 0)
=============================================================================
