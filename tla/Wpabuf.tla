------------------------------- MODULE Wpabuf -------------------------------
(***************************************************************************)
(* Data buffers (wpabuf.h): a message is put together from integers of     *)
(* both byte orders, from other buffers and from fields of structures in   *)
(* the byte order of the message, and is taken apart by whoever gets it.   *)
(* A buffer may refer to the data of another (wpabuf_set).                 *)
(***************************************************************************)
EXTENDS Bytes

CONSTANTS
  Buf,    \* buffers
  Cap,    \* the size each was allocated with
  Widths, \* sizes of the integers
  Val     \* the value of an integer of a size

ASSUME WpabufAssumption ==
  /\ Cap \in [Buf -> Nat] /\ Widths \subseteq 1..8
  /\ Val \in [Widths -> Nat] /\ \A n \in Widths : Val[n] < Power[n]

VARIABLES
  host,  \* byte order of the host
  size, used, flags,  \* fields of a buffer
  data,  \* field buf: the buffer in whose memory its data is
  mem,   \* the memory allocated with a buffer
  items  \* history: what the data of a buffer consists of


WpabufInit ==
  /\ host \in Orders
  /\ size = Cap /\ used = [b \in Buf |-> 0] /\ flags = [b \in Buf |-> {}]
  /\ data = [b \in Buf |-> b]
  /\ mem = [b \in Buf |-> [i \in 1..Cap[b] |-> 0]]
  /\ items = [b \in Buf |-> <<>>]

wpabuf_tailroom(b) == size[b] - used[b]

\* The data of a buffer, from its head.
Content(b) == SubSeq(mem[data[b]], 1, used[b])

Item(at, n, order) == [at |-> at, n |-> n, order |-> order]

\* wpabuf_put, which aborts when there is no room, and the copy of bytes s to
\* where it points.
Extend(b, s, its) ==
  /\ wpabuf_tailroom(b) >= Len(s)
  /\ used' = [used EXCEPT ![b] = @ + Len(s)]
  /\ mem' = [mem EXCEPT ![data[b]] =
       [i \in DOMAIN @ |-> IF i - used[b] \in 1..Len(s) THEN s[i - used[b]] ELSE @[i]]]
  /\ items' = [items EXCEPT ![b] = @ \o its]
  /\ UNCHANGED <<host, size, flags, data>>

\* wpabuf_put_u8 is the one of order "big", for n = 1.
PutInteger(b, n, order) ==
  Extend(b, IF order = "big" THEN PutBE(n, Val[n]) ELSE PutLE(n, Val[n]),
         <<Item(used[b], n, order)>>)

\* wpabuf_put_data of a field that holds host_to_be*(Val[n]) or host_to_le*.
PutField(b, n, order) ==
  Extend(b, Stored(host, n, Converted(host, order, n, Val[n])),
         <<Item(used[b], n, order)>>)

\* wpabuf_put_buf: the length of src is read before dst grows.
PutBuf(dst, src) ==
  Extend(dst, Content(src),
         [k \in DOMAIN items[src] |-> [items[src][k] EXCEPT !.at = @ + used[dst]]])

\* Variant: the buffer takes over the size of the memory it refers to.
SetRoomy(b, src) ==
  /\ data' = [data EXCEPT ![b] = data[src]]
  /\ flags' = [flags EXCEPT ![b] = {"EXT_DATA"}]
  /\ size' = [size EXCEPT ![b] = size[src]]
  /\ used' = [used EXCEPT ![b] = used[src]]
  /\ items' = [items EXCEPT ![b] = items[src]]
  /\ UNCHANGED <<host, mem>>

\* wpabuf_set of all the data of src, the usual view of a message.
Set(b, src) ==
  /\ data' = [data EXCEPT ![b] = data[src]]
  /\ flags' = [flags EXCEPT ![b] = {"EXT_DATA"}]
  /\ size' = [size EXCEPT ![b] = used[src]]
  /\ used' = [used EXCEPT ![b] = used[src]]
  /\ items' = [items EXCEPT ![b] = items[src]]
  /\ UNCHANGED <<host, mem>>

WpabufNext ==
  \/ \E b \in Buf, n \in Widths, order \in Orders :
       \/ (n = 1 => order = "big") /\ PutInteger(b, n, order)
       \/ n \in {2, 4, 8} /\ PutField(b, n, order)
  \/ \E b, src \in Buf : PutBuf(b, src) \/ (b # src /\ Set(b, src))

-----------------------------------------------------------------------------
(* Properties                                                              *)

\* The bytes of an item of a buffer.
Octets(b, it) == SubSeq(mem[data[b]], it.at + 1, it.at + it.n)

\* Whatever was put into which buffer since, through whichever of two buffers
\* that share memory, WPA_GET_* and the load of a field both find the integer.
ReadsBack ==
  \A b \in Buf : \A k \in DOMAIN items[b] :
    LET it == items[b][k]
        s == Octets(b, it)
    IN /\ it.at + it.n <= used[b]
       /\ (IF it.order = "big" THEN GetBE(s) ELSE GetLE(s)) = Val[it.n]
       /\ it.n \in {2, 4, 8} =>
            Converted(host, it.order, it.n, Loaded(host, s)) = Val[it.n]
=============================================================================
