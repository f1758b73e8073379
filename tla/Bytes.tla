-------------------------------- MODULE Bytes --------------------------------
(***************************************************************************)
(* Integers in memory: the macros WPA_PUT_* and WPA_GET_* of common.h, for *)
(* any alignment, and its byte order conversions, for integers that are    *)
(* stored and loaded as the host does it.  An unsigned integer of n bytes  *)
(* is a number below Power[n]; >> 8 and & 0xff are \div and % by Byte.     *)
(***************************************************************************)
EXTENDS Naturals, Sequences

CONSTANT Byte  \* how many values a byte has

ASSUME ByteAssumption == Byte \in Nat \ {0, 1}

\* 1 << 8 * i
Power[i \in Nat] == IF i = 0 THEN 1 ELSE Byte * Power[i - 1]

\* (v >> 8 * i) & 0xff
Octet(v, i) == (v \div Power[i]) % Byte

\* The integer whose octet i is o[i], for i = 0 .. n - 1.
Joined(n, o) ==
  LET sum[k \in 0..n] == IF k = 0 THEN 0 ELSE sum[k - 1] + o[k - 1] * Power[k - 1]
  IN sum[n]

PutBE(n, v) == [k \in 1..n |-> Octet(v, n - k)]

PutLE(n, v) == [k \in 1..n |-> Octet(v, k - 1)]

GetBE(a) == Joined(Len(a), [i \in 0..(Len(a) - 1) |-> a[Len(a) - i]])

GetLE(a) == Joined(Len(a), [i \in 0..(Len(a) - 1) |-> a[i + 1]])

\* bswap_16, bswap_32 and bswap_64.
bswap(n, v) == Joined(n, [i \in 0..(n - 1) |-> Octet(v, n - 1 - i)])

Orders == {"little", "big"}

\* host_to_le* and host_to_be*; le_to_host* and be_to_host* are the same.
Converted(host, order, n, v) == IF host = order THEN v ELSE bswap(n, v)

\* How the host stores an integer, and loads it.
Stored(host, n, v) == IF host = "little" THEN PutLE(n, v) ELSE PutBE(n, v)
Loaded(host, a) == IF host = "little" THEN GetLE(a) ELSE GetBE(a)
=============================================================================
