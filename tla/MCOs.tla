-------------------------------- MODULE MCOs --------------------------------
\* A small instance of HostapOs for TLC.
EXTENDS HostapOs

CONSTANTS a1, a2, a3, x, y, zero, junk, b1, b2

Addrs == {a1, a2, a3}
Members == {x, y}
Symmetry == Permutations(Addrs) \union Permutations(Members)
CwdLens == {100, 600, 1500}
RelLens == {4}
FileLens == {0, 3}

Name(mode, name) == [mode |-> mode, name |-> name]
Names == {Name("", "os"), Name("", "open"), Name("=", "open"), Name("?", "open"),
          Name("=", "main")}
Patterns ==
  UNION {[1..k -> Names] : k \in 1..2}
  \union {<<Name("?", "send"), Name("?", "open"), Name("", "main")>>,
          <<Name("", "open"), Name("?", "open"), Name("=", "main")>>, <<Name("", "")>>}
Functions == {"os_malloc", "os_zalloc", "os_strdup", "os_get_reltime", "send", "open", "open2", "main"}
Starting ==
  {<<f, f>> : f \in Functions} \union {<<"", f>> : f \in Functions}
  \union {<<"os", f>> : f \in {"os_malloc", "os_zalloc", "os_strdup", "os_get_reltime"}}
  \union {<<"open", "open2">>}
Backtraces ==
  [alloc |-> {<<"testing_fail_alloc", "os_malloc", "os_zalloc", "open2", "open", "main">>,
              <<"testing_fail_alloc", "os_malloc", "send", "main">>},
   test |-> {<<"testing_test_fail", "os_get_reltime", "send", "open", "main">>}]

Boots == {0, 2, 7}
Slow == {1, 2}
Suspended == {4}
Jumps == {-9, 9}

Buffers == {b1, b2}
Caps == [b \in Buffers |-> IF b = b1 THEN 8 ELSE 2]
Bytes == {1, 2, 3, 8}
\* With a byte of ten values, octets are digits.
Values == [w \in Bytes |-> CASE w = 1 -> 7 [] w = 2 -> 12 [] w = 3 -> 345
                            [] w = 8 -> 12345678]

Chars == {"c", "d"}
ToSize == 0..4
Zones == {[std |-> s, dst |-> d] : s \in {-5, 0, 3}, d \in {{}, 4..9, -3..2}}
Hour == -26..26
=============================================================================
