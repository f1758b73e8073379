------------------------------ MODULE HostapOs ------------------------------
(***************************************************************************)
(* The helpers of hostap that wpa_ctrl.c is built on, put together.  The   *)
(* parts share no state: a behaviour is one of any part, so that the       *)
(* states of all are the sum of theirs, not the product.                   *)
(***************************************************************************)
EXTENDS OsMemory, TestingFail, OsTime, Wpabuf, OsPure

VARIABLE part  \* the part that runs

memory == <<heap, alloc_list, owned, call, buf, room, cwd, rel, stream, leaks>>
testing == <<fail_func, fail_after, armed, along, failed, asked>>
buffers == <<host, size, used, flags, data, mem, items>>
vars == <<part, memory, testing, time, buffers, args>>

\* What does not run has one initial state.
Init ==
  /\ part \in {"memory", "testing", "time", "buffers", "pure"}
  /\ MemoryInit /\ TestingInit /\ TimeInit /\ WpabufInit /\ PureInit
  /\ part # "time" => kernel = {REALTIME} /\ boot = CHOOSE b \in BootedAt : TRUE
  /\ part # "buffers" => host = "big"
  /\ part # "pure" => args = CHOOSE a \in [zone : Zone, hour : Hours] : TRUE

Next ==
  \/ part = "memory" /\ MemoryNext /\ UNCHANGED <<part, testing, time, buffers, args>>
  \/ part = "testing" /\ TestingNext /\ UNCHANGED <<part, memory, time, buffers, args>>
  \/ part = "time" /\ TimeNext /\ UNCHANGED <<part, memory, testing, buffers, args>>
  \/ part = "buffers" /\ WpabufNext /\ UNCHANGED <<part, memory, testing, time, args>>

Spec == Init /\ [][Next]_vars
=============================================================================
