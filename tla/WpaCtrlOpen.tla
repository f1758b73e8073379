---------------------------- MODULE WpaCtrlOpen ----------------------------
(***************************************************************************)
(* The client end of a control connection: the socket file that            *)
(* wpa_ctrl_open2 binds, names after a counter and unlinks, and what the   *)
(* Go function Open makes of its result.                                   *)
(*                                                                         *)
(* A device is the control socket of one hostapd.  Its first connection is *)
(* opened inside Manager.Get, under Manager.mu; a lost one is closed and   *)
(* opened again by reconnect, which holds only that connection's smu.      *)
(* With Limit = 0 (SocketManagerProofs: NoRedundantConnection) one device  *)
(* has at most one open in progress.  Gets open one at a time; an open of  *)
(* reconnect may overlap any other, and raced remembers that one did.      *)
(* Within wpa_ctrl_open2 each access to the static counter and each system *)
(* call on the file is a step.                                             *)
(*                                                                         *)
(* hostapd answers to the name of the client's socket: a connection gets   *)
(* its replies only while the file of that name is its own.                *)
(***************************************************************************)
EXTENDS Integers

CONSTANTS
  Dev,         \* control sockets of hostapd
  Restarting,  \* those whose hostapd may restart, so that reconnect runs
  Long,        \* those whose path does not fit into sun_path
  Room,        \* the last counter whose name fits below the client directory
  Pid,         \* process ids this program may get: one, in a container
  MaxOpens,    \* bound: an open starts only while counter is below it
  MaxExits,    \* bound: exits of the process
  None

ASSUME OpenAssumption ==
  /\ Restarting \subseteq Dev /\ Long \subseteq Dev
  /\ None \notin Dev
  /\ Room \in Nat /\ MaxOpens \in Nat /\ MaxExits \in Nat

\* The name of a client socket, "wpa_ctrl_<pid>-<counter>" in the client dir.
Path == Pid \X Nat

ASSUME NoneIsNoPath == None \notin Path

VARIABLES
  pid,      \* getpid() of this run
  exits,    \* earlier runs
  counter,  \* the static counter of wpa_ctrl_open2
  stale,    \* files no socket is bound to any more
  leaked,   \* files of sockets this run opened and lost
  found,    \* history: the stale files this run started with
  bound,    \* the file through which the device's socket is reached, or None
  mu,       \* Manager.mu: the device Get is opening, or None
  raced,    \* history: an open has overlapped one of reconnect
  pc,       \* device: position in wpa_ctrl_open2
  reg,      \* device: the value of counter it loaded
  local,    \* device: ctrl->local, the name chosen last
  retried,  \* device: the first bind found the name taken, errno says so
  conn      \* device: what Go holds, "none", "open", "null" or "nil"

files == <<stale, leaked, bound>>
run == <<pid, exits, found>>
vars == <<run, counter, files, mu, raced, pc, reg, local, retried, conn>>

TypeOK ==
  /\ pid \in Pid /\ exits \in Nat /\ counter \in Nat
  /\ stale \subseteq Path /\ leaked \subseteq Path /\ found \subseteq Path
  /\ bound \in [Dev -> Path \union {None}]
  /\ mu \in Dev \union {None}
  /\ raced \in BOOLEAN
  /\ pc \in [Dev -> {"idle", "load", "store", "name", "bind", "unlink", "connect"}]
  /\ reg \in [Dev -> Nat]
  /\ local \in [Dev -> Path \union {None}]
  /\ retried \in [Dev -> BOOLEAN]
  /\ conn \in [Dev -> {"none", "open", "null", "nil"}]

Init ==
  /\ pid \in Pid /\ exits = 0 /\ counter = 0
  /\ stale = {} /\ leaked = {} /\ found = {}
  /\ bound = [d \in Dev |-> None]
  /\ mu = None
  /\ raced = FALSE
  /\ pc = [d \in Dev |-> "idle"]
  /\ reg = [d \in Dev |-> 0]
  /\ local = [d \in Dev |-> None]
  /\ retried = [d \in Dev |-> FALSE]
  /\ conn = [d \in Dev |-> "none"]

GoTo(d, l) == pc' = [pc EXCEPT ![d] = l]

Exists(f) == f \in stale \/ f \in leaked \/ \E d \in Dev : bound[d] = f

\* unlink takes the name away from whoever is bound to it.
Unlink(f) ==
  /\ stale' = stale \ {f} /\ leaked' = leaked \ {f}
  /\ bound' = [d \in Dev |-> IF bound[d] = f THEN None ELSE bound[d]]

\* Open returns, and Get with it.
Return(d) ==
  /\ GoTo(d, "idle") /\ mu' = IF mu = d THEN None ELSE mu
  /\ UNCHANGED raced

-----------------------------------------------------------------------------
(* The two callers of Open                                                 *)

\* An open begins while those of the devices S may be in progress.
Overlap(S) == raced' = (raced \/ \E e \in S : pc[e] # "idle")

\* Variant: two opens at a time.
GetOpenUnlocked(d) ==
  /\ pc[d] = "idle" /\ conn[d] = "none" /\ counter < MaxOpens
  /\ mu' = d /\ Overlap(Dev \ {mu}) /\ GoTo(d, "load")
  /\ retried' = [retried EXCEPT ![d] = FALSE]
  /\ UNCHANGED <<run, counter, files, reg, local, conn>>

\* Variant: errno is left from the open before.
GetOpenOldErrno(d) ==
  /\ pc[d] = "idle" /\ conn[d] = "none" /\ mu = None /\ counter < MaxOpens
  /\ mu' = d /\ Overlap(Dev \ {mu}) /\ GoTo(d, "load")
  /\ UNCHANGED <<run, counter, files, reg, local, retried, conn>>

\* openShared, inside Get.
GetOpen(d) ==
  /\ pc[d] = "idle" /\ conn[d] = "none" /\ mu = None /\ counter < MaxOpens
  /\ mu' = d /\ Overlap(Dev \ {mu}) /\ GoTo(d, "load")
  /\ retried' = [retried EXCEPT ![d] = FALSE]
  /\ UNCHANGED <<run, counter, files, reg, local, conn>>

\* reconnect: wpa_ctrl_close unlinks the old name, then Open.
Reconnect(d) ==
  /\ d \in Restarting
  /\ pc[d] = "idle" /\ conn[d] = "open" /\ counter < MaxOpens
  /\ Unlink(local[d]) /\ Overlap(Dev) /\ GoTo(d, "load")
  /\ conn' = [conn EXCEPT ![d] = "nil"]
  /\ retried' = [retried EXCEPT ![d] = FALSE]
  /\ UNCHANGED <<run, counter, mu, reg, local>>

-----------------------------------------------------------------------------
(* wpa_ctrl_open2                                                          *)

\* counter++ is a load and a store, without a lock.
Load(d) ==
  /\ pc[d] = "load" /\ GoTo(d, "store")
  /\ reg' = [reg EXCEPT ![d] = counter]
  /\ UNCHANGED <<run, counter, files, mu, raced, local, retried, conn>>

\* Variant: the counter stays where it is.
StoreNothing(d) ==
  /\ pc[d] = "store" /\ GoTo(d, "name")
  /\ UNCHANGED <<run, counter, files, mu, raced, reg, local, retried, conn>>

Store(d) ==
  /\ pc[d] = "store" /\ GoTo(d, "name")
  /\ counter' = reg[d] + 1
  /\ UNCHANGED <<run, files, mu, raced, reg, local, retried, conn>>

\* The name is formatted from counter, which the compiler may read again or
\* still have at hand.
Name(d) ==
  /\ pc[d] = "name" /\ GoTo(d, "bind")
  /\ \E k \in {counter, reg[d] + 1} :
       k <= Room /\ local' = [local EXCEPT ![d] = <<pid, k>>]
  /\ UNCHANGED <<run, counter, files, mu, raced, reg, retried, conn>>

\* The NULL that is returned without a system call having failed is an error
\* only if errno happens to be set.
NullUnlessErrno(d) ==
  conn' = IF retried[d] THEN conn ELSE [conn EXCEPT ![d] = "null"]

\* The counter has grown by a digit too many for sun_path.
NameTooLong(d) ==
  /\ pc[d] = "name" /\ Return(d)
  /\ \E k \in {counter, reg[d] + 1} :
       k > Room /\ local' = [local EXCEPT ![d] = <<pid, k>>]
  /\ NullUnlessErrno(d)
  /\ UNCHANGED <<run, counter, files, reg, retried>>

BindOk(d) ==
  /\ pc[d] = "bind" /\ ~Exists(local[d]) /\ GoTo(d, "connect")
  /\ bound' = [bound EXCEPT ![d] = local[d]]
  /\ UNCHANGED <<run, counter, stale, leaked, mu, raced, reg, local, retried, conn>>

\* EADDRINUSE at the first try.
BindBusy(d) ==
  /\ pc[d] = "bind" /\ Exists(local[d]) /\ ~retried[d] /\ GoTo(d, "unlink")
  /\ retried' = [retried EXCEPT ![d] = TRUE]
  /\ UNCHANGED <<run, counter, files, mu, raced, reg, local, conn>>

\* "Remove the file and try again": the name is formatted anew.
Remove(d) ==
  /\ pc[d] = "unlink" /\ GoTo(d, "name") /\ Unlink(local[d])
  /\ UNCHANGED <<run, counter, mu, raced, reg, local, retried, conn>>

\* Any other errno, or EADDRINUSE at the second try: NULL, and an error.
BindFails(d) ==
  /\ pc[d] = "bind" /\ Return(d)
  /\ UNCHANGED <<run, counter, files, reg, local, retried, conn>>

\* Variant: success falls through to the cleanup of a failed connect.
ConnectedUnlinked(d) ==
  /\ pc[d] = "connect" /\ d \notin Long /\ ~retried[d] /\ Return(d)
  /\ Unlink(local[d])
  /\ conn' = [conn EXCEPT ![d] = "open"]
  /\ UNCHANGED <<run, counter, reg, local, retried>>

\* A ctrl, and errno is still 0: Open returns it.
Connected(d) ==
  /\ pc[d] = "connect" /\ d \notin Long /\ ~retried[d] /\ Return(d)
  /\ conn' = [conn EXCEPT ![d] = "open"]
  /\ UNCHANGED <<run, counter, files, reg, local, retried>>

\* A ctrl, but errno is left over from the first bind: Open returns the errno
\* as its error and forgets the ctrl, whose socket stays open and bound.
Forgotten(d) ==
  /\ pc[d] = "connect" /\ d \notin Long /\ retried[d] /\ Return(d)
  /\ leaked' = leaked \union ({bound[d]} \ {None})
  /\ bound' = [bound EXCEPT ![d] = None]
  /\ UNCHANGED <<run, counter, stale, reg, local, retried, conn>>

\* connect fails: the socket is closed, the name unlinked.
ConnectFails(d) ==
  /\ pc[d] = "connect" /\ d \notin Long /\ Return(d) /\ Unlink(local[d])
  /\ UNCHANGED <<run, counter, reg, local, retried, conn>>

\* The path of the device does not fit: the socket is closed, its file stays.
DestTooLong(d) ==
  /\ pc[d] = "connect" /\ d \in Long /\ Return(d)
  /\ stale' = stale \union ({bound[d]} \ {None})
  /\ bound' = [bound EXCEPT ![d] = None]
  /\ NullUnlessErrno(d)
  /\ UNCHANGED <<run, counter, leaked, reg, local, retried>>

-----------------------------------------------------------------------------
\* The process exits, by a signal or a panic, and is started again: nothing
\* unlinks its files, and the counter starts over.
Exit ==
  /\ exits < MaxExits /\ exits' = exits + 1
  /\ pid' \in Pid /\ counter' = 0 /\ mu' = None /\ raced' = FALSE
  /\ stale' = stale \union leaked \union ({bound[d] : d \in Dev} \ {None})
  /\ found' = stale' /\ leaked' = {}
  /\ bound' = [d \in Dev |-> None]
  /\ pc' = [d \in Dev |-> "idle"]
  /\ reg' = [d \in Dev |-> 0]
  /\ local' = [d \in Dev |-> None]
  /\ retried' = [d \in Dev |-> FALSE]
  /\ conn' = [d \in Dev |-> "none"]

\* The bounds are used up, and no open is in progress.
Exhausted ==
  /\ exits = MaxExits /\ counter >= MaxOpens
  /\ mu = None /\ \A d \in Dev : pc[d] = "idle"
  /\ UNCHANGED vars

\* Every connection is open and stays so.
AllOpen ==
  /\ exits = MaxExits /\ mu = None
  /\ \A d \in Dev : pc[d] = "idle" /\ conn[d] # "none"
  /\ UNCHANGED vars

Next ==
  \/ \E d \in Dev :
       \/ GetOpen(d) \/ Reconnect(d) \/ Load(d) \/ Store(d) \/ Name(d)
       \/ NameTooLong(d)
       \/ BindOk(d) \/ BindBusy(d) \/ Remove(d) \/ BindFails(d)
       \/ Connected(d) \/ Forgotten(d) \/ ConnectFails(d) \/ DestTooLong(d)
  \/ Exit \/ Exhausted \/ AllOpen

Spec == Init /\ [][Next]_vars

-----------------------------------------------------------------------------
(* Properties                                                              *)

\* hostapd's replies reach the connection that asked: the file of an open
\* connection's name is its own.  Also after its hostapd restarted and it was
\* opened again in place, as long as no two opens overlapped.
RoutedToOwner ==
  ~raced =>
    \A d \in Dev : conn[d] = "open" => bound[d] = local[d] /\ bound[d] # None

\* "the existing socket file must have been left by unclean termination of an
\* earlier run": what is about to be unlinked belongs to no socket of this run.
RemovesOnlyLeftovers ==
  \A d \in Dev : pc[d] = "unlink" =>
    local[d] \notin leaked /\ \A e \in Dev : bound[e] # local[d]

\* The comment is right until two opens overlap.
RemovalNeedsRace == raced \/ RemovesOnlyLeftovers

\* Open looks at errno, not at the pointer.  A NULL it takes for a connection
\* means that the path of the device is too long, or the client's own name; the
\* device has no connection from then on.
NullNeedsLong ==
  \A d \in Dev : conn[d] = "null" =>
    pc[d] = "idle" /\ (d \in Long \/ (local[d] # None /\ local[d][2] > Room))

\* Pointer and errno disagree in two cases only, whatever fails on the way: a
\* connection is lost to a left-over errno at most once for every file an
\* earlier run left behind, unless two opens overlapped; and a NULL is cached
\* only for a name that is too long.
MisreadsExplained == (raced \/ leaked \subseteq found) /\ NullNeedsLong

\* The files this run has made, those it has lost and those it left behind.
Own == leaked \union (stale \ found) \union ({bound[d] : d \in Dev} \ {None})

\* Without an overlap a name in the making is newer than every file of this
\* run, and one found taken is a leftover.
Ordered ==
  /\ \A d, e \in Dev : pc[d] # "idle" /\ pc[e] # "idle" => d = e
  /\ \A f \in Own : f[1] = pid /\ f[2] <= counter
  /\ \A d \in Dev :
       /\ pc[d] = "store" => reg[d] = counter
       /\ pc[d] \in {"name", "bind", "unlink"} =>
            reg[d] + 1 = counter /\ \A f \in Own : f[2] < counter
       /\ pc[d] \in {"bind", "unlink", "connect"} => local[d] = <<pid, counter>>
       /\ pc[d] \in {"load", "store"} => ~retried[d]
       /\ pc[d] # "idle" /\ retried[d] => <<pid, counter>> \in found
       /\ conn[d] = "open" => pc[d] = "idle"
       /\ conn[d] = "open" \/ pc[d] = "connect" => bound[d] = local[d] /\ bound[d] # None
       /\ bound[d] # None => conn[d] = "open" \/ pc[d] = "connect"
  /\ \A d, e \in Dev : bound[d] = bound[e] /\ bound[d] # None => d = e
  /\ leaked \subseteq found

\* What mu and the order of the opens are worth.  This is inductive.
GetInv ==
  /\ TypeOK
  /\ mu # None => pc[mu] # "idle"
  /\ ~raced => Ordered

\* wpa_ctrl_open2 "Returns: Pointer to abstract control interface data or NULL
\* on failure": no pointer it returned is thrown away as a failure.
PointerIsSuccess == leaked = {}
=============================================================================
