---------------------------- MODULE WpaCtrlClient ----------------------------
(***************************************************************************)
(* The control interface library as a whole: one connection of a program   *)
(* that opens it, sends commands, attaches for events, polls and receives  *)
(* them and closes it, over every transport wpa_ctrl.c can be built for.   *)
(*                                                                         *)
(* wpa_ctrl_open acquires one resource after another; a row of OpenSteps   *)
(* is one call that may fail, with what the failure branch releases.  A    *)
(* request is a send and a wait, and what the server and the network do    *)
(* happens between any two of these.  Sizes are those of whole messages.   *)
(***************************************************************************)
EXTENDS Naturals, Sequences, SequencesExt

CONSTANTS
  Transports,  \* of "unix", "android", "udp" and "pipe"
  Size,        \* text of a reply: its length
  Callback,    \* the program's requests have a msg_cb
  Cap,         \* messages a queue holds
  MaxOpens, MaxCalls, MaxEvents, MaxLost   \* bounds

Texts == {"OK", "FAIL", "PONG", "cookie", "ifname"}

ASSUME ClientAssumption ==
  /\ Transports \subseteq {"unix", "android", "udp", "pipe"}
  /\ Size \in [Texts -> 0..127] /\ Callback \in BOOLEAN
  /\ Cap \in Nat \ {0}
  /\ MaxOpens \in Nat /\ MaxCalls \in Nat /\ MaxEvents \in Nat /\ MaxLost \in Nat

VARIABLES
  transport, pc,
  at, tries,   \* the row of OpenSteps in progress, tries of CreateFile
  held,        \* memory, descriptors and files the connection owns
  orphan,      \* why a socket file is left that nobody owns
  blocking,    \* the socket was not made non-blocking
  len, ifname, \* UDP: room in the buffer of wpa_ctrl_open, remote_ifname
  call,        \* the command being requested
  toServer, toClient,   \* the queues: commands; replies and events
  attached, believed,   \* the server sends events; the program thinks so
  events, lost,         \* events sent; messages the network lost
  missed,               \* events that were thrown away
  monitors, unanswered, \* calls of attach and detach; waits that ended
                        \* without the reply to the command
  opens, calls

conn == <<held, orphan, blocking, len, ifname>>
queues == <<toServer, toClient, lost>>
server == <<attached, events>>
seen == <<believed, missed, monitors, unanswered>>
bounds == <<transport, opens, calls>>
vars == <<pc, at, tries, call, conn, queues, server, seen, bounds>>

Resources == {"ctrl", "fd", "file", "name", "ip", "cookie", "ifname", "cmd"}
Commands == {"GET_COOKIE", "IFNAME", "PING", "ATTACH", "DETACH"}
None == [text |-> "none", len |-> 0]
Messages == [text : Texts \union {"<"}, n : Nat]
Reply(t) == [text |-> t, n |-> 0]
Event(n) == [text |-> "<", n |-> n]

TypeOK ==
  /\ transport \in Transports
  /\ pc \in {"closed", "step", "send", "wait", "open"}
  /\ at \in 1..6 /\ tries \in 0..9
  /\ held \subseteq Resources /\ orphan \subseteq {"open", "exit"} /\ blocking \in BOOLEAN
  /\ len \in 0..127
  /\ ifname \in [text : Texts, len : 0..127] \union {None}
  /\ call \in Commands
  /\ toServer \in Seq(Commands)
  /\ toClient \in Seq(Messages)
  /\ missed \subseteq Nat
  /\ attached \in BOOLEAN /\ believed \in BOOLEAN
  /\ events \in Nat /\ lost \in Nat /\ monitors \in Nat /\ unanswered \in Nat
  /\ opens \in Nat /\ calls \in Nat

Init ==
  /\ transport \in Transports
  /\ pc = "closed" /\ at = 1 /\ tries = 0 /\ call = "PING"
  /\ held = {} /\ orphan = {} /\ blocking = TRUE /\ len = 127 /\ ifname = None
  /\ toServer = <<>> /\ toClient = <<>> /\ lost = 0
  /\ attached = FALSE /\ events = 0
  /\ believed = FALSE /\ missed = {} /\ monitors = 0 /\ unanswered = 0
  /\ opens = 0 /\ calls = 0

-----------------------------------------------------------------------------
(* wpa_ctrl_open                                                           *)

Row(take, maybe, free, undo) ==
  [take |-> take, maybe |-> maybe, free |-> free, undo |-> undo]

\* os_zalloc, socket, bind; the length of the path, whose failure leaves the
\* file behind; connect.
UnixSteps ==
  << Row({"ctrl"}, {}, {}, {}),
     Row({"fd"}, {}, {}, {"ctrl"}),
     Row({"file"}, {}, {}, {"fd", "ctrl"}),
     Row({}, {}, {}, {"fd", "ctrl"}),
     Row({}, {}, {}, {"fd", "file", "ctrl"}) >>

\* The same as far as bind, then socket_local_client_connect to a name of the
\* reserved namespace.
AndroidSteps ==
  << Row({"ctrl"}, {}, {}, {}),
     Row({"fd"}, {}, {}, {"ctrl"}),
     Row({"file"}, {}, {}, {"fd", "ctrl"}),
     Row({}, {}, {}, {"fd", "file", "ctrl"}) >>

\* os_zalloc, socket, bind; the copy of the name, its resolution, connect.
\* Nothing checks that the copy in remote_ip was made.
UdpSteps ==
  << Row({"ctrl"}, {}, {}, {}),
     Row({"fd"}, {}, {}, {"ctrl"}),
     Row({}, {}, {}, {"fd", "ctrl"}),
     Row({"name"}, {}, {}, {"fd", "ctrl"}),
     Row({}, {"ip"}, {"name"}, {"name", "fd", "ctrl"}),
     Row({}, {}, {}, {"fd", "ip", "ctrl"}) >>

\* os_malloc, the name, CreateFile, SetNamedPipeHandleState.
PipeSteps ==
  << Row({"ctrl"}, {}, {}, {}),
     Row({}, {}, {}, {"ctrl"}),
     Row({"fd"}, {}, {}, {"ctrl"}),
     Row({}, {}, {}, {"fd", "ctrl"}) >>

OpenSteps ==
  CASE transport = "unix"    -> UnixSteps
    [] transport = "android" -> AndroidSteps
    [] transport = "udp"     -> UdpSteps
    [] OTHER                 -> PipeSteps

Begin ==
  /\ pc = "closed" /\ opens < MaxOpens
  /\ pc' = "step" /\ at' = 1 /\ tries' = 0 /\ opens' = opens + 1
  /\ toServer' = <<>> /\ toClient' = <<>> /\ attached' = FALSE /\ events' = 0
  /\ believed' = FALSE /\ missed' = {} /\ monitors' = 0 /\ unanswered' = 0
  /\ len' = 127 /\ ifname' = None
  /\ UNCHANGED <<call, held, orphan, blocking, lost, transport, calls>>

\* A call of wpa_ctrl_open succeeds.  Only a UNIX domain socket is made
\* non-blocking, and it may refuse; UDP goes on to ask for its cookie.
Acquire ==
  LET row == OpenSteps[at] IN
  /\ pc = "step"
  /\ \E more \in SUBSET row.maybe : held' = (held \union row.take \union more) \ row.free
  /\ IF at < Len(OpenSteps)
     THEN /\ at' = at + 1
          /\ UNCHANGED <<pc, call, blocking>>
     ELSE /\ pc' = IF transport = "udp" THEN "send" ELSE "open"
          /\ call' = IF transport = "udp" THEN "GET_COOKIE" ELSE call
          /\ blocking' \in {b \in BOOLEAN : transport = "unix" \/ b}
          /\ UNCHANGED at
  /\ UNCHANGED <<tries, orphan, len, ifname, queues, server, seen, bounds>>

\* ERROR_PIPE_BUSY: at most ten tries.
PipeBusy ==
  /\ pc = "step" /\ transport = "pipe" /\ at = 3 /\ tries < 9
  /\ tries' = tries + 1
  /\ UNCHANGED <<pc, at, call, conn, queues, server, seen, bounds>>

\* Variant: the branch of the last failure forgets the copy of the address.
OpenFailsForgets ==
  LET kept == held \ (OpenSteps[at].undo \ {"ip"}) IN
  /\ pc = "step" /\ pc' = "closed"
  /\ held' = kept \ {"file"} /\ UNCHANGED orphan
  /\ UNCHANGED <<at, tries, call, blocking, len, ifname, queues, server, seen, bounds>>

\* One fails, and the open with it.
OpenFails ==
  LET kept == held \ OpenSteps[at].undo IN
  /\ pc = "step" /\ pc' = "closed"
  /\ held' = kept \ {"file"}
  /\ orphan' = orphan \union IF "file" \in kept THEN {"open"} ELSE {}
  /\ UNCHANGED <<at, tries, call, blocking, len, ifname, queues, server, seen, bounds>>

\* What wpa_ctrl_close releases.
Released ==
  CASE transport \in {"unix", "android"} -> {"file", "fd", "ctrl"}
    [] transport = "udp" -> {"fd", "cookie", "ifname", "ip", "ctrl"}
    [] OTHER -> {"fd", "ctrl"}

Close ==
  /\ pc = "open" /\ pc' = "closed"
  /\ held' = held \ Released
  /\ UNCHANGED <<at, tries, call, orphan, blocking, len, ifname, queues, server, seen, bounds>>

\* The program is killed: the system takes back all but the file.
Exit ==
  /\ pc # "closed" /\ pc' = "closed" /\ held' = {}
  /\ orphan' = orphan \union IF "file" \in held THEN {"exit"} ELSE {}
  /\ UNCHANGED <<at, tries, call, blocking, len, ifname, queues, server, seen, bounds>>

\* wpa_ctrl_cleanup, of Android, here or in another process: every file in the
\* directory goes, the one of a connection in use as well.
Cleanup ==
  /\ transport = "android" /\ (orphan # {} \/ "file" \in held)
  /\ held' = held \ {"file"} /\ orphan' = {}
  /\ UNCHANGED <<pc, at, tries, call, blocking, len, ifname, queues, server, seen, bounds>>

-----------------------------------------------------------------------------
(* wpa_ctrl_request and its callers                                        *)

Socket == transport # "pipe"

\* The command gets the cookie in front if there is one, in memory of its own.
Start(c) ==
  /\ call' = c /\ pc' = "send"
  /\ held' = IF "cookie" \in held THEN held \union {"cmd"} ELSE held

\* The program asks for something, or attaches or detaches.
Request(c) ==
  /\ pc = "open" /\ calls < MaxCalls /\ calls' = calls + 1
  /\ Start(c)
  /\ monitors' = monitors + IF c = "PING" THEN 0 ELSE 1
  /\ UNCHANGED <<at, tries, orphan, blocking, len, ifname, queues, server,
                 believed, missed, unanswered, transport, opens>>

Send ==
  /\ pc = "send" /\ pc' = "wait" /\ Len(toServer) < Cap
  /\ toServer' = Append(toServer, call)
  /\ held' = held \ {"cmd"}
  /\ UNCHANGED <<at, tries, call, orphan, blocking, len, ifname, toClient, lost,
                 server, seen, bounds>>

\* Variant: the length of the cookie is one less, for a NUL it has not got.
FinishShort(ok, t, l) ==
  LET rest == held \ {"cmd"} IN
  /\ pc' = IF call = "GET_COOKIE" THEN "send" ELSE "open"
  /\ call' = IF call = "GET_COOKIE" THEN "IFNAME" ELSE call
  /\ held' = rest /\ len' = IF ok /\ call = "GET_COOKIE" THEN l - 1 ELSE len
  /\ ifname' = IF ok /\ call = "IFNAME" THEN [text |-> t, len |-> l] ELSE ifname
  /\ UNCHANGED believed

\* Variant: attach and detach take any answer for "OK\n".
FinishAnyText(ok, t, l) ==
  /\ pc' = "open" /\ held' = held \ {"cmd"}
  /\ believed' = IF ok /\ call \in {"ATTACH", "DETACH"} THEN call = "ATTACH" ELSE believed
  /\ UNCHANGED <<call, len, ifname>>

\* wpa_ctrl_request returns the text t of l bytes, or fails, to
\*  - wpa_ctrl_open for UDP: strdup may fail, and the length of the cookie is
\*    what the buffer has room for from now on;
\*  - wpa_ctrl_attach and wpa_ctrl_detach: anything but "OK\n" is a failure;
\*  - the program.
Finish(ok, t, l) ==
  LET rest == held \ {"cmd"} IN
  \/ /\ call = "GET_COOKIE" /\ Start("IFNAME") /\ ~ok
     /\ UNCHANGED <<len, ifname, believed>>
  \/ /\ call = "GET_COOKIE" /\ ok /\ len' = l /\ call' = "IFNAME"
     /\ pc' = "send" /\ held' \in {rest, rest \union {"cookie", "cmd"}}
     /\ UNCHANGED <<ifname, believed>>
  \/ /\ call = "IFNAME" /\ pc' = "open"
     /\ \/ /\ ok /\ held' = rest \union {"ifname"}
           /\ ifname' = [text |-> t, len |-> l]
        \/ held' = rest /\ UNCHANGED ifname
     /\ UNCHANGED <<call, len, believed>>
  \/ /\ call \in {"ATTACH", "DETACH"} /\ pc' = "open" /\ held' = rest
     /\ believed' = IF ok /\ t = "OK" THEN call = "ATTACH" ELSE believed
     /\ UNCHANGED <<call, len, ifname>>
  \/ /\ call = "PING" /\ pc' = "open" /\ held' = rest
     /\ UNCHANGED <<call, len, ifname, believed>>

\* No memory for the cookie's copy, or a send that fails or stays refused for
\* five seconds.  A blocking send waits.
SendFails ==
  /\ pc = "send" /\ (Len(toServer) < Cap \/ ~blocking)
  /\ Finish(FALSE, "FAIL", 0)
  /\ UNCHANGED <<at, tries, orphan, blocking, queues, server,
                 missed, monitors, unanswered, bounds>>

\* Variant: a callback for nobody.
ReceiveEventQuietly ==
  /\ pc = "wait" /\ Socket /\ toClient # <<>> /\ Head(toClient).text = "<"
  /\ toClient' = Tail(toClient)
  /\ missed' = missed \union {Head(toClient).n}
  /\ UNCHANGED <<pc, at, tries, call, conn, toServer, lost, server,
                 believed, monitors, unanswered, bounds>>

\* Variant: the wait has no end.
TimeOutNever == FALSE

\* An unsolicited message during a request: to msg_cb if the caller has one,
\* which attach, detach and open have not.  The wait starts over.
ReceiveEvent ==
  /\ pc = "wait" /\ Socket /\ toClient # <<>> /\ Head(toClient).text = "<"
  /\ toClient' = Tail(toClient)
  /\ missed' = missed \union IF Callback /\ call = "PING" THEN {} ELSE {Head(toClient).n}
  /\ UNCHANGED <<pc, at, tries, call, conn, toServer, lost, server,
                 believed, monitors, unanswered, bounds>>

\* Anything else is the reply; on a named pipe an event is, too.
Receive ==
  LET m == Head(toClient) IN
  /\ pc = "wait" /\ toClient # <<>> /\ (Socket => m.text # "<")
  /\ toClient' = Tail(toClient)
  /\ IF m.text = "<"
     THEN /\ missed' = missed \union {m.n} /\ unanswered' = unanswered + 1
          /\ Finish(TRUE, "FAIL", 0)
     ELSE /\ UNCHANGED <<missed, unanswered>>
          /\ Finish(TRUE, m.text, Min({Size[m.text], len}))
  /\ UNCHANGED <<at, tries, orphan, blocking, toServer, lost, server, monitors, bounds>>

\* Ten seconds without a message.  ReadFile of a pipe waits for ever.
TimeOut ==
  /\ pc = "wait" /\ Socket /\ toClient = <<>>
  /\ unanswered' = unanswered + 1
  /\ Finish(FALSE, "FAIL", 0)
  /\ UNCHANGED <<at, tries, orphan, blocking, queues, server,
                 missed, monitors, bounds>>

\* select, recv or ReadFile fails: the request ends, and what the server makes
\* of its command is still to come.
RequestFails ==
  /\ pc = "wait"
  /\ unanswered' = unanswered + 1
  /\ Finish(FALSE, "FAIL", 0)
  /\ UNCHANGED <<at, tries, orphan, blocking, queues, server,
                 missed, monitors, bounds>>

\* wpa_ctrl_pending says that something is there, wpa_ctrl_recv takes it: an
\* event, or a reply that came too late, which the program cannot tell from one.
Recv ==
  /\ pc = "open" /\ toClient # <<>> /\ toClient' = Tail(toClient)
  /\ UNCHANGED <<pc, at, tries, call, conn, toServer, lost, server, seen, bounds>>

-----------------------------------------------------------------------------
(* The server and the network                                              *)

\* Whether a message reaches the client: there is room, and the name of its
\* socket still leads to it.
Reachable == Len(toClient) < Cap /\ (transport \in {"unix", "android"} => "file" \in held)

Answers(c) ==
  CASE c = "GET_COOKIE" -> {"cookie"}
    [] c = "IFNAME" -> {"ifname"}
    [] c = "PING" -> {"PONG"}
    [] OTHER -> {"OK", "FAIL"}

\* The server takes a command and answers it, in vain if it cannot; only a pipe
\* makes it wait.
Serve ==
  /\ toServer # <<>> /\ toServer' = Tail(toServer)
  /\ Socket \/ Reachable
  /\ \E t \in Answers(Head(toServer)) :
       /\ toClient' = IF Reachable THEN Append(toClient, Reply(t)) ELSE toClient
       /\ attached' = IF t = "OK" THEN Head(toServer) = "ATTACH" ELSE attached
  /\ UNCHANGED <<pc, at, tries, call, conn, lost, events, seen, bounds>>

Emit ==
  /\ attached /\ events < MaxEvents /\ pc # "closed" /\ Reachable
  /\ events' = events + 1
  /\ toClient' = Append(toClient, Event(events + 1))
  /\ UNCHANGED <<pc, at, tries, call, conn, toServer, lost, attached, seen, bounds>>

\* A datagram of UDP is lost.
Lose ==
  /\ transport = "udp" /\ lost < MaxLost /\ lost' = lost + 1
  /\ \/ toServer # <<>> /\ toServer' = Tail(toServer) /\ UNCHANGED <<toClient, missed>>
     \/ /\ toClient # <<>> /\ toClient' = Tail(toClient) /\ UNCHANGED toServer
        /\ missed' = missed \union ({Head(toClient).n} \ {0})
  /\ UNCHANGED <<pc, at, tries, call, conn, server, believed, monitors,
                 unanswered, bounds>>

-----------------------------------------------------------------------------
\* The program is done.
Done == pc = "closed" /\ opens = MaxOpens /\ UNCHANGED vars

Library == Acquire \/ PipeBusy \/ OpenFails \/ Send \/ SendFails \/ ReceiveEvent
           \/ Receive \/ TimeOut

Next ==
  \/ Begin \/ Close \/ Exit \/ Cleanup \/ Library \/ RequestFails \/ Recv
  \/ \E c \in {"PING", "ATTACH", "DETACH"} : Request(c)
  \/ Serve \/ Emit \/ Lose \/ Done

\* The program is scheduled inside the library, and the server serves.  No call
\* of the system has to fail.
Spec == Init /\ [][Next]_vars /\ WF_vars(Library) /\ WF_vars(Serve)

-----------------------------------------------------------------------------
(* Properties                                                              *)

\* Whatever fails on the way, a connection that is not open owns nothing; one
\* being opened owns what the failure of the call in progress releases, and
\* only the length of a UNIX path leaves a file behind; an open one owns what
\* wpa_ctrl_close releases.  The copy of a command is gone once it was sent.
\* With the types, this is inductive.
ResourceInv ==
  /\ TypeOK
  /\ pc = "closed" => held = {}
  /\ pc = "step" =>
       /\ at <= Len(OpenSteps)
       /\ held \subseteq OpenSteps[at].undo \union
                         IF transport = "unix" /\ at = 4 THEN {"file"} ELSE {}
  /\ pc \in {"send", "wait", "open"} =>
       held \subseteq Released \union IF pc = "send" THEN {"cmd"} ELSE {}
  /\ "open" \in orphan => transport = "unix"
  /\ call \in {"GET_COOKIE", "IFNAME"} => transport = "udp"

\* A program with a callback that attaches once and never detaches misses none
\* of the events a UNIX socket brings; a second attach may swallow some.
NoEventMissed ==
  transport \in {"unix", "android"} /\ Callback /\ monitors <= 1 => missed = {}

\* "Returns: 0 on success, -1 on failure, -2 on timeout": what attach and detach
\* returned is what the server did, on every transport and in spite of events
\* and losses, as long as no request of the connection, up to this one, ended
\* without its reply: timed out, failed at select, recv or ReadFile after the
\* command was sent, or was answered with an event.  After one that did, the
\* reply to one command may be taken for that to the next.
BeliefSound == unanswered = 0 /\ pc = "open" => believed = attached

\* The name of the remote interface is its own, and cut no shorter than the
\* cookie that was received before it into the same buffer, unless one of the
\* two requests ended without its reply.
IfnameSound ==
  ifname # None /\ unanswered = 0 =>
    /\ ifname.text = "ifname"
    /\ ifname.len >= Min({Size["ifname"], Size["cookie"]})

\* A call of the library returns, however long the server takes, while it does
\* not send events for ever.
CallsReturn == pc \in {"send", "wait"} ~> pc \in {"open", "closed"}
=============================================================================
