----------------------------- MODULE ClientScan -----------------------------
(***************************************************************************)
(* RPCs of server/service.go on one shared connection: listClientsOnSock   *)
(* walks hostapd's stations with STA-FIRST and STA-NEXT, pingSocket sends  *)
(* PING.  Each command is a SendRawCmd of its own, so the stations change, *)
(* hostapd restarts and other RPCs use the connection between two of them. *)
(*                                                                         *)
(* A reply is the address of a station, "PONG", "FAIL" or the empty        *)
(* string.  Nothing in it names the command it answers: parseCli takes any *)
(* reply but the last two for a client, whose address is its first line.   *)
(* WpaCtrlRequest has the details of a single command; here it is a send,  *)
(* an answer and a receipt, a time-out or an error, and a restart of       *)
(* hostapd is over before the next send.  A reconnect always succeeds here:*)
(* what follows one that fails is in SocketManager.                        *)
(***************************************************************************)
EXTENDS Integers, FiniteSets, SequencesExt

CONSTANTS
  Caller,     \* RPC handlers
  Sta,        \* stations
  MaxCalls,   \* bound: RPCs
  MaxChurn,   \* bound: associations, departures and restarts
  None

ASSUME ScanAssumption ==
  /\ None \notin Caller /\ IsFiniteSet(Sta)
  /\ {"PONG", "FAIL", ""} \intersect Sta = {}
  /\ MaxCalls \in Nat /\ MaxChurn \in Nat

VARIABLES
  table,      \* hostapd's stations, in its order
  churn, calls,  \* what the bounds count
  dead,       \* hostapd has restarted since the connection was made
  pending,    \* commands hostapd has not answered yet
  replies,    \* replies not received yet
  unanswered, \* commands of this connection given up without their reply
  smu,        \* sharedSocket.smu: the handler inside SendRawCmd, or None
  pc,         \* handler: "idle", "send" or "wait"
  cmd,        \* handler: its command
  clis,       \* handler: addresses of the clients found so far
  outcome,    \* handler: how its last RPC ended
  seen, joined, gone,  \* history: stations associated at some time of the
                       \* RPC, those that came and those that left meanwhile
  suspect     \* history: a reply came over a connection with unanswered
              \* commands

conn == <<dead, pending, replies, unanswered, smu>>
rpc == <<pc, cmd, clis, outcome>>
history == <<seen, joined, gone, suspect>>
vars == <<table, churn, calls, conn, rpc, history>>

Ping == [op |-> "PING"]
First == [op |-> "STA-FIRST"]
NextOf(a) == [op |-> "STA-NEXT", addr |-> a]

Address == Sta \union {"PONG"}
Command == {Ping, First} \union {NextOf(a) : a \in Address}
Reply == Address \union {"FAIL", ""}

TypeOK ==
  /\ table \in Seq(Sta) /\ IsInjective(table)
  /\ churn \in 0..MaxChurn /\ calls \in 0..MaxCalls
  /\ dead \in BOOLEAN
  /\ pending \in Seq(Command) /\ replies \in Seq(Reply)
  /\ unanswered \in Nat
  /\ smu \in Caller \union {None}
  /\ pc \in [Caller -> {"idle", "send", "wait"}]
  /\ cmd \in [Caller -> Command]
  /\ clis \in [Caller -> Seq(Address)]
  /\ outcome \in [Caller -> {"none", "ok", "bad", "error"}]
  /\ {seen, joined, gone} \subseteq [Caller -> SUBSET Sta]
  /\ suspect \in [Caller -> BOOLEAN]

Init ==
  /\ table \in SetToSeqs(Sta)
  /\ churn = 0 /\ calls = 0
  /\ dead = FALSE /\ pending = <<>> /\ replies = <<>> /\ unanswered = 0
  /\ smu = None
  /\ pc = [c \in Caller |-> "idle"]
  /\ cmd = [c \in Caller |-> Ping]
  /\ clis = [c \in Caller |-> <<>>]
  /\ outcome = [c \in Caller |-> "none"]
  /\ seen = [c \in Caller |-> {}]
  /\ joined = seen /\ gone = seen
  /\ suspect = [c \in Caller |-> FALSE]

\* hostapd's answer, by the stations it has when it comes to the command.
Answers(k) ==
  LET i == CHOOSE j \in DOMAIN table : table[j] = k.addr IN
  CASE k.op = "PING" -> "PONG"
    [] k.op = "STA-FIRST" -> IF table = <<>> THEN "FAIL" ELSE Head(table)
    [] k.op = "STA-NEXT" /\ k.addr \notin ToSet(table) -> "FAIL"
    [] OTHER -> IF i = Len(table) THEN "" ELSE table[i + 1]

-----------------------------------------------------------------------------
(* The handlers                                                            *)

\* Ping and ListClients start with their first command.
Begin(c, k) ==
  /\ pc[c] = "idle" /\ calls < MaxCalls /\ calls' = calls + 1
  /\ pc' = [pc EXCEPT ![c] = "send"]
  /\ cmd' = [cmd EXCEPT ![c] = k]
  /\ clis' = [clis EXCEPT ![c] = <<>>]
  /\ outcome' = [outcome EXCEPT ![c] = "none"]
  /\ seen' = [seen EXCEPT ![c] = ToSet(table)]
  /\ joined' = [joined EXCEPT ![c] = {}] /\ gone' = [gone EXCEPT ![c] = {}]
  /\ suspect' = [suspect EXCEPT ![c] = FALSE]
  /\ UNCHANGED <<table, churn, conn>>

\* Variant: a command does not wait for the reply to the one before it.
SmuIgnored == TRUE

SmuFree == smu = None

\* SendRawCmd: on a dead connection reconnect makes a new one first, with
\* empty queues.
Send(c) ==
  /\ pc[c] = "send" /\ SmuFree
  /\ smu' = c /\ dead' = FALSE
  /\ pc' = [pc EXCEPT ![c] = "wait"]
  /\ pending' = Append(IF dead THEN <<>> ELSE pending, cmd[c])
  /\ replies' = IF dead THEN <<>> ELSE replies
  /\ unanswered' = IF dead THEN 0 ELSE unanswered
  /\ UNCHANGED <<table, churn, calls, cmd, clis, outcome, history>>

\* The RPC of c is over.
Ends(c, o) ==
  /\ pc' = [pc EXCEPT ![c] = "idle"]
  /\ outcome' = [outcome EXCEPT ![c] = o]
  /\ UNCHANGED <<cmd, clis>>

\* Variant: STA-NEXT with the first client's address.
FoundFirst(c, a) ==
  /\ clis' = [clis EXCEPT ![c] = Append(@, a)]
  /\ cmd' = [cmd EXCEPT ![c] = NextOf(clis'[c][1])]
  /\ pc' = [pc EXCEPT ![c] = "send"]
  /\ UNCHANGED outcome

\* A client is found: parseCli, and STA-NEXT with its address.
Found(c, a) ==
  /\ clis' = [clis EXCEPT ![c] = Append(@, a)]
  /\ cmd' = [cmd EXCEPT ![c] = NextOf(a)]
  /\ pc' = [pc EXCEPT ![c] = "send"]
  /\ UNCHANGED outcome

\* Variant: the walk does not end with "FAIL".
DoneEmpty(r) == r = ""

\* The replies that end the walk.
Done(r) == r \in {"FAIL", ""}

\* The oldest reply is the result of the command.
Receive(c) ==
  /\ pc[c] = "wait" /\ replies # <<>>
  /\ replies' = Tail(replies) /\ smu' = None
  /\ LET r == Head(replies) IN
     \/ cmd[c] = Ping /\ Ends(c, IF r = "PONG" THEN "ok" ELSE "bad")
     \/ cmd[c] # Ping /\ Done(r) /\ Ends(c, "ok")
     \/ cmd[c] # Ping /\ ~Done(r) /\ Found(c, r)
  /\ suspect' = [suspect EXCEPT ![c] = @ \/ unanswered > 0]
  /\ UNCHANGED <<table, churn, calls, dead, pending, unanswered, seen, joined,
                 gone>>

\* Variant: the clients found so far are returned without the error.
TimeOutSwallowed(c) ==
  /\ pc[c] = "wait" /\ replies = <<>>
  /\ unanswered' = unanswered + 1 /\ smu' = None
  /\ Ends(c, "ok")
  /\ UNCHANGED <<table, churn, calls, dead, pending, replies, history>>

\* Variant: the error path does not unlock smu.
TimeOutLocked(c) ==
  /\ pc[c] = "wait" /\ replies = <<>>
  /\ unanswered' = unanswered + 1 /\ Ends(c, "error")
  /\ UNCHANGED <<table, churn, calls, dead, pending, replies, smu, history>>

\* A RequestError; its command stays in the queue, the clients found so far
\* are dropped.
TimeOut(c) ==
  /\ pc[c] = "wait" /\ replies = <<>>
  /\ unanswered' = unanswered + 1 /\ smu' = None
  /\ Ends(c, "error")
  /\ UNCHANGED <<table, churn, calls, dead, pending, replies, history>>

\* select or recv fails instead.
RequestFails(c) ==
  /\ pc[c] = "wait"
  /\ unanswered' = unanswered + 1 /\ smu' = None
  /\ Ends(c, "error")
  /\ UNCHANGED <<table, churn, calls, dead, pending, replies, history>>

\* Or with an errno that isSocketDead takes for a dead connection: SendRawCmd
\* makes a new one and sends the command again.  That it does so only once per
\* command is in WpaCtrlRequest.
Rescue(c) ==
  /\ pc[c] = "wait"
  /\ dead' = FALSE /\ pending' = <<cmd[c]>> /\ replies' = <<>> /\ unanswered' = 0
  /\ UNCHANGED <<table, churn, calls, smu, rpc, history>>

-----------------------------------------------------------------------------
(* hostapd                                                                 *)

Answer ==
  /\ ~dead /\ pending # <<>>
  /\ pending' = Tail(pending)
  /\ replies' = Append(replies, Answers(Head(pending)))
  /\ UNCHANGED <<table, churn, calls, dead, unanswered, smu, rpc, history>>

\* The history of the RPCs in progress.
Busy == {c \in Caller : pc[c] # "idle"}
Add(f, S) == [c \in Caller |-> IF c \in Busy THEN f[c] \union S ELSE f[c]]

Churns == churn < MaxChurn /\ churn' = churn + 1

\* A station associates, at any place of the list.
Join(x) ==
  /\ Churns /\ x \notin ToSet(table)
  /\ \E i \in 1..(Len(table) + 1) : table' = InsertAt(table, i, x)
  /\ seen' = Add(seen, {x}) /\ joined' = Add(joined, {x})
  /\ UNCHANGED <<calls, conn, rpc, gone, suspect>>

Leave(x) ==
  /\ Churns
  /\ \E i \in DOMAIN table : table[i] = x /\ table' = RemoveAt(table, i)
  /\ gone' = Add(gone, {x})
  /\ UNCHANGED <<calls, conn, rpc, seen, joined, suspect>>

\* hostapd restarts: its queue and its stations are gone; replies already
\* sent stay with the client.
Restart ==
  /\ Churns /\ table' = <<>> /\ dead' = TRUE /\ pending' = <<>>
  /\ gone' = Add(gone, ToSet(table))
  /\ UNCHANGED <<calls, replies, unanswered, smu, rpc, seen, joined, suspect>>

\* The bound on calls is used up, and nothing need happen any more; that no RPC
\* is stuck then is RpcEnds.
Finished == calls = MaxCalls /\ UNCHANGED vars

Next ==
  \/ \E c \in Caller :
       \/ \E k \in {Ping, First} : Begin(c, k)
       \/ Send(c) \/ Receive(c) \/ TimeOut(c) \/ RequestFails(c) \/ Rescue(c)
  \/ Answer \/ Restart \/ Finished
  \/ \E x \in Sta : Join(x) \/ Leave(x)

Spec == Init /\ [][Next]_vars

\* A command ends with a reply or with select's time-out, and no call has to
\* fail; sync.Mutex hands smu over to a waiter that starves.
Fairness ==
  \A c \in Caller : WF_vars(Receive(c) \/ TimeOut(c)) /\ SF_vars(Send(c))

FairSpec == Spec /\ Fairness

-----------------------------------------------------------------------------
(* Properties                                                              *)

Listed(c) == cmd[c] # Ping /\ outcome[c] = "ok"

\* Every client of a listing was associated with hostapd at some time of the
\* RPC, and never the reply to another command, unless a command of the
\* connection had been given up before: parseCli does not tell "PONG" from a
\* station.
NoPhantom ==
  \A c \in Caller : ~suspect[c] => ToSet(clis[c]) \subseteq seen[c]

\* A ping is answered "PONG" unless a command of the connection had been given
\* up before.
PingSound == \A c \in Caller : outcome[c] = "bad" => suspect[c]

\* A listing that ends without an error has every station that was associated
\* all along, however the others came and went, unless a station it had already
\* listed left, which hostapd may not know to go on from.
Complete ==
  \A c \in Caller :
    Listed(c) /\ ~suspect[c] /\ ToSet(clis[c]) \intersect gone[c] = {} =>
      seen[c] \ (joined[c] \union gone[c]) \subseteq ToSet(clis[c])

\* No client is listed twice, unless a listed one left and associated again
\* meanwhile, from whose new place the walk goes on.
NoRepeat ==
  \A c \in Caller :
    ~suspect[c] /\ ToSet(clis[c]) \intersect gone[c] \intersect joined[c] = {} =>
      IsInjective(clis[c])

\* Station x is before y in list s.
Before(s, x, y) == \E i, j \in DOMAIN s : i < j /\ s[i] = x /\ s[j] = y

Constant(c) == seen[c] \ (joined[c] \union gone[c])
Clients(c) == ToSet(clis[c])
NoneLeft(c) == Clients(c) \intersect gone[c] = {}
NoneReturned(c) == Clients(c) \intersect gone[c] \intersect joined[c] = {}

\* What handler c, which is busy, knows of the list.
Walk(c) ==
  LET a == cmd[c].addr IN
  /\ outcome[c] = "none"
  /\ ToSet(table) \subseteq seen[c] /\ seen[c] \ gone[c] \subseteq ToSet(table)
  /\ cmd[c].op = "STA-FIRST" => clis[c] = <<>>
  /\ cmd[c].op = "STA-NEXT" =>
       /\ a \in Clients(c)
       /\ ~suspect[c] /\ NoneLeft(c) =>
            \A x \in Constant(c) : Before(table, x, a) => x \in Clients(c)
       /\ ~suspect[c] /\ NoneReturned(c) => \A x \in Clients(c) : ~Before(table, a, x)

\* What reply r to c, which comes next, means.
Sound(c, r) ==
  /\ cmd[c].op = "PING" => r = "PONG"
  /\ cmd[c].op # "PING" => r \in seen[c] \union {"FAIL", ""}
  /\ cmd[c].op # "PING" /\ Done(r) /\ ~suspect[c] /\ NoneLeft(c) =>
       Constant(c) \subseteq Clients(c)
  /\ cmd[c].op # "PING" /\ ~Done(r) /\ ~suspect[c] =>
       /\ NoneLeft(c) /\ r \notin gone[c] =>
            \A x \in Constant(c) : Before(table, x, r) => x \in Clients(c)
       /\ NoneReturned(c) /\ r \notin gone[c] \intersect joined[c] =>
            r \notin Clients(c) /\ \A x \in Clients(c) : ~Before(table, r, x)

\* On a connection that gave no command up there is at most one command or
\* reply, and it is that of the handler inside SendRawCmd.
InFlight ==
  unanswered = 0 =>
    /\ smu = None => pending = <<>> /\ replies = <<>>
    /\ \A c \in Caller : smu = c =>
         \/ pending = <<>> /\ replies = <<>>
         \/ pending = <<cmd[c]>> /\ replies = <<>>
         \/ pending = <<>> /\ \E r \in Reply : replies = <<r>> /\ Sound(c, r)

\* The inductive invariant behind the four properties above.
ScanInv ==
  /\ TypeOK
  /\ \A c \in Caller : pc[c] = "wait" <=> smu = c
  /\ InFlight
  /\ \A c \in Busy : Walk(c)
  /\ NoPhantom /\ PingSound /\ Complete /\ NoRepeat

\* Once the stations stop coming and going every RPC ends.
RpcEnds == \A c \in Caller : pc[c] # "idle" ~> pc[c] = "idle"
=============================================================================
