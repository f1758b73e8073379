---------------------------- MODULE ClientsGauge ----------------------------
(***************************************************************************)
(* The metric hostapd_connected_clients: ConnectedClientsGauge.Scrape of   *)
(* server/metrics.go, the calls of server/util.go it makes to the Service, *)
(* and the ticker of main that starts it.                                  *)
(*                                                                         *)
(* Prometheus may collect between any two of these steps, label by label:  *)
(* whatever gauge holds in some state may be shown.  The listing of one    *)
(* socket (ClientScan, SocketManager) is one step here, with an outcome    *)
(* that depends on the state the socket is in and on what became of the    *)
(* connection the manager keeps for it; the clients that late replies may  *)
(* add to it are in ClientScan.                                            *)
(***************************************************************************)
EXTENDS Integers

CONSTANTS
  Name,        \* sockets
  MaxClients,  \* bound: clients of one socket
  States,      \* the states a socket may be in, see Socket
  None

\* "absent": not in HostapdDir; "fine": its hostapd answers; "mute": a command
\* fails with a RequestError; "broken": no connection to it can be opened, and
\* none that is open works.
Socket == {"absent", "fine", "mute", "broken"}

ASSUME GaugeAssumption ==
  /\ MaxClients \in Nat
  /\ States \subseteq Socket /\ "fine" \in States
  /\ None \notin Name /\ None \notin Nat

VARIABLES
  socket,   \* the state of a socket
  clients,  \* how many clients it has
  dirOk,    \* HostapdDir can be read
  handle,   \* the manager's connection: "none" so far, "open", or "nil" after
            \* a reconnect that failed
  pc,       \* the scraper: "idle", "list", "clear", "scrape" or "set", or
            \* "exited" with the process
  listed,   \* what listSockets returned, until the loop over it starts
  todo,     \* names the loop at hand has still to visit
  sock, count,  \* the socket scraped and its number of clients
  known,    \* g.sockets
  gauge,    \* label -> value, None for a label that does not exist
  truth,    \* history: counts of a socket in the course of this scrape, or
            \* of the last one that got the list
  answered  \* history: sockets whose listing succeeded in it

env == <<socket, clients, dirOk>>
scraper == <<pc, listed, todo, sock, count>>
metric == <<known, gauge>>
history == <<truth, answered>>
vars == <<env, handle, scraper, metric, history>>

Counts == 0..MaxClients

\* Positions of a scrape that has got the list of sockets.
Running == {"clear", "scrape", "set"}

TypeOK ==
  /\ socket \in [Name -> States] /\ clients \in [Name -> Counts]
  /\ dirOk \in BOOLEAN
  /\ handle \in [Name -> {"none", "open", "nil"}]
  /\ pc \in {"idle", "list", "clear", "scrape", "set", "exited"}
  /\ listed \subseteq Name /\ todo \subseteq Name
  /\ sock \in Name \union {None} /\ count \in Counts
  /\ known \subseteq Name
  /\ gauge \in [Name -> Counts \union {None}]
  /\ truth \in [Name -> SUBSET Counts]
  /\ answered \subseteq Name

Init ==
  /\ socket \in [Name -> States] /\ clients \in [Name -> Counts]
  /\ dirOk = TRUE /\ pc = "idle"
  /\ handle = [n \in Name |-> "none"]
  /\ listed = {} /\ todo = {} /\ sock = None /\ count = 0
  /\ known = {} /\ gauge = [n \in Name |-> None]
  /\ truth = [n \in Name |-> {}] /\ answered = {}

-----------------------------------------------------------------------------
(* main                                                                    *)

\* A tick starts a scrape.  The ticker's channel keeps one of those that come
\* while a scrape is in progress, and drops the others.
Tick ==
  /\ pc = "idle" /\ pc' = "list"
  /\ UNCHANGED <<env, handle, listed, todo, sock, count, metric, history>>

-----------------------------------------------------------------------------
(* Scrape                                                                  *)

\* listSockets fails: nothing is cleared, Scrape returns the error.
ListFails ==
  /\ pc = "list" /\ ~dirOk
  /\ pc' = "idle" /\ UNCHANGED <<env, handle, listed, todo, sock, count, metric, history>>

\* The sockets in the directory.
Available == {n \in Name : socket[n] # "absent"}

\* listSockets returns them, and clear begins with the known ones.
List ==
  /\ pc = "list" /\ dirOk
  /\ listed' = Available
  /\ todo' = known /\ pc' = "clear"
  /\ truth' = [n \in Name |-> {clients[n]}] /\ answered' = {}
  /\ UNCHANGED <<env, handle, sock, count, metric>>

\* Variant: clear deletes the label (GaugeVec.Reset).
ClearOneDeletes(n) ==
  /\ pc = "clear" /\ n \in todo /\ todo' = todo \ {n}
  /\ gauge' = [gauge EXCEPT ![n] = None]
  /\ UNCHANGED <<env, handle, pc, listed, sock, count, known, history>>

ClearOne(n) ==
  /\ pc = "clear" /\ n \in todo /\ todo' = todo \ {n}
  /\ gauge' = [gauge EXCEPT ![n] = 0]
  /\ UNCHANGED <<env, handle, pc, listed, sock, count, known, history>>

ClearDone ==
  /\ pc = "clear" /\ todo = {}
  /\ todo' = listed /\ listed' = {} /\ pc' = "scrape"
  /\ UNCHANGED <<env, handle, sock, count, metric, history>>

\* A command reaches nobody.
Unreachable(n) == socket[n] \in {"absent", "broken"}

\* What a listing, or another RPC, makes of the connection: Get opens it the
\* first time; one that is dead is closed, and nil unless it can be reopened.
Used(n) ==
  handle' = [handle EXCEPT ![n] =
    IF ~Unreachable(n) THEN "open" ELSE IF @ = "open" THEN "nil" ELSE @]

\* The loop of Scrape comes to n.
Visit(n) ==
  /\ pc = "scrape" /\ n \in todo /\ todo' = todo \ {n}
  /\ handle[n] # "nil" /\ Used(n)

\* listClients returns k clients: ListClients turns a RequestError into an
\* entry of its response, which listClients does not look at.
Listing(n, k, ok) ==
  /\ Visit(n)
  /\ sock' = n /\ count' = k /\ pc' = "set"
  /\ answered' = IF ok THEN answered \union {n} ELSE answered
  /\ UNCHANGED <<env, listed, metric, truth>>

ListingOk(n) == socket[n] = "fine" /\ Listing(n, clients[n], TRUE)

ListingMute(n) == socket[n] = "mute" /\ Listing(n, 0, FALSE)

\* Variant: the first error ends Scrape.
ListingFailsReturns(n) ==
  /\ Visit(n) /\ Unreachable(n)
  /\ pc' = "idle"
  /\ UNCHANGED <<env, listed, sock, count, metric, history>>

\* Any other error is collected in sErr; the loop goes on.
ListingFails(n) ==
  /\ Visit(n) /\ Unreachable(n)
  /\ UNCHANGED <<env, pc, listed, sock, count, metric, history>>

\* The connection is nil: a panic that nobody recovers.  With the process goes
\* all that it kept.
Panics(n) ==
  /\ handle[n] = "nil" /\ pc' = "exited" /\ handle' = [m \in Name |-> "none"]
  /\ listed' = {} /\ todo' = {} /\ sock' = None /\ count' = 0
  /\ known' = {} /\ gauge' = [m \in Name |-> None]
  /\ truth' = [m \in Name |-> {}] /\ answered' = {}
  /\ UNCHANGED env

ListingPanics(n) == pc = "scrape" /\ n \in todo /\ Panics(n)

\* Variant: the socket is not entered into g.sockets.
SetUnknown ==
  /\ pc = "set" /\ pc' = "scrape"
  /\ gauge' = [gauge EXCEPT ![sock] = count]
  /\ sock' = None /\ count' = 0
  /\ UNCHANGED <<env, handle, listed, todo, known, history>>

\* The rest of scrapeSocket.
Set ==
  /\ pc = "set" /\ pc' = "scrape"
  /\ known' = known \union {sock}
  /\ gauge' = [gauge EXCEPT ![sock] = count]
  /\ sock' = None /\ count' = 0
  /\ UNCHANGED <<env, handle, listed, todo, history>>

\* Variant: the known sockets are cleared last.
ScrapeDoneClears ==
  /\ pc = "scrape" /\ todo = {} /\ pc' = "idle"
  /\ gauge' = [n \in Name |-> IF n \in known THEN 0 ELSE gauge[n]]
  /\ UNCHANGED <<env, handle, listed, todo, sock, count, known, history>>

\* Scrape returns, with an error or without: main logs it at most.
ScrapeDone ==
  /\ pc = "scrape" /\ todo = {} /\ pc' = "idle"
  /\ UNCHANGED <<env, handle, listed, todo, sock, count, metric, history>>

-----------------------------------------------------------------------------
(* The world                                                               *)

\* A gRPC handler pings or lists n.
OtherRpc(n) ==
  /\ pc # "exited"
  /\ \/ Panics(n)
     \/ /\ handle[n] # "nil" /\ Used(n)
        /\ UNCHANGED <<env, scraper, metric, history>>

Turns(n) ==
  /\ \E v \in States : socket' = [socket EXCEPT ![n] = v]
  /\ UNCHANGED <<clients, dirOk, handle, scraper, metric, history>>

Counted(n, k) ==
  /\ clients' = [clients EXCEPT ![n] = k]
  /\ truth' = IF pc \in Running THEN [truth EXCEPT ![n] = @ \union {k}]
                                ELSE truth
  /\ UNCHANGED <<socket, dirOk, handle, scraper, metric, answered>>

DirTurns ==
  /\ dirOk' = ~dirOk
  /\ UNCHANGED <<socket, clients, handle, scraper, metric, history>>

Scraping ==
  \/ Tick \/ List \/ ListFails \/ ClearDone \/ Set \/ ScrapeDone
  \/ \E n \in Name :
       ClearOne(n) \/ ListingOk(n) \/ ListingMute(n) \/ ListingFails(n) \/ ListingPanics(n)

Next ==
  \/ Scraping \/ DirTurns
  \/ \E n \in Name : OtherRpc(n) \/ Turns(n) \/ \E k \in Counts : Counted(n, k)

Spec == Init /\ [][Next]_vars

\* The ticker ticks, the scraper runs, and a listing returns (WpaCtrlRequest
\* and ClientScan).
FairSpec == Spec /\ WF_vars(Scraping)

-----------------------------------------------------------------------------
(* Properties                                                              *)

\* The sockets whose counts this scrape, or the last one, has put on show.
Shown == answered \ {sock}

\* But for the time clear takes, a socket whose count was not found in this
\* scrape shows 0, whatever it showed before: one that has gone, failed, was
\* mute or is still to be scraped.  When no scrape is in progress that is the
\* last one that got the list of sockets.
NoOldCount ==
  pc # "clear" => \A n \in Name \ Shown : gauge[n] \in {None, 0}

\* A socket that answered shows from then on, as long as the scrape and until
\* the next one, a count that was true in the course of the scrape: 0 only if it
\* had no clients at some time of it.
AnswerIsShown ==
  pc # "clear" => \A n \in Shown : gauge[n] \in truth[n]

\* What the steps of a scrape owe to one another: every label is known to
\* clear, only the names left to clear have an old value, and the count in hand
\* is a true one or the 0 of a RequestError.  The inductive invariant behind
\* NoOldCount and AnswerIsShown.
GaugeInv ==
  /\ TypeOK
  /\ known = {n \in Name : gauge[n] # None}
  /\ pc \in Running => \A n \in Name : clients[n] \in truth[n]
  /\ pc = "clear" => /\ answered = {} /\ todo \subseteq known
                     /\ \A n \in Name \ todo : gauge[n] \in {None, 0}
  /\ pc = "set" => /\ sock \in Name /\ sock \notin todo
                   /\ count \in IF sock \in answered THEN truth[sock] ELSE {0}
  /\ pc # "set" => sock = None
  /\ pc \in {"scrape", "set"} => answered \intersect todo = {}
  /\ NoOldCount /\ AnswerIsShown

\* "It is important that labels don't just disappear between collections":
\* a label that was shown stays, as long as the process runs.
LabelsStay ==
  [][pc' # "exited" => \A n \in Name : gauge[n] # None => gauge'[n] # None]_vars

\* Whatever the sockets did before, and whatever the others go on doing, a
\* socket that answers, with clients that stay, is shown with them again and
\* again, unless the process exits: one socket whose reconnect failed takes the
\* whole gauge with it when it is scraped again.
Converges ==
  \A n \in Name, k \in Counts :
    <>[](dirOk /\ socket[n] = "fine" /\ clients[n] = k /\ pc # "exited")
      => []<>(gauge[n] = k)
=============================================================================
