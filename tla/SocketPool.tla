----------------------------- MODULE SocketPool -----------------------------
(***************************************************************************)
(* What socket.Manager promises its callers: one control connection per    *)
(* name, opened by the first user, shared by all, never closed under them, *)
(* and replaced in place when its hostapd is gone.                         *)
(***************************************************************************)
CONSTANTS Proc, Name, None

VARIABLES
  conn,     \* the connection of a name: "none", "live", "dead" or "nil"
  user,     \* the name whose connection a goroutine uses, or None
  running,  \* is the hostapd that serves the name running
  exited    \* a panic has ended the process

vars == <<conn, user, running, exited>>

Init ==
  /\ conn = [n \in Name |-> "none"]
  /\ user = [p \in Proc |-> None]
  /\ running \in [Name -> BOOLEAN]
  /\ exited = FALSE

\* The first user opens the connection, which takes a running hostapd; the
\* others share it, whatever has become of it.
Acquire(p, n) ==
  /\ user[p] = None
  /\ user' = [user EXCEPT ![p] = n]
  /\ \/ conn[n] = "none" /\ running[n] /\ conn' = [conn EXCEPT ![n] = "live"]
     \/ conn[n] # "none" /\ UNCHANGED conn
  /\ UNCHANGED <<running, exited>>

\* The connection outlives its users.
Release(p) ==
  /\ user[p] # None
  /\ user' = [user EXCEPT ![p] = None]
  /\ UNCHANGED <<conn, running, exited>>

\* A user that finds the connection dead closes it, and may open it again.
Drop(p) ==
  /\ user[p] # None /\ conn[user[p]] = "dead"
  /\ conn' = [conn EXCEPT ![user[p]] = "nil"]
  /\ UNCHANGED <<user, running, exited>>

Restore(p) ==
  /\ user[p] # None /\ conn[user[p]] = "nil" /\ running[user[p]]
  /\ conn' = [conn EXCEPT ![user[p]] = "live"]
  /\ UNCHANGED <<user, running, exited>>

\* A user of a connection that could not be opened again takes the process
\* down.
Exit(p) ==
  /\ user[p] # None /\ conn[user[p]] = "nil"
  /\ exited' = TRUE
  /\ UNCHANGED <<conn, user, running>>

Stop(n) ==
  /\ running[n]
  /\ running' = [running EXCEPT ![n] = FALSE]
  /\ conn' = [conn EXCEPT ![n] = IF @ = "live" THEN "dead" ELSE @]
  /\ UNCHANGED <<user, exited>>

Start(n) ==
  /\ ~running[n]
  /\ running' = [running EXCEPT ![n] = TRUE]
  /\ UNCHANGED <<conn, user, exited>>

Next ==
  /\ ~exited
  /\ \/ \E p \in Proc : \/ \E n \in Name : Acquire(p, n)
                        \/ Release(p) \/ Drop(p) \/ Restore(p) \/ Exit(p)
     \/ \E n \in Name : Stop(n) \/ Start(n)

Spec == Init /\ [][Next]_vars
=============================================================================
