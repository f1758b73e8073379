--------------------------- MODULE WpaCtrlRequest ---------------------------
(***************************************************************************)
(* Requests and replies over one shared control connection: the loop of    *)
(* wpa_ctrl_request, and around it sharedSocket.SendRawCmd, which lets one *)
(* caller at a time use the connection and saves it once per call.         *)
(*                                                                         *)
(* A connection is a pair of datagram sockets: requests queue at hostapd,  *)
(* which answers them in order, and replies queue at the client.  So the   *)
(* requests of a connection are numbered in the order hostapd accepts them *)
(* and three counters hold both queues: replies got+1..answered wait to be *)
(* received, requests answered+1..sent wait to be answered.  A reply does  *)
(* not say which request it answers.                                       *)
(*                                                                         *)
(* The program never attaches to hostapd, which therefore sends it no      *)
(* unsolicited messages: the branch for them is left out.                  *)
(*                                                                         *)
(* An errno is one the code tells apart from others, or "failed", any      *)
(* other permanent one.  It is never cleared within a request, so what one *)
(* system call leaves may be read after the next.                          *)
(*                                                                         *)
(* Time is counted in whole seconds; a sleep that a signal cuts short adds *)
(* its fraction to the next second or makes it full.                       *)
(***************************************************************************)
EXTENDS Integers

CONSTANTS
  Caller,         \* goroutines that share the connection
  SelectSeconds,  \* how long select waits for a reply, 10
  RetrySeconds,   \* how long a send is tried again, 5
  Faults,         \* errnos with which send, select and recv may fail besides
                  \* those of a full queue, a dead socket and a signal
  MaxSent,        \* bound: a call starts only while sent is below it
  MaxSignals,     \* bound: signals that interrupt one wpa_ctrl_request
  None

ASSUME RequestAssumption ==
  /\ None \notin Caller
  /\ SelectSeconds \in Nat /\ RetrySeconds \in Nat
  /\ Faults \subseteq {"again", "intr", "failed"}
  /\ MaxSent \in Nat /\ MaxSignals \in Nat

Errno == {"none", "again", "busy", "intr", "inval", "refused", "failed"}

VARIABLES
  hostapd,    \* is hostapd running
  conn,       \* the connection: "ok", "dead" or "nil"
  sent, answered, got,  \* its requests accepted, answered, answers received
  unanswered, \* history: requests on this connection that ended without reply
  smu,        \* sharedSocket.smu: the caller inside SendRawCmd, or None
  pc,         \* caller: "idle", "queue", "send", "wait" or "reopen"
  attempt,    \* the call in progress: first or second wpa_ctrl_request
  marked,     \* started_at.sec is not 0
  early,      \* seconds slept before started_at was marked
  sleeps,     \* seconds slept since
  waited,     \* seconds in the current select
  signals,    \* interruptions of its sleeps and of its select loop
  errno,      \* errno of this wpa_ctrl_request
  lacking,    \* static clock_id of os_get_reltime still names a clock that
              \* this kernel does not have
  accepted,   \* history: how often hostapd accepted the call's command
  elapsed,    \* history: seconds since the call took smu
  trouble,    \* history: the call met EBUSY, a clock that is missing, or a
              \* permanent error of select or recv
  panic       \* a nil connection was used: the process exits

queues == <<sent, answered, got, unanswered>>
pause == <<marked, early, sleeps, lacking>>
try == <<attempt, pause, waited, signals, errno>>
spent == <<accepted, elapsed, trouble>>
vars == <<hostapd, conn, queues, smu, pc, try, spent, panic>>

TypeOK ==
  /\ hostapd \in BOOLEAN
  /\ conn \in {"ok", "dead", "nil"}
  /\ sent \in Nat /\ answered \in Nat /\ got \in Nat /\ unanswered \in Nat
  /\ smu \in Caller \union {None}
  /\ pc \in [Caller -> {"idle", "queue", "send", "wait", "reopen"}]
  /\ attempt \in {1, 2}
  /\ marked \in BOOLEAN /\ early \in Nat /\ sleeps \in Nat
  /\ waited \in Nat /\ signals \in Nat
  /\ errno \in Errno /\ lacking \in BOOLEAN
  /\ accepted \in Nat /\ elapsed \in Nat /\ trouble \in BOOLEAN
  /\ panic \in BOOLEAN

Init ==
  /\ hostapd = TRUE /\ conn = "ok"
  /\ sent = 0 /\ answered = 0 /\ got = 0 /\ unanswered = 0
  /\ smu = None /\ pc = [c \in Caller |-> "idle"]
  /\ attempt = 1 /\ marked = FALSE /\ early = 0 /\ sleeps = 0
  /\ waited = 0 /\ signals = 0 /\ errno = "none" /\ lacking \in BOOLEAN
  /\ accepted = 0 /\ elapsed = 0 /\ trouble = FALSE
  /\ panic = FALSE

At(c, l) == ~panic /\ pc[c] = l
GoTo(c, l) == pc' = [pc EXCEPT ![c] = l]

\* Variant: every errno is permanent.
isSocketDeadAlways(e) == e # "none"

\* Permanent errors of wpa_ctrl_request; the others are Temporary(), or no
\* errno at all.
isSocketDead(e) == e \notin {"none", "again", "intr"}

\* Variant: smu is not unlocked.
ReturnLocked(c) == GoTo(c, "idle") /\ UNCHANGED smu

\* SendRawCmd returns: the deferred smu.Unlock.
Return(c) == GoTo(c, "idle") /\ smu' = None

\* wpa_ctrl_request starts with errno 0 and no started_at.
StartRequest(n) ==
  /\ attempt' = n /\ marked' = FALSE /\ early' = 0 /\ sleeps' = 0
  /\ waited' = 0 /\ signals' = 0 /\ errno' = "none" /\ UNCHANGED lacking

\* wpa_ctrl_request fails with errno e.  The first time on a dead socket the
\* connection is closed, to be opened again; otherwise the call returns e.
Fails(c, e) ==
  LET saves == attempt = 1 /\ isSocketDead(e) IN
  /\ conn' = IF saves THEN "nil" ELSE conn
  /\ pc' = [pc EXCEPT ![c] = IF saves THEN "reopen" ELSE "idle"]
  /\ smu' = IF saves THEN smu ELSE None
  /\ errno' = e

-----------------------------------------------------------------------------
(* A call                                                                  *)

Enter(c) ==
  /\ At(c, "idle") /\ sent < MaxSent /\ GoTo(c, "queue")
  /\ UNCHANGED <<hostapd, conn, queues, smu, try, spent, panic>>

\* Variant: two callers use the connection at a time.
LockIgnored(c) ==
  /\ At(c, "queue") /\ smu' = c /\ GoTo(c, "send")
  /\ StartRequest(1) /\ accepted' = 0 /\ elapsed' = 0 /\ trouble' = FALSE
  /\ UNCHANGED <<hostapd, conn, queues, panic>>

Lock(c) ==
  /\ At(c, "queue") /\ smu = None /\ smu' = c /\ GoTo(c, "send")
  /\ StartRequest(1) /\ accepted' = 0 /\ elapsed' = 0 /\ trouble' = FALSE
  /\ UNCHANGED <<hostapd, conn, queues, panic>>

\* send succeeds; select starts to wait.
Accept(c) ==
  /\ At(c, "send") /\ conn = "ok"
  /\ sent' = sent + 1 /\ accepted' = accepted + 1
  /\ waited' = 0 /\ GoTo(c, "wait")
  /\ UNCHANGED <<hostapd, conn, answered, got, unanswered, smu, attempt, pause,
                 signals, errno, elapsed, trouble, panic>>

\* Variant: the time is checked a sleep too late.
PauseLonger(s) ==
  /\ \/ marked /\ sleeps <= RetrySeconds + 1 /\ sleeps' = sleeps + s
        /\ UNCHANGED <<marked, early>>
     \/ ~marked /\ marked' = TRUE /\ sleeps' = s /\ UNCHANGED early
     \/ ~marked /\ early = 0 /\ early' = s /\ UNCHANGED <<marked, sleeps>>
  /\ lacking' = (lacking /\ marked) /\ elapsed' = elapsed + s

\* What comes between a refused send and the next one, s seconds later.  The
\* first time the clock is read into started_at, if need be from the next clock
\* the kernel has; a reading in the clock's first second counts as none.  After
\* that not more than RetrySeconds may have passed.
Pause(s) ==
  /\ \/ marked /\ sleeps <= RetrySeconds /\ sleeps' = sleeps + s
        /\ UNCHANGED <<marked, early>>
     \/ ~marked /\ marked' = TRUE /\ sleeps' = s /\ UNCHANGED early
     \/ ~marked /\ early = 0 /\ early' = s /\ UNCHANGED <<marked, sleeps>>
  /\ lacking' = (lacking /\ marked) /\ elapsed' = elapsed + s

\* EAGAIN or EBUSY: hostapd's queue, which other clients fill as well, takes no
\* more.  The send is tried again after a second; a clock that is missing has
\* left EINVAL in errno.
Busy(c) ==
  /\ At(c, "send") /\ conn = "ok" /\ Pause(1)
  /\ \E e \in {"again", "busy"} :
       /\ errno' = IF lacking /\ ~marked THEN "inval" ELSE e
       /\ trouble' = (trouble \/ errno' # "again")
  /\ UNCHANGED <<hostapd, conn, queues, smu, pc, attempt, waited, signals,
                 accepted, panic>>

\* The same with a sleep that a signal ends early: nobody asks what was left.
BusyCut(c) ==
  /\ At(c, "send") /\ conn = "ok" /\ (\E s \in {0, 1} : Pause(s))
  /\ signals < MaxSignals /\ signals' = signals + 1 /\ errno' = "intr"
  /\ UNCHANGED <<hostapd, conn, queues, smu, pc, attempt, waited, accepted,
                 trouble, panic>>

\* os_reltime_expired: more than RetrySeconds since started_at.  After exactly
\* so many that depends on the microseconds.
Expire(c) ==
  /\ At(c, "send") /\ conn = "ok" /\ marked /\ sleeps >= RetrySeconds
  /\ \E e \in {"again", "busy"} : Fails(c, e)
  /\ UNCHANGED <<hostapd, queues, attempt, pause, waited, signals, spent, panic>>

\* Nobody is bound to hostapd's name any more, or send fails for another reason.
SendFails(c) ==
  /\ At(c, "send")
  /\ \/ conn = "dead" /\ Fails(c, "refused")
     \/ conn = "ok" /\ \E e \in Faults \ {"again"} : Fails(c, e)
  /\ UNCHANGED <<hostapd, queues, attempt, pause, waited, signals, spent, panic>>

\* An earlier reconnect failed and left sh.s nil.
UseNil(c) ==
  /\ At(c, "send") /\ conn = "nil"
  /\ panic' = TRUE /\ Return(c)
  /\ UNCHANGED <<hostapd, conn, queues, try, spent>>

\* reconnect: Open gives a new client socket, with empty queues; the command
\* is sent again.
Reopen(c) ==
  /\ At(c, "reopen") /\ hostapd
  /\ conn' = "ok" /\ sent' = 0 /\ answered' = 0 /\ got' = 0 /\ unanswered' = 0
  /\ StartRequest(2) /\ GoTo(c, "send")
  /\ UNCHANGED <<hostapd, smu, spent, panic>>

ReopenFails(c) ==
  /\ At(c, "reopen") /\ Return(c)
  /\ UNCHANGED <<hostapd, conn, queues, try, spent, panic>>

\* recv takes the oldest reply, which is the result of the call.
Receive(c) ==
  /\ At(c, "wait") /\ got < answered
  /\ got' = got + 1 /\ Return(c)
  /\ UNCHANGED <<hostapd, conn, sent, answered, unanswered, try, spent, panic>>

\* The request ends with errno e and without a reply.
Unanswered(c, e) ==
  /\ unanswered' = unanswered + 1 /\ Fails(c, e)
  /\ UNCHANGED <<hostapd, sent, answered, attempt, pause, waited, signals,
                 accepted, elapsed, panic>>

\* recv fails, with the reply taken from the queue or left in it.
ReceiveFails(c) ==
  /\ At(c, "wait") /\ got < answered
  /\ got' \in {got, got + 1}
  /\ \E e \in Faults :
       Unanswered(c, e) /\ trouble' = (trouble \/ e = "failed")

\* select fails for another reason than a signal.
SelectFails(c) ==
  /\ At(c, "wait") /\ UNCHANGED got
  /\ \E e \in Faults \ {"intr"} :
       Unanswered(c, e) /\ trouble' = (trouble \/ e = "failed")

\* A second passes in select.
Wait(c) ==
  /\ At(c, "wait") /\ got = answered /\ waited < SelectSeconds
  /\ waited' = waited + 1 /\ elapsed' = elapsed + 1
  /\ UNCHANGED <<hostapd, conn, queues, smu, pc, attempt, pause, signals, errno,
                 accepted, trouble, panic>>

\* EINTR: select is called again, with the whole time to wait.
Interrupt(c) ==
  /\ At(c, "wait") /\ got = answered /\ signals < MaxSignals
  /\ signals' = signals + 1 /\ waited' = 0 /\ errno' = "intr"
  /\ UNCHANGED <<hostapd, conn, queues, smu, pc, attempt, pause, spent, panic>>

\* -2, with whatever errno the calls before left: select does not set it.
TimeOut(c) ==
  /\ At(c, "wait") /\ got = answered /\ waited = SelectSeconds
  /\ Unanswered(c, errno) /\ UNCHANGED <<got, trouble>>

-----------------------------------------------------------------------------
(* hostapd                                                                 *)

\* It answers the oldest request; the answer to a connection it lost is gone.
Answer ==
  /\ ~panic /\ conn = "ok" /\ answered < sent
  /\ answered' = answered + 1
  /\ UNCHANGED <<hostapd, conn, sent, got, unanswered, smu, pc, try, spent, panic>>

\* Its queue dies with it; replies already sent stay with the client.
Stop ==
  /\ ~panic /\ hostapd /\ hostapd' = FALSE
  /\ conn' = IF conn = "ok" THEN "dead" ELSE conn
  /\ UNCHANGED <<queues, smu, pc, try, spent, panic>>

Start ==
  /\ ~panic /\ ~hostapd /\ hostapd' = TRUE
  /\ UNCHANGED <<conn, queues, smu, pc, try, spent, panic>>

Exited == panic /\ UNCHANGED vars

\* The steps of the caller that has smu, each of which some clock or some
\* other process is bound to allow.
Step(c) ==
  \/ Accept(c) \/ Busy(c) \/ Expire(c) \/ SendFails(c) \/ UseNil(c)
  \/ Reopen(c) \/ ReopenFails(c)
  \/ Receive(c) \/ ReceiveFails(c) \/ SelectFails(c) \/ Wait(c) \/ TimeOut(c)

Signal(c) == BusyCut(c) \/ Interrupt(c)

Next ==
  \/ \E c \in Caller : Enter(c) \/ Lock(c) \/ Step(c) \/ Signal(c)
  \/ Answer \/ Stop \/ Start \/ Exited

Spec == Init /\ [][Next]_vars

\* A runnable goroutine runs and time passes; sync.Mutex hands the lock over to
\* a waiter that starves.
Fairness == \A c \in Caller : WF_vars(Step(c)) /\ SF_vars(Lock(c))

FairSpec == Spec /\ Fairness

-----------------------------------------------------------------------------
(* Properties                                                              *)

\* A reply is never older than the requests explain that ended on this
\* connection without one, by a time-out or an error of select or recv: the one a
\* waiting caller receives answers one of the last unanswered+1 requests, and its
\* own on a connection where every request so far was answered.
ReplyLag ==
  \A c \in Caller :
    pc[c] = "wait" => got < sent /\ sent - (got + 1) <= unanswered

\* hostapd gets the command of one call twice only if the first attempt met an
\* error that is not temporary: EBUSY from send, EINVAL from the search for a
\* clock, or select or recv failing.  A full queue, signals and a time-out alone
\* never make SendRawCmd repeat what hostapd may have done already.
ResendExplained == accepted <= 2 /\ (accepted = 2 => trouble)

\* The time one wpa_ctrl_request may take: a round of tries to send, one more
\* second if the clock was in its first, and a wait that every signal begins anew.
Round == (RetrySeconds + 2) + (MaxSignals + 1) * SelectSeconds

\* A call keeps the connection from everybody else for two such rounds at most,
\* since it reconnects once, and may do so after it has waited for a reply.  The
\* "up to two seconds" of wpa_ctrl.h:444 are no bound on either.
CallBound == elapsed <= 2 * Round

\* The time a caller has spent is accounted for by the round of its first attempt
\* and, in this one, by the sleeps and the turns of the select loop.
Budget ==
  (IF attempt = 1 THEN 0 ELSE Round)
    + early + sleeps + signals * SelectSeconds + waited

\* Requests are answered in order, and every pause comes to its end.
Limits ==
  /\ got <= answered /\ answered <= sent
  /\ early <= 1 /\ sleeps <= RetrySeconds + 1 /\ (~marked => sleeps = 0)
  /\ signals <= MaxSignals /\ waited <= SelectSeconds

\* Between calls, every request without a reply has ended.
Ended == sent - got <= unanswered

\* A caller that waits: its request is the last one, and an errno that is not
\* temporary has its cause.
Waiting ==
  /\ got < sent /\ sent - got <= unanswered + 1
  /\ accepted <= attempt
  /\ attempt = 1 /\ isSocketDead(errno) => trouble
  /\ elapsed <= Budget

\* A caller that sends: hostapd does not have the command, or trouble has it sent
\* again.
Sending ==
  /\ Ended /\ waited = 0 /\ accepted < attempt
  /\ attempt = 2 /\ accepted = 1 => trouble
  /\ attempt = 1 /\ isSocketDead(errno) => trouble
  /\ elapsed <= Budget

\* A caller that is to open the connection anew, after its first attempt.
Reopening ==
  /\ Ended /\ attempt = 1 /\ accepted <= 1 /\ elapsed <= Round
  /\ accepted = 1 => trouble

\* What the counters owe to the one caller that has smu.
Held ==
  /\ \A c \in Caller : smu = c <=> pc[c] \in {"send", "wait", "reopen"}
  /\ smu = None => Ended
  /\ \A c \in Caller :
       /\ pc[c] = "wait" => Waiting
       /\ pc[c] = "send" => Sending
       /\ pc[c] = "reopen" => Reopening

\* The inductive invariant behind ReplyLag, ResendExplained and CallBound.
CallInv == TypeOK /\ CallBound /\ ResendExplained /\ Limits /\ Held

\* Every caller gets its turn and returns, or the process exits.
EveryCallReturns == \A c \in Caller : pc[c] = "queue" ~> pc[c] = "idle" \/ panic

\* "Received response will be written to reply": the reply a call receives is
\* the response to its own command.
ReplyMatches == \A c \in Caller : pc[c] = "wait" /\ got < answered => got + 1 = sent
=============================================================================
