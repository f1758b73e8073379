------------------------ MODULE WpaCtrlRequestProofs ------------------------
(***************************************************************************)
(* Theorems about WpaCtrlRequest for any number of callers and any time    *)
(* limits, queue length and number of signals.                             *)
(***************************************************************************)
EXTENDS WpaCtrlRequest, TLAPS

USE RequestAssumption

\* Round is a number, which the steps below treat as an atom.
LEMMA RoundNat == Round \in Nat /\ (MaxSignals + 1) * SelectSeconds \in Nat
<1>1. (MaxSignals + 1) * SelectSeconds \in Nat
  OBVIOUS
<1>2. ASSUME NEW x \in Nat PROVE (RetrySeconds + 2) + x \in Nat
  OBVIOUS
<1> QED
  BY <1>1, <1>2 DEF Round

LEMMA InitCallInv == Init => CallInv
<1> SUFFICES ASSUME Init PROVE CallInv
  OBVIOUS
<1>1. \A c \in Caller : pc[c] = "idle"
  BY DEF Init
<1>2. CallBound /\ ResendExplained
  BY RoundNat DEF CallBound, ResendExplained, Init
<1>3. TypeOK
  BY DEF Init, TypeOK, Errno
<1>4. \A c \in Caller : smu = c <=> pc[c] \in {"send", "wait", "reopen"}
  BY <1>1 DEF Init
<1>5. /\ early <= 1 /\ sleeps <= RetrySeconds + 1
      /\ signals <= MaxSignals /\ waited <= SelectSeconds
  BY DEF Init
<1> QED
  BY <1>1, <1>2, <1>3, <1>4, <1>5 DEF Init, CallInv, Limits, Held, Ended, Waiting

\* A request that fails ends its call, or the connection is to be opened again.
LEMMA FailsEither ==
  ASSUME NEW c \in Caller, NEW e, Fails(c, e)
  PROVE  /\ errno' = e
         /\ \/ /\ attempt = 1 /\ isSocketDead(e)
               /\ conn' = "nil" /\ pc' = [pc EXCEPT ![c] = "reopen"]
               /\ UNCHANGED smu
            \/ /\ UNCHANGED conn /\ pc' = [pc EXCEPT ![c] = "idle"]
               /\ smu' = None
  BY DEF Fails

\* The turns of a select loop, and of one more.
LEMMA Turns ==
  ASSUME TypeOK
  PROVE  /\ signals * SelectSeconds \in Nat
         /\ (signals + 1) * SelectSeconds = signals * SelectSeconds + SelectSeconds
         /\ signals <= MaxSignals =>
              signals * SelectSeconds + SelectSeconds
                <= (MaxSignals + 1) * SelectSeconds
  BY DEF TypeOK

\* The time of a call in its a-th attempt, after e seconds, of which this attempt
\* accounts for y, l, g turns of select, and w.
LEMMA Total ==
  ASSUME NEW e \in Nat, NEW a \in {1, 2}, NEW y \in Nat, NEW l \in Nat,
         NEW g \in Nat, NEW w \in Nat,
         y <= 1, l <= RetrySeconds + 1, g <= MaxSignals, w <= SelectSeconds,
         e <= (IF a = 1 THEN 0 ELSE Round) + y + l + g * SelectSeconds + w
  PROVE  (a = 1 => e <= Round) /\ e <= 2 * Round
<1> DEFINE x == g * SelectSeconds
<1> DEFINE z == (MaxSignals + 1) * SelectSeconds
<1> DEFINE r == Round
<1>1. x \in Nat /\ z \in Nat /\ x + SelectSeconds <= z
  <2>1. MaxSignals + 1 \in Nat /\ g + 1 \in Nat /\ g + 1 <= MaxSignals + 1
    OBVIOUS
  <2>2. (g + 1) * SelectSeconds <= (MaxSignals + 1) * SelectSeconds
    BY <2>1, RequestAssumption
  <2>3. (g + 1) * SelectSeconds = g * SelectSeconds + SelectSeconds
    OBVIOUS
  <2> QED
    BY <2>2, <2>3
<1>2. r \in Nat /\ r = (RetrySeconds + 2) + z
  BY RoundNat DEF Round
<1>3. e <= (IF a = 1 THEN 0 ELSE r) + y + l + x + w
  OBVIOUS
<1>4. Round = r
  OBVIOUS
<1> HIDE DEF x, z, r
<1> QED
  BY <1>1, <1>2, <1>3, <1>4

\* Hence what a call has spent when its attempt is in time, before a step and after.
LEMMA InTime ==
  ASSUME TypeOK, Limits, elapsed <= Budget
  PROVE  attempt = 1 => elapsed <= Round
<1>1. elapsed <= (IF attempt = 1 THEN 0 ELSE Round)
                   + early + sleeps + signals * SelectSeconds + waited
  BY DEF Budget
<1> QED
  BY <1>1, Total DEF TypeOK, Limits

LEMMA InTimeAfter ==
  ASSUME TypeOK', Limits', elapsed' <= Budget'
  PROVE  CallBound'
<1>1. elapsed' <= (IF attempt' = 1 THEN 0 ELSE Round)
                   + early' + sleeps' + signals' * SelectSeconds + waited'
  BY DEF Budget, Round
<1>2. elapsed' <= 2 * Round
  BY <1>1, Total DEF TypeOK, Limits
<1> QED
  BY <1>2 DEF CallBound, Round

\* A caller that has smu goes on with its call.
LEMMA GoesOn ==
  ASSUME TypeOK, Held, NEW c \in Caller, NEW l \in {"send", "wait", "reopen"},
         pc[c] \in {"send", "wait", "reopen"},
         pc' = [pc EXCEPT ![c] = l], smu' = smu,
         l = "wait" => Waiting', l = "send" => Sending', l = "reopen" => Reopening'
  PROVE  Held'
<1>1. smu = c /\ c # None /\ \A d \in Caller : d # c => pc'[d] = pc[d] /\ smu # d
  BY DEF Held, TypeOK
<1>2. pc'[c] = l
  BY DEF TypeOK
<1> QED
  BY <1>1, <1>2 DEF Held, TypeOK

\* A caller that has smu returns.
LEMMA Returns ==
  ASSUME TypeOK, Held, NEW c \in Caller, pc[c] \in {"send", "wait", "reopen"},
         pc' = [pc EXCEPT ![c] = "idle"], smu' = None, Ended'
  PROVE  Held'
<1>1. \A d \in Caller : d # c => pc'[d] = pc[d] /\ smu # d
  BY DEF Held, TypeOK
<1>2. pc'[c] = "idle"
  BY DEF TypeOK
<1> QED
  BY <1>1, <1>2 DEF Held, TypeOK

\* A request fails: its caller opens the connection anew or returns.
LEMMA FailsHeld ==
  ASSUME TypeOK, Held, NEW c \in Caller, pc[c] \in {"send", "wait", "reopen"},
         NEW e, Fails(c, e), Ended',
         attempt = 1 /\ isSocketDead(e) => Reopening'
  PROVE  Held'
<1>1. CASE attempt = 1 /\ isSocketDead(e)
  <2>1. pc' = [pc EXCEPT ![c] = "reopen"] /\ smu' = smu
    BY <1>1 DEF Fails
  <2> QED
    BY <1>1, <2>1, GoesOn
<1>2. CASE ~(attempt = 1 /\ isSocketDead(e))
  <2>1. pc' = [pc EXCEPT ![c] = "idle"] /\ smu' = None
    BY <1>2 DEF Fails
  <2> QED
    BY <2>1, Returns
<1> QED
  BY <1>1, <1>2

\* The types of what a request that fails changes.
LEMMA FailsTypes ==
  ASSUME TypeOK, NEW c \in Caller, NEW e \in Errno, Fails(c, e)
  PROVE  /\ conn' \in {"ok", "dead", "nil"} /\ smu' \in Caller \union {None}
         /\ pc' \in [Caller -> {"idle", "queue", "send", "wait", "reopen"}]
         /\ errno' \in Errno
  BY DEF Fails, TypeOK

\* A reply that is lost leaves no more to come than one that is not.
LEMMA LagShrinks ==
  ASSUME NEW x \in Nat, NEW y \in Nat, NEW z \in Nat, NEW u \in Nat,
         y <= z, x - y <= u + 1
  PROVE  x - z <= u + 1
OBVIOUS

LEMMA NextCallInv == ASSUME CallInv, [Next]_vars PROVE CallInv'
<1> USE DEF At, GoTo, Return, queues, try, pause, spent
<1>0. /\ TypeOK /\ Limits /\ Held /\ CallBound /\ ResendExplained
      /\ Round \in Nat
  BY RoundNat DEF CallInv
<1>1. ASSUME NEW c \in Caller, Enter(c) PROVE CallInv'
  <2>1. TypeOK'
    BY <1>0, <1>1 DEF Enter, TypeOK
  <2>2. Limits'
    BY <1>0, <1>1 DEF Enter, Limits
  <2>3. ResendExplained'
    BY <1>0, <1>1 DEF Enter, ResendExplained
  <2>4. CallBound'
    BY <1>0, <1>1 DEF Enter, CallBound
  <2>5. Held'
    BY <1>0, <1>1 DEF Enter, Held, Sending, Waiting, Reopening, Ended, Budget,
       TypeOK
  <2> QED
    BY <2>1, <2>2, <2>3, <2>4, <2>5 DEF CallInv
<1>2. ASSUME NEW c \in Caller, Lock(c) PROVE CallInv'
  <2>1. TypeOK'
    BY <1>0, <1>2 DEF Lock, StartRequest, TypeOK, Errno
  <2>2. Limits'
    BY <1>0, <1>2 DEF Lock, StartRequest, Limits
  <2>3. ResendExplained'
    BY <1>0, <1>2 DEF Lock, ResendExplained
  <2>4. CallBound'
    BY <1>0, <1>2 DEF Lock, CallBound
  <2>5. Held'
    BY <1>0, <1>2 DEF Lock, StartRequest, Held, Sending, Waiting, Reopening,
       Ended, Budget, TypeOK, Limits, isSocketDead
  <2> QED
    BY <2>1, <2>2, <2>3, <2>4, <2>5 DEF CallInv
<1>3. ASSUME NEW c \in Caller, Accept(c) PROVE CallInv'
  <2>1. Sending
    BY <1>0, <1>3 DEF Accept, Held
  <2>2. TypeOK'
    BY <1>0, <1>3 DEF Accept, TypeOK
  <2>3. Limits'
    BY <1>0, <2>1, <1>3 DEF Accept, TypeOK, Limits, Sending
  <2>4. Waiting'
    BY <1>0, <2>1, <2>2, <2>3, Turns, <1>3 DEF Accept, Sending, Waiting,
       Reopening, Ended, Budget, TypeOK, Limits, isSocketDead, Errno
  <2>5. ResendExplained'
    BY <1>0, <2>1, <1>3 DEF Accept, Sending, Waiting, ResendExplained, TypeOK
  <2>6. CallBound'
    BY <1>0, <1>3 DEF Accept, CallBound
  <2>7. Held'
    BY <1>0, <2>4, <1>3, GoesOn DEF Accept, TypeOK
  <2> QED
    BY <2>2, <2>3, <2>5, <2>6, <2>7 DEF CallInv
<1>4. ASSUME NEW c \in Caller, Busy(c) PROVE CallInv'
  <2>1. Sending
    BY <1>0, <1>4 DEF Busy, Held
  <2>2. PICK s \in {0, 1} : Pause(s)
    BY <1>4 DEF Busy
  <2>3. early' \in Nat /\ sleeps' \in Nat /\ elapsed' \in Nat
    BY <1>0, <2>2 DEF Pause, TypeOK
  <2>4. marked' \in BOOLEAN /\ lacking' \in BOOLEAN
    BY <1>0, <2>2, Zenon DEF Pause, TypeOK
  <2>5. errno' \in Errno /\ trouble' \in BOOLEAN
    BY <1>0, <1>4 DEF Busy, TypeOK, Errno
  <2>6. /\ UNCHANGED signals
        /\ UNCHANGED <<conn, queues, smu, pc, attempt, waited, accepted>>
    BY <1>4 DEF Busy
  <2>7. TypeOK'
    BY <1>0, <2>3, <2>4, <2>5, <2>6, <1>4 DEF Busy, TypeOK
  <2>8. Limits'
    BY <1>0, <2>1, <2>2, <2>6 DEF Pause, TypeOK, Limits
  <2>9. elapsed' <= Budget'
    BY <1>0, <2>1, <2>2, <2>6, Turns DEF Pause, Sending, Budget, TypeOK, Limits,
       Round
  <2>10. accepted' = accepted /\ attempt' = attempt
    BY <2>6
  <2>11. (trouble => trouble') /\ (isSocketDead(errno') => trouble')
    BY <1>0, <1>4 DEF Busy, isSocketDead, TypeOK
  <2>12. accepted' <= 2
    BY <1>0, <2>10 DEF ResendExplained
  <2>13. ResendExplained'
    BY <1>0, <2>10, <2>11, <2>12, Zenon DEF ResendExplained
  <2>14. Ended' /\ waited' = 0 /\ accepted' < attempt'
    BY <2>1, <2>6 DEF Sending, Ended
  <2>15. Sending'
    BY <2>1, <2>9, <2>10, <2>11, <2>14, Zenon DEF Sending
  <2>16. CallBound'
    BY <2>7, <2>8, <2>9, InTimeAfter
  <2>17. Held'
    BY <1>0, <2>6, <2>15, <1>4, GoesOn DEF Busy, TypeOK
  <2> QED
    BY <2>7, <2>8, <2>13, <2>16, <2>17 DEF CallInv
<1>5. ASSUME NEW c \in Caller, BusyCut(c) PROVE CallInv'
  <2>1. Sending
    BY <1>0, <1>5 DEF BusyCut, Held
  <2>2. PICK s \in {0, 1} : Pause(s)
    BY <1>5 DEF BusyCut
  <2>3. early' \in Nat /\ sleeps' \in Nat /\ elapsed' \in Nat
    BY <1>0, <2>2 DEF Pause, TypeOK
  <2>4. marked' \in BOOLEAN /\ lacking' \in BOOLEAN
    BY <1>0, <2>2, Zenon DEF Pause, TypeOK
  <2>5. errno' \in Errno /\ trouble' \in BOOLEAN
    BY <1>0, <1>5 DEF BusyCut, TypeOK, Errno
  <2>6. /\ signals' = signals + 1
        /\ signals < MaxSignals
        /\ UNCHANGED <<conn, queues, smu, pc, attempt, waited, accepted>>
    BY <1>5 DEF BusyCut
  <2>7. TypeOK'
    BY <1>0, <2>3, <2>4, <2>5, <2>6, <1>5 DEF BusyCut, TypeOK
  <2>8. Limits'
    BY <1>0, <2>1, <2>2, <2>6 DEF Pause, TypeOK, Limits
  <2>9. elapsed' <= Budget'
    BY <1>0, <2>1, <2>2, <2>6, Turns DEF Pause, Sending, Budget, TypeOK, Limits,
       Round
  <2>10. accepted' = accepted /\ attempt' = attempt
    BY <2>6
  <2>11. (trouble => trouble') /\ (isSocketDead(errno') => trouble')
    BY <1>0, <1>5 DEF BusyCut, isSocketDead, TypeOK
  <2>12. accepted' <= 2
    BY <1>0, <2>10 DEF ResendExplained
  <2>13. ResendExplained'
    BY <1>0, <2>10, <2>11, <2>12, Zenon DEF ResendExplained
  <2>14. Ended' /\ waited' = 0 /\ accepted' < attempt'
    BY <2>1, <2>6 DEF Sending, Ended
  <2>15. Sending'
    BY <2>1, <2>9, <2>10, <2>11, <2>14, Zenon DEF Sending
  <2>16. CallBound'
    BY <2>7, <2>8, <2>9, InTimeAfter
  <2>17. Held'
    BY <1>0, <2>6, <2>15, <1>5, GoesOn DEF BusyCut, TypeOK
  <2> QED
    BY <2>7, <2>8, <2>13, <2>16, <2>17 DEF CallInv
<1>6. ASSUME NEW c \in Caller, Expire(c) PROVE CallInv'
  <2>1. Sending
    BY <1>0, <1>6 DEF Expire, Held
  <2>2. PICK e \in {"again", "busy"} : Fails(c, e)
    BY <1>6 DEF Expire
  <2>3. TypeOK'
    BY <1>0, <2>2, <1>6, FailsTypes DEF Expire, TypeOK, Errno
  <2>4. Limits'
    BY <1>0, <1>6 DEF Expire, TypeOK, Limits
  <2>5. ResendExplained'
    BY <1>0, <1>6 DEF Expire, ResendExplained
  <2>6. CallBound'
    BY <1>0, <1>6 DEF Expire, CallBound
  <2>7. Ended'
    BY <1>0, <2>1, <1>6 DEF Expire, Ended, Sending, Waiting, TypeOK, Limits
  <2>8. attempt = 1 => elapsed <= Round
    BY <1>0, <2>1, InTime DEF Limits, Sending
  <2>9. attempt = 1 /\ isSocketDead(e) => Reopening'
    BY <1>0, <2>1, <2>2, <2>7, <2>8, <1>6 DEF Expire, Reopening, Sending, Waiting,
       TypeOK, Round, isSocketDead
  <2>10. Held'
    BY <1>0, <2>2, <2>7, <2>9, <1>6, FailsHeld DEF Expire
  <2> QED
    BY <2>3, <2>4, <2>5, <2>6, <2>10 DEF CallInv
<1>7. ASSUME NEW c \in Caller, SendFails(c) PROVE CallInv'
  <2>1. Sending
    BY <1>0, <1>7 DEF SendFails, Held
  <2>2. PICK e \in {"refused"} \union Faults : Fails(c, e)
    BY <1>7 DEF SendFails
  <2>3. TypeOK'
    BY <1>0, <2>2, <1>7, FailsTypes DEF SendFails, TypeOK, Errno
  <2>4. Limits'
    BY <1>0, <1>7 DEF SendFails, TypeOK, Limits
  <2>5. ResendExplained'
    BY <1>0, <1>7 DEF SendFails, ResendExplained
  <2>6. CallBound'
    BY <1>0, <1>7 DEF SendFails, CallBound
  <2>7. Ended'
    BY <1>0, <2>1, <1>7 DEF SendFails, Ended, Sending, Waiting, TypeOK, Limits
  <2>8. attempt = 1 => elapsed <= Round
    BY <1>0, <2>1, InTime DEF Limits, Sending
  <2>9. attempt = 1 /\ isSocketDead(e) => Reopening'
    BY <1>0, <2>1, <2>2, <2>7, <2>8, <1>7 DEF SendFails, Reopening, Sending,
       Waiting, TypeOK, Round, isSocketDead
  <2>10. Held'
    BY <1>0, <2>2, <2>7, <2>9, <1>7, FailsHeld DEF SendFails
  <2> QED
    BY <2>3, <2>4, <2>5, <2>6, <2>10 DEF CallInv
<1>8. ASSUME NEW c \in Caller, UseNil(c) PROVE CallInv'
  <2>1. Sending
    BY <1>0, <1>8 DEF UseNil, Held
  <2>2. Ended'
    BY <1>0, <2>1, <1>8 DEF UseNil, Ended, Sending, TypeOK
  <2>3. TypeOK'
    BY <1>0, <1>8 DEF UseNil, TypeOK
  <2>4. Limits'
    BY <1>0, <1>8 DEF UseNil, TypeOK, Limits
  <2>5. ResendExplained'
    BY <1>0, <1>8 DEF UseNil, ResendExplained
  <2>6. CallBound'
    BY <1>0, <1>8 DEF UseNil, CallBound
  <2>7. Held'
    BY <1>0, <2>2, <1>8, Returns DEF UseNil
  <2> QED
    BY <2>3, <2>4, <2>5, <2>6, <2>7 DEF CallInv
<1>9. ASSUME NEW c \in Caller, Reopen(c) PROVE CallInv'
  <2>1. Reopening
    BY <1>0, <1>9 DEF Reopen, Held
  <2>2. Sending'
    BY <1>0, <2>1, <1>9 DEF Reopen, StartRequest, Sending, Waiting, Reopening,
       Ended, Budget, TypeOK, Limits, Round, isSocketDead
  <2>3. pc[c] = "reopen" /\ pc' = [pc EXCEPT ![c] = "send"] /\ smu' = smu
    BY <1>9 DEF Reopen
  <2>4. TypeOK'
    BY <1>0, <1>9 DEF Reopen, StartRequest, TypeOK, Errno
  <2>5. Limits'
    BY <1>0, <1>9 DEF Reopen, StartRequest, Limits
  <2>6. ResendExplained'
    BY <1>0, <1>9 DEF Reopen, ResendExplained
  <2>7. CallBound'
    BY <1>0, <1>9 DEF Reopen, CallBound
  <2>8. Held'
    BY <1>0, <2>2, <2>3, GoesOn
  <2> QED
    BY <2>4, <2>5, <2>6, <2>7, <2>8 DEF CallInv
<1>10. ASSUME NEW c \in Caller, ReopenFails(c) PROVE CallInv'
  <2>1. Reopening
    BY <1>0, <1>10 DEF ReopenFails, Held
  <2>2. Ended'
    BY <1>0, <2>1, <1>10 DEF ReopenFails, Ended, Reopening, TypeOK
  <2>3. TypeOK'
    BY <1>0, <1>10 DEF ReopenFails, TypeOK
  <2>4. Limits'
    BY <1>0, <1>10 DEF ReopenFails, TypeOK, Limits
  <2>5. ResendExplained'
    BY <1>0, <1>10 DEF ReopenFails, ResendExplained
  <2>6. CallBound'
    BY <1>0, <1>10 DEF ReopenFails, CallBound
  <2>7. Held'
    BY <1>0, <2>2, <1>10, Returns DEF ReopenFails
  <2> QED
    BY <2>3, <2>4, <2>5, <2>6, <2>7 DEF CallInv
<1>11. ASSUME NEW c \in Caller, Receive(c) PROVE CallInv'
  <2>1. Waiting
    BY <1>0, <1>11 DEF Receive, Held
  <2>2. Ended'
    BY <1>0, <2>1, <1>11 DEF Receive, Ended, Waiting, TypeOK
  <2>3. TypeOK'
    BY <1>0, <1>11 DEF Receive, TypeOK
  <2>4. Limits'
    BY <1>0, <1>11 DEF Receive, TypeOK, Limits
  <2>5. ResendExplained'
    BY <1>0, <1>11 DEF Receive, ResendExplained
  <2>6. CallBound'
    BY <1>0, <1>11 DEF Receive, CallBound
  <2>7. Held'
    BY <1>0, <2>2, <1>11, Returns DEF Receive
  <2> QED
    BY <2>3, <2>4, <2>5, <2>6, <2>7 DEF CallInv
<1>12. ASSUME NEW c \in Caller, ReceiveFails(c) PROVE CallInv'
  <2>1. Waiting
    BY <1>0, <1>12 DEF ReceiveFails, Held
  <2>2. PICK e \in Faults : Unanswered(c, e) /\ trouble' = (trouble \/ e = "failed")
    BY <1>12 DEF ReceiveFails
  <2>3. TypeOK'
    BY <1>0, <2>2, <1>12, FailsTypes DEF ReceiveFails, Unanswered, TypeOK, Errno
  <2>4. Limits'
    BY <1>0, <1>12 DEF ReceiveFails, Unanswered, TypeOK, Limits
  <2>5. ResendExplained'
    BY <1>0, <1>12 DEF ReceiveFails, Unanswered, ResendExplained
  <2>6. CallBound'
    BY <1>0, <1>12 DEF ReceiveFails, Unanswered, CallBound
  <2>7. Ended'
    <3>1. got' \in Nat /\ got <= got'
      BY <1>0, <1>12 DEF ReceiveFails, TypeOK
    <3>2. sent' = sent /\ unanswered' = unanswered + 1
      BY <2>2 DEF Unanswered
    <3>3. /\ sent - got <= unanswered + 1
          /\ sent \in Nat
          /\ got \in Nat
          /\ unanswered \in Nat
      BY <1>0, <2>1 DEF Waiting, TypeOK
    <3>4. sent' \in Nat /\ unanswered' \in Nat
      BY <3>2, <3>3
    <3>5. sent' - got' <= unanswered'
      BY <3>1, <3>2, <3>3, <3>4, LagShrinks
    <3> QED
      BY <3>5 DEF Ended
  <2>8. attempt = 1 => elapsed <= Round
    BY <1>0, <2>1, InTime DEF Limits, Waiting
  <2>9. attempt = 1 /\ isSocketDead(e) => Reopening'
    BY <1>0, <2>1, <2>2, <2>7, <2>8, <1>12 DEF ReceiveFails, Unanswered,
       Reopening, Sending, Waiting, TypeOK, Round, isSocketDead
  <2>10. Held'
    BY <1>0, <2>2, <2>7, <2>9, <1>12, FailsHeld DEF ReceiveFails, Unanswered
  <2> QED
    BY <2>3, <2>4, <2>5, <2>6, <2>10 DEF CallInv
<1>13. ASSUME NEW c \in Caller, SelectFails(c) PROVE CallInv'
  <2>1. Waiting
    BY <1>0, <1>13 DEF SelectFails, Held
  <2>2. PICK e \in Faults : Unanswered(c, e) /\ trouble' = (trouble \/ e = "failed")
    BY <1>13 DEF SelectFails
  <2>3. TypeOK'
    BY <1>0, <2>2, <1>13, FailsTypes DEF SelectFails, Unanswered, TypeOK, Errno
  <2>4. Limits'
    BY <1>0, <1>13 DEF SelectFails, Unanswered, TypeOK, Limits
  <2>5. ResendExplained'
    BY <1>0, <1>13 DEF SelectFails, Unanswered, ResendExplained
  <2>6. CallBound'
    BY <1>0, <1>13 DEF SelectFails, Unanswered, CallBound
  <2>7. Ended'
    BY <1>0, <2>1, <1>13 DEF SelectFails, Unanswered, Ended, Sending, Waiting,
       TypeOK, Limits
  <2>8. attempt = 1 => elapsed <= Round
    BY <1>0, <2>1, InTime DEF Limits, Waiting
  <2>9. attempt = 1 /\ isSocketDead(e) => Reopening'
    BY <1>0, <2>1, <2>2, <2>7, <2>8, <1>13 DEF SelectFails, Unanswered, Reopening,
       Sending, Waiting, TypeOK, Round, isSocketDead
  <2>10. Held'
    BY <1>0, <2>2, <2>7, <2>9, <1>13, FailsHeld DEF SelectFails, Unanswered
  <2> QED
    BY <2>3, <2>4, <2>5, <2>6, <2>10 DEF CallInv
<1>14. ASSUME NEW c \in Caller, Wait(c) PROVE CallInv'
  <2>1. Waiting
    BY <1>0, <1>14 DEF Wait, Held
  <2>2. TypeOK'
    BY <1>0, <1>14 DEF Wait, TypeOK
  <2>3. Limits'
    BY <1>0, <2>1, <1>14 DEF Wait, TypeOK, Limits, Sending
  <2>4. Waiting'
    BY <1>0, <2>1, <2>2, <2>3, Turns, <1>14 DEF Wait, Sending, Waiting, Reopening,
       Ended, Budget, TypeOK, Limits, isSocketDead, Errno
  <2>5. ResendExplained'
    BY <1>0, <2>1, <1>14 DEF Wait, Sending, Waiting, ResendExplained, TypeOK
  <2>6. CallBound'
    BY <2>2, <2>3, <2>4, InTimeAfter DEF Limits, Waiting
  <2>7. Held'
    BY <1>0, <2>4, <1>14, GoesOn DEF Wait, TypeOK
  <2> QED
    BY <2>2, <2>3, <2>5, <2>6, <2>7 DEF CallInv
<1>15. ASSUME NEW c \in Caller, Interrupt(c) PROVE CallInv'
  <2>1. Waiting
    BY <1>0, <1>15 DEF Interrupt, Held
  <2>2. TypeOK'
    BY <1>0, <1>15 DEF Interrupt, TypeOK, Errno
  <2>3. Limits'
    BY <1>0, <2>1, <1>15 DEF Interrupt, TypeOK, Limits, Sending
  <2>4. Waiting'
    BY <1>0, <2>1, <2>2, <2>3, Turns, <1>15 DEF Interrupt, Sending, Waiting,
       Reopening, Ended, Budget, TypeOK, Limits, isSocketDead, Errno
  <2>5. ResendExplained'
    BY <1>0, <2>1, <1>15 DEF Interrupt, Sending, Waiting, ResendExplained, TypeOK
  <2>6. CallBound'
    BY <2>2, <2>3, <2>4, InTimeAfter DEF Limits, Waiting
  <2>7. Held'
    BY <1>0, <2>4, <1>15, GoesOn DEF Interrupt, TypeOK
  <2> QED
    BY <2>2, <2>3, <2>5, <2>6, <2>7 DEF CallInv
<1>16. ASSUME NEW c \in Caller, TimeOut(c) PROVE CallInv'
  <2>1. Waiting
    BY <1>0, <1>16 DEF TimeOut, Held
  <2>2. PICK e \in {errno} : Unanswered(c, e) /\ UNCHANGED <<got, trouble>>
    BY <1>16 DEF TimeOut
  <2>3. TypeOK'
    BY <1>0, <2>2, <1>16, FailsTypes DEF TimeOut, Unanswered, TypeOK, Errno
  <2>4. Limits'
    BY <1>0, <1>16 DEF TimeOut, Unanswered, TypeOK, Limits
  <2>5. ResendExplained'
    BY <1>0, <1>16 DEF TimeOut, Unanswered, ResendExplained
  <2>6. CallBound'
    BY <1>0, <1>16 DEF TimeOut, Unanswered, CallBound
  <2>7. Ended'
    BY <1>0, <2>1, <1>16 DEF TimeOut, Unanswered, Ended, Sending, Waiting, TypeOK,
       Limits
  <2>8. attempt = 1 => elapsed <= Round
    BY <1>0, <2>1, InTime DEF Limits, Waiting
  <2>9. attempt = 1 /\ isSocketDead(e) => Reopening'
    BY <1>0, <2>1, <2>2, <2>7, <2>8, <1>16 DEF TimeOut, Unanswered, Reopening,
       Sending, Waiting, TypeOK, Round, isSocketDead
  <2>10. Held'
    BY <1>0, <2>2, <2>7, <2>9, <1>16, FailsHeld DEF TimeOut, Unanswered
  <2> QED
    BY <2>3, <2>4, <2>5, <2>6, <2>10 DEF CallInv
<1>17. CASE Answer
  <2>1. TypeOK' /\ Limits'
    BY <1>0, <1>17 DEF Answer, TypeOK, Limits
  <2>2. ResendExplained' /\ CallBound'
    BY <1>0, <1>17 DEF Answer, ResendExplained, CallBound
  <2>3. Held'
    BY <1>0, <1>17 DEF Answer, Held, Sending, Waiting, Reopening, Ended, Budget
  <2> QED
    BY <2>1, <2>2, <2>3 DEF CallInv
<1>18. CASE Stop \/ Start
  <2>1. TypeOK' /\ Limits'
    BY <1>0, <1>18 DEF Stop, Start, TypeOK, Limits
  <2>2. ResendExplained' /\ CallBound'
    BY <1>0, <1>18 DEF Stop, Start, ResendExplained, CallBound
  <2>3. Held'
    BY <1>0, <1>18 DEF Stop, Start, Held, Sending, Waiting, Reopening, Ended, Budget
  <2> QED
    BY <2>1, <2>2, <2>3 DEF CallInv
<1>19. CASE UNCHANGED vars
  <2>1. TypeOK' /\ Limits'
    BY <1>0, <1>19 DEF vars, TypeOK, Limits
  <2>2. ResendExplained' /\ CallBound'
    BY <1>0, <1>19 DEF vars, ResendExplained, CallBound
  <2>3. Held'
    BY <1>0, <1>19 DEF vars, Held, Sending, Waiting, Reopening, Ended, Budget
  <2> QED
    BY <2>1, <2>2, <2>3 DEF CallInv
<1> QED
  BY <1>1, <1>2, <1>3, <1>4, <1>5, <1>6, <1>7, <1>8, <1>9, <1>10, <1>11, <1>12,
     <1>13, <1>14, <1>15, <1>16, <1>17, <1>18, <1>19
     DEF Next, Step, Signal, Exited

THEOREM CallInvHolds == Spec => []CallInv
<1>1. CallInv /\ [Next]_vars => CallInv'
  BY NextCallInv
<1> QED
  BY <1>1, InitCallInv, PTL DEF Spec

\* Every variable keeps its type.
THEOREM RequestTypeCorrect == Spec => []TypeOK
<1>1. CallInv => TypeOK
  BY DEF CallInv
<1> QED
  BY <1>1, CallInvHolds, PTL

\* A reply is at most as many requests late as have ended without one on the
\* connection: on a fresh one it answers the caller's own request.
THEOREM LagIsUnanswered == Spec => []ReplyLag
<1>1. CallInv => ReplyLag
  BY DEF CallInv, TypeOK, Held, Waiting, ReplyLag
<1> QED
  BY <1>1, CallInvHolds, PTL

\* A command is sent again after hostapd accepted it only if the first attempt met
\* EBUSY, a missing clock, or a permanent error of select or recv.
THEOREM ResendsAreExplained == Spec => []ResendExplained
<1>1. CallInv => ResendExplained
  BY DEF CallInv
<1> QED
  BY <1>1, CallInvHolds, PTL

\* A call keeps the connection for a bounded time, whatever hostapd does.
THEOREM CallsAreBounded == Spec => []CallBound
<1>1. CallInv => CallBound
  BY DEF CallInv
<1> QED
  BY <1>1, CallInvHolds, PTL
=============================================================================
