----------------------------- MODULE OsTimeProofs -----------------------------
(***************************************************************************)
(* Theorems about OsTime for any length of a second, any time of trying    *)
(* and any delays, suspensions and settings of the clock.                  *)
(***************************************************************************)
EXTENDS OsTime, TLAPS

-----------------------------------------------------------------------------
(* Arithmetic                                                              *)

LEMMA Constants == Second \in Nat /\ Second > 0 /\ Timeout \in Nat
BY TimeAssumption

LEMMA Products ==
  ASSUME NEW i \in Int, NEW j \in Int
  PROVE  /\ i * Second \in Int
         /\ i <= j => i * Second <= j * Second
         /\ i < j => i * Second + Second <= j * Second
         /\ (i + 1) * Second = i * Second + Second
BY Constants

LEMMA Division ==
  ASSUME NEW t \in Int, NEW s \in Int, s > 0
  PROVE  t = (t \div s) * s + (t % s)
OBVIOUS

Times == [sec : Int, usec : {u \in Nat : u < Second}]

Value(r) == r.sec * Second + r.usec

\* A reading is the time on the clock.
LEMMA Readings ==
  ASSUME NEW t \in Int
  PROVE  Reading(t) \in Times /\ Value(Reading(t)) = t
<1>0. Second \in Nat \ {0}
  BY TimeAssumption
<1>1. t \div Second \in Int /\ t % Second \in Nat /\ t % Second < Second
  <2>1. t \div Second \in Int
    BY <1>0
  <2>2. t % Second \in 0..(Second - 1)
    BY <1>0
  <2> QED
    BY <2>1, <2>2, <1>0
<1>2. Second \in Int /\ Second > 0
  BY <1>0
<1>3. t = (t \div Second) * Second + (t % Second)
  BY <1>2, Division
<1>4. Reading(t).sec = t \div Second /\ Reading(t).usec = t % Second
  BY DEF Reading
<1>5. Reading(t) \in Times
  BY <1>1 DEF Reading, Times
<1> QED
  <2>1. Value(Reading(t)) = (t \div Second) * Second + (t % Second)
    BY <1>4, Zenon DEF Value
  <2> QED
    BY <1>3, <1>5, <2>1, Zenon

\* os_reltime_expired compares the times the readings stand for.
LEMMA Expired ==
  ASSUME NEW a \in Times, NEW b \in Times, NEW s \in Int
  PROVE  os_reltime_expired(a, b, s) <=> Value(a) - Value(b) > s * Second
<1> DEFINE d == os_reltime_sub(a, b)
<1>1. /\ a.sec \in Int /\ b.sec \in Int /\ a.usec \in Nat /\ b.usec \in Nat
      /\ a.usec < Second /\ b.usec < Second
  BY DEF Times
<1>2. /\ d.sec = IF a.usec < b.usec THEN a.sec - b.sec - 1 ELSE a.sec - b.sec
      /\ d.usec = IF a.usec < b.usec THEN a.usec - b.usec + Second ELSE a.usec - b.usec
  BY DEF os_reltime_sub
<1>3. os_reltime_expired(a, b, s) <=> d.sec > s \/ (d.sec = s /\ d.usec > 0)
  BY DEF os_reltime_expired
<1> HIDE DEF d
<1>4. d.sec \in Int /\ d.usec \in Nat /\ d.usec < Second
  BY <1>1, <1>2, Constants
<1>5. Value(a) - Value(b) = d.sec * Second + d.usec
  <2>1. CASE a.usec < b.usec
    <3>1. d.sec * Second = a.sec * Second - b.sec * Second - Second
      BY <1>1, <1>2, <2>1, Constants
    <3> QED
      BY <3>1, <1>1, <1>2, <2>1, Constants DEF Value
  <2>2. CASE ~(a.usec < b.usec)
    <3>1. d.sec * Second = a.sec * Second - b.sec * Second
      BY <1>1, <1>2, <2>2, Constants
    <3> QED
      BY <3>1, <1>1, <1>2, <2>2, Constants DEF Value
  <2> QED
    BY <2>1, <2>2
<1>6. d.sec * Second \in Int /\ s * Second \in Int
  BY <1>4, Products
<1>7. d.sec > s => d.sec * Second >= s * Second + Second
  BY <1>4, Products
<1>8. d.sec < s => d.sec * Second + Second <= s * Second
  BY <1>4, Products
<1>9. d.sec > s => d.sec * Second + d.usec > s * Second
  BY <1>4, <1>6, <1>7, Constants
<1>10. d.sec < s => ~(d.sec * Second + d.usec > s * Second)
  BY <1>4, <1>6, <1>8, Constants
<1>11. d.sec = s => (d.sec * Second + d.usec > s * Second <=> d.usec > 0)
  BY <1>4, <1>6
<1> QED
  BY <1>3, <1>4, <1>5, <1>9, <1>10, <1>11

-----------------------------------------------------------------------------
(* The invariant                                                           *)

\* Where clock c stands.
Stands(c) == CASE c = BOOTTIME -> boot
               [] c = MONOTONIC -> boot - asleep
               [] c = REALTIME -> boot + wall

\* The clock in use was not set, and was read whenever it was asked for.
Sane == ~(clock_id = REALTIME /\ stepped) /\ ~faulted

Marked == started_at.sec # 0

TimeTypeOK ==
  /\ kernel \subseteq 1..3 /\ REALTIME \in kernel /\ clock_id \in 1..3
  /\ boot \in Nat /\ asleep \in Nat /\ asleep <= boot /\ wall \in Int
  /\ started_at \in Times
  /\ at \in {"send", "mark", "check", "sleep", "sent", "gave up"}
  /\ refusedAt \in Int /\ sleeps \in Nat

\* What holds of a clock that was set as well.
Books ==
  /\ TimeTypeOK
  /\ refusedAt <= boot
  /\ refusedAt = -1 => at \in {"send", "sent"} /\ sleeps = 0 /\ ~Marked
  /\ Marked => clock_id \in kernel
  /\ ~faulted /\ (sleeps > 0 \/ at = "sleep") => clock_id \in kernel
  /\ at = "check" => Marked
  /\ at = "mark" => ~Marked
  /\ ~stepped => wall = 1000 * Second

\* Before a time is marked there is one sleep at most, and only while the clock
\* was in its first second.
Fresh == ~Marked => /\ sleeps <= IF at = "sleep" THEN 0 ELSE 1
                    /\ sleeps = 1 => Stands(clock_id) >= Second

\* Since a time was marked the clock has run for as long as all sleeps but one
\* at most, and no longer than since the first refusal.
Paced == Marked => /\ (sleeps - 1) * Second <= Stands(clock_id) - Value(started_at)
                   /\ Stands(clock_id) - Value(started_at) <= boot - refusedAt

Bounded == sleeps <= IF at = "sleep" THEN Timeout + 1 ELSE Timeout + 2

Late == at = "gave up" => boot - refusedAt > Timeout * Second

TimeInv == Books /\ (Sane => Fresh /\ Paced /\ Bounded /\ Late)

LEMMA Clocks ==
  ASSUME TimeTypeOK
  PROVE  /\ Settled \in kernel /\ Settled \in 1..3 /\ Settled >= clock_id
         /\ clock_id \in kernel => Settled = clock_id
         /\ \A c \in 1..3 : Stands(c) \in Int /\ Shows(c) = Reading(Stands(c))
<1>1. kernel \subseteq 1..3 /\ 3 \in kernel /\ clock_id \in 1..3
  BY DEF TimeTypeOK, REALTIME
<1>2. \E c \in kernel : c >= clock_id /\ \A d \in kernel : d >= clock_id => c <= d
  <2>1. CASE clock_id \in kernel
    BY <1>1, <2>1
  <2>2. CASE clock_id \notin kernel /\ clock_id = 1 /\ 2 \in kernel
    BY <1>1, <2>2
  <2>3. CASE clock_id \notin kernel /\ ~(clock_id = 1 /\ 2 \in kernel)
    <3>1. \A d \in kernel : d >= clock_id => 3 <= d
      BY <1>1, <2>3
    <3> QED
      BY <1>1, <3>1
  <2> QED
    BY <2>1, <2>2, <2>3
<1>3. /\ Settled \in kernel /\ Settled >= clock_id
      /\ \A d \in kernel : d >= clock_id => Settled <= d
  BY <1>2 DEF Settled
<1>4. Settled \in 1..3 /\ (clock_id \in kernel => Settled = clock_id)
  BY <1>1, <1>3
<1>5. ASSUME NEW c \in 1..3 PROVE Stands(c) \in Int /\ Shows(c) = Reading(Stands(c))
  <2>1. boot \in Int /\ boot - asleep \in Int /\ boot + wall \in Int
    <3>1. boot \in Nat /\ asleep \in Nat /\ wall \in Int
      BY Zenon DEF TimeTypeOK
    <3> QED
      BY <3>1
  <2>2. Stands(c) \in Int
    BY <2>1 DEF Stands, BOOTTIME, MONOTONIC, REALTIME
  <2>3. Shows(c) = Reading(Stands(c))
    BY Zenon DEF Shows, Stands
  <2> QED
    BY <2>2, <2>3
<1> QED
  BY <1>3, <1>4, <1>5

LEMMA InitTimeInv == TimeInit => TimeInv
<1> SUFFICES ASSUME TimeInit PROVE TimeInv
  OBVIOUS
<1>1. /\ kernel \subseteq 1..3 /\ REALTIME \in kernel /\ clock_id = BOOTTIME
      /\ boot \in Nat /\ asleep = 0 /\ wall = 1000 * Second
      /\ started_at = Reading(0) /\ at = "send" /\ refusedAt = -1 /\ sleeps = 0
  BY TimeAssumption DEF TimeInit
<1>2. Reading(0) \in Times /\ Reading(0).sec = 0
  <2>1. Reading(0) \in Times
    BY Readings
  <2>2. 0 \div Second = 0
    BY Constants
  <2> QED
    BY <2>1, <2>2 DEF Reading
<1>3. TimeTypeOK
  BY <1>1, <1>2, Constants DEF TimeTypeOK, BOOTTIME
<1>4. Books
  BY <1>1, <1>2, <1>3, Constants DEF Books, Marked, TimeTypeOK
<1>5. Fresh /\ Paced /\ Bounded /\ Late
  BY <1>1, <1>2, Constants DEF Fresh, Paced, Bounded, Late, Marked
<1> QED
  BY <1>4, <1>5 DEF TimeInv

\* What a step keeps that lets the clocks run on by up to d: a sleep, a delay, a
\* suspension.
LEMMA Elapses ==
  ASSUME TimeInv, NEW d \in Nat, NEW e \in Nat, e <= d,
         boot' = boot + d, asleep' = asleep + e,
         UNCHANGED <<kernel, wall, stepped, clock_id, started_at, refusedAt, faulted>>
  PROVE  Sane' = Sane /\ (Sane =>
           /\ Stands(clock_id)' >= Stands(clock_id)
           /\ Stands(clock_id)' <= Stands(clock_id) + d
           /\ e = 0 => Stands(clock_id)' = Stands(clock_id) + d)
<1>1. TimeTypeOK
  BY DEF TimeInv, Books
<1>2. Sane' = Sane
  BY DEF Sane
<1>3. clock_id \in {BOOTTIME, MONOTONIC, REALTIME}
  <2>1. clock_id \in 1..3
    BY <1>1, Zenon DEF TimeTypeOK
  <2> QED
    BY <2>1 DEF BOOTTIME, MONOTONIC, REALTIME
<1>4. /\ Stands(BOOTTIME)' = Stands(BOOTTIME) + d
      /\ Stands(MONOTONIC)' = Stands(MONOTONIC) + d - e
      /\ Stands(REALTIME)' = Stands(REALTIME) + d
  <2>1. boot \in Nat /\ asleep \in Nat /\ wall \in Int
    BY <1>1, Zenon DEF TimeTypeOK
  <2> QED
    BY <2>1 DEF Stands, BOOTTIME, MONOTONIC, REALTIME
<1>5. Stands(clock_id) \in Int
  BY <1>1, Clocks DEF TimeTypeOK
<1>6. /\ Stands(clock_id)' >= Stands(clock_id)
      /\ Stands(clock_id)' <= Stands(clock_id) + d
      /\ e = 0 => Stands(clock_id)' = Stands(clock_id) + d
  <2>1. CASE clock_id = BOOTTIME
    <3>1. Stands(clock_id)' = Stands(clock_id) + d
      BY <1>4, <2>1
    <3> QED
      BY <3>1, <1>5
  <2>2. CASE clock_id = MONOTONIC
    <3>1. Stands(clock_id)' = Stands(clock_id) + d - e
      BY <1>4, <2>2
    <3> QED
      BY <3>1, <1>5
  <2>3. CASE clock_id = REALTIME
    <3>1. Stands(clock_id)' = Stands(clock_id) + d
      BY <1>4, <2>3
    <3> QED
      BY <3>1, <1>5
  <2> QED
    BY <1>3, <2>1, <2>2, <2>3
<1> QED
  BY <1>2, <1>6

\* The types of what the arithmetic below is about.
LEMMA Numbers ==
  ASSUME TimeTypeOK
  PROVE  /\ boot \in Nat /\ asleep \in Nat /\ asleep <= boot /\ wall \in Int
         /\ refusedAt \in Int /\ sleeps \in Nat /\ Stands(clock_id) \in Int
         /\ started_at.sec \in Int /\ Value(started_at) \in Int
         /\ (sleeps - 1) * Second \in Int /\ Timeout * Second \in Int
<1>1. /\ boot \in Nat /\ asleep \in Nat /\ asleep <= boot /\ wall \in Int
      /\ refusedAt \in Int /\ sleeps \in Nat /\ clock_id \in 1..3 /\ started_at \in Times
  BY Zenon DEF TimeTypeOK
<1>2. Stands(clock_id) \in Int
  BY <1>1, Clocks
<1>3. started_at.sec \in Int /\ started_at.usec \in Nat
  BY <1>1 DEF Times
<1>4. Value(started_at) \in Int
  BY <1>3, Constants DEF Value
<1>5. (sleeps - 1) * Second \in Int /\ Timeout * Second \in Int
  BY <1>1, Constants
<1> QED
  BY <1>1, <1>2, <1>3, <1>4, <1>5

\* A delay, a suspension, or what there was of a sleep that a signal cut.
LEMMA DelayInv ==
  ASSUME TimeInv, NEW d \in Nat, NEW e \in Nat, e <= d,
         boot' = boot + d, asleep' = asleep + e,
         UNCHANGED at \/ (at = "sleep" /\ at' = "send"),
         UNCHANGED <<kernel, wall, stepped, clock_id, started_at, refusedAt, sleeps, faulted>>
  PROVE  TimeInv'
<1>1. Books /\ TimeTypeOK
  BY DEF TimeInv, Books
<1>2. /\ boot \in Nat /\ asleep \in Nat /\ asleep <= boot /\ refusedAt \in Int
      /\ sleeps \in Nat /\ Stands(clock_id) \in Int /\ Value(started_at) \in Int
      /\ (sleeps - 1) * Second \in Int
  BY <1>1, Numbers
<1>3. boot' \in Nat /\ asleep' \in Nat /\ asleep' <= boot' /\ boot' >= boot
  BY <1>2
<1>4. Books'
  <2>1. TimeTypeOK'
    BY <1>1, <1>3 DEF TimeTypeOK
  <2>2. refusedAt' <= boot'
    BY <1>1, <1>2 DEF Books
  <2>3. refusedAt = -1 => at # "sleep"
    BY <1>1 DEF Books
  <2> QED
    BY <1>1, <2>1, <2>2, <2>3 DEF Books, Marked
<1>5. ASSUME Sane' PROVE Fresh' /\ Paced' /\ Bounded' /\ Late'
  <2>1. Sane /\ Fresh /\ Paced /\ Bounded /\ Late
    BY <1>5, Elapses DEF TimeInv
  <2> DEFINE t == Stands(clock_id)
             u == Stands(clock_id)'
  <2>2. u >= t /\ u <= t + d
    BY <2>1, Elapses
  <2>3. t \in Int /\ u \in Int
    <3>1. TimeTypeOK'
      BY <1>4 DEF Books
    <3>2. boot' \in Int /\ boot' - asleep' \in Int /\ boot' + wall' \in Int
      BY <1>1, <1>3, Numbers
    <3>3. clock_id' \in 1..3
      BY <3>1, Zenon DEF TimeTypeOK
    <3> QED
      BY <1>2, <3>2, <3>3 DEF Stands, BOOTTIME, MONOTONIC, REALTIME
  <2>4. Value(started_at)' = Value(started_at) /\ Marked' = Marked
    BY DEF Value, Marked
  <2>5. Fresh'
    <3>1. ~Marked => (sleeps = 1 => t >= Second)
      BY <2>1 DEF Fresh
    <3>2. ~Marked => (sleeps = 1 => u >= Second)
      BY <2>2, <2>3, <3>1, Constants
    <3>3. ~Marked => sleeps <= IF at' = "sleep" THEN 0 ELSE 1
      BY <1>2, <2>1 DEF Fresh
    <3> QED
      BY <2>4, <3>2, <3>3 DEF Fresh
  <2>6. Paced'
    <3> DEFINE p == (sleeps - 1) * Second
               v == Value(started_at)
    <3>1. Marked => p <= t - v /\ t - v <= boot - refusedAt
      BY <2>1 DEF Paced
    <3>2. p \in Int /\ v \in Int /\ p' = p /\ v' = v
      BY <1>2
    <3> HIDE DEF p, v, t, u
    <3>3. Marked => p <= u - v /\ u - v <= boot + d - refusedAt
      BY <1>2, <2>2, <2>3, <3>1, <3>2
    <3>4. boot' - refusedAt' = boot + d - refusedAt
      <4>1. refusedAt' = refusedAt /\ boot \in Int /\ refusedAt \in Int
        BY <1>2
      <4> QED
        BY <4>1
    <3>5. Marked' => p' <= u - v' /\ u - v' <= boot' - refusedAt'
      BY <2>4, <3>2, <3>3, <3>4, Zenon
    <3> QED
      BY <3>5, Zenon DEF Paced, p, v, u
  <2>7. Bounded'
    BY <1>2, <2>1, Constants DEF Bounded
  <2>8. Late'
    <3> DEFINE q == Timeout * Second
    <3>1. q \in Int /\ (at = "gave up" => boot - refusedAt > q)
      BY <1>1, <2>1, Numbers DEF Late
    <3> HIDE DEF q
    <3>2. ASSUME boot - refusedAt > q PROVE boot' - refusedAt > q
      <4>1. boot \in Int /\ refusedAt \in Int /\ boot' \in Int /\ boot' >= boot
        BY <1>2, <1>3
      <4>2. q \in Int
        BY <3>1
      <4> QED
        BY <4>1, <4>2, <3>2
    <3>3. at' = "gave up" => boot' - refusedAt' > q
      BY <3>1, <3>2
    <3> QED
      BY <3>3, Zenon DEF Late, q
  <2> QED
    BY <2>5, <2>6, <2>7, <2>8
<1> QED
  BY <1>4, <1>5 DEF TimeInv

LEMMA SleepInv == ASSUME TimeInv, Sleep PROVE TimeInv'
<1>1. Books /\ TimeTypeOK
  BY DEF TimeInv, Books
<1>2. /\ boot \in Nat /\ asleep \in Nat /\ asleep <= boot /\ wall \in Int
      /\ refusedAt \in Int /\ sleeps \in Nat /\ Stands(clock_id) \in Int
      /\ Value(started_at) \in Int
  BY <1>1, Numbers
<1>3. /\ at = "sleep" /\ at' = "send" /\ sleeps' = sleeps + 1
      /\ UNCHANGED <<kernel, wall, stepped, asleep, clock_id, started_at, refusedAt, faulted>>
  BY DEF Sleep, world
<1>4. boot' = boot + Second /\ asleep' = asleep + 0
  <2>1. boot' = boot + 1 * Second - 0
    BY Zenon DEF Sleep, os_sleep
  <2> QED
    BY <2>1, <1>2, <1>3, Constants
<1>5. refusedAt # -1 /\ (faulted \/ clock_id \in kernel)
  BY <1>1, <1>3 DEF Books
<1>6. Books'
  <2>1. boot' \in Nat /\ asleep' <= boot' /\ refusedAt' <= boot' /\ sleeps' \in Nat
    BY <1>1, <1>2, <1>3, <1>4, Constants DEF Books
  <2>2. TimeTypeOK'
    BY <1>1, <1>3, <2>1 DEF TimeTypeOK
  <2>3. UNCHANGED <<refusedAt, clock_id, kernel, stepped, wall, faulted>> /\ at' = "send"
    BY <1>3
  <2>4. Marked' = Marked
    BY <1>3 DEF Marked
  <2> QED
    BY <1>1, <1>5, <2>1, <2>2, <2>3, <2>4 DEF Books
<1>7. ASSUME Sane' PROVE Fresh' /\ Paced' /\ Bounded' /\ Late'
  <2> DEFINE t == Stands(clock_id)
             u == Stands(clock_id)'
  <2>1. Sane /\ u = t + Second
    <3>1. Second \in Nat /\ 0 \in Nat /\ 0 <= Second
      BY Constants
    <3> QED
      BY <1>3, <1>4, <1>7, <3>1, Elapses
  <2>2. Fresh /\ Paced /\ Bounded
    BY <2>1 DEF TimeInv
  <2>3. Value(started_at)' = Value(started_at) /\ Marked' = Marked
    BY <1>3 DEF Value, Marked
  <2>4. t >= 0
    <3>1. clock_id \in 1..3
      BY <1>1, Zenon DEF TimeTypeOK
    <3>2. clock_id = REALTIME => wall = 1000 * Second
      BY <1>1, <2>1 DEF Books, Sane
    <3> QED
      BY <1>2, <3>1, <3>2, Constants DEF Stands, BOOTTIME, MONOTONIC, REALTIME
  <2> HIDE DEF t, u
  <2>5. t \in Int /\ u \in Int
    BY <1>2, <2>1, Constants DEF t
  <2>6. Fresh'
    <3>1. ~Marked => sleeps = 0
      BY <1>2, <1>3, <2>2 DEF Fresh
    <3>2. ~Marked' => sleeps' <= 1 /\ u >= Second
      BY <1>3, <2>1, <2>3, <2>4, <2>5, <3>1, Constants
    <3> QED
      BY <1>3, <3>2 DEF Fresh, u
  <2>7. Paced'
    <3> DEFINE p == (sleeps - 1) * Second
               v == Value(started_at)
    <3>1. Marked => p <= t - v /\ t - v <= boot - refusedAt
      BY <2>2 DEF Paced, t
    <3>2. p \in Int /\ v \in Int
      BY <1>1, <1>2, Numbers
    <3>3. p' = p + Second /\ v' = v
      <4>1. p' = (sleeps' - 1) * Second
        OBVIOUS
      <4>2. sleeps' - 1 = (sleeps - 1) + 1 /\ sleeps - 1 \in Int
        BY <1>2, <1>3
      <4>3. ((sleeps - 1) + 1) * Second = (sleeps - 1) * Second + Second
        BY <4>2, Products
      <4> QED
        BY <2>3, <4>1, <4>2, <4>3, Zenon
    <3> HIDE DEF p, v
    <3>4. boot' - refusedAt' = boot - refusedAt + Second
      BY <1>2, <1>3, <1>4, Constants
    <3>5. Marked' => p' <= u - v' /\ u - v' <= boot' - refusedAt'
      <4>1. boot - refusedAt \in Int
        BY <1>2
      <4>2. Marked => p + Second <= u - v /\ u - v <= boot - refusedAt + Second
        BY <2>1, <2>5, <3>1, <3>2, <4>1, Constants
      <4> QED
        BY <2>3, <3>3, <3>4, <4>2, Zenon
    <3> QED
      BY <3>5, Zenon DEF Paced, p, v, u
  <2>8. Bounded'
    <3>1. sleeps <= Timeout + 1
      BY <1>3, <2>2 DEF Bounded
    <3> QED
      BY <1>2, <1>3, <3>1, Constants DEF Bounded
  <2>9. Late'
    BY <1>3 DEF Late
  <2> QED
    BY <2>6, <2>7, <2>8, <2>9
<1> QED
  BY <1>6, <1>7 DEF TimeInv

\* The first reading, or the second if the clock was in its first second.
LEMMA MarkInv == ASSUME TimeInv, Mark PROVE TimeInv'
<1>1. Books /\ TimeTypeOK
  BY DEF TimeInv, Books
<1>2. boot \in Nat /\ refusedAt \in Int /\ refusedAt <= boot /\ sleeps \in Nat
  BY <1>1, Numbers DEF Books
<1>3. /\ at = "mark" /\ at' = "sleep" /\ clock_id' = Settled /\ started_at' = Shows(Settled)
      /\ UNCHANGED <<kernel, wall, stepped, boot, asleep, refusedAt, sleeps, faulted>>
  BY DEF Mark, os_get_reltime, world
<1>4. ~Marked /\ refusedAt # -1 /\ (~faulted /\ sleeps > 0 => clock_id \in kernel)
  BY <1>1, <1>3 DEF Books
<1>5. /\ Settled \in kernel /\ Settled \in 1..3 /\ Settled >= clock_id
      /\ clock_id \in kernel => Settled = clock_id
  BY <1>1, Clocks
<1> DEFINE t == Stands(Settled)
<1>6. t \in Int /\ started_at' = Reading(t)
  BY <1>1, <1>3, <1>5, Clocks
<1>7. Stands(clock_id)' = t
  BY <1>3 DEF Stands
<1> HIDE DEF t
<1>8. started_at' \in Times /\ Value(started_at') = t
  BY <1>6, Readings
<1>9. Books'
  <2>1. TimeTypeOK'
    BY <1>1, <1>3, <1>5, <1>8 DEF TimeTypeOK
  <2> QED
    BY <1>1, <1>3, <1>4, <1>5, <2>1 DEF Books
<1>10. ASSUME Sane' PROVE Fresh' /\ Paced' /\ Bounded' /\ Late'
  <2>1. Sane
    <3>1. clock_id \in 1..3
      BY <1>1, Zenon DEF TimeTypeOK
    <3>2. clock_id = 3 => Settled = 3
      BY <1>5
    <3> QED
      BY <1>3, <1>10, <3>2 DEF Sane, REALTIME
  <2>2. sleeps <= 1 /\ (sleeps = 1 => Stands(clock_id) >= Second)
    BY <1>3, <1>4, <2>1 DEF TimeInv, Fresh
  <2>3. sleeps = 1 => t >= Second
    BY <1>2, <1>4, <1>5, <2>1, <2>2 DEF t, Sane
  <2>4. ~Marked' => t < Second
    <3>1. started_at'.sec * Second + started_at'.usec = t
      BY <1>8 DEF Value
    <3>2. started_at'.usec < Second /\ started_at'.usec \in Nat
      BY <1>8 DEF Times
    <3>3. ~Marked' => started_at'.sec = 0
      BY DEF Marked
    <3> QED
      BY <3>1, <3>2, <3>3, Constants
  <2>5. ~Marked' => sleeps = 0
    BY <1>2, <1>6, <2>2, <2>3, <2>4, Constants
  <2>6. Fresh'
    BY <1>3, <2>5 DEF Fresh
  <2>7. Paced'
    <3>1. (sleeps - 1) * Second <= 0
      <4>1. sleeps - 1 \in Int /\ sleeps - 1 <= 0
        BY <1>2, <2>2
      <4> QED
        BY <4>1, Products, Constants
    <3>2. t - t = 0 /\ boot - refusedAt >= 0
      BY <1>2, <1>6
    <3>3. (sleeps - 1) * Second <= t - t /\ t - t <= boot - refusedAt
      BY <3>1, <3>2
    <3>4. /\ (sleeps' - 1) * Second <= Stands(clock_id)' - Value(started_at')
          /\ Stands(clock_id)' - Value(started_at') <= boot' - refusedAt'
      BY <1>3, <1>7, <1>8, <3>3, Zenon
    <3> QED
      BY <3>4, Zenon DEF Paced
  <2>8. Bounded'
    BY <1>2, <1>3, <2>2, Constants DEF Bounded
  <2>9. Late'
    BY <1>3 DEF Late
  <2> QED
    BY <2>6, <2>7, <2>8, <2>9
<1> QED
  BY <1>9, <1>10 DEF TimeInv

LEMMA CheckInv == ASSUME TimeInv, Check PROVE TimeInv'
<1>1. Books /\ TimeTypeOK
  BY DEF TimeInv, Books
<1>2. /\ boot \in Nat /\ refusedAt \in Int /\ sleeps \in Nat /\ Stands(clock_id) \in Int
      /\ Value(started_at) \in Int /\ Timeout * Second \in Int
  BY <1>1, Numbers
<1>3. /\ at = "check" /\ clock_id' = Settled /\ n' = Shows(Settled)
      /\ at' = IF os_reltime_expired(n', started_at, Timeout) THEN "gave up" ELSE "sleep"
      /\ UNCHANGED <<kernel, wall, stepped, boot, asleep, started_at, refusedAt, sleeps, faulted>>
  BY DEF Check, os_get_reltime, world
<1>4. Marked /\ refusedAt # -1 /\ clock_id \in kernel
  BY <1>1, <1>3 DEF Books
<1>5. UNCHANGED clock_id
  BY <1>1, <1>3, <1>4, Clocks
<1> DEFINE t == Stands(clock_id)
<1>6. n' = Reading(t) /\ Stands(clock_id)' = t
  <2>1. Settled = clock_id /\ Settled \in 1..3
    BY <1>1, <1>4, Clocks
  <2>2. n' = Reading(t)
    BY <1>1, <1>3, <2>1, Clocks
  <2>3. Stands(clock_id)' = t
    BY <1>3, <1>5 DEF Stands
  <2> QED
    BY <2>2, <2>3
<1>7. n' \in Times /\ Value(n') = t
  BY <1>2, <1>6, Readings
<1>8. os_reltime_expired(n', started_at, Timeout) <=> t - Value(started_at) > Timeout * Second
  <2>1. started_at \in Times
    BY <1>1, Zenon DEF TimeTypeOK
  <2>2. Timeout \in Int
    BY Constants
  <2> QED
    BY <1>7, <2>1, <2>2, Expired
<1>9. Books'
  <2>1. TimeTypeOK'
    BY <1>1, <1>3, <1>5 DEF TimeTypeOK
  <2>2. Marked'
    BY <1>3, <1>4 DEF Marked
  <2> QED
    BY <1>1, <1>3, <1>4, <1>5, <2>1, <2>2 DEF Books
<1>10. ASSUME Sane' PROVE Fresh' /\ Paced' /\ Bounded' /\ Late'
  <2>1. Sane /\ Fresh /\ Paced /\ Bounded
    BY <1>3, <1>5, <1>10 DEF TimeInv, Sane
  <2> DEFINE p == (sleeps - 1) * Second
             v == Value(started_at)
             q == Timeout * Second
  <2>2. p <= t - v /\ t - v <= boot - refusedAt
    BY <1>4, <2>1 DEF Paced
  <2>3. p \in Int /\ v \in Int /\ q \in Int /\ t \in Int
    BY <1>1, <1>2, Numbers
  <2>4. at' = IF t - v > q THEN "gave up" ELSE "sleep"
    BY <1>3, <1>8
  <2>5. Fresh'
    BY <1>3, <1>4 DEF Fresh, Marked
  <2>6. Paced'
    BY <1>3, <1>6, <2>2, Zenon DEF Paced, p, v
  <2>7. Bounded'
    <3>1. CASE t - v > q
      <4>1. at' = "gave up" /\ sleeps <= Timeout + 2
        BY <1>3, <2>1, <2>4, <3>1 DEF Bounded
      <4> QED
        BY <1>3, <4>1 DEF Bounded
    <3>2. CASE ~(t - v > q)
      <4> HIDE DEF t, p, v, q
      <4>1. p <= q
        BY <2>2, <2>3, <3>2
      <4>2. sleeps - 1 <= Timeout
        <5>1. sleeps - 1 \in Int /\ Timeout \in Int
          BY <1>2, Constants
        <5>2. Timeout < sleeps - 1 => q + Second <= p
          BY <5>1, Products, Zenon DEF p, q
        <5>3. ~(q + Second <= p)
          BY <2>3, <4>1, Constants
        <5> QED
          BY <5>1, <5>2, <5>3
      <4>3. at' = "sleep" /\ sleeps <= Timeout + 1
        BY <1>2, <2>4, <3>2, <4>2, Constants
      <4> QED
        BY <1>3, <4>3 DEF Bounded
    <3> QED
      BY <3>1, <3>2
  <2>8. Late'
    <3> HIDE DEF t, p, v, q
    <3>1. at' = "gave up" => t - v > q
      BY <2>4
    <3>2. boot \in Int /\ refusedAt \in Int
      BY <1>2
    <3>3. t - v > q => boot - refusedAt > q
      BY <2>2, <2>3, <3>2
    <3>4. at' = "gave up" => boot' - refusedAt' > q
      BY <1>3, <3>1, <3>3
    <3> QED
      BY <3>4, Zenon DEF Late, q
  <2> QED
    BY <2>5, <2>6, <2>7, <2>8
<1> QED
  BY <1>9, <1>10 DEF TimeInv

LEMMA RefusedInv == ASSUME TimeInv, Refused PROVE TimeInv'
<1>1. Books /\ TimeTypeOK
  BY DEF TimeInv, Books
<1>2. boot \in Nat /\ refusedAt \in Int /\ refusedAt <= boot
  BY <1>1, Numbers DEF Books
<1>3. /\ at = "send" /\ at' = IF ~Marked THEN "mark" ELSE "check"
      /\ refusedAt' = IF refusedAt = -1 THEN boot ELSE refusedAt
      /\ UNCHANGED <<kernel, wall, stepped, boot, asleep, clock_id, started_at, sleeps, faulted>>
  BY DEF Refused, world, Marked
<1>4. Marked' = Marked /\ Sane' = Sane /\ Stands(clock_id)' = Stands(clock_id)
  BY <1>3 DEF Marked, Sane, Stands
<1>5. refusedAt' \in Nat \union {refusedAt} /\ refusedAt' <= boot /\ refusedAt' # -1
  BY <1>2, <1>3
<1>6. Marked => refusedAt' = refusedAt
  BY <1>1, <1>3 DEF Books
<1>7. Books'
  <2>1. refusedAt' \in Int /\ at' \in {"mark", "check"}
    BY <1>2, <1>3, <1>5
  <2>2. TimeTypeOK'
    BY <1>1, <1>3, <2>1 DEF TimeTypeOK
  <2> QED
    BY <1>1, <1>3, <1>4, <1>5, <2>1, <2>2 DEF Books
<1>8. ASSUME Sane' PROVE Fresh' /\ Paced' /\ Bounded' /\ Late'
  <2>1. Fresh /\ Paced /\ Bounded
    BY <1>4, <1>8 DEF TimeInv
  <2>2. Fresh'
    BY <1>3, <1>4, <2>1 DEF Fresh
  <2>3. Paced'
    BY <1>3, <1>4, <1>6, <2>1, Zenon DEF Paced
  <2>4. Bounded' /\ Late'
    BY <1>3, <2>1 DEF Bounded, Late
  <2> QED
    BY <2>2, <2>3, <2>4
<1> QED
  BY <1>7, <1>8 DEF TimeInv

\* Steps after which nothing the invariant speaks of has changed but at, or a
\* clock that is not in use or no longer Sane.
LEMMA OtherInv ==
  ASSUME TimeInv, Sent \/ (\E d \in Steps : SetClock(d)) \/ UNCHANGED time
  PROVE  TimeInv'
<1>1. Books /\ TimeTypeOK
  BY DEF TimeInv, Books
<1>2. UNCHANGED <<kernel, boot, asleep, clock_id, started_at, refusedAt, sleeps, faulted>>
  BY DEF Sent, SetClock, time, world
<1>3. UNCHANGED at \/ (at = "send" /\ at' = "sent")
  BY DEF Sent, SetClock, time
<1>4. wall' \in Int
  <2>1. wall \in Int
    BY <1>1, Zenon DEF TimeTypeOK
  <2>2. \A d \in Steps : d \in Int
    BY TimeAssumption
  <2>3. UNCHANGED wall \/ \E d \in Steps : wall' = wall + d
    BY DEF Sent, SetClock, time, world
  <2> QED
    BY <2>1, <2>2, <2>3
<1>5. UNCHANGED <<wall, stepped>> \/ stepped'
  BY DEF Sent, SetClock, time, world
<1>6. Books'
  <2>1. at' \in {"send", "mark", "check", "sleep", "sent", "gave up"}
    BY <1>1, <1>3 DEF TimeTypeOK
  <2>2. TimeTypeOK'
    BY <1>1, <1>2, <1>4, <2>1 DEF TimeTypeOK
  <2>3. ~stepped' => wall' = 1000 * Second
    BY <1>1, <1>5 DEF Books
  <2> QED
    BY <1>1, <1>2, <1>3, <2>2, <2>3 DEF Books, Marked
<1>7. ASSUME Sane' PROVE Fresh' /\ Paced' /\ Bounded' /\ Late'
  <2>1. clock_id = REALTIME => UNCHANGED <<wall, stepped>>
    BY <1>2, <1>5, <1>7 DEF Sane
  <2>2. Sane /\ Stands(clock_id)' = Stands(clock_id)
    <3>1. clock_id \in 1..3
      BY <1>1, Zenon DEF TimeTypeOK
    <3>2. Stands(clock_id)' = Stands(clock_id)
      BY <1>2, <2>1, <3>1 DEF Stands, BOOTTIME, MONOTONIC, REALTIME
    <3>3. Sane
      BY <1>2, <1>7, <2>1 DEF Sane
    <3> QED
      BY <3>2, <3>3
  <2>3. Fresh /\ Paced /\ Bounded /\ Late
    BY <2>2 DEF TimeInv
  <2>4. Marked' = Marked
    BY <1>2 DEF Marked
  <2>5. Fresh' /\ Bounded'
    BY <1>2, <1>3, <2>2, <2>3, <2>4 DEF Fresh, Bounded
  <2>6. Paced'
    BY <1>2, <2>2, <2>3, <2>4, Zenon DEF Paced
  <2>7. Late'
    BY <1>2, <1>3, <2>3 DEF Late
  <2> QED
    BY <2>5, <2>6, <2>7
<1> QED
  BY <1>6, <1>7 DEF TimeInv

\* A reading that failed: only the books are kept.
LEMMA FailsInv == ASSUME TimeInv, MarkFails \/ CheckFails PROVE TimeInv'
<1>1. Books /\ TimeTypeOK
  BY DEF TimeInv, Books
<1>2. /\ faulted' /\ at \in {"mark", "check"} /\ at' \in {"gave up", "sleep"}
      /\ UNCHANGED <<kernel, wall, stepped, boot, asleep, clock_id, started_at, refusedAt, sleeps>>
  BY DEF MarkFails, CheckFails, os_get_reltimeFails, world
<1>3. TimeTypeOK'
  BY <1>1, <1>2 DEF TimeTypeOK
<1>4. Marked' = Marked
  BY <1>2 DEF Marked
<1>5. Books'
  BY <1>1, <1>2, <1>3, <1>4 DEF Books
<1>6. ~Sane'
  BY <1>2 DEF Sane
<1> QED
  BY <1>5, <1>6 DEF TimeInv

LEMMA NextTimeInv == ASSUME TimeInv, [TimeNext]_time PROVE TimeInv'
<1>1. ASSUME NEW d \in Delays, Delay(d) PROVE TimeInv'
  <2>1. d \in Nat /\ 0 \in Nat /\ 0 <= d
    BY TimeAssumption
  <2>2. asleep' = asleep + 0
    <3>1. asleep \in Nat /\ asleep' = asleep
      BY <1>1, Numbers DEF Delay, TimeInv, Books
    <3> QED
      BY <3>1
  <2>3. /\ boot' = boot + d
        /\ UNCHANGED <<kernel, wall, stepped, clock_id, started_at, refusedAt, at, sleeps, faulted>>
    BY <1>1 DEF Delay, world
  <2> QED
    BY <2>1, <2>2, <2>3, DelayInv
<1>2. ASSUME NEW d \in Suspensions, Suspend(d) PROVE TimeInv'
  <2>1. d \in Nat /\ d <= d
    BY TimeAssumption
  <2>2. /\ boot' = boot + d /\ asleep' = asleep + d
        /\ UNCHANGED <<kernel, wall, stepped, clock_id, started_at, refusedAt, at, sleeps, faulted>>
    BY <1>2 DEF Suspend, world
  <2> QED
    BY <2>1, <2>2, DelayInv
<1>3. ASSUME NEW rest \in 1..Second, SleepCut(rest) PROVE TimeInv'
  <2>1. PICK d \in Nat : d = Second - rest
    BY Constants
  <2>2. boot \in Nat /\ asleep \in Nat
    BY Numbers DEF TimeInv, Books
  <2>3. boot' = boot + d
    <3>1. boot' = boot + 1 * Second - rest
      BY <1>3, Zenon DEF SleepCut, os_sleep
    <3> QED
      BY <2>1, <2>2, <3>1, Constants
  <2>4. /\ at = "sleep" /\ at' = "send" /\ UNCHANGED asleep
        /\ UNCHANGED <<kernel, wall, stepped, clock_id, started_at, refusedAt, sleeps, faulted>>
    BY <1>3 DEF SleepCut, world
  <2>5. asleep' = asleep + 0 /\ 0 <= d
    BY <2>2, <2>4
  <2> QED
    BY <2>3, <2>4, <2>5, DelayInv
<1> QED
  BY <1>1, <1>2, <1>3, FailsInv, SleepInv, MarkInv, CheckInv, RefusedInv, OtherInv DEF TimeNext

-----------------------------------------------------------------------------
(* The theorem                                                             *)

\* wpa_ctrl_request neither gives up before it has tried for more than Timeout,
\* nor sleeps for more than two whole seconds beyond it, whichever clock
\* os_get_reltime settles on and whatever sleeps are cut short, unless that clock
\* is set meanwhile or cannot be read.
THEOREM GivesUp == TimeSpec => []GivesUpInTime
<1>1. TimeInit => TimeInv
  BY InitTimeInv
<1>2. TimeInv /\ [TimeNext]_time => TimeInv'
  BY NextTimeInv
<1>3. TimeInv => GivesUpInTime
  <2>1. ASSUME TimeInv, Sane PROVE sleeps <= Timeout + 2
    <3>1. sleeps \in Nat /\ sleeps <= IF at = "sleep" THEN Timeout + 1 ELSE Timeout + 2
      BY <2>1, Numbers DEF TimeInv, Books, Bounded
    <3> QED
      BY <3>1, Constants
  <2>2. ASSUME TimeInv, Sane PROVE Late
    BY <2>2 DEF TimeInv
  <2> QED
    BY <2>1, <2>2 DEF GivesUpInTime, Sane, Late
<1> QED
  BY <1>1, <1>2, <1>3, PTL DEF TimeSpec
=============================================================================
