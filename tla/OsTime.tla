------------------------------- MODULE OsTime -------------------------------
(***************************************************************************)
(* The clocks of os_unix.c and the arithmetic of os.h on their readings,   *)
(* in the loop of wpa_ctrl_request that uses both: a send that is refused  *)
(* is tried again every second until five seconds have passed.             *)
(*                                                                         *)
(* Time is in microseconds.  CLOCK_BOOTTIME shows real time since boot,    *)
(* CLOCK_MONOTONIC stops while the machine is suspended, CLOCK_REALTIME    *)
(* may be set.  A signal ends a sleep early, and in a testing build        *)
(* os_get_reltime may be told to fail; the caller looks at neither.        *)
(***************************************************************************)
EXTENDS Integers

CONSTANTS
  Second,      \* microseconds of a second
  Timeout,     \* seconds of trying
  BootedAt,    \* bound: time since boot when the request begins
  Delays,      \* bound: how long what is not a sleep takes
  Suspensions, \* bound: how long the machine may be suspended
  Steps,       \* bound: by how much CLOCK_REALTIME may be set
  MaxDelays    \* bound: how many of these in one request

ASSUME TimeAssumption ==
  /\ Second \in Nat \ {0} /\ Timeout \in Nat
  /\ BootedAt \subseteq Nat /\ Delays \subseteq Nat
  /\ Suspensions \subseteq Nat /\ Steps \subseteq Int /\ MaxDelays \in Nat

\* The clocks, in the order in which os_get_reltime falls back on them.
BOOTTIME == 1
MONOTONIC == 2
REALTIME == 3

VARIABLES
  kernel,     \* the clocks it has; all have CLOCK_REALTIME
  boot,       \* time since boot
  asleep,     \* how much of it the machine was suspended
  wall,       \* what CLOCK_REALTIME shows beyond boot
  clock_id,   \* static in os_get_reltime
  started_at, n,   \* readings of wpa_ctrl_request
  at,         \* its position: "send", "mark", "check", "sleep", "sent", "gave up"
  refusedAt,  \* history: boot when the send was first refused, -1 before
  sleeps,     \* history: sleeps of a whole second
  stepped,    \* history: CLOCK_REALTIME was set
  faulted,    \* history: os_get_reltime failed
  delays

world == <<kernel, wall, stepped>>
time == <<kernel, boot, asleep, wall, clock_id, started_at, n, at, refusedAt, sleeps, stepped, faulted, delays>>

Reading(t) == [sec |-> t \div Second, usec |-> t % Second]

TimeInit ==
  /\ kernel \in {S \in SUBSET (1..3) : REALTIME \in S}
  /\ boot \in BootedAt /\ asleep = 0 /\ wall = 1000 * Second
  /\ clock_id = BOOTTIME /\ at = "send"
  /\ started_at = Reading(0) /\ n = Reading(0)
  /\ refusedAt = -1 /\ sleeps = 0 /\ stepped = FALSE /\ faulted = FALSE /\ delays = 0

-----------------------------------------------------------------------------
(* os.h                                                                    *)

\* Variant: no borrow from the seconds.
os_reltime_subNoBorrow(a, b) ==
  [sec |-> a.sec - b.sec,
   usec |-> IF a.usec < b.usec THEN a.usec - b.usec + Second ELSE a.usec - b.usec]

os_reltime_sub(a, b) ==
  IF a.usec < b.usec
    THEN [sec |-> a.sec - b.sec - 1, usec |-> a.usec - b.usec + Second]
    ELSE [sec |-> a.sec - b.sec, usec |-> a.usec - b.usec]

os_reltime_expired(now, ts, secs) ==
  LET age == os_reltime_sub(now, ts)
  IN age.sec > secs \/ (age.sec = secs /\ age.usec > 0)

-----------------------------------------------------------------------------
(* os_unix.c                                                               *)

\* The clock os_get_reltime settles on: the first from clock_id on that works.
Settled == CHOOSE c \in kernel : c >= clock_id /\ \A d \in kernel : d >= clock_id => c <= d

Shows(c) == Reading(CASE c = BOOTTIME -> boot
                      [] c = MONOTONIC -> boot - asleep
                      [] c = REALTIME -> boot + wall)

\* clock_gettime, until it succeeds; the clock it succeeds for stays.
os_get_reltime(t) == clock_id' = Settled /\ t = Shows(Settled) /\ UNCHANGED faulted

\* TEST_FAIL: it returns -1 and sets no reading.
os_get_reltimeFails == UNCHANGED clock_id /\ faulted' = TRUE

\* The rest of a sleep that a signal cuts is not slept.
os_sleep(sec, rest) == boot' = boot + sec * Second - rest

-----------------------------------------------------------------------------
(* wpa_ctrl_request                                                        *)

Sent ==
  /\ at = "send" /\ at' = "sent"
  /\ UNCHANGED <<world, boot, asleep, clock_id, started_at, n, refusedAt, sleeps, faulted, delays>>

\* EAGAIN: the loop has a time it started at, or has not.
Refused ==
  /\ at = "send"
  /\ at' = IF started_at.sec = 0 THEN "mark" ELSE "check"
  /\ refusedAt' = IF refusedAt = -1 THEN boot ELSE refusedAt
  /\ UNCHANGED <<world, boot, asleep, clock_id, started_at, n, sleeps, faulted, delays>>

Mark ==
  /\ at = "mark" /\ at' = "sleep"
  /\ os_get_reltime(started_at')
  /\ UNCHANGED <<world, boot, asleep, n, refusedAt, sleeps, delays>>

Check ==
  /\ at = "check" /\ os_get_reltime(n')
  /\ at' = IF os_reltime_expired(n', started_at, Timeout) THEN "gave up" ELSE "sleep"
  /\ UNCHANGED <<world, boot, asleep, started_at, refusedAt, sleeps, delays>>

Sleep ==
  /\ at = "sleep" /\ os_sleep(1, 0) /\ at' = "send"
  /\ sleeps' = sleeps + 1
  /\ UNCHANGED <<world, asleep, clock_id, started_at, n, refusedAt, faulted, delays>>

-----------------------------------------------------------------------------
(* The world                                                               *)

Going == at \notin {"sent", "gave up"} /\ delays < MaxDelays /\ delays' = delays + 1

\* A signal.
SleepCut(rest) ==
  /\ at = "sleep" /\ Going /\ os_sleep(1, rest) /\ at' = "send"
  /\ UNCHANGED <<world, asleep, clock_id, started_at, n, refusedAt, sleeps, faulted>>

\* No time is marked: it will look for one again.
MarkFails ==
  /\ at = "mark" /\ Going /\ os_get_reltimeFails /\ at' = "sleep"
  /\ UNCHANGED <<world, boot, asleep, started_at, n, refusedAt, sleeps>>

\* n is not initialised: it is expired or not.
CheckFails ==
  /\ at = "check" /\ Going /\ os_get_reltimeFails /\ at' \in {"gave up", "sleep"}
  /\ UNCHANGED <<world, boot, asleep, started_at, n, refusedAt, sleeps>>

\* A call takes time, a sleep too long, the process does not run.
Delay(d) ==
  /\ Going /\ boot' = boot + d
  /\ UNCHANGED <<world, asleep, clock_id, started_at, n, at, refusedAt, sleeps, faulted>>

Suspend(d) ==
  /\ Going /\ boot' = boot + d /\ asleep' = asleep + d
  /\ UNCHANGED <<world, clock_id, started_at, n, at, refusedAt, sleeps, faulted>>

SetClock(d) ==
  /\ Going /\ wall' = wall + d /\ stepped' = TRUE
  /\ UNCHANGED <<kernel, boot, asleep, clock_id, started_at, n, at, refusedAt, sleeps, faulted>>

TimeNext ==
  \/ Sent \/ Refused \/ Mark \/ Check \/ Sleep
  \/ MarkFails \/ CheckFails \/ \E rest \in 1..Second : SleepCut(rest)
  \/ \E d \in Delays : Delay(d)
  \/ \E d \in Suspensions : Suspend(d)
  \/ \E d \in Steps : SetClock(d)

TimeSpec == TimeInit /\ [][TimeNext]_time

-----------------------------------------------------------------------------
(* Properties                                                              *)

\* Whichever clocks the kernel has, however long the machine is suspended and
\* however many sleeps are cut short, wpa_ctrl_request gives up only when the send
\* has been refused for more than Timeout, and it does not try for ever: it sleeps
\* one whole second more than Timeout takes, and one for a clock in its first
\* second, whose reading looks as if started_at were not set.  On a clock that is
\* set meanwhile, or that os_get_reltime failed to read, all bets are off.
GivesUpInTime ==
  ~(clock_id = REALTIME /\ stepped) /\ ~faulted =>
    /\ at = "gave up" => boot - refusedAt > Timeout * Second
    /\ sleeps <= Timeout + 2
=============================================================================
