--------------------------- MODULE DigestSchedule ---------------------------
(***************************************************************************)
(* When the scheduling passes of the notification workers meet the digest  *)
(* windows (apps/worker/src/notification-worker.ts: run, runScheduledWork, *)
(* getHourlyDigestWindow, getDigestWindow).                                *)
(*                                                                         *)
(* A worker turns: it delivers what is due, checks whether a scheduling    *)
(* pass is due and sleeps.  A pass is due when the last one began at least *)
(* Interval ago.  It serves the hourly window if it begins less than       *)
(* Interval after a full hour, and the daily window if it begins after the *)
(* digest hour of the day.  NotificationQueue models what a pass then      *)
(* does; here only its times matter.  Time is discrete, in ticks.          *)
(***************************************************************************)
EXTENDS Integers, FiniteSets

CONSTANTS
  Worker,
  FullHour,      \* the ticks at which an hour begins
  DigestTime,    \* the ticks at which the digest hour of a day begins
  RestOfDay,     \* ticks from the digest hour to midnight
  Interval,      \* DEFAULT_SCHEDULE_INTERVAL_MS
  MaxTurn,       \* bound on a turn: delivering one notification and sleeping
  MaxFailures,   \* bound on failing passes
  MaxTime        \* bound on now

ASSUME ScheduleAssumption ==
  /\ Worker # {}
  /\ FullHour \subseteq Nat /\ DigestTime \subseteq Nat
  /\ RestOfDay \in Nat /\ Interval \in Nat \ {0} /\ MaxTurn \in Nat \ {0}
  /\ MaxFailures \in Nat /\ MaxTime \in Nat
  /\ \A g, h \in FullHour : g < h => h - g >= Interval
  /\ \A c, d \in DigestTime : c < d => d - c >= RestOfDay

VARIABLES
  now,
  turned,        \* when each worker last turned
  lastCheck,     \* lastScheduleCheckAt
  checks,        \* when its passes began: history
  failures,      \* passes that failed
  hourly,        \* full hours served by some pass
  daily          \* digest times served by some pass

scheduleVars == <<now, turned, lastCheck, checks, failures, hourly, daily>>

(* The worker starts with lastScheduleCheckAt = 0, long ago.               *)
ScheduleInit ==
  /\ now = 0
  /\ turned = [w \in Worker |-> -1]
  /\ lastCheck = [w \in Worker |-> -Interval]
  /\ checks = [w \in Worker |-> {}]
  /\ failures = 0
  /\ hourly = {}
  /\ daily = {}

DueEarly(w) == now - lastCheck[w] > 0   \* mutant: every turn, whatever the interval
Due(w) == now - lastCheck[w] >= Interval

(* The windows a pass beginning at t may serve; at most one of each kind.  *)
OpenHour(t) == {h \in FullHour : h <= t /\ t - h < Interval}

OnTheHour(t) == {d \in DigestTime : d <= t /\ t - d < Interval}   \* mutant: closes like the hourly one
OpenDay(t) == {d \in DigestTime : d <= t /\ t - d < RestOfDay}

(* runScheduledWork notes the time of the check before the pass runs, so a *)
(* pass that fails is not repeated before the next interval; either part   *)
(* may have done its work then, or neither.                                *)
RunPass(w) ==
  /\ lastCheck' = [lastCheck EXCEPT ![w] = now]
  /\ checks' = [checks EXCEPT ![w] = @ \cup {now}]
  /\ \/ /\ hourly' = hourly \cup OpenHour(now)
        /\ daily' = daily \cup OpenDay(now)
        /\ UNCHANGED failures
     \/ /\ failures < MaxFailures
        /\ failures' = failures + 1
        /\ hourly' \in {hourly, hourly \cup OpenHour(now)}
        /\ daily' \in {daily, daily \cup OpenDay(now)}

Turn(w) ==
  /\ turned[w] < now
  /\ turned' = [turned EXCEPT ![w] = now]
  /\ IF Due(w) THEN RunPass(w) ELSE UNCHANGED <<lastCheck, checks, failures, hourly, daily>>
  /\ UNCHANGED now

Tick ==
  /\ now < MaxTime
  /\ \A w \in Worker : now - turned[w] < MaxTurn
  /\ now' = now + 1
  /\ UNCHANGED <<turned, lastCheck, checks, failures, hourly, daily>>

ScheduleNext == Tick \/ \E w \in Worker : Turn(w)

ScheduleSpec == ScheduleInit /\ [][ScheduleNext]_scheduleVars

----------------------------------------------------------------------------
TypeOK ==
  /\ now \in 0..MaxTime
  /\ turned \in [Worker -> Int]
  /\ lastCheck \in [Worker -> Int]
  /\ checks \in [Worker -> SUBSET (0..MaxTime)]
  /\ failures \in 0..MaxFailures
  /\ hourly \subseteq FullHour
  /\ daily \subseteq DigestTime

(* A worker never begins two passes in one hourly window: the window is    *)
(* as wide as the interval, so the digest of an hour is cut once.          *)
OnePassPerWindow ==
  \A w \in Worker : \A s, t \in checks[w] :
    OpenHour(s) \cap OpenHour(t) # {} => s = t

(* The daily window forgives: with every pass but MaxFailures working, the *)
(* digest of a day is cut while the day lasts if the day leaves room for   *)
(* that many passes.                                                       *)
Lateness == (MaxFailures + 1) * (Interval + MaxTurn)

DailyDigestIsCut ==
  \A d \in DigestTime : now >= d + Lateness /\ Lateness <= RestOfDay => d \in daily

(* Every full hour is served.  The code does not provide this: two checks  *)
(* of a worker are at least Interval apart, and more when the second one   *)
(* waits for a turn to end, so they may enclose the window.                *)
EveryHourIsServed ==
  \A h \in FullHour : now >= h + Interval => h \in hourly
=============================================================================
