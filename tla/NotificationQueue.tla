------------------------- MODULE NotificationQueue -------------------------
(***************************************************************************)
(* The notification outbox of the worker (apps/worker/src/                 *)
(* notification-worker.ts): rows of the table NotificationEvent, the       *)
(* delivery loop that several worker processes run against them, and the   *)
(* scheduling pass that batches buffered updates into digest events.       *)
(*                                                                         *)
(* Rows.  A direct event (reminder, account mail) is claimed and mailed by *)
(* itself.  An update is never claimed: a scheduling pass parks it         *)
(* ("processing") in the digest event that carries it, and the digest's    *)
(* delivery consumes ("skipped") or releases ("queued") it.  A digest is   *)
(* identified by its dedupeKey: kind, recipient and window.                *)
(*                                                                         *)
(* Every database statement or transaction is one step; a worker's local   *)
(* variables between two of them are in loop and flow, so what was read    *)
(* may be stale when it is used.                                           *)
(*                                                                         *)
(* Time is counted in whole hours since the start (variable hour); what    *)
(* happens between two full hours happens in any order.                    *)
(***************************************************************************)
EXTENDS Integers, FiniteSets

CONSTANTS
  Worker,        \* worker processes
  Scheduler,     \* those whose scheduling pass is followed: all of them in the code
  User,          \* recipients
  Direct,        \* events mailed one by one
  Update,        \* buffered non-admin update events
  recipientOf,   \* the user an update is for
  MaxAttempts,   \* MAX_ATTEMPTS
  MaxHour,       \* bound on hour: the model stops the clock there
  DayLength,     \* hours per day
  DigestHour,    \* hour of the day of the daily digest
  Retention,     \* hours a notification row is kept
  Environment,   \* which of EnvironmentEvents may happen
  None           \* no event, no user

EnvironmentEvents ==
  {"crash",      \* a worker process dies and is started again
   "db",         \* a database statement of the delivery loop fails
   "reject",     \* the mail host refuses a message
   "late_error", \* the mail host accepts a message and sendMail still fails
   "mail_off",   \* outbound mail is switched off, unconfigured, or the recipient is gone
   "toggle",     \* a user changes dailyDigestEnabled
   "slow_pass",  \* a scheduling pass outlasts the hour
   "prune"}      \* the retention sweep deletes old rows

Kind == {"hourly", "daily"}
Digest == [kind : Kind, user : User, window : 0..MaxHour]
Event == Direct \cup Update \cup Digest
Deliverable == Direct \cup Digest
Flow == Scheduler \X Kind

ASSUME ConstantsAssumption ==
  /\ Scheduler \subseteq Worker
  /\ recipientOf \in [Update -> User]
  /\ MaxAttempts \in Nat \ {0}
  /\ MaxHour \in Nat
  /\ DayLength \in Nat \ {0}
  /\ DigestHour \in 0..DayLength-1
  /\ Retention \in Nat
  /\ Environment \subseteq EnvironmentEvents
  /\ Direct \cap Update = {}
  /\ (Direct \cup Update) \cap Digest = {}
  /\ None \notin Event \cup User

VARIABLES
  \* the table NotificationEvent
  status,        \* NotificationStatus, or absent (not created yet) or pruned (deleted)
  attempts,      \* attemptCount
  delayed,       \* events whose nextAttemptAt lies ahead
  birth,         \* createdAt, as an hour
  sources,       \* payload.sourceNotificationIds of a digest
  \* the table User, and the clock
  digestOn,      \* users with dailyDigestEnabled
  hour,
  \* local state of the workers
  loop,          \* delivery loop of each worker
  flow,          \* the hourly and the daily part of its scheduling pass
  \* messages the mail host has accepted: history, read by properties only
  emails

rows == <<status, attempts, delayed, birth, sources>>
vars == <<rows, digestOn, hour, loop, flow, emails>>

Status == {"absent", "queued", "processing", "sent", "skipped", "failed", "pruned"}
Exists(e) == status[e] \notin {"absent", "pruned"}

(* Stages of the delivery loop; in a holding stage it has claimed job and  *)
(* not yet let go of it.                                                   *)
HoldingStage ==
  {"claimed", "sending", "accepted", "skipping", "consuming", "releasing", "auditing",
   "failing", "retrying", "surrendering"}
LoopStage == HoldingStage \cup {"idle", "claiming", "polled", "scheduling", "down"}
LoopState == [pc : LoopStage,
              job : Deliverable \cup {None},
              seen : 0..MaxAttempts]       \* attemptCount as last read
At(stage, e, count) == [pc |-> stage, job |-> e, seen |-> count]
Resting(stage) == At(stage, None, 0)
Holds(w, e) == loop[w].pc \in HoldingStage /\ loop[w].job = e

FlowState == [stage : {"off", "recipients", "buffered", "checking", "creating"},
              window : 0..MaxHour,         \* windowEnd, fixed when the pass starts
              users : SUBSET User,         \* recipients still to handle
              batch : SUBSET Update,       \* what readBufferedNotifications returned
              user : User \cup {None}]     \* recipient being handled
Pass(stage, window, users, batch, user) ==
  [stage |-> stage, window |-> window, users |-> users, batch |-> batch, user |-> user]
Off == Pass("off", 0, {}, {}, None)

(* getDigestWindow: today's window, once its hour has come.                *)
DailyWindow(h) ==
  {b \in 0..h : b = (h \div DayLength) * DayLength + DigestHour}

----------------------------------------------------------------------------
Init ==
  /\ status = [e \in Event |-> "absent"]
  /\ attempts = [e \in Event |-> 0]
  /\ delayed = {}
  /\ birth = [e \in Event |-> 0]
  /\ sources = [d \in Digest |-> {}]
  /\ digestOn \in SUBSET User
  /\ hour = 0
  /\ loop = [w \in Worker |-> Resting("idle")]
  /\ flow = [f \in Flow |-> Off]
  /\ emails = [e \in Event |-> 0]

----------------------------------------------------------------------------
(* The API and the reminder pass insert rows; a row with the same          *)
(* dedupeKey is left alone (skipDuplicates).                               *)
Post(e) ==
  /\ status[e] = "absent"
  /\ status' = [status EXCEPT ![e] = "queued"]
  /\ birth' = [birth EXCEPT ![e] = hour]
  /\ UNCHANGED <<attempts, delayed, sources, digestOn, hour, loop, flow, emails>>

(* A user switches the daily digest on or off in the profile.              *)
ToggleDigest(u) ==
  /\ "toggle" \in Environment
  /\ digestOn' = IF u \in digestOn THEN digestOn \ {u} ELSE digestOn \cup {u}
  /\ UNCHANGED <<rows, hour, loop, flow, emails>>

Tick ==
  /\ hour < MaxHour
  /\ "slow_pass" \in Environment \/ \A f \in Flow : flow[f] = Off
  /\ hour' = hour + 1
  /\ UNCHANGED <<rows, digestOn, loop, flow, emails>>

(* The retry delay of a requeued event has passed.                         *)
BackoffElapses(e) ==
  /\ e \in delayed
  /\ delayed' = delayed \ {e}
  /\ UNCHANGED <<status, attempts, birth, sources, digestOn, hour, loop, flow, emails>>

(* RetentionService.pruneTarget deletes rows by age, whatever their        *)
(* status.                                                                 *)
SparesUnfinished(e) ==   \* mutant: a sweep that spares rows in processing
  status[e] \notin {"absent", "pruned", "processing"} /\ birth[e] < hour - Retention
Expired(e) == Exists(e) /\ birth[e] < hour - Retention

PruneNotifications ==
  /\ "prune" \in Environment
  /\ \E e \in Event : Expired(e)
  /\ status' = [e \in Event |-> IF Expired(e) THEN "pruned" ELSE status[e]]
  /\ UNCHANGED <<attempts, delayed, birth, sources, digestOn, hour, loop, flow, emails>>

----------------------------------------------------------------------------
Stage(w, from) == loop[w].pc = from
Goto(w, to) == loop' = [loop EXCEPT ![w] = At(to, loop[w].job, loop[w].seen)]
Rest(w, to) == loop' = [loop EXCEPT ![w] = Resting(to)]

(* claimNextNotification.  First statement: the oldest due event that is   *)
(* not of a buffered kind.                                                 *)
Claimable(e) == status[e] = "queued" /\ e \notin delayed

FindCandidate(w) ==
  /\ Stage(w, "idle")
  /\ \E e \in Deliverable :
       /\ Claimable(e)
       /\ \A other \in Deliverable : Claimable(other) => birth[e] <= birth[other]
       /\ loop' = [loop EXCEPT ![w] = At("claiming", e, attempts[e])]
  /\ UNCHANGED <<rows, digestOn, hour, flow, emails>>

NoCandidate(w) ==
  /\ Stage(w, "idle")
  /\ ~ \E e \in Deliverable : Claimable(e)
  /\ Rest(w, "polled")
  /\ UNCHANGED <<rows, digestOn, hour, flow, emails>>

(* Second statement: the guarded updateMany.  It compares nextAttemptAt    *)
(* with the time of the first statement, so an event that was claimed and  *)
(* requeued in between does not match; every claim raises attemptCount.    *)
ClaimsById(w) == Exists(loop[w].job)   \* mutant: the update without its guard
ClaimMatches(w) ==
  /\ status[loop[w].job] = "queued"
  /\ attempts[loop[w].job] = loop[w].seen

ClaimUncounted(w) ==   \* mutant: the claim does not count the attempt
  /\ Stage(w, "claiming")
  /\ ClaimMatches(w)
  /\ status' = [status EXCEPT ![loop[w].job] = "processing"]
  /\ Goto(w, "claimed")
  /\ UNCHANGED <<attempts, delayed, birth, sources, digestOn, hour, flow, emails>>
ClaimCandidate(w) ==
  /\ Stage(w, "claiming")
  /\ IF ClaimMatches(w)
     THEN /\ status' = [status EXCEPT ![loop[w].job] = "processing"]
          /\ attempts' = [attempts EXCEPT ![loop[w].job] = @ + 1]
          /\ Goto(w, "claimed")
     ELSE /\ Rest(w, "polled")
          /\ UNCHANGED <<status, attempts>>
  /\ UNCHANGED <<delayed, birth, sources, digestOn, hour, flow, emails>>

(* getSkipReason for a digest: the recipient has changed sides since the   *)
(* digest was queued.                                                      *)
WrongRate(e) ==
  /\ e \in Digest
  /\ e.user \in digestOn <=> e.kind # "daily"

(* processNextNotification up to sendMail: read the event and its          *)
(* recipient, then the mail settings.                                      *)
InspectGivesUp(w) ==   \* mutant: a digest of the wrong rate is left as it is
  /\ Stage(w, "claimed")
  /\ IF Exists(loop[w].job) /\ ~ WrongRate(loop[w].job) THEN Goto(w, "sending") ELSE Rest(w, "polled")
  /\ UNCHANGED <<rows, digestOn, hour, flow, emails>>
Inspect(w) ==
  /\ Stage(w, "claimed")
  /\ \/ ~ Exists(loop[w].job) /\ Rest(w, "polled")
     \/ /\ Exists(loop[w].job)
        /\ WrongRate(loop[w].job) \/ "mail_off" \in Environment
        /\ Goto(w, "skipping")
     \/ /\ Exists(loop[w].job)
        /\ ~ WrongRate(loop[w].job)
        /\ Goto(w, "sending")
  /\ UNCHANGED <<rows, digestOn, hour, flow, emails>>

(* transporter.sendMail: the host accepts, refuses, or accepts and the     *)
(* answer is lost.                                                         *)
SendMail(w) ==
  /\ Stage(w, "sending")
  /\ \/ /\ emails' = [emails EXCEPT ![loop[w].job] = @ + 1]
        /\ Goto(w, "accepted") \/ ("late_error" \in Environment /\ Goto(w, "failing"))
     \/ /\ "reject" \in Environment
        /\ Goto(w, "failing")
        /\ UNCHANGED emails
  /\ UNCHANGED <<rows, digestOn, hour, flow>>

(* completeEvent, its transaction: update by id, which fails when the row  *)
(* is gone.                                                                *)
CompleteEvent(w) ==
  LET e == loop[w].job IN
  /\ loop[w].pc \in {"accepted", "skipping"}
  /\ IF Exists(e)
     THEN /\ status' = [status EXCEPT ![e] = IF Stage(w, "accepted") THEN "sent" ELSE "skipped"]
          /\ Goto(w, IF e \notin Digest THEN "auditing"
                     ELSE IF Stage(w, "accepted") THEN "consuming" ELSE "releasing")
     ELSE Goto(w, "failing") /\ UNCHANGED status
  /\ UNCHANGED <<attempts, delayed, birth, sources, digestOn, hour, flow, emails>>

(* updateMany over the parked updates a digest names.                      *)
SettleParked(d, to) ==
  status' = [e \in Event |-> IF e \in sources[d] /\ status[e] = "processing" THEN to ELSE status[e]]

(* consumeBufferedSourceNotifications.                                     *)
ConsumeSources(w) ==
  /\ Stage(w, "consuming")
  /\ SettleParked(loop[w].job, "skipped")
  /\ Goto(w, "auditing")
  /\ UNCHANGED <<attempts, delayed, birth, sources, digestOn, hour, flow, emails>>

(* releaseBufferedSourceNotifications, after a skip or after giving up.    *)
ReleaseAsBatched(w) ==   \* mutant: closes the updates instead
  /\ \/ Stage(w, "releasing") /\ Goto(w, "auditing")
     \/ Stage(w, "surrendering") /\ Rest(w, "polled")
  /\ SettleParked(loop[w].job, "skipped")
  /\ UNCHANGED <<attempts, delayed, birth, sources, digestOn, hour, flow, emails>>
ReleaseSurrendered(w) ==   \* mutant: releases when giving up, not when skipping
  /\ \/ Stage(w, "releasing") /\ Goto(w, "auditing") /\ UNCHANGED status
     \/ Stage(w, "surrendering") /\ Rest(w, "polled") /\ SettleParked(loop[w].job, "queued")
  /\ UNCHANGED <<attempts, delayed, birth, sources, digestOn, hour, flow, emails>>
ReleaseSources(w) ==
  /\ \/ Stage(w, "releasing") /\ Goto(w, "auditing")
     \/ Stage(w, "surrendering") /\ Rest(w, "polled")
  /\ SettleParked(loop[w].job, "queued")
  /\ UNCHANGED <<attempts, delayed, birth, sources, digestOn, hour, flow, emails>>

(* The closing audit record of completeEvent.                              *)
RecordAudit(w) ==
  /\ Stage(w, "auditing")
  /\ Rest(w, "polled")
  /\ UNCHANGED <<rows, digestOn, hour, flow, emails>>

(* A statement inside the try block fails: control goes to failEvent,      *)
(* whatever has been committed before.  A statement that fails elsewhere   *)
(* (claiming, failEvent itself) ends the process, as Crash does.           *)
DatabaseError(w) ==
  /\ "db" \in Environment
  /\ loop[w].pc \in HoldingStage \ {"failing", "retrying", "surrendering"}
  /\ Goto(w, "failing")
  /\ UNCHANGED <<rows, digestOn, hour, flow, emails>>

(* failEvent reads attemptCount ...                                        *)
ReadFailedEvent(w) ==
  /\ Stage(w, "failing")
  /\ loop' = [loop EXCEPT ![w] = At("retrying", loop[w].job, attempts[loop[w].job])]
  /\ UNCHANGED <<rows, digestOn, hour, flow, emails>>

(* ... and requeues the event or gives up, without looking at its status.  *)
OneMore(w) == loop[w].seen > MaxAttempts   \* mutant: off by one
Exhausted(w) == loop[w].seen >= MaxAttempts

FailEvent(w) ==
  LET e == loop[w].job IN
  /\ Stage(w, "retrying")
  /\ Exists(e)
  /\ IF Exhausted(w)
     THEN /\ status' = [status EXCEPT ![e] = "failed"]
          /\ IF e \in Digest THEN Goto(w, "surrendering") ELSE Rest(w, "polled")
          /\ UNCHANGED delayed
     ELSE /\ status' = [status EXCEPT ![e] = "queued"]
          /\ delayed' = delayed \cup {e}
          /\ Rest(w, "polled")
  /\ UNCHANGED <<attempts, birth, sources, digestOn, hour, flow, emails>>

(* The process exits: its loop and its scheduling pass are gone, the rows  *)
(* are as they were.                                                       *)
StopWorker(w) ==
  /\ Rest(w, "down")
  /\ flow' = [f \in Flow |-> IF f[1] = w THEN Off ELSE flow[f]]
  /\ UNCHANGED <<rows, digestOn, hour, emails>>

(* failEvent's update throws when the row is gone, out of the loop.        *)
FailEventThrows(w) ==
  /\ Stage(w, "retrying")
  /\ ~ Exists(loop[w].job)
  /\ StopWorker(w)

Crash(w) ==
  /\ "crash" \in Environment
  /\ ~ Stage(w, "down")
  /\ StopWorker(w)

Restart(w) ==
  /\ Stage(w, "down")
  /\ Rest(w, "idle")
  /\ UNCHANGED <<rows, digestOn, hour, flow, emails>>

----------------------------------------------------------------------------
(* runScheduledWork starts the hourly and the daily part side by side      *)
(* (Promise.all) with one reading of the clock.  The hourly window is open *)
(* only within a schedule interval of the full hour, the daily one from    *)
(* the digest hour to the end of the day.                                  *)
Starts(window) == Pass("recipients", window, {}, {}, None)
HourlyStarts == {Off, Starts(hour)}
DailyStarts ==
  IF DailyWindow(hour) = {} THEN {Off} ELSE {Starts(b) : b \in DailyWindow(hour)}

StartSchedule(w) ==
  /\ w \in Scheduler
  /\ Stage(w, "polled")
  /\ \A k \in Kind : flow[<<w, k>>] = Off
  /\ \E hourly \in HourlyStarts, daily \in DailyStarts :
       flow' = [flow EXCEPT ![<<w, "hourly">>] = hourly, ![<<w, "daily">>] = daily]
  /\ Rest(w, "scheduling")
  /\ UNCHANGED <<rows, digestOn, hour, emails>>

(* The last check is less than the schedule interval ago.                 *)
SkipSchedule(w) ==
  /\ Stage(w, "polled")
  /\ Rest(w, "idle")
  /\ UNCHANGED <<rows, digestOn, hour, flow, emails>>

EndSchedule(w) ==
  /\ w \in Scheduler
  /\ Stage(w, "scheduling")
  /\ \A k \in Kind : flow[<<w, k>>] = Off
  /\ Rest(w, "idle")
  /\ UNCHANGED <<rows, digestOn, hour, flow, emails>>

(* Users with the digest off (hourly) or on (daily).                       *)
OnRate(kind) == {u \in User : u \in digestOn <=> kind = "daily"}

ReadRecipients(f) ==
  /\ flow[f].stage = "recipients"
  /\ flow' = [flow EXCEPT ![f] = Pass("buffered", flow[f].window, OnRate(f[2]), {}, None)]
  /\ UNCHANGED <<rows, digestOn, hour, loop, emails>>

(* readBufferedNotifications: queued updates up to the window's end.       *)
BufferedAgain(users, window) ==   \* mutant: whatever its status
  {s \in Update : Exists(s) /\ recipientOf[s] \in users /\ birth[s] < window}
Buffered(users, window) ==
  {s \in Update : status[s] = "queued" /\ recipientOf[s] \in users /\ birth[s] < window}

ReadBuffered(f) ==
  /\ flow[f].stage = "buffered"
  /\ flow' = [flow EXCEPT ![f] =
       Pass("checking", flow[f].window, flow[f].users, Buffered(flow[f].users, flow[f].window), None)]
  /\ UNCHANGED <<rows, digestOn, hour, loop, emails>>

(* The unique key of a digest is taken.  The row of a window is kept for a *)
(* month, so none is deleted while a pass may still ask for its key.       *)
KeyFree(d) == FALSE   \* mutant: digests without a unique key
KeyTaken(d) == status[d] # "absent"

DigestOf(f, u) == [kind |-> f[2], user |-> u, window |-> flow[f].window]
BatchOf(f, u) == {s \in flow[f].batch : recipientOf[s] = u}

(* One turn of the loop over recipients.  Nothing to say: next recipient.  *)
(* A daily digest is also sent when it only has open tasks or projects to  *)
(* list (summary).  Then findUnique on the dedupeKey.                      *)
CheckDigest(f) ==
  /\ flow[f].stage = "checking"
  /\ \E u \in flow[f].users, summary \in BOOLEAN :
       LET wanted == BatchOf(f, u) # {} \/ (summary /\ f[2] = "daily")
           next(stage, user) == Pass(stage, flow[f].window, flow[f].users \ {u}, flow[f].batch, user)
       IN flow' = [flow EXCEPT ![f] =
            IF wanted /\ ~ KeyTaken(DigestOf(f, u)) THEN next("creating", u) ELSE next("checking", None)]
  /\ UNCHANGED <<rows, digestOn, hour, loop, emails>>

(* queueBufferedDigestEvent, its transaction: create the digest with the   *)
(* batch as read, park those of its updates that are still queued.         *)
CreateDigest(f) ==
  LET d == DigestOf(f, flow[f].user)
      batch == BatchOf(f, flow[f].user)
  IN
  /\ flow[f].stage = "creating"
  /\ ~ KeyTaken(d)
  /\ status' = [e \in Event |->
       IF e = d THEN "queued"
       ELSE IF e \in batch /\ status[e] = "queued" THEN "processing"
       ELSE status[e]]
  /\ birth' = [birth EXCEPT ![d] = hour]
  /\ sources' = [sources EXCEPT ![d] = batch]
  /\ flow' = [flow EXCEPT ![f] =
       Pass("checking", flow[f].window, flow[f].users, flow[f].batch, None)]
  /\ UNCHANGED <<attempts, delayed, digestOn, hour, loop, emails>>

(* Another pass created it first: the unique key aborts this part of the   *)
(* pass and the pass itself (Promise.all rejects); its other part runs on. *)
CreateDigestFails(f) ==
  /\ flow[f].stage = "creating"
  /\ KeyTaken(DigestOf(f, flow[f].user))
  /\ flow' = [flow EXCEPT ![f] = Off]
  /\ IF Stage(f[1], "scheduling") THEN Rest(f[1], "idle") ELSE UNCHANGED loop
  /\ UNCHANGED <<rows, digestOn, hour, emails>>

EndFlow(f) ==
  /\ flow[f].stage = "checking"
  /\ flow[f].users = {}
  /\ flow' = [flow EXCEPT ![f] = Off]
  /\ UNCHANGED <<rows, digestOn, hour, loop, emails>>

----------------------------------------------------------------------------
(* NotificationWorker.run: one notification, then the scheduling pass.     *)
LoopStep(w) ==
  \/ FindCandidate(w) \/ NoCandidate(w) \/ ClaimCandidate(w) \/ Inspect(w) \/ SendMail(w)
  \/ CompleteEvent(w) \/ ConsumeSources(w) \/ ReleaseSources(w) \/ RecordAudit(w)
  \/ ReadFailedEvent(w) \/ FailEvent(w) \/ FailEventThrows(w)
  \/ StartSchedule(w) \/ SkipSchedule(w) \/ EndSchedule(w)
  \/ Restart(w)

FlowStep(f) ==
  \/ ReadRecipients(f) \/ ReadBuffered(f) \/ CheckDigest(f)
  \/ CreateDigest(f) \/ CreateDigestFails(f) \/ EndFlow(f)

Next ==
  \/ \E w \in Worker : LoopStep(w) \/ DatabaseError(w) \/ Crash(w)
  \/ \E f \in Flow : FlowStep(f)
  \/ \E e \in Direct \cup Update : Post(e)
  \/ \E e \in Deliverable : BackoffElapses(e)
  \/ \E u \in User : ToggleDigest(u)
  \/ Tick
  \/ PruneNotifications

Spec == Init /\ [][Next]_vars

(* The workers keep running and retry delays end; users, the API and the   *)
(* retention sweep owe nothing.                                            *)
Fairness ==
  /\ \A w \in Worker : WF_vars(LoopStep(w))
  /\ \A f \in Flow : WF_vars(FlowStep(f))
  /\ \A e \in Deliverable : WF_vars(BackoffElapses(e))

FairSpec == Spec /\ Fairness

----------------------------------------------------------------------------
TypeOK ==
  /\ status \in [Event -> Status]
  /\ attempts \in [Event -> 0..MaxAttempts]
  /\ delayed \in SUBSET Deliverable
  /\ birth \in [Event -> 0..MaxHour]
  /\ sources \in [Digest -> SUBSET Update]
  /\ digestOn \in SUBSET User
  /\ hour \in 0..MaxHour
  /\ loop \in [Worker -> LoopState]
  /\ flow \in [Flow -> FlowState]
  /\ emails \in [Event -> Nat]

(* Two workers never work on the same event: the guarded updateMany of     *)
(* claimNextNotification hands an event to one of them, and nothing before *)
(* failEvent's last statement makes it claimable again.                    *)
ExclusiveDelivery ==
  \A v, w \in Worker, e \in Deliverable : Holds(v, e) /\ Holds(w, e) => v = w

(* What a worker may assume of the event it holds, stage by stage.         *)
HeldRows ==
  \A w \in Worker : loop[w].pc \in HoldingStage =>
    LET e == loop[w].job IN
    /\ e \in Deliverable
    /\ status[e] \notin {"absent", "queued"}
    /\ loop[w].pc \in {"claimed", "sending"} => emails[e] < attempts[e]
    /\ loop[w].pc \in {"accepted", "consuming"} => emails[e] > 0
    /\ loop[w].pc = "retrying" => loop[w].seen = attempts[e]
    /\ loop[w].pc \in {"consuming", "releasing", "surrendering"} => e \in Digest

(* However sending, answering, recording and the workers themselves fail,  *)
(* an event is mailed at most once per counted attempt and there are at    *)
(* most MAX_ATTEMPTS attempts.                                             *)
BoundedDelivery ==
  \A e \in Event : emails[e] <= attempts[e] /\ attempts[e] <= MaxAttempts

Mailed(s) == {d \in Digest : s \in sources[d] /\ emails[d] > 0}

(* An update is closed as batched ("skipped") only when the mail host has  *)
(* accepted a digest that lists it, whatever fails.                        *)
ClosedUpdatesWereMailed ==
  \A s \in Update : status[s] = "skipped" => Mailed(s) # {}

(* A parked update is named by a digest row that still exists: retention   *)
(* never takes the digest and leaves the update parked.                    *)
ParkedUpdatesHaveADigest ==
  \A s \in Update : status[s] = "processing" =>
    \E d \in Digest : Exists(d) /\ s \in sources[d]

(* The rows of updates as the ledger of updates sees them.                 *)
PlaceOf(s) ==
  CASE status[s] = "absent"     -> "none"
    [] status[s] = "queued"     -> "buffered"
    [] status[s] = "processing" -> "parked"
    [] status[s] = "skipped"    -> "closed"
    [] OTHER                    -> "deleted"

Ledger == INSTANCE UpdateLedger WITH
  place <- [s \in Update |-> PlaceOf(s)],
  mailed <- {s \in Update : Mailed(s) # {}}

(* Whatever workers, crashes, lost statements, refused mails, overlapping  *)
(* passes and the retention sweep do, updates move as the ledger says:     *)
(* parked out of the buffer only, closed only after an accepted mail that  *)
(* listed them, otherwise released, and never reopened.                    *)
ImplementsLedger == Ledger!Spec

(* A mailed update never returns to the buffer, whatever fails.            *)
ClosedUpdatesStayClosed ==
  [][\A s \in Update : status[s] = "skipped" => status'[s] \in {"skipped", "pruned"}]_vars

Finished == {"sent", "skipped", "failed"}

(* With no crash and no failing statement every event that can be mailed   *)
(* comes to an outcome, however often the host refuses.                    *)
EveryEventIsSettled ==
  \A e \in Deliverable :
    status[e] \in {"queued", "processing"} ~> status[e] \in Finished \cup {"pruned"}

(* ... and no update stays parked.                                         *)
NoUpdateStaysParked ==
  \A s \in Update : status[s] = "processing" ~> status[s] # "processing"
=============================================================================
