---------------------- MODULE NotificationQueue_proofs ----------------------
(* Theorems about NotificationQueue, and about QueueHistory at the end, for *)
(* every number of workers, users, events and hours and every Environment.  *)
EXTENDS QueueHistory, FiniteSetTheorems, TLAPS

(* A row that can still be claimed has an attempt left.                    *)
AttemptsLeft ==
  \A e \in Deliverable :
    /\ status[e] = "queued" => attempts[e] < MaxAttempts
    /\ status[e] = "absent" => attempts[e] = 0

CandidatesExist ==
  /\ \A w \in Worker : loop[w].pc = "claiming" => loop[w].job \in Deliverable
  /\ \A f \in Flow : flow[f].stage = "creating" => flow[f].user \in User

(* A digest names updates that were there when its batch was read: they    *)
(* are not younger than the digest.                                        *)
BatchesExist ==
  \A f \in Flow : \A s \in flow[f].batch : status[s] # "absent"
BirthsArePast ==
  \A e \in Event : birth[e] <= hour
SourcesAreOlder ==
  \A d \in Digest :
    /\ status[d] = "absent" => sources[d] = {}
    /\ \A s \in sources[d] : status[s] # "absent" /\ birth[s] <= birth[d]

IInv ==
  /\ TypeOK
  /\ AttemptsLeft
  /\ CandidatesExist
  /\ HeldRows
  /\ ExclusiveDelivery
  /\ BoundedDelivery
  /\ BatchesExist
  /\ BirthsArePast
  /\ SourcesAreOlder
  /\ ClosedUpdatesWereMailed
  /\ ParkedUpdatesHaveADigest

(* No rows, no workers at work: the invariant holds at the start.          *)
LEMMA InitIInv == Init => IInv
<1> SUFFICES ASSUME Init PROVE IInv
  OBVIOUS
<1> USE ConstantsAssumption DEF Init
<1>1. TypeOK
  BY DEF TypeOK, Status, LoopState, LoopStage, At, Resting, FlowState, Pass, Off
<1>2. AttemptsLeft /\ BoundedDelivery
  BY DEF AttemptsLeft, BoundedDelivery, Event, Deliverable
<1>3. CandidatesExist /\ HeldRows /\ ExclusiveDelivery
  BY DEF CandidatesExist, HeldRows, ExclusiveDelivery, Holds, At, Resting, HoldingStage, Pass, Off
<1>4. BatchesExist /\ BirthsArePast /\ SourcesAreOlder
  BY DEF BatchesExist, BirthsArePast, SourcesAreOlder, Pass, Off, Event
<1>5. ClosedUpdatesWereMailed /\ ParkedUpdatesHaveADigest
  BY DEF ClosedUpdatesWereMailed, ParkedUpdatesHaveADigest, Event
<1> QED
  BY <1>1, <1>2, <1>3, <1>4, <1>5 DEF IInv

(* Every step of the delivery loop, of a scheduling pass and of the        *)
(* environment keeps the types.                                            *)
LEMMA TypeStep == ASSUME IInv, [Next]_vars PROVE TypeOK'
<1> USE ConstantsAssumption DEF IInv, TypeOK, rows, Stage, Goto, Rest, At, Resting, LoopState, LoopStage,
      HoldingStage, Status, Deliverable, Event
<1>1. ASSUME NEW w \in Worker, FindCandidate(w) \/ NoCandidate(w) PROVE TypeOK'
  BY <1>1 DEF FindCandidate, NoCandidate
<1>2. ASSUME NEW w \in Worker, ClaimCandidate(w) PROVE TypeOK'
  BY <1>2, SMTT(30) DEF ClaimCandidate, ClaimMatches, CandidatesExist, AttemptsLeft
<1>3. ASSUME NEW w \in Worker, Inspect(w) \/ SendMail(w) \/ RecordAudit(w) PROVE TypeOK'
  BY <1>3 DEF Inspect, SendMail, RecordAudit
<1>4. ASSUME NEW w \in Worker, CompleteEvent(w) PROVE TypeOK'
  BY <1>4 DEF CompleteEvent
<1>5. ASSUME NEW w \in Worker, ConsumeSources(w) \/ ReleaseSources(w) PROVE TypeOK'
  BY <1>5 DEF ConsumeSources, ReleaseSources, SettleParked
<1>6. ASSUME NEW w \in Worker, DatabaseError(w) \/ ReadFailedEvent(w) PROVE TypeOK'
  BY <1>6 DEF DatabaseError, ReadFailedEvent, HeldRows
<1>7. ASSUME NEW w \in Worker, FailEvent(w) PROVE TypeOK'
  BY <1>7 DEF FailEvent, Exhausted, HeldRows
<1>8. ASSUME NEW w \in Worker, FailEventThrows(w) \/ Crash(w) \/ Restart(w) PROVE TypeOK'
  BY <1>8, SMTT(30) DEF FailEventThrows, Crash, StopWorker, Restart, FlowState, Pass, Off
<1>9. ASSUME NEW w \in Worker, StartSchedule(w) PROVE TypeOK'
  <2>1. Off \in FlowState /\ \A b \in 0..MaxHour : Starts(b) \in FlowState
    BY DEF Starts, FlowState, Pass, Off
  <2>2. DailyWindow(hour) \subseteq 0..MaxHour /\ hour \in 0..MaxHour
    <3>1. DailyWindow(hour) \subseteq 0..hour
      BY Zenon DEF DailyWindow
    <3> QED
      BY <3>1
  <2>3. HourlyStarts \subseteq FlowState /\ DailyStarts \subseteq FlowState
    BY <2>1, <2>2 DEF HourlyStarts, DailyStarts
  <2>4. flow' \in [Flow -> FlowState]
    <3>1. flow \in [Flow -> FlowState]
      OBVIOUS
    <3> QED
      BY <1>9, <2>3, <3>1 DEF StartSchedule
  <2>5. Rest(w, "scheduling") /\ UNCHANGED <<rows, digestOn, hour, emails>>
    BY <1>9 DEF StartSchedule
  <2>6. loop' \in [Worker -> LoopState]
    BY <2>5
  <2> QED
    BY <2>4, <2>5, <2>6
<1>10. ASSUME NEW w \in Worker, SkipSchedule(w) \/ EndSchedule(w) PROVE TypeOK'
  BY <1>10 DEF SkipSchedule, EndSchedule
<1>11. ASSUME NEW f \in Flow, ReadRecipients(f) \/ ReadBuffered(f) PROVE TypeOK'
  BY <1>11 DEF ReadRecipients, ReadBuffered, Buffered, OnRate, FlowState, Pass
<1>12. ASSUME NEW f \in Flow, CheckDigest(f) PROVE TypeOK'
  BY <1>12 DEF CheckDigest, FlowState, Pass
<1>13. ASSUME NEW f \in Flow, CreateDigest(f) PROVE TypeOK'
  BY <1>13 DEF CreateDigest, BatchOf, FlowState, Pass
<1>14. ASSUME NEW f \in Flow, CreateDigestFails(f) \/ EndFlow(f) PROVE TypeOK'
  <2>1. Off \in FlowState
    BY DEF FlowState, Pass, Off
  <2> QED
    BY <1>14, <2>1 DEF CreateDigestFails, EndFlow
<1>15. ASSUME NEW e \in Event, Post(e) \/ BackoffElapses(e) PROVE TypeOK'
  BY <1>15 DEF Post, BackoffElapses
<1>16. CASE (\E u \in User : ToggleDigest(u)) \/ Tick
  BY <1>16 DEF ToggleDigest, Tick
<1>17. CASE PruneNotifications
  BY <1>17 DEF PruneNotifications
<1>18. CASE UNCHANGED vars
  BY <1>18 DEF vars
<1> QED
  BY <1>1, <1>2, <1>3, <1>4, <1>5, <1>6, <1>7, <1>8, <1>9, <1>10, <1>11, <1>12, <1>13, <1>14,
     <1>15, <1>16, <1>17, <1>18 DEF Next, LoopStep, FlowStep

(* The steps that change a row or send a message.                          *)
LEMMA RowSteps ==
  ASSUME [Next]_vars
  PROVE  \/ UNCHANGED <<status, attempts, birth, sources, emails>>
         \/ \E e \in Direct \cup Update : Post(e)
         \/ PruneNotifications
         \/ \E w \in Worker : \/ ClaimCandidate(w) \/ SendMail(w) \/ CompleteEvent(w)
                             \/ ConsumeSources(w) \/ ReleaseSources(w) \/ FailEvent(w)
         \/ \E f \in Flow : CreateDigest(f)
<1> USE DEF rows
<1>1. CASE UNCHANGED vars
  BY <1>1 DEF vars
<1>2. ASSUME NEW w \in Worker, LoopStep(w) \/ DatabaseError(w) \/ Crash(w),
             ~ (\/ ClaimCandidate(w) \/ SendMail(w) \/ CompleteEvent(w)
                \/ ConsumeSources(w) \/ ReleaseSources(w) \/ FailEvent(w))
      PROVE  UNCHANGED <<status, attempts, birth, sources, emails>>
  BY <1>2 DEF LoopStep, FindCandidate, NoCandidate, Inspect, RecordAudit, ReadFailedEvent,
       FailEventThrows, StartSchedule, SkipSchedule, EndSchedule, Restart, DatabaseError, Crash,
       StopWorker
<1>3. ASSUME NEW f \in Flow, FlowStep(f), ~ CreateDigest(f)
      PROVE  UNCHANGED <<status, attempts, birth, sources, emails>>
  BY <1>3 DEF FlowStep, ReadRecipients, ReadBuffered, CheckDigest, CreateDigestFails, EndFlow
<1>4. CASE (\E e \in Deliverable : BackoffElapses(e)) \/ (\E u \in User : ToggleDigest(u)) \/ Tick
  BY <1>4 DEF BackoffElapses, ToggleDigest, Tick
<1> QED
  BY <1>1, <1>2, <1>3, <1>4 DEF Next

(* Settling parked updates leaves every deliverable row alone.             *)
LEMMA SettleFrame ==
  ASSUME IInv, NEW d \in Digest, NEW to, SettleParked(d, to)
  PROVE  \A e \in Deliverable : status'[e] = status[e]
BY ConstantsAssumption DEF IInv, TypeOK, SettleParked, Deliverable, Event

(* The digest a scheduling pass creates is a digest, and parks updates.    *)
LEMMA CreateFrame ==
  ASSUME IInv, NEW f \in Flow, CreateDigest(f)
  PROVE  /\ DigestOf(f, flow[f].user) \in Digest
         /\ BatchOf(f, flow[f].user) \subseteq flow[f].batch
         /\ flow[f].batch \subseteq Update
<1>1. flow[f] \in FlowState /\ f[2] \in Kind
  BY DEF IInv, TypeOK, Flow
<1>2. flow[f].user \in User
  BY DEF IInv, CandidatesExist, CreateDigest
<1> QED
  BY <1>1, <1>2 DEF DigestOf, BatchOf, Digest, FlowState

(* A mail is sent by a worker that has counted its attempt, and an event   *)
(* is queued only while attempts are left.                                 *)
LEMMA AttemptsStep == ASSUME IInv, [Next]_vars PROVE AttemptsLeft' /\ BoundedDelivery'
<1> USE ConstantsAssumption DEF IInv, TypeOK, AttemptsLeft, BoundedDelivery, Deliverable, Event, rows
<1>1. CASE UNCHANGED <<status, attempts, birth, sources, emails>>
  BY <1>1
<1>2. CASE (\E e \in Direct \cup Update : Post(e)) \/ PruneNotifications
  BY <1>2 DEF Post, PruneNotifications
<1>3. ASSUME NEW w \in Worker, ClaimCandidate(w)
      PROVE  AttemptsLeft' /\ BoundedDelivery'
  BY <1>3 DEF ClaimCandidate, ClaimMatches, CandidatesExist, Stage
<1>4. ASSUME NEW w \in Worker, SendMail(w) PROVE AttemptsLeft' /\ BoundedDelivery'
  BY <1>4 DEF SendMail, HeldRows, Stage, HoldingStage
<1>5. ASSUME NEW w \in Worker, CompleteEvent(w) PROVE AttemptsLeft' /\ BoundedDelivery'
  BY <1>5 DEF CompleteEvent
<1>6. ASSUME NEW w \in Worker, ConsumeSources(w) \/ ReleaseSources(w)
      PROVE  AttemptsLeft' /\ BoundedDelivery'
  <2>1. loop[w].job \in Digest /\ \E to \in {"skipped", "queued"} : SettleParked(loop[w].job, to)
    BY <1>6 DEF ConsumeSources, ReleaseSources, HeldRows, Stage, HoldingStage
  <2>2. \A e \in Deliverable : status'[e] = status[e]
    BY <2>1, SettleFrame
  <2> QED
    BY <1>6, <2>2 DEF ConsumeSources, ReleaseSources
<1>7. ASSUME NEW w \in Worker, FailEvent(w) PROVE AttemptsLeft' /\ BoundedDelivery'
  BY <1>7 DEF FailEvent, Exhausted, HeldRows, Stage, HoldingStage
<1>8. ASSUME NEW f \in Flow, CreateDigest(f) PROVE AttemptsLeft' /\ BoundedDelivery'
  BY <1>8, CreateFrame DEF CreateDigest, KeyTaken
<1> QED
  BY RowSteps, <1>1, <1>2, <1>3, <1>4, <1>5, <1>6, <1>7, <1>8

(* A step of w leaves the local state of the other workers alone.          *)
LEMMA LoopFrame ==
  ASSUME IInv, NEW w \in Worker, LoopStep(w) \/ DatabaseError(w) \/ Crash(w)
  PROVE  \A v \in Worker : v # w => loop'[v] = loop[v]
BY DEF IInv, TypeOK, LoopStep, FindCandidate, NoCandidate, ClaimCandidate, Inspect, SendMail,
     CompleteEvent, ConsumeSources, ReleaseSources, RecordAudit, ReadFailedEvent, FailEvent,
     FailEventThrows, StopWorker, StartSchedule, SkipSchedule, EndSchedule, Restart, DatabaseError,
     Crash, Goto, Rest

(* Only FailEvent, run by the holder, makes a held event claimable; only   *)
(* the holder's sending and claiming move its counters.                    *)
LEMMA HeldFrame ==
  ASSUME IInv, [Next]_vars, NEW v \in Worker, loop[v].pc \in HoldingStage,
         loop'[v] = loop[v]
  PROVE  LET e == loop[v].job IN
         /\ status'[e] \notin {"absent", "queued"}
         /\ attempts'[e] = attempts[e]
         /\ emails'[e] = emails[e]
<1> DEFINE e == loop[v].job
<1> USE ConstantsAssumption DEF IInv, TypeOK, Deliverable, Event, rows
<1>0. e \in Deliverable /\ status[e] \notin {"absent", "queued"} /\ Holds(v, e)
  BY DEF HeldRows, Holds
<1>1. CASE UNCHANGED <<status, attempts, birth, sources, emails>>
  BY <1>0, <1>1
<1>2. CASE (\E p \in Direct \cup Update : Post(p)) \/ PruneNotifications
  BY <1>0, <1>2 DEF Post, PruneNotifications
<1>3. ASSUME NEW w \in Worker, ClaimCandidate(w)
      PROVE  status'[e] \notin {"absent", "queued"} /\ attempts'[e] = attempts[e] /\ emails'[e] = emails[e]
  BY <1>0, <1>3 DEF ClaimCandidate, ClaimMatches, CandidatesExist, Stage
<1>4. ASSUME NEW w \in Worker, SendMail(w) \/ CompleteEvent(w) \/ FailEvent(w)
      PROVE  status'[e] \notin {"absent", "queued"} /\ attempts'[e] = attempts[e] /\ emails'[e] = emails[e]
  <2>1. loop[w].pc \in HoldingStage /\ loop'[w] # loop[w]
    BY <1>4 DEF SendMail, CompleteEvent, FailEvent, Stage, Goto, Rest, At, Resting, HoldingStage
  <2>2. loop[w].job # e
    BY <1>0, <2>1 DEF ExclusiveDelivery, Holds
  <2> QED
    BY <1>0, <1>4, <2>2 DEF SendMail, CompleteEvent, FailEvent
<1>5. ASSUME NEW w \in Worker, ConsumeSources(w) \/ ReleaseSources(w)
      PROVE  status'[e] \notin {"absent", "queued"} /\ attempts'[e] = attempts[e] /\ emails'[e] = emails[e]
  <2>1. loop[w].job \in Digest /\ \E to \in {"skipped", "queued"} : SettleParked(loop[w].job, to)
    BY <1>5 DEF ConsumeSources, ReleaseSources, HeldRows, Stage, HoldingStage
  <2>2. \A x \in Deliverable : status'[x] = status[x]
    BY <2>1, SettleFrame
  <2> QED
    BY <1>0, <1>5, <2>2 DEF ConsumeSources, ReleaseSources
<1>6. ASSUME NEW f \in Flow, CreateDigest(f)
      PROVE  status'[e] \notin {"absent", "queued"} /\ attempts'[e] = attempts[e] /\ emails'[e] = emails[e]
  BY <1>0, <1>6, CreateFrame DEF CreateDigest, KeyTaken
<1> QED
  BY RowSteps, <1>1, <1>2, <1>3, <1>4, <1>5, <1>6

(* A worker that comes to hold, or moves on with, an event does so by one  *)
(* of these steps of its own.                                              *)
OwnStep(v) ==
  \/ ClaimCandidate(v) \/ Inspect(v) \/ SendMail(v) \/ CompleteEvent(v) \/ ConsumeSources(v)
  \/ ReleaseSources(v) \/ DatabaseError(v) \/ ReadFailedEvent(v) \/ FailEvent(v)

(* What a worker holds and may assume of it after a step of its own.       *)
LEMMA OwnSteps ==
  ASSUME IInv, [Next]_vars, NEW v \in Worker, loop'[v] # loop[v], loop'[v].pc \in HoldingStage
  PROVE  OwnStep(v)
<1>0. loop \in [Worker -> LoopState]
  BY DEF IInv, TypeOK
<1>1. ASSUME NEW w \in Worker, LoopStep(w) \/ DatabaseError(w) \/ Crash(w) PROVE OwnStep(v)
  <2>1. w = v
    BY <1>1, LoopFrame
  <2>2. ~ Crash(v)
    BY <1>0 DEF Crash, StopWorker, Rest, Resting, At, HoldingStage
  <2>3. \/ OwnStep(v) \/ FindCandidate(v) \/ NoCandidate(v) \/ RecordAudit(v)
        \/ FailEventThrows(v) \/ StartSchedule(v) \/ SkipSchedule(v) \/ EndSchedule(v)
        \/ Restart(v)
    BY <1>1, <2>1, <2>2 DEF LoopStep, OwnStep
  <2>4. ~ (FindCandidate(v) \/ NoCandidate(v))
    BY <1>0 DEF FindCandidate, NoCandidate, Rest, Resting, At, HoldingStage
  <2>5. ~ (RecordAudit(v) \/ FailEventThrows(v) \/ SkipSchedule(v) \/ Restart(v))
    BY <1>0 DEF RecordAudit, FailEventThrows, StopWorker, SkipSchedule, Restart, Rest, Resting, At,
         HoldingStage
  <2>6. ~ (StartSchedule(v) \/ EndSchedule(v))
    <3>1. ASSUME StartSchedule(v) \/ EndSchedule(v)
          PROVE  Rest(v, "scheduling") \/ Rest(v, "idle")
      BY <3>1 DEF StartSchedule, EndSchedule
    <3> QED
      BY <1>0, <3>1 DEF Rest, Resting, At, HoldingStage
  <2> QED
    BY <2>3, <2>4, <2>5, <2>6
<1>2. ASSUME NEW f \in Flow, FlowStep(f) PROVE OwnStep(v)
  <2>1. CreateDigestFails(f)
    BY <1>2 DEF FlowStep, ReadRecipients, ReadBuffered, CheckDigest, CreateDigest, EndFlow
  <2> QED
    BY <1>0, <2>1 DEF CreateDigestFails, Rest, Resting, At, HoldingStage
<1>3. loop' # loop
  OBVIOUS
<1> QED
  BY <1>1, <1>2, <1>3 DEF Next, Post, BackoffElapses, ToggleDigest, Tick, PruneNotifications, vars

(* What a worker may assume of the event it holds, stage by stage, is kept *)
(* by its own steps and by those of the others.                            *)
LEMMA HeldStep == ASSUME IInv, [Next]_vars PROVE HeldRows'
<1> USE ConstantsAssumption
<1> SUFFICES ASSUME NEW v \in Worker, loop'[v].pc \in HoldingStage
             PROVE  LET e == loop'[v].job IN
                    /\ e \in Deliverable
                    /\ status'[e] \notin {"absent", "queued"}
                    /\ loop'[v].pc \in {"claimed", "sending"} => emails'[e] < attempts'[e]
                    /\ loop'[v].pc \in {"accepted", "consuming"} => emails'[e] > 0
                    /\ loop'[v].pc = "retrying" => loop'[v].seen = attempts'[e]
                    /\ loop'[v].pc \in {"consuming", "releasing", "surrendering"} => e \in Digest
  BY DEF HeldRows
<1>0. loop \in [Worker -> LoopState]
  BY DEF IInv, TypeOK
<1>1. CASE loop'[v] = loop[v]
  BY <1>1, HeldFrame DEF IInv, HeldRows
<1> USE DEF IInv, TypeOK, HeldRows, Stage, Goto, Rest, Resting, At, HoldingStage, Deliverable, Event
<1>2. CASE ClaimCandidate(v)
  BY <1>0, <1>2 DEF ClaimCandidate, ClaimMatches, CandidatesExist, BoundedDelivery
<1>3. CASE Inspect(v)
  BY <1>0, <1>3 DEF Inspect, rows
<1>4. CASE SendMail(v)
  BY <1>0, <1>4 DEF SendMail, rows
<1>5. CASE CompleteEvent(v)
  BY <1>0, <1>5 DEF CompleteEvent
<1>6. CASE ConsumeSources(v) \/ ReleaseSources(v)
  <2>1. loop[v].job \in Digest /\ \E to \in {"skipped", "queued"} : SettleParked(loop[v].job, to)
    BY <1>6 DEF ConsumeSources, ReleaseSources
  <2>2. status'[loop[v].job] = status[loop[v].job]
    BY <2>1, SettleFrame
  <2> QED
    BY <1>0, <1>6, <2>1, <2>2 DEF ConsumeSources, ReleaseSources
<1>7. CASE DatabaseError(v) \/ ReadFailedEvent(v)
  BY <1>0, <1>7 DEF DatabaseError, ReadFailedEvent, rows
<1>8. CASE FailEvent(v)
  BY <1>0, <1>8 DEF FailEvent
<1> QED
  BY <1>1, <1>2, <1>3, <1>4, <1>5, <1>6, <1>7, <1>8, OwnSteps DEF OwnStep

(* Workers that hold an event after the step held it before, but for the   *)
(* one that claims it, and it claims what nobody held.                     *)
LEMMA ExclusiveStep == ASSUME IInv, [Next]_vars PROVE ExclusiveDelivery'
<1> USE ConstantsAssumption
<1>0. loop \in [Worker -> LoopState] /\ ExclusiveDelivery /\ HeldRows /\ CandidatesExist
  BY DEF IInv, TypeOK
<1> SUFFICES ASSUME NEW v \in Worker, NEW w \in Worker, NEW e \in Deliverable,
                    Holds(v, e)', Holds(w, e)'
             PROVE  v = w
  BY DEF ExclusiveDelivery
<1>1. ASSUME NEW x \in Worker, Holds(x, e)' PROVE Holds(x, e) \/ ClaimCandidate(x)
  <2>1. CASE loop'[x] = loop[x]
    BY <1>1, <2>1 DEF Holds
  <2>2. CASE loop'[x] # loop[x]
    <3>1. OwnStep(x)
      BY <1>1, <2>2, OwnSteps DEF Holds
    <3>2. ClaimCandidate(x) \/ loop'[x].job = loop[x].job
      BY <1>0, <1>1, <3>1 DEF Holds, OwnStep, Inspect, SendMail, CompleteEvent, ConsumeSources,
           ReleaseSources, DatabaseError, ReadFailedEvent, FailEvent, Goto, Rest, Resting, At,
           HoldingStage
    <3>3. ClaimCandidate(x) \/ loop[x].pc \in HoldingStage
      BY <3>1 DEF OwnStep, Inspect, SendMail, CompleteEvent, ConsumeSources, ReleaseSources,
           DatabaseError, ReadFailedEvent, FailEvent, Stage, HoldingStage
    <3> QED
      BY <1>1, <3>2, <3>3 DEF Holds
  <2> QED
    BY <2>1, <2>2
<1>2. ASSUME NEW x \in Worker, ClaimCandidate(x), Holds(x, e)', NEW y \in Worker, Holds(y, e)'
      PROVE  x = y
  <2>1. \A z \in Worker : z # x => loop'[z] = loop[z]
    BY <1>2, LoopFrame DEF LoopStep
  <2>2. loop[x].job = e /\ status[e] = "queued"
    BY <1>0, <1>2 DEF ClaimCandidate, ClaimMatches, Holds, Goto, Rest, Resting, At, HoldingStage
  <2>3. ~ Holds(y, e)
    BY <1>0, <2>2 DEF HeldRows, Holds
  <2> QED
    BY <1>2, <2>1, <2>3 DEF Holds
<1>3. CASE Holds(v, e) /\ Holds(w, e)
  BY <1>0, <1>3 DEF ExclusiveDelivery
<1> QED
  BY <1>1, <1>2, <1>3

(* What a step makes of a scheduling pass: nothing, an end, a start, or    *)
(* the next of its own stages.                                             *)
LEMMA FlowSteps ==
  ASSUME IInv, [Next]_vars, NEW f \in Flow
  PROVE  \/ flow'[f] = flow[f]
         \/ flow'[f].batch = {} /\ flow'[f].stage # "creating"
         \/ /\ flow'[f].batch = flow[f].batch
            /\ flow'[f].stage = "creating" => flow'[f].user \in User
         \/ /\ flow'[f].stage # "creating"
            /\ \A s \in flow'[f].batch : status[s] = "queued"
<1> USE DEF IInv, TypeOK
<1>0. flow \in [Flow -> FlowState]
  OBVIOUS
<1> DEFINE Goal(x) ==
     \/ x = flow[f]
     \/ x.batch = {} /\ x.stage # "creating"
     \/ x.batch = flow[f].batch /\ (x.stage = "creating" => x.user \in User)
     \/ x.stage # "creating" /\ \A s \in x.batch : status[s] = "queued"
<1>1. ASSUME NEW b PROVE Goal(Off) /\ Goal(Starts(b))
  BY DEF Off, Starts, Pass
<1>2. ASSUME NEW w \in Worker, LoopStep(w) \/ DatabaseError(w) \/ Crash(w) PROVE Goal(flow'[f])
  <2>1. CASE StartSchedule(w)
    <3>1. \A x \in HourlyStarts \cup DailyStarts : Goal(x)
      BY <1>1, Zenon DEF HourlyStarts, DailyStarts
    <3>2. \E x \in HourlyStarts \cup DailyStarts : flow'[f] = x \/ flow'[f] = flow[f]
      BY <1>0, <2>1 DEF StartSchedule
    <3> QED
      BY <3>1, <3>2
  <2>2. CASE StopWorker(w)
    BY <1>1, <2>2 DEF StopWorker
  <2>3. CASE ~ StartSchedule(w) /\ ~ StopWorker(w)
    <3>1. flow' = flow
      BY <1>2, <2>3 DEF LoopStep, FindCandidate, NoCandidate, ClaimCandidate, Inspect, SendMail,
           CompleteEvent, ConsumeSources, ReleaseSources, RecordAudit, ReadFailedEvent, FailEvent,
           FailEventThrows, SkipSchedule, EndSchedule, Restart, DatabaseError, Crash
    <3> QED
      BY <3>1
  <2> QED
    BY <2>1, <2>2, <2>3
<1>3. ASSUME NEW g \in Flow, FlowStep(g) PROVE Goal(flow'[f])
  <2>0. ASSUME f # g PROVE flow'[f] = flow[f]
    BY <1>0, <1>3, <2>0 DEF FlowStep, ReadRecipients, ReadBuffered, CheckDigest, CreateDigest,
         CreateDigestFails, EndFlow
  <2>1. ASSUME f = g, ReadRecipients(g) PROVE Goal(flow'[f])
    BY <1>0, <2>1 DEF ReadRecipients, Pass
  <2>2. ASSUME f = g, ReadBuffered(g) PROVE Goal(flow'[f])
    BY <1>0, <2>2 DEF ReadBuffered, Buffered, Pass
  <2>3. ASSUME f = g, CheckDigest(g) PROVE Goal(flow'[f])
    <3>1. flow[f].users \subseteq User
      BY <1>0 DEF FlowState
    <3> QED
      BY <1>0, <2>3, <3>1 DEF CheckDigest, Pass
  <2>4. ASSUME f = g, CreateDigest(g) PROVE Goal(flow'[f])
    BY <1>0, <2>4 DEF CreateDigest, Pass
  <2>5. ASSUME f = g, CreateDigestFails(g) \/ EndFlow(g) PROVE Goal(flow'[f])
    <3>1. flow'[f] = Off
      BY <1>0, <2>5 DEF CreateDigestFails, EndFlow
    <3> QED
      BY <1>1, <3>1
  <2> QED
    BY <1>3, <2>0, <2>1, <2>2, <2>3, <2>4, <2>5 DEF FlowStep
<1> QED
  BY <1>2, <1>3 DEF Next, Post, BackoffElapses, ToggleDigest, Tick, PruneNotifications, vars

(* A worker about to claim has found a deliverable event, a pass about to  *)
(* create a digest has a recipient.                                        *)
LEMMA CandidatesStep == ASSUME IInv, [Next]_vars PROVE CandidatesExist'
<1> USE DEF IInv, TypeOK, CandidatesExist
<1>1. ASSUME NEW v \in Worker, loop'[v].pc = "claiming" PROVE loop'[v].job \in Deliverable
  <2>1. CASE loop'[v] = loop[v]
    BY <1>1, <2>1
  <2>2. CASE FindCandidate(v)
    BY <2>2 DEF FindCandidate, At
  <2>3. ASSUME LoopStep(v) \/ DatabaseError(v) \/ Crash(v), ~ FindCandidate(v) PROVE FALSE
    <3>1. OwnStep(v) => loop'[v].pc # "claiming"
      BY DEF OwnStep, ClaimCandidate, Inspect, SendMail, CompleteEvent, ConsumeSources,
           ReleaseSources, DatabaseError, ReadFailedEvent, FailEvent, Goto, Rest, Resting, At
    <3>2. NoCandidate(v) \/ RecordAudit(v) \/ FailEventThrows(v) \/ SkipSchedule(v) \/ Restart(v)
            => loop'[v].pc # "claiming"
      BY DEF NoCandidate, RecordAudit, FailEventThrows, StopWorker, SkipSchedule, Restart, Rest,
           Resting, At
    <3>3. StartSchedule(v) \/ EndSchedule(v) \/ Crash(v) => loop'[v].pc # "claiming"
      <4>1. ASSUME StartSchedule(v) \/ EndSchedule(v) \/ Crash(v)
            PROVE  Rest(v, "scheduling") \/ Rest(v, "idle") \/ Rest(v, "down")
        BY <4>1 DEF StartSchedule, EndSchedule, Crash, StopWorker
      <4> QED
        BY <4>1 DEF Rest, Resting, At
    <3> QED
      BY <1>1, <2>3, <3>1, <3>2, <3>3 DEF LoopStep, OwnStep
  <2>4. ASSUME NEW f \in Flow, FlowStep(f) PROVE loop'[v] = loop[v] \/ loop'[v] = Resting("idle")
    BY <2>4 DEF FlowStep, ReadRecipients, ReadBuffered, CheckDigest, CreateDigest, EndFlow,
         CreateDigestFails, Rest
  <2>5. ASSUME NEW w \in Worker, LoopStep(w) \/ DatabaseError(w) \/ Crash(w), w # v
        PROVE  loop'[v] = loop[v]
    BY <2>5, LoopFrame
  <2> QED
    BY <1>1, <2>1, <2>2, <2>3, <2>4, <2>5
       DEF Next, Post, BackoffElapses, ToggleDigest, Tick, PruneNotifications, vars, Resting, At
<1>2. ASSUME NEW f \in Flow, flow'[f].stage = "creating" PROVE flow'[f].user \in User
  BY <1>2, FlowSteps
<1> QED
  BY <1>1, <1>2

(* A row that exists or has existed is never absent again, and keeps its   *)
(* birth; only a digest being created gets its list of updates.            *)
LEMMA RowHistory ==
  ASSUME IInv, [Next]_vars
  PROVE  /\ \A e \in Event : status[e] # "absent" =>
               status'[e] # "absent" /\ birth'[e] = birth[e] /\ emails'[e] >= emails[e]
         /\ \A d \in Digest : status[d] # "absent" => sources'[d] = sources[d]
<1> USE ConstantsAssumption DEF IInv, TypeOK, Deliverable, Event
<1>1. CASE UNCHANGED <<status, attempts, birth, sources, emails>>
  BY <1>1
<1>2. CASE (\E p \in Direct \cup Update : Post(p)) \/ PruneNotifications
  BY <1>2 DEF Post, PruneNotifications
<1>3. ASSUME NEW w \in Worker, ClaimCandidate(w) \/ SendMail(w) \/ CompleteEvent(w) \/ FailEvent(w)
      PROVE  /\ \A e \in Event : status[e] # "absent" =>
                  status'[e] # "absent" /\ birth'[e] = birth[e] /\ emails'[e] >= emails[e]
             /\ UNCHANGED sources
  BY <1>3 DEF ClaimCandidate, SendMail, CompleteEvent, FailEvent, rows
<1>4. ASSUME NEW w \in Worker, ConsumeSources(w) \/ ReleaseSources(w)
      PROVE  /\ \A e \in Event : status[e] # "absent" =>
                  status'[e] # "absent" /\ birth'[e] = birth[e] /\ emails'[e] >= emails[e]
             /\ UNCHANGED sources
  BY <1>4 DEF ConsumeSources, ReleaseSources, SettleParked
<1>5. ASSUME NEW f \in Flow, CreateDigest(f)
      PROVE  /\ \A e \in Event : status[e] # "absent" =>
                  status'[e] # "absent" /\ birth'[e] = birth[e] /\ emails'[e] >= emails[e]
             /\ \A d \in Digest : status[d] # "absent" => sources'[d] = sources[d]
  BY <1>5, CreateFrame DEF CreateDigest, KeyTaken
<1> QED
  BY RowSteps, <1>1, <1>2, <1>3, <1>4, <1>5

(* A digest is created after the updates it lists: a batch is read before  *)
(* the window ends, the digest row is born at its end or later.            *)
LEMMA AgeStep == ASSUME IInv, [Next]_vars PROVE BatchesExist' /\ BirthsArePast' /\ SourcesAreOlder'
<1> USE ConstantsAssumption
<1>1. BatchesExist'
  <2> SUFFICES ASSUME NEW f \in Flow, NEW s \in flow'[f].batch PROVE status'[s] # "absent"
    BY DEF BatchesExist
  <2>1. s \in Update /\ status[s] # "absent"
    <3>1. flow'[f] \in FlowState
      BY TypeStep DEF TypeOK
    <3>2. s \in Update
      BY <3>1 DEF FlowState
    <3> QED
      BY <3>2, FlowSteps DEF IInv, BatchesExist
  <2> QED
    BY <2>1, RowHistory DEF Event
<1>2. BirthsArePast'
  <2> USE DEF IInv, TypeOK, BirthsArePast, rows
  <2>1. hour' \in Int /\ hour <= hour' /\ (hour' # hour => birth' = birth)
    <3>1. CASE Tick
      BY <3>1 DEF Tick
    <3>2. CASE ~ Tick
      <4>1. hour' = hour
        BY <3>2 DEF Next, LoopStep, FlowStep, FindCandidate, NoCandidate, ClaimCandidate, Inspect,
             SendMail, CompleteEvent, ConsumeSources, ReleaseSources, RecordAudit, ReadFailedEvent,
             FailEvent, FailEventThrows, StopWorker, StartSchedule, SkipSchedule, EndSchedule,
             Restart, DatabaseError, Crash, ReadRecipients, ReadBuffered, CheckDigest,
             CreateDigest, CreateDigestFails, EndFlow, Post, BackoffElapses, ToggleDigest,
             PruneNotifications, vars
      <4> QED
        BY <4>1
    <3> QED
      BY <3>1, <3>2
  <2>2. \A e \in Event : birth'[e] = birth[e] \/ birth'[e] = hour
    <3>1. CASE UNCHANGED birth
      BY <3>1
    <3>2. ASSUME NEW p \in Direct \cup Update, Post(p)
          PROVE  \A e \in Event : birth'[e] = birth[e] \/ birth'[e] = hour
      BY <3>2 DEF Post
    <3>3. ASSUME NEW f \in Flow, CreateDigest(f)
          PROVE  \A e \in Event : birth'[e] = birth[e] \/ birth'[e] = hour
      BY <3>3 DEF CreateDigest
    <3> QED
      BY RowSteps, <3>1, <3>2, <3>3 DEF PruneNotifications, ClaimCandidate, SendMail,
         CompleteEvent, ConsumeSources, ReleaseSources, FailEvent
  <2>3. birth' \in [Event -> 0..MaxHour]
    BY TypeStep
  <2> QED
    BY <2>1, <2>2, <2>3
<1>3. SourcesAreOlder'
  <2>0. SourcesAreOlder /\ BirthsArePast /\ BatchesExist /\ TypeOK
    BY DEF IInv
  <2> SUFFICES ASSUME NEW d \in Digest
               PROVE  /\ status'[d] = "absent" => sources'[d] = {}
                      /\ \A s \in sources'[d] : status'[s] # "absent" /\ birth'[s] <= birth'[d]
    BY DEF SourcesAreOlder
  <2>1. CASE sources'[d] = sources[d]
    <3>1. status'[d] = "absent" => sources'[d] = {}
      BY <2>0, <2>1, RowHistory DEF SourcesAreOlder, Event
    <3>2. ASSUME NEW s \in sources'[d] PROVE status'[s] # "absent" /\ birth'[s] <= birth'[d]
      <4>1. status[d] # "absent" /\ status[s] # "absent" /\ birth[s] <= birth[d] /\ s \in Update
        BY <2>0, <2>1, <3>2 DEF SourcesAreOlder, TypeOK
      <4> QED
        BY <4>1, RowHistory DEF Event
    <3> QED
      BY <3>1, <3>2
  <2>2. CASE sources'[d] # sources[d]
    <3>1. PICK f \in Flow : CreateDigest(f) /\ d = DigestOf(f, flow[f].user)
      <4>1. PICK f \in Flow : CreateDigest(f)
        BY <2>2, RowSteps DEF Post, PruneNotifications, ClaimCandidate, SendMail, CompleteEvent,
           ConsumeSources, ReleaseSources, FailEvent, rows
      <4> QED
        BY <2>0, <2>2, <4>1 DEF CreateDigest, TypeOK
    <3>2. sources'[d] = BatchOf(f, flow[f].user) /\ birth'[d] = hour /\ status'[d] = "queued"
      BY <2>0, <3>1 DEF CreateDigest, TypeOK, Event
    <3>3. ASSUME NEW s \in sources'[d] PROVE status'[s] # "absent" /\ birth'[s] <= birth'[d]
      <4>1. s \in Update /\ status[s] # "absent" /\ birth[s] <= hour
        BY <2>0, <3>1, <3>2, <3>3, CreateFrame DEF BatchesExist, BirthsArePast, Event
      <4> QED
        BY <3>2, <4>1, RowHistory DEF Event
    <3> QED
      BY <3>2, <3>3
  <2> QED
    BY <2>1, <2>2
<1> QED
  BY <1>1, <1>2, <1>3

(* How the status of an update changes, and on what grounds.               *)
LEMMA UpdateStatus ==
  ASSUME IInv, [Next]_vars, NEW s \in Update
  PROVE  \/ status'[s] = status[s]
         \/ status[s] = "absent" /\ status'[s] = "queued"
         \/ PruneNotifications /\ Expired(s) /\ status'[s] = "pruned"
         \/ status[s] = "processing" /\ status'[s] = "queued"
         \/ /\ status[s] = "processing" /\ status'[s] = "skipped"
            /\ \E d \in Digest : s \in sources[d] /\ emails[d] > 0
         \/ /\ status[s] = "queued" /\ status'[s] = "processing"
            /\ \E d \in Digest : s \in sources'[d] /\ status'[d] = "queued"
<1> USE ConstantsAssumption DEF IInv, TypeOK, Deliverable, Event
<1>1. CASE UNCHANGED status
  BY <1>1
<1>2. CASE (\E p \in Direct \cup Update : Post(p)) \/ PruneNotifications
  BY <1>2 DEF Post, PruneNotifications
<1>3. ASSUME NEW w \in Worker, ClaimCandidate(w) PROVE status'[s] = status[s]
  BY <1>3 DEF ClaimCandidate, CandidatesExist, Stage
<1>4. ASSUME NEW w \in Worker, SendMail(w) \/ CompleteEvent(w) \/ FailEvent(w)
      PROVE  status'[s] = status[s]
  <2>1. loop[w].job \in Deliverable
    BY <1>4 DEF SendMail, CompleteEvent, FailEvent, Stage, HeldRows, HoldingStage
  <2> QED
    BY <1>4, <2>1 DEF SendMail, CompleteEvent, FailEvent, rows
<1>5. ASSUME NEW w \in Worker, ConsumeSources(w)
      PROVE  \/ status'[s] = status[s]
             \/ /\ status[s] = "processing" /\ status'[s] = "skipped"
                /\ \E d \in Digest : s \in sources[d] /\ emails[d] > 0
  <2>1. loop[w].job \in Digest /\ emails[loop[w].job] > 0 /\ SettleParked(loop[w].job, "skipped")
    BY <1>5 DEF ConsumeSources, Stage, HeldRows, HoldingStage
  <2> QED
    BY <2>1 DEF SettleParked
<1>6. ASSUME NEW w \in Worker, ReleaseSources(w)
      PROVE  status'[s] = status[s] \/ (status[s] = "processing" /\ status'[s] = "queued")
  <2>1. SettleParked(loop[w].job, "queued")
    BY <1>6 DEF ReleaseSources
  <2> QED
    BY <2>1 DEF SettleParked
<1>7. ASSUME NEW f \in Flow, CreateDigest(f)
      PROVE  \/ status'[s] = status[s]
             \/ /\ status[s] = "queued" /\ status'[s] = "processing"
                /\ \E d \in Digest : s \in sources'[d] /\ status'[d] = "queued"
  <2> DEFINE d == DigestOf(f, flow[f].user)
  <2>1. d \in Digest /\ d # s
    BY <1>7, CreateFrame
  <2>2. status'[d] = "queued" /\ sources'[d] = BatchOf(f, flow[f].user)
    BY <1>7, <2>1 DEF CreateDigest
  <2>3. \/ status'[s] = status[s]
        \/ /\ s \in BatchOf(f, flow[f].user)
           /\ status[s] = "queued" /\ status'[s] = "processing"
    BY <1>7, <2>1 DEF CreateDigest
  <2> QED
    BY <2>1, <2>2, <2>3
<1> QED
  BY RowSteps, <1>1, <1>2, <1>3, <1>4, <1>5, <1>6, <1>7

(* Where a digest goes that exists: only retention takes it away.          *)
LEMMA DigestStays ==
  ASSUME IInv, [Next]_vars, NEW d \in Digest, Exists(d)
  PROVE  Exists(d)' \/ (PruneNotifications /\ Expired(d))
<1> USE ConstantsAssumption DEF IInv, TypeOK, Deliverable, Event, Exists
<1>1. CASE UNCHANGED status
  BY <1>1
<1>2. CASE (\E p \in Direct \cup Update : Post(p)) \/ PruneNotifications
  BY <1>2 DEF Post, PruneNotifications
<1>3. ASSUME NEW w \in Worker, ClaimCandidate(w) \/ SendMail(w) \/ CompleteEvent(w) \/ FailEvent(w)
      PROVE  Exists(d)'
  BY <1>3 DEF ClaimCandidate, SendMail, CompleteEvent, FailEvent, rows
<1>4. ASSUME NEW w \in Worker, ConsumeSources(w) \/ ReleaseSources(w) PROVE Exists(d)'
  BY <1>4 DEF ConsumeSources, ReleaseSources, SettleParked
<1>5. ASSUME NEW f \in Flow, CreateDigest(f) PROVE Exists(d)'
  BY <1>5 DEF CreateDigest
<1> QED
  BY RowSteps, <1>1, <1>2, <1>3, <1>4, <1>5

(* An update is parked together with the creation of a digest that lists   *)
(* it, and closed after the digest's mail was accepted.                    *)
LEMMA UpdatesStep ==
  ASSUME IInv, [Next]_vars PROVE ClosedUpdatesWereMailed' /\ ParkedUpdatesHaveADigest'
<1> USE ConstantsAssumption
<1>0. TypeOK /\ SourcesAreOlder /\ ClosedUpdatesWereMailed /\ ParkedUpdatesHaveADigest
  BY DEF IInv
<1>1. ASSUME NEW s \in Update, status'[s] = "skipped" PROVE Mailed(s)' # {}
  <2>1. PICK d \in Digest : s \in sources[d] /\ emails[d] > 0
    BY <1>0, <1>1, UpdateStatus DEF ClosedUpdatesWereMailed, Mailed
  <2>2. status[d] # "absent"
    BY <1>0, <2>1 DEF SourcesAreOlder
  <2>3. s \in sources'[d] /\ emails'[d] > 0
    <3>1. emails[d] \in Nat /\ emails'[d] \in Nat
      BY <1>0, TypeStep DEF TypeOK, Event
    <3> QED
      BY <2>1, <2>2, <3>1, RowHistory DEF Event
  <2> QED
    BY <2>3 DEF Mailed
<1>2. ASSUME NEW s \in Update, status'[s] = "processing"
      PROVE  \E d \in Digest : Exists(d)' /\ s \in sources'[d]
  <2>1. CASE status[s] = "processing"
    <3>1. PICK d \in Digest : Exists(d) /\ s \in sources[d]
      BY <1>0, <2>1 DEF ParkedUpdatesHaveADigest
    <3>2. s \in sources'[d]
      BY <3>1, RowHistory DEF Exists
    <3>3. ~ (PruneNotifications /\ Expired(d))
      <4>1. birth[s] <= birth[d]
        BY <1>0, <3>1 DEF SourcesAreOlder
      <4>2. PruneNotifications => ~ Expired(s)
        BY <1>0, <1>2 DEF PruneNotifications, TypeOK, Event
      <4>3. birth[s] \in Int /\ birth[d] \in Int /\ hour - Retention \in Int
        BY <1>0 DEF TypeOK, Event
      <4>4. Exists(s)
        BY <2>1 DEF Exists
      <4> QED
        BY <4>1, <4>2, <4>3, <4>4 DEF Expired
    <3> QED
      BY <3>1, <3>2, <3>3, DigestStays
  <2>2. CASE status[s] # "processing"
    BY <1>2, <2>2, UpdateStatus DEF Exists
  <2> QED
    BY <2>1, <2>2
<1> QED
  BY <1>1, <1>2 DEF ClosedUpdatesWereMailed, ParkedUpdatesHaveADigest

(* The parts together: the invariant is inductive.                         *)
LEMMA IInvInductive == IInv /\ [Next]_vars => IInv'
<1> SUFFICES ASSUME IInv, [Next]_vars PROVE IInv'
  OBVIOUS
<1>1. TypeOK' /\ AttemptsLeft' /\ BoundedDelivery'
  BY TypeStep, AttemptsStep
<1>2. CandidatesExist' /\ HeldRows' /\ ExclusiveDelivery'
  BY CandidatesStep, HeldStep, ExclusiveStep
<1>3. BatchesExist' /\ BirthsArePast' /\ SourcesAreOlder'
  BY AgeStep
<1>4. ClosedUpdatesWereMailed' /\ ParkedUpdatesHaveADigest'
  BY UpdatesStep
<1> QED
  BY <1>1, <1>2, <1>3, <1>4 DEF IInv

(* It holds in every reachable state.                                      *)
LEMMA Invariance == Spec => []IInv
BY InitIInv, IInvInductive, PTL DEF Spec

(* The tables and the workers' local states keep their types.              *)
THEOREM TypeCorrect == Spec => []TypeOK
<1>1. IInv => TypeOK
  BY DEF IInv
<1> QED
  BY <1>1, Invariance, PTL

(* Any number of workers, dying, restarting and losing statements as they  *)
(* may: an event is in the hands of at most one of them.                   *)
THEOREM DeliveryIsExclusive == Spec => []ExclusiveDelivery
<1>1. IInv => ExclusiveDelivery
  BY DEF IInv
<1> QED
  BY <1>1, Invariance, PTL

(* No event is mailed more often than MAX_ATTEMPTS, whatever fails.        *)
THEOREM DeliveryIsBounded == Spec => []BoundedDelivery
<1>1. IInv => BoundedDelivery
  BY DEF IInv
<1> QED
  BY <1>1, Invariance, PTL

(* An update is closed as batched only after a digest listing it was       *)
(* accepted by the mail host.                                              *)
THEOREM NoUpdateIsLostByClosing == Spec => []ClosedUpdatesWereMailed
<1>1. IInv => ClosedUpdatesWereMailed
  BY DEF IInv
<1> QED
  BY <1>1, Invariance, PTL

(* Retention never deletes the digest that holds an update and leaves the  *)
(* update parked: the update is older and goes first.                      *)
THEOREM ParkedUpdatesKeepTheirDigest == Spec => []ParkedUpdatesHaveADigest
<1>1. IInv => ParkedUpdatesHaveADigest
  BY DEF IInv
<1> QED
  BY <1>1, Invariance, PTL

(* A mailed and closed update never returns to the buffer.                 *)
THEOREM ClosingIsFinal == Spec => ClosedUpdatesStayClosed
<1> DEFINE Stay == \A s \in Update : status[s] = "skipped" => status'[s] \in {"skipped", "pruned"}
<1>1. IInv /\ [Next]_vars => [Stay]_vars
  BY UpdateStatus
<1> QED
  BY <1>1, Invariance, PTL DEF Spec, ClosedUpdatesStayClosed

(* The ledger's view of the rows.                                          *)
LedgerPlace == [s \in Update |-> PlaceOf(s)]
LedgerMailed == {s \in Update : Mailed(s) # {}}

(* Which status puts an update where.                                      *)
LEMMA Places ==
  ASSUME NEW s \in Update
  PROVE  /\ PlaceOf(s) = "none" <=> status[s] = "absent"
         /\ status[s] = "queued" => PlaceOf(s) = "buffered"
         /\ status[s] = "processing" => PlaceOf(s) = "parked"
         /\ status[s] = "skipped" => PlaceOf(s) = "closed"
         /\ status[s] = "pruned" => PlaceOf(s) = "deleted"
BY DEF PlaceOf

(* No update has a row and nothing has been mailed.                        *)
LEMMA LedgerInit == Init => Ledger!Init
<1> SUFFICES ASSUME Init PROVE Ledger!Init
  OBVIOUS
<1>1. \A s \in Update : PlaceOf(s) = "none"
  BY Places DEF Init, Event
<1>2. LedgerMailed = {}
  BY DEF Init, LedgerMailed, Mailed
<1> QED
  BY <1>1, <1>2 DEF Ledger!Init, LedgerMailed

(* A step that leaves the rows of updates alone and sends no digest.       *)
LEMMA LedgerStutters ==
  ASSUME \A s \in Update : status'[s] = status[s],
         \A d \in Digest : sources'[d] = sources[d] /\ emails'[d] = emails[d]
  PROVE  LedgerPlace' = LedgerPlace /\ LedgerMailed' = LedgerMailed
<1>1. \A s \in Update : PlaceOf(s)' = PlaceOf(s)
  BY DEF PlaceOf
<1>2. \A s \in Update : Mailed(s)' = Mailed(s)
  BY DEF Mailed
<1> QED
  BY <1>1, <1>2 DEF LedgerPlace, LedgerMailed

(* A step that moves a set of updates, and sends no digest.                *)
LEMMA LedgerMoves ==
  ASSUME NEW S \in SUBSET Update, NEW from, NEW to,
         \A s \in S : PlaceOf(s) \in from /\ PlaceOf(s)' = to,
         \A s \in Update \ S : PlaceOf(s)' = PlaceOf(s)
  PROVE  Ledger!Move(S, from, to)
<1>2. \A s \in S : LedgerPlace[s] \in from
  BY DEF LedgerPlace
<1>3. LedgerPlace' = [s \in Update |-> IF s \in S THEN to ELSE LedgerPlace[s]]
  BY DEF LedgerPlace
<1> QED
  BY <1>2, <1>3 DEF Ledger!Move, LedgerPlace

(* Every step of the outbox is a step of the ledger, or none.              *)
LEMMA LedgerStep == IInv /\ [Next]_vars => [Ledger!Next]_(Ledger!ledger)
<1> SUFFICES ASSUME IInv, [Next]_vars
             PROVE  Ledger!Next \/ (LedgerPlace' = LedgerPlace /\ LedgerMailed' = LedgerMailed)
  BY DEF Ledger!ledger, LedgerPlace, LedgerMailed
<1> DEFINE Same == LedgerPlace' = LedgerPlace /\ LedgerMailed' = LedgerMailed
<1> USE ConstantsAssumption
<1>0. TypeOK /\ HeldRows /\ BoundedDelivery /\ AttemptsLeft /\ SourcesAreOlder
  BY DEF IInv
<1>1. CASE UNCHANGED <<status, attempts, birth, sources, emails>>
  <2>1. Same
    BY <1>1, LedgerStutters
  <2> QED
    BY <2>1
<1>2. ASSUME NEW p \in Direct \cup Update, Post(p) PROVE Ledger!Next \/ Same
  <2>1. UNCHANGED <<sources, emails>>
    BY <1>2 DEF Post
  <2>2. CASE p \in Direct
    <3>1. \A s \in Update : status'[s] = status[s]
      BY <1>0, <1>2, <2>2 DEF Post, TypeOK, Event
    <3> QED
      BY <2>1, <3>1, LedgerStutters
  <2>3. CASE p \in Update
    <3>1. PlaceOf(p) = "none" /\ PlaceOf(p)' = "buffered"
      <4>1. status[p] = "absent" /\ status'[p] = "queued"
        BY <1>0, <1>2, <2>3 DEF Post, TypeOK, Event
      <4> QED
        BY <4>1, <2>3 DEF PlaceOf
    <3>2. \A s \in Update \ {p} : PlaceOf(s)' = PlaceOf(s)
      <4>1. \A s \in Update \ {p} : status'[s] = status[s]
        BY <1>0, <1>2, <2>3 DEF Post, TypeOK, Event
      <4> QED
        BY <4>1 DEF PlaceOf
    <3>3. Ledger!Move({p}, {"none"}, "buffered")
      BY <2>3, <3>1, <3>2, LedgerMoves
    <3>4. LedgerMailed' = LedgerMailed
      BY <2>1 DEF LedgerMailed, Mailed
    <3> QED
      BY <2>3, <3>3, <3>4 DEF Ledger!Next, Ledger!Arrive, LedgerMailed
  <2> QED
    BY <2>2, <2>3
<1>3. CASE PruneNotifications
  <2> DEFINE S == {s \in Update : Expired(s) /\ PlaceOf(s) # "deleted"}
  <2>1. \A s \in Update : status'[s] = IF Expired(s) THEN "pruned" ELSE status[s]
    BY <1>3 DEF PruneNotifications, Event
  <2>2. \A s \in S : PlaceOf(s) \in Ledger!Existing /\ PlaceOf(s)' = "deleted"
    <3> SUFFICES ASSUME NEW s \in S PROVE PlaceOf(s) \in Ledger!Existing /\ PlaceOf(s)' = "deleted"
      OBVIOUS
    <3>1. status[s] # "absent" /\ status'[s] = "pruned"
      BY <2>1 DEF Expired, Exists
    <3> QED
      BY <3>1 DEF PlaceOf, Ledger!Existing
  <2>3. \A s \in Update \ S : PlaceOf(s)' = PlaceOf(s)
    BY <2>1 DEF PlaceOf
  <2>4. Ledger!Move(S, Ledger!Existing, "deleted")
    BY <2>2, <2>3, LedgerMoves
  <2>5. LedgerMailed' = LedgerMailed
    BY <1>3 DEF PruneNotifications, LedgerMailed, Mailed
  <2> QED
    BY <2>4, <2>5 DEF Ledger!Next, Ledger!Delete, LedgerMailed
<1>4. ASSUME NEW w \in Worker, ClaimCandidate(w) \/ CompleteEvent(w) \/ FailEvent(w)
      PROVE  Same
  <2>1. loop[w].job \in Deliverable
    BY <1>0, <1>4 DEF ClaimCandidate, CompleteEvent, FailEvent, Stage, HeldRows, HoldingStage,
       IInv, CandidatesExist
  <2>2. \A s \in Update : status'[s] = status[s]
    BY <1>0, <1>4, <2>1 DEF ClaimCandidate, CompleteEvent, FailEvent, TypeOK, Deliverable, Event
  <2>3. UNCHANGED <<sources, emails>>
    BY <1>4 DEF ClaimCandidate, CompleteEvent, FailEvent
  <2> QED
    BY <2>2, <2>3, LedgerStutters
<1>5. ASSUME NEW w \in Worker, SendMail(w) PROVE Ledger!Next \/ Same
  <2> DEFINE e == loop[w].job
             S == IF e \in Digest THEN sources[e] ELSE {}
  <2>1. UNCHANGED <<status, sources>>
    BY <1>5 DEF SendMail, rows
  <2>2. CASE UNCHANGED emails
    BY <2>1, <2>2, LedgerStutters
  <2>3. CASE emails' = [emails EXCEPT ![e] = @ + 1]
    <3>1. LedgerPlace' = LedgerPlace
      BY <2>1 DEF LedgerPlace, PlaceOf
    <3>2. \A d \in Digest : emails[d] \in Nat /\ emails'[d] = IF d = e THEN emails[d] + 1 ELSE emails[d]
      BY <1>0, <2>3 DEF TypeOK, Event
    <3>3. S \subseteq Update /\ \A s \in S : status[s] # "absent"
      BY <1>0 DEF TypeOK, SourcesAreOlder
    <3>4. \A s \in Update : Mailed(s)' # {} <=> Mailed(s) # {} \/ s \in S
      BY <2>1, <3>2 DEF Mailed
    <3>5. LedgerMailed' = LedgerMailed \cup S
      BY <3>3, <3>4 DEF LedgerMailed
    <3>6. \A s \in S : LedgerPlace[s] # "none"
      BY <3>3, Places DEF LedgerPlace
    <3> QED
      BY <3>1, <3>3, <3>5, <3>6 DEF Ledger!Next, Ledger!Mail, LedgerPlace, LedgerMailed
  <2> QED
    BY <1>5, <2>2, <2>3 DEF SendMail
<1>6. ASSUME NEW w \in Worker, ConsumeSources(w) PROVE Ledger!Next
  <2> DEFINE d == loop[w].job
             S == {s \in sources[d] : status[s] = "processing"}
  <2>1. d \in Digest /\ emails[d] > 0 /\ SettleParked(d, "skipped")
    BY <1>0, <1>6 DEF ConsumeSources, Stage, HeldRows, HoldingStage
  <2>2. S \subseteq Update
    BY <1>0, <2>1 DEF TypeOK
  <2>3. \A s \in S : PlaceOf(s) \in {"parked"} /\ PlaceOf(s)' = "closed"
    BY <2>1, <2>2 DEF SettleParked, PlaceOf, Event
  <2>4. \A s \in Update \ S : PlaceOf(s)' = PlaceOf(s)
    BY <2>1 DEF SettleParked, PlaceOf, Event
  <2>5. Ledger!Move(S, {"parked"}, "closed")
    BY <2>2, <2>3, <2>4, LedgerMoves
  <2>6. S \subseteq LedgerMailed
    BY <2>1, <2>2 DEF LedgerMailed, Mailed
  <2>7. LedgerMailed' = LedgerMailed
    BY <1>6 DEF ConsumeSources, LedgerMailed, Mailed
  <2> QED
    BY <2>2, <2>5, <2>6, <2>7 DEF Ledger!Next, Ledger!Close, LedgerMailed
<1>7. ASSUME NEW w \in Worker, ReleaseSources(w) PROVE Ledger!Next
  <2> DEFINE d == loop[w].job
             S == {s \in sources[d] : status[s] = "processing"}
  <2>1. d \in Digest /\ SettleParked(d, "queued")
    BY <1>0, <1>7 DEF ReleaseSources, Stage, HeldRows, HoldingStage
  <2>2. S \subseteq Update
    BY <1>0, <2>1 DEF TypeOK
  <2>3. \A s \in S : PlaceOf(s) \in {"parked"} /\ PlaceOf(s)' = "buffered"
    BY <2>1, <2>2 DEF SettleParked, PlaceOf, Event
  <2>4. \A s \in Update \ S : PlaceOf(s)' = PlaceOf(s)
    BY <2>1 DEF SettleParked, PlaceOf, Event
  <2>5. Ledger!Move(S, {"parked"}, "buffered")
    BY <2>2, <2>3, <2>4, LedgerMoves
  <2>6. LedgerMailed' = LedgerMailed
    BY <1>7 DEF ReleaseSources, LedgerMailed, Mailed
  <2> QED
    BY <2>2, <2>5, <2>6 DEF Ledger!Next, Ledger!Release, LedgerMailed
<1>8. ASSUME NEW f \in Flow, CreateDigest(f) PROVE Ledger!Next
  <2> DEFINE d == DigestOf(f, flow[f].user)
             S == {s \in BatchOf(f, flow[f].user) : status[s] = "queued"}
  <2>1. d \in Digest /\ S \subseteq Update
    BY <1>8, CreateFrame
  <2>2. \A s \in Update : s # d /\ status'[s] = IF s \in S THEN "processing" ELSE status[s]
    BY <1>8, <2>1 DEF CreateDigest, Event
  <2>3. \A s \in S : PlaceOf(s) \in {"buffered"} /\ PlaceOf(s)' = "parked"
    BY <2>1, <2>2 DEF PlaceOf
  <2>4. \A s \in Update \ S : PlaceOf(s)' = PlaceOf(s)
    BY <2>2 DEF PlaceOf
  <2>5. Ledger!Move(S, {"buffered"}, "parked")
    BY <2>1, <2>3, <2>4, LedgerMoves
  <2>6. emails[d] = 0 /\ emails' = emails
    BY <1>0, <1>8, <2>1 DEF CreateDigest, KeyTaken, BoundedDelivery, AttemptsLeft, TypeOK, Event,
       Deliverable
  <2>7. \A c \in Digest : c # d => sources'[c] = sources[c]
    BY <1>0, <1>8 DEF CreateDigest, TypeOK
  <2>8. LedgerMailed' = LedgerMailed
    <3>1. \A s \in Update : Mailed(s)' = Mailed(s)
      BY <2>6, <2>7 DEF Mailed
    <3> QED
      BY <3>1 DEF LedgerMailed
  <2> QED
    BY <2>1, <2>5, <2>8 DEF Ledger!Next, Ledger!Park, LedgerMailed
<1> QED
  BY RowSteps, <1>1, <1>2, <1>3, <1>4, <1>5, <1>6, <1>7, <1>8

(* The outbox, with any number of workers and under every fault of the     *)
(* model, implements the ledger of updates.                                *)
THEOREM OutboxImplementsLedger == Spec => ImplementsLedger
BY LedgerInit, LedgerStep, Invariance, PTL DEF Spec, ImplementsLedger, Ledger!Spec

-----------------------------------------------------------------------------
(***************************************************************************)
(* What holds as long as certain mishaps have not happened: theorems about *)
(* QueueHistory.                                                           *)
(***************************************************************************)

(* A worker that holds an event and has met no failing statement knows how *)
(* far the event is, unless retention has deleted it.                      *)
StagesFit ==
  "db" \notin mishaps =>
    \A w \in Worker : loop[w].pc \in HoldingStage =>
      LET stage == loop[w].pc
          now == status[loop[w].job]
      IN \/ now = "pruned"
         \/ stage \in {"claimed", "sending", "accepted", "skipping", "failing", "retrying"}
              /\ now = "processing"
         \/ stage \in {"consuming", "auditing"} /\ now = "sent"
         \/ stage \in {"releasing", "auditing"} /\ now = "skipped"
         \/ stage = "surrendering" /\ now = "failed"

(* An accepted mail is the only one of its event, and its worker is past   *)
(* sending it.                                                             *)
EachIsMailedOnce ==
  mishaps = {} => \A e \in Event : emails[e] # 0 =>
    /\ e \in Deliverable
    /\ emails[e] = 1
    /\ status[e] \in {"processing", "sent", "pruned"}
    /\ \A w \in Worker : Holds(w, e) =>
         \/ loop[w].pc \in {"accepted", "consuming", "auditing"}
         \/ loop[w].pc \in {"failing", "retrying"} /\ status[e] = "pruned"

(* Passes that run at the same time have the same windows, and batches of  *)
(* one kind only for every user.                                           *)
PassesAgree ==
  mishaps \cap {"slow_pass", "toggle"} = {} =>
    \A f \in Flow : flow[f].stage # "off" =>
      /\ flow[f].window \in IF f[2] = "daily" THEN DailyWindow(hour) ELSE {hour}
      /\ flow[f].stage = "buffered" => flow[f].users \subseteq OnRate(f[2])
      /\ \A s \in flow[f].batch : recipientOf[s] \in OnRate(f[2])

(* The digest was not mailed and never will be.                            *)
Over(d) ==
  /\ status[d] \in {"skipped", "failed", "pruned"}
  /\ emails[d] = 0
  /\ \A w \in Worker : Holds(w, d) => loop[w].pc = "auditing"

(* Whatever lists an update that is still, or again, to be batched is over *)
(* and done with, ...                                                      *)
QueuedIsFree ==
  mishaps = {} =>
    \A s \in Update, d \in Digest : status[s] = "queued" /\ s \in sources[d] => Over(d)

(* ... also while a pass has it in its batch and has not made the digest   *)
(* (nor found it made by another pass), ...                                *)
BatchIsFree ==
  mishaps = {} =>
    \A f \in Flow : \A s \in flow[f].batch :
      flow[f].stage # "off" /\ ~ KeyTaken(DigestOf(f, recipientOf[s])) =>
        /\ status[s] \in {"queued", "pruned"}
        /\ \A d \in Digest : s \in sources[d] => Over(d)

(* ... so that at most one digest that lists an update can be mailed.      *)
OneListCounts ==
  mishaps = {} =>
    \A s \in Update, c, d \in Digest :
      s \in sources[c] /\ s \in sources[d] /\ c # d => Over(c) \/ Over(d)

HInv ==
  /\ IInv
  /\ StagesFit
  /\ EachIsMailedOnce
  /\ PassesAgree
  /\ QueuedIsFree
  /\ BatchIsFree
  /\ OneListCounts

(* No rows, no mails, no passes: the invariant holds at the start.         *)
LEMMA InitHInv == HistoryInit => HInv
<1> SUFFICES ASSUME Init, mishaps = {} PROVE HInv
  BY DEF HistoryInit
<1>1. IInv
  BY InitIInv
<1>2. /\ \A w \in Worker : loop[w].pc \notin HoldingStage
      /\ \A f \in Flow : flow[f].stage = "off" /\ flow[f].batch = {}
      /\ \A e \in Event : emails[e] = 0
      /\ \A d \in Digest : sources[d] = {}
  BY DEF Init, Resting, At, HoldingStage, Off, Pass
<1>3. StagesFit /\ EachIsMailedOnce /\ PassesAgree
  BY <1>2 DEF StagesFit, EachIsMailedOnce, PassesAgree
<1>4. QueuedIsFree /\ BatchIsFree /\ OneListCounts
  BY <1>2 DEF QueuedIsFree, BatchIsFree, OneListCounts
<1> QED
  BY <1>1, <1>3, <1>4 DEF HInv

(* A step of the history is one of the outbox, and what was not recorded   *)
(* did not happen.                                                         *)
LEMMA Recorded ==
  ASSUME IInv, [HistoryNext]_<<vars, mishaps>>
  PROVE  /\ [Next]_vars
         /\ mishaps \subseteq mishaps'
         /\ "db" \notin mishaps' => \A w \in Worker : ~ DatabaseError(w)
         /\ "slow_pass" \notin mishaps' => hour' = hour \/ ~ PassRunning
         /\ "toggle" \notin mishaps' => digestOn' = digestOn \/ ~ PassRunning
         /\ "late_error" \notin mishaps' =>
              \/ emails' = emails
              \/ \A w \in Worker : ~ (loop[w].pc = "sending" /\ loop'[w].pc = "failing")
<1>1. CASE UNCHANGED <<vars, mishaps>>
  <2>1. \A w \in Worker : ~ DatabaseError(w)
    <3>1. ASSUME NEW w \in Worker, DatabaseError(w) PROVE FALSE
      <4>1. loop[w].pc # "failing" /\ loop'[w].pc = "failing"
        BY <3>1 DEF DatabaseError, HoldingStage, Goto, At, IInv, TypeOK
      <4> QED
        BY <1>1, <4>1 DEF vars
    <3> QED
      BY <3>1
  <2> QED
    BY <1>1, <2>1 DEF vars
<1>2. CASE HistoryNext
  <2>1. Next /\ mishaps' = mishaps \cup Mishaps
    BY <1>2 DEF HistoryNext
  <2>2. (\E w \in Worker : DatabaseError(w)) => "db" \in Mishaps
    BY DEF Mishaps
  <2>3. hour' # hour /\ PassRunning => "slow_pass" \in Mishaps
    BY DEF Mishaps
  <2>4. digestOn' # digestOn /\ PassRunning => "toggle" \in Mishaps
    BY DEF Mishaps
  <2>5. emails' # emails /\ (\E w \in Worker : loop[w].pc = "sending" /\ loop'[w].pc = "failing")
          => "late_error" \in Mishaps
    BY DEF Mishaps
  <2> QED
    BY <2>1, <2>2, <2>3, <2>4, <2>5
<1> QED
  BY <1>1, <1>2

(* How the row of a deliverable event changes, and by whom.                *)
LEMMA DeliverableStatus ==
  ASSUME IInv, [Next]_vars, NEW e \in Deliverable
  PROVE  \/ status'[e] = status[e]
         \/ status[e] = "absent" /\ status'[e] = "queued"
         \/ status[e] # "absent" /\ status'[e] = "pruned"
         \/ status[e] = "queued" /\ status'[e] = "processing"
         \/ \E w \in Worker :
              \/ CompleteEvent(w) /\ Holds(w, e) /\ Exists(e)
                   /\ \/ loop[w].pc = "accepted" /\ status'[e] = "sent"
                      \/ loop[w].pc = "skipping" /\ status'[e] = "skipped"
              \/ FailEvent(w) /\ Holds(w, e) /\ loop[w].pc = "retrying" /\ Exists(e)
                   /\ status'[e] \in {"failed", "queued"}
<1> USE ConstantsAssumption DEF IInv, TypeOK, Deliverable, Event
<1>1. CASE UNCHANGED status
  BY <1>1
<1>2. CASE (\E p \in Direct \cup Update : Post(p)) \/ PruneNotifications
  BY <1>2 DEF Post, PruneNotifications, Expired, Exists
<1>3. ASSUME NEW w \in Worker, ClaimCandidate(w)
      PROVE  status'[e] = status[e] \/ (status[e] = "queued" /\ status'[e] = "processing")
  BY <1>3 DEF ClaimCandidate, ClaimMatches, CandidatesExist, Stage
<1>4. ASSUME NEW w \in Worker, CompleteEvent(w)
      PROVE  \/ status'[e] = status[e]
             \/ /\ Holds(w, e) /\ Exists(e)
                /\ \/ loop[w].pc = "accepted" /\ status'[e] = "sent"
                   \/ loop[w].pc = "skipping" /\ status'[e] = "skipped"
  BY <1>4 DEF CompleteEvent, Stage, Holds, HoldingStage
<1>5. ASSUME NEW w \in Worker, FailEvent(w)
      PROVE  \/ status'[e] = status[e]
             \/ /\ Holds(w, e) /\ loop[w].pc = "retrying" /\ Exists(e)
                /\ status'[e] \in {"failed", "queued"}
  BY <1>5 DEF FailEvent, Stage, Holds, HoldingStage
<1>6. ASSUME NEW w \in Worker, ConsumeSources(w) \/ ReleaseSources(w)
      PROVE  status'[e] = status[e]
  <2>1. loop[w].job \in Digest /\ \E to \in {"skipped", "queued"} : SettleParked(loop[w].job, to)
    BY <1>6 DEF ConsumeSources, ReleaseSources, HeldRows, Stage, HoldingStage
  <2> QED
    BY <2>1, SettleFrame
<1>7. ASSUME NEW f \in Flow, CreateDigest(f)
      PROVE  status'[e] = status[e] \/ (status[e] = "absent" /\ status'[e] = "queued")
  BY <1>7, CreateFrame DEF CreateDigest, KeyTaken
<1> QED
  BY RowSteps, <1>1, <1>2, <1>3, <1>4, <1>5, <1>6, <1>7 DEF SendMail, rows

(* Whoever holds an event has held it before or claims it now.             *)
LEMMA HolderBefore ==
  ASSUME IInv, [Next]_vars, NEW x \in Worker, NEW e, Holds(x, e)'
  PROVE  \/ Holds(x, e)
         \/ ClaimCandidate(x) /\ loop[x].job = e /\ status[e] = "queued" /\ loop'[x].pc = "claimed"
<1>0. loop \in [Worker -> LoopState]
  BY DEF IInv, TypeOK
<1>1. CASE loop'[x] = loop[x]
  BY <1>1 DEF Holds
<1>2. CASE loop'[x] # loop[x] /\ ClaimCandidate(x)
  BY <1>0, <1>2 DEF ClaimCandidate, ClaimMatches, Holds, Goto, Rest, Resting, At, HoldingStage
<1>3. CASE loop'[x] # loop[x] /\ ~ ClaimCandidate(x)
  <2>1. OwnStep(x)
    BY <1>3, OwnSteps DEF Holds
  <2>2. loop'[x].job = loop[x].job
    BY <1>0, <1>3, <2>1 DEF Holds, OwnStep, Inspect, SendMail, CompleteEvent, ConsumeSources,
         ReleaseSources, DatabaseError, ReadFailedEvent, FailEvent, Goto, Rest, Resting, At,
         HoldingStage
  <2>3. loop[x].pc \in HoldingStage
    BY <1>3, <2>1 DEF OwnStep, Inspect, SendMail, CompleteEvent, ConsumeSources, ReleaseSources,
         DatabaseError, ReadFailedEvent, FailEvent, Stage, HoldingStage
  <2> QED
    BY <2>2, <2>3 DEF Holds
<1> QED
  BY <1>1, <1>2, <1>3

(* How a holder moves on, as long as no statement of its own fails.        *)
LEMMA HolderMoves ==
  ASSUME IInv, [Next]_vars, NEW x \in Worker, NEW e \in Deliverable, Holds(x, e), Holds(x, e)',
         ~ DatabaseError(x)
  PROVE  \/ loop'[x].pc = loop[x].pc
         \/ loop[x].pc = "claimed" /\ loop'[x].pc \in {"skipping", "sending"} /\ UNCHANGED status
         \/ SendMail(x) /\ loop'[x].pc \in {"accepted", "failing"} /\ UNCHANGED status
         \/ /\ loop[x].pc = "accepted" /\ loop'[x].pc \in {"consuming", "auditing"}
            /\ status'[e] = "sent"
         \/ /\ loop[x].pc = "skipping" /\ loop'[x].pc \in {"releasing", "auditing"}
            /\ status'[e] = "skipped"
         \/ /\ loop[x].pc \in {"accepted", "skipping"} /\ loop'[x].pc = "failing"
            /\ ~ Exists(e) /\ UNCHANGED status
         \/ /\ loop[x].pc \in {"consuming", "releasing"} /\ loop'[x].pc = "auditing"
            /\ status'[e] = status[e]
         \/ loop[x].pc = "failing" /\ loop'[x].pc = "retrying" /\ UNCHANGED status
         \/ /\ loop[x].pc = "retrying" /\ loop'[x].pc = "surrendering"
            /\ Exists(e) /\ status'[e] = "failed"
<1>0. loop \in [Worker -> LoopState] /\ status \in [Event -> Status] /\ e \in Event
  BY DEF IInv, TypeOK, Deliverable, Event
<1>1. CASE loop'[x] = loop[x]
  BY <1>1
<1>2. CASE loop'[x] # loop[x]
  <2> USE DEF Holds, Stage, Goto, Rest, Resting, At, HoldingStage
  <2>0. OwnStep(x)
    BY <1>2, OwnSteps
  <2>1. ~ ClaimCandidate(x)
    BY DEF ClaimCandidate
  <2>2. CASE Inspect(x)
    BY <1>0, <2>2 DEF Inspect, rows
  <2>3. CASE SendMail(x)
    BY <1>0, <2>3 DEF SendMail, rows
  <2>4. CASE CompleteEvent(x)
    BY <1>0, <2>4 DEF CompleteEvent
  <2>5. CASE ConsumeSources(x) \/ ReleaseSources(x)
    <3>1. loop[x].job \in Digest /\ \E to \in {"skipped", "queued"} : SettleParked(loop[x].job, to)
      BY <2>5 DEF ConsumeSources, ReleaseSources, IInv, HeldRows
    <3>2. status'[e] = status[e]
      BY <3>1, SettleFrame
    <3> QED
      BY <1>0, <2>5, <3>2 DEF ConsumeSources, ReleaseSources
  <2>6. CASE ReadFailedEvent(x)
    BY <1>0, <2>6 DEF ReadFailedEvent, rows
  <2>7. CASE FailEvent(x)
    BY <1>0, <2>7 DEF FailEvent
  <2> QED
    BY <2>0, <2>1, <2>2, <2>3, <2>4, <2>5, <2>6, <2>7 DEF OwnStep
<1> QED
  BY <1>1, <1>2

(* The row of a held event changes by its holder's steps and by retention. *)
LEMMA HeldStatus ==
  ASSUME IInv, [Next]_vars, NEW x \in Worker, NEW e \in Deliverable, Holds(x, e), Holds(x, e)',
         ~ DatabaseError(x), loop'[x].pc = loop[x].pc
  PROVE  status'[e] \in {status[e], "pruned"}
<1>0. status[e] \notin {"absent", "queued"}
  BY DEF IInv, HeldRows, Holds
<1>1. ASSUME NEW w \in Worker, CompleteEvent(w) \/ FailEvent(w), Holds(w, e) PROVE FALSE
  <2>1. w = x
    BY <1>1 DEF IInv, ExclusiveDelivery
  <2>2. loop \in [Worker -> LoopState]
    BY DEF IInv, TypeOK
  <2> QED
    BY <1>1, <2>1, <2>2 DEF CompleteEvent, FailEvent, Holds, Stage, Goto, Rest, Resting, At, HoldingStage
<1> QED
  BY <1>0, <1>1, DeliverableStatus

(* Stage and row stay in step.                                             *)
LEMMA StagesStep ==
  ASSUME HInv, [HistoryNext]_<<vars, mishaps>> PROVE StagesFit'
<1>0. IInv /\ [Next]_vars /\ IInv'
  BY Recorded, IInvInductive DEF HInv
<1> DEFINE Fits(stage, now) ==
     \/ now = "pruned"
     \/ stage \in {"claimed", "sending", "accepted", "skipping", "failing", "retrying"}
          /\ now = "processing"
     \/ stage \in {"consuming", "auditing"} /\ now = "sent"
     \/ stage \in {"releasing", "auditing"} /\ now = "skipped"
     \/ stage = "surrendering" /\ now = "failed"
<1> SUFFICES ASSUME "db" \notin mishaps', NEW x \in Worker, NEW e, Holds(x, e)'
             PROVE  Fits(loop'[x].pc, status'[e])
  BY DEF StagesFit, Holds
<1>1. e \in Deliverable /\ ~ DatabaseError(x) /\ "db" \notin mishaps
  BY <1>0, Recorded DEF IInv, HeldRows, Holds
<1>2. CASE Holds(x, e)
  <2>1. Fits(loop[x].pc, status[e])
    BY <1>1, <1>2 DEF HInv, StagesFit, Holds
  <2>2. CASE loop'[x].pc = loop[x].pc
    BY <1>0, <1>1, <1>2, <2>1, <2>2, HeldStatus
  <2>3. status[e] \in Status /\ (~ Exists(e) => status[e] \in {"absent", "pruned"})
    BY <1>0, <1>1 DEF IInv, TypeOK, Deliverable, Event, Exists
  <2>4. status[e] # "absent" /\ (SendMail(x) => loop[x].pc = "sending")
    BY <1>0, <1>2 DEF IInv, HeldRows, Holds, SendMail, Stage
  <2>5. CASE loop'[x].pc # loop[x].pc
    BY <1>0, <1>1, <1>2, <2>1, <2>3, <2>4, <2>5, HolderMoves
  <2> QED
    BY <2>2, <2>5
<1>3. CASE ~ Holds(x, e)
  <2>1. ClaimCandidate(x) /\ loop[x].job = e /\ status[e] = "queued" /\ loop'[x].pc = "claimed"
    BY <1>0, <1>1, <1>3, HolderBefore
  <2>2. status'[e] = "processing"
    BY <1>0, <1>1, <2>1 DEF ClaimCandidate, ClaimMatches, IInv, TypeOK, Deliverable, Event, Goto, Rest, Resting, At
  <2> QED
    BY <2>1, <2>2
<1> QED
  BY <1>2, <1>3

(* A mail is counted by the worker that sends it, and nobody sends what    *)
(* has been sent.                                                          *)
LEMMA MailsStep ==
  ASSUME HInv, [HistoryNext]_<<vars, mishaps>> PROVE EachIsMailedOnce'
<1>0. /\ IInv /\ [Next]_vars /\ IInv' /\ StagesFit'
      /\ loop \in [Worker -> LoopState] /\ emails \in [Event -> Nat]
      /\ status \in [Event -> Status]
  BY Recorded, IInvInductive, StagesStep DEF HInv, IInv, TypeOK
<1> SUFFICES ASSUME mishaps' = {}, NEW e \in Event, emails'[e] # 0
             PROVE  /\ e \in Deliverable
                    /\ emails'[e] = 1
                    /\ status'[e] \in {"processing", "sent", "pruned"}
                    /\ \A x \in Worker : Holds(x, e)' =>
                         \/ loop'[x].pc \in {"accepted", "consuming", "auditing"}
                         \/ loop'[x].pc \in {"failing", "retrying"} /\ status'[e] = "pruned"
  BY DEF EachIsMailedOnce
<1>1. mishaps = {} /\ \A w \in Worker : ~ DatabaseError(w)
  BY <1>0, Recorded
<1>2. CASE emails'[e] # emails[e]
  <2>1. PICK w \in Worker : SendMail(w) /\ loop[w].job = e /\ emails' = [emails EXCEPT ![e] = @ + 1]
    <3>1. PICK w \in Worker : SendMail(w)
      BY <1>0, <1>2, RowSteps DEF Post, PruneNotifications, ClaimCandidate, CompleteEvent,
         ConsumeSources, ReleaseSources, FailEvent, CreateDigest
    <3>2. emails' = [emails EXCEPT ![loop[w].job] = @ + 1]
      BY <1>2, <3>1 DEF SendMail
    <3> QED
      BY <1>0, <1>2, <3>1, <3>2
  <2>2. Holds(w, e) /\ loop[w].pc = "sending" /\ e \in Deliverable
    BY <1>0, <2>1 DEF SendMail, Stage, Holds, HoldingStage, IInv, HeldRows
  <2>3. emails[e] = 0
    BY <1>1, <2>2 DEF HInv, EachIsMailedOnce
  <2>4. emails'[e] = 1
    BY <1>0, <2>1, <2>3
  <2>5. Holds(w, e)' /\ loop'[w].pc = "accepted"
    <3>1. emails' # emails
      BY <1>2
    <3>2. loop'[w].pc # "failing"
      BY <1>0, <1>1, <2>2, <3>1, Recorded
    <3> QED
      BY <1>0, <2>1, <2>2, <3>1, <3>2 DEF SendMail, Goto, At, Holds, HoldingStage
  <2>6. status'[e] \in {"processing", "pruned"}
    BY <1>0, <2>5 DEF StagesFit, Holds
  <2>7. \A x \in Worker : Holds(x, e)' => x = w
    BY <1>0, <2>2, <2>5 DEF IInv, ExclusiveDelivery
  <2> QED
    BY <2>2, <2>4, <2>5, <2>6, <2>7
<1>3. CASE emails'[e] = emails[e]
  <2>1. /\ e \in Deliverable
        /\ emails[e] = 1
        /\ status[e] \in {"processing", "sent", "pruned"}
        /\ \A x \in Worker : Holds(x, e) =>
             \/ loop[x].pc \in {"accepted", "consuming", "auditing"}
             \/ loop[x].pc \in {"failing", "retrying"} /\ status[e] = "pruned"
    BY <1>1, <1>3 DEF HInv, EachIsMailedOnce
  <2>3. status'[e] \in {"processing", "sent", "pruned"} /\ (status[e] = "pruned" => status'[e] = "pruned")
    <3>1. \A w \in Worker : Holds(w, e) /\ Exists(e) => loop[w].pc \notin {"skipping", "retrying"}
      BY <2>1 DEF Exists
    <3>2. status[e] = "pruned" => ~ Exists(e)
      BY DEF Exists
    <3> QED
      BY <1>0, <2>1, <3>1, <3>2, DeliverableStatus
  <2>4. ASSUME NEW x \in Worker, Holds(x, e)'
        PROVE  \/ loop'[x].pc \in {"accepted", "consuming", "auditing"}
               \/ loop'[x].pc \in {"failing", "retrying"} /\ status'[e] = "pruned"
    <3>1. Holds(x, e)
      BY <1>0, <2>1, <2>4, HolderBefore
    <3>2. SendMail(x) => loop[x].pc = "sending"
      BY DEF SendMail, Stage
    <3>3. ~ Exists(e) => status[e] = "pruned"
      BY <2>1 DEF Exists
    <3>4. status[e] = "pruned" => ~ Exists(e)
      BY DEF Exists
    <3> QED
      BY <1>0, <1>1, <2>1, <2>3, <2>4, <3>1, <3>2, <3>3, <3>4, HolderMoves
  <2> QED
    BY <1>3, <2>1, <2>3, <2>4
<1> QED
  BY <1>2, <1>3

(* What is over and done with stays so.                                    *)
LEMMA OverStays ==
  ASSUME HInv, [HistoryNext]_<<vars, mishaps>>, mishaps' = {}, NEW d \in Digest, Over(d)
  PROVE  Over(d)'
<1>0. /\ IInv /\ [Next]_vars /\ mishaps = {} /\ d \in Deliverable
      /\ emails \in [Event -> Nat] /\ d \in Event
      /\ \A w \in Worker : ~ DatabaseError(w)
  BY Recorded DEF HInv, IInv, TypeOK, Deliverable, Event
<1>1. /\ status[d] \in {"skipped", "failed", "pruned"} /\ emails[d] = 0
      /\ \A w \in Worker : Holds(w, d) => loop[w].pc = "auditing"
  BY DEF Over
<1>2. status'[d] \in {"skipped", "failed", "pruned"}
  BY <1>0, <1>1, DeliverableStatus
<1>3. emails'[d] = 0
  <2>1. ASSUME NEW w \in Worker, SendMail(w) PROVE emails'[d] = emails[d]
    <3>1. loop[w].job # d
      BY <1>1, <2>1 DEF SendMail, Stage, Holds, HoldingStage
    <3> QED
      BY <1>0, <2>1, <3>1 DEF SendMail
  <2> QED
    BY <1>0, <1>1, <2>1, RowSteps DEF Post, PruneNotifications, ClaimCandidate, CompleteEvent,
       ConsumeSources, ReleaseSources, FailEvent, CreateDigest
<1>4. ASSUME NEW w \in Worker, Holds(w, d)' PROVE loop'[w].pc = "auditing"
  <2>1. Holds(w, d)
    BY <1>0, <1>1, <1>4, HolderBefore
  <2> QED
    BY <1>0, <1>1, <1>4, <2>1, HolderMoves DEF SendMail, Stage
<1> QED
  BY <1>2, <1>3, <1>4 DEF Over

(* A list that names an update it did not name before is the batch of a    *)
(* digest that is created.                                                 *)
LEMMA NewLists ==
  ASSUME IInv, [Next]_vars, NEW d \in Digest, NEW s \in sources'[d], s \notin sources[d]
  PROVE  /\ \A c \in Digest : c # d => sources'[c] = sources[c]
         /\ \E f \in Flow :
              /\ CreateDigest(f)
              /\ s \in flow[f].batch /\ recipientOf[s] = flow[f].user
              /\ d = DigestOf(f, recipientOf[s])
              /\ ~ KeyTaken(d)
              /\ status'[s] # "queued" /\ status'[d] = "queued"
<1> USE ConstantsAssumption
<1>1. PICK f \in Flow : CreateDigest(f)
  BY RowSteps DEF Post, PruneNotifications, ClaimCandidate, SendMail, CompleteEvent,
     ConsumeSources, ReleaseSources, FailEvent, rows
<1> DEFINE k == DigestOf(f, flow[f].user)
           B == BatchOf(f, flow[f].user)
<1>2. k \in Digest /\ B \subseteq flow[f].batch /\ flow[f].batch \subseteq Update
  BY <1>1, CreateFrame
<1>3. /\ ~ KeyTaken(k) /\ sources' = [sources EXCEPT ![k] = B]
      /\ status' = [e \in Event |-> IF e = k THEN "queued"
                                    ELSE IF e \in B /\ status[e] = "queued" THEN "processing"
                                    ELSE status[e]]
  BY <1>1 DEF CreateDigest
<1> HIDE DEF k, B
<1>4. sources \in [Digest -> SUBSET Update]
  BY DEF IInv, TypeOK
<1>5. d = k /\ s \in B
  BY <1>2, <1>3, <1>4
<1>6. s \in flow[f].batch /\ recipientOf[s] = flow[f].user
  BY <1>5 DEF B, BatchOf
<1>7. s \in Event /\ k \in Event /\ s # k
  BY <1>2, <1>6 DEF Event
<1>8. status'[s] # "queued" /\ status'[k] = "queued"
  BY <1>3, <1>5, <1>7
<1>9. k = DigestOf(f, recipientOf[s])
  BY <1>6 DEF k
<1> QED
  BY <1>1, <1>3, <1>4, <1>5, <1>6, <1>8, <1>9

(* Which steps set a pass to something other than off.                     *)
LEMMA PassMoves ==
  ASSUME IInv, [Next]_vars, NEW f \in Flow, flow'[f] # flow[f], flow'[f].stage # "off"
  PROVE  /\ UNCHANGED <<hour, digestOn>>
         /\ \/ /\ flow'[f].stage = "recipients" /\ flow'[f].batch = {}
               /\ flow'[f].window \in IF f[2] = "daily" THEN DailyWindow(hour) ELSE {hour}
            \/ /\ flow[f].stage # "off" /\ flow'[f].window = flow[f].window
               /\ \/ ReadRecipients(f) /\ flow'[f].users = OnRate(f[2]) /\ flow'[f].batch = {}
                  \/ /\ ReadBuffered(f) /\ flow[f].stage = "buffered" /\ flow'[f].stage = "checking"
                     /\ flow'[f].batch = Buffered(flow[f].users, flow[f].window)
                  \/ /\ CheckDigest(f) \/ CreateDigest(f)
                     /\ flow'[f].stage # "buffered" /\ flow'[f].batch = flow[f].batch
<1>0. flow \in [Flow -> FlowState] /\ flow' # flow
  BY DEF IInv, TypeOK
<1>1. ASSUME NEW w \in Worker, StartSchedule(w)
      PROVE  /\ UNCHANGED <<hour, digestOn>>
             /\ flow'[f].stage = "recipients" /\ flow'[f].batch = {}
             /\ flow'[f].window \in IF f[2] = "daily" THEN DailyWindow(hour) ELSE {hour}
  <2>1. PICK hourly \in HourlyStarts, daily \in DailyStarts :
          flow' = [flow EXCEPT ![<<w, "hourly">>] = hourly, ![<<w, "daily">>] = daily]
    BY <1>1 DEF StartSchedule
  <2>2. \/ f = <<w, "hourly">> /\ flow'[f] = hourly
        \/ f = <<w, "daily">> /\ flow'[f] = daily
    BY <1>0, <2>1
  <2>3. Off.stage = "off"
    BY DEF Off, Pass
  <2>4. \A b : Starts(b).stage = "recipients" /\ Starts(b).window = b /\ Starts(b).batch = {}
    BY DEF Starts, Pass
  <2>5. hourly # Off => hourly = Starts(hour)
    BY DEF HourlyStarts
  <2>6. daily # Off => \E b \in DailyWindow(hour) : daily = Starts(b)
    BY DEF DailyStarts
  <2>7. UNCHANGED <<hour, digestOn>>
    BY <1>1 DEF StartSchedule
  <2> QED
    BY <2>2, <2>3, <2>4, <2>5, <2>6, <2>7
<1>2. ASSUME NEW w \in Worker, LoopStep(w) \/ DatabaseError(w) \/ Crash(w), ~ StartSchedule(w)
      PROVE  FALSE
  <2>1. CASE StopWorker(w)
    BY <1>0, <2>1 DEF StopWorker, Off, Pass
  <2>2. CASE ~ StopWorker(w)
    BY <1>0, <1>2, <2>2 DEF LoopStep, FindCandidate, NoCandidate, ClaimCandidate, Inspect, SendMail,
           CompleteEvent, ConsumeSources, ReleaseSources, RecordAudit, ReadFailedEvent, FailEvent,
           FailEventThrows, SkipSchedule, EndSchedule, Restart, DatabaseError, Crash
  <2> QED
    BY <2>1, <2>2
<1>3. ASSUME NEW g \in Flow, FlowStep(g)
      PROVE  /\ UNCHANGED <<hour, digestOn>>
             /\ flow[f].stage # "off" /\ flow'[f].window = flow[f].window
             /\ \/ ReadRecipients(f) /\ flow'[f].users = OnRate(f[2]) /\ flow'[f].batch = {}
                \/ /\ ReadBuffered(f) /\ flow[f].stage = "buffered" /\ flow'[f].stage = "checking"
                   /\ flow'[f].batch = Buffered(flow[f].users, flow[f].window)
                \/ /\ CheckDigest(f) \/ CreateDigest(f)
                   /\ flow'[f].stage # "buffered" /\ flow'[f].batch = flow[f].batch
  <2>0. f = g
    BY <1>0, <1>3 DEF FlowStep, ReadRecipients, ReadBuffered, CheckDigest, CreateDigest,
         CreateDigestFails, EndFlow
  <2>1. CASE ReadRecipients(f)
    BY <1>0, <2>1 DEF ReadRecipients, Pass
  <2>2. CASE ReadBuffered(f)
    BY <1>0, <2>2 DEF ReadBuffered, Pass
  <2>3. CASE CheckDigest(f)
    <3>1. \E u : \/ flow'[f] = Pass("creating", flow[f].window, flow[f].users \ {u}, flow[f].batch, u)
                \/ flow'[f] = Pass("checking", flow[f].window, flow[f].users \ {u}, flow[f].batch, None)
      BY <1>0, <2>3, Zenon DEF CheckDigest
    <3>2. flow[f].stage = "checking" /\ UNCHANGED <<hour, digestOn>>
      BY <2>3 DEF CheckDigest
    <3> QED
      BY <2>3, <3>1, <3>2 DEF Pass
  <2>4. CASE CreateDigest(f)
    BY <1>0, <2>4 DEF CreateDigest, Pass
  <2>5. ASSUME CreateDigestFails(f) \/ EndFlow(f) PROVE FALSE
    <3>1. flow'[f] = Off
      BY <1>0, <2>5 DEF CreateDigestFails, EndFlow
    <3> QED
      BY <3>1 DEF Off, Pass
  <2> QED
    BY <1>3, <2>0, <2>1, <2>2, <2>3, <2>4, <2>5 DEF FlowStep
<1> QED
  BY <1>0, <1>1, <1>2, <1>3 DEF Next, Post, BackoffElapses, ToggleDigest, Tick, PruneNotifications, vars

(* While a pass runs neither the hour nor the digest rates change, so a    *)
(* pass that starts or moves on fits those that run.                       *)
LEMMA PassesStep ==
  ASSUME HInv, [HistoryNext]_<<vars, mishaps>> PROVE PassesAgree'
<1>0. IInv /\ [Next]_vars /\ PassesAgree /\ flow \in [Flow -> FlowState]
  BY Recorded DEF HInv, IInv, TypeOK
<1> SUFFICES ASSUME mishaps' \cap {"slow_pass", "toggle"} = {}, NEW f \in Flow, flow'[f].stage # "off"
             PROVE  /\ flow'[f].window \in IF f[2] = "daily" THEN DailyWindow(hour') ELSE {hour'}
                    /\ flow'[f].stage = "buffered" => flow'[f].users \subseteq OnRate(f[2])'
                    /\ \A s \in flow'[f].batch : recipientOf[s] \in OnRate(f[2])'
  BY DEF PassesAgree, DailyWindow
<1>1. mishaps \cap {"slow_pass", "toggle"} = {}
  BY <1>0, Recorded DEF HInv
<1>2. ASSUME flow[f].stage # "off"
      PROVE  /\ hour' = hour /\ OnRate(f[2])' = OnRate(f[2])
             /\ flow[f].window \in IF f[2] = "daily" THEN DailyWindow(hour) ELSE {hour}
             /\ flow[f].stage = "buffered" => flow[f].users \subseteq OnRate(f[2])
             /\ \A s \in flow[f].batch : recipientOf[s] \in OnRate(f[2])
  <2>1. PassRunning
    BY <1>2 DEF PassRunning, Off, Pass
  <2>2. hour' = hour /\ digestOn' = digestOn
    BY <1>0, <2>1, Recorded
  <2>3. OnRate(f[2])' = OnRate(f[2])
    BY <2>2 DEF OnRate
  <2> QED
    BY <1>0, <1>1, <1>2, <2>2, <2>3 DEF PassesAgree
<1>3. CASE flow'[f] = flow[f]
  BY <1>2, <1>3
<1>4. CASE flow'[f] # flow[f]
  <2>1. CASE /\ flow'[f].stage = "recipients" /\ flow'[f].batch = {}
             /\ flow'[f].window \in IF f[2] = "daily" THEN DailyWindow(hour) ELSE {hour}
    BY <1>0, <1>4, <2>1, PassMoves
  <2>2. CASE /\ flow[f].stage # "off" /\ flow'[f].window = flow[f].window
             /\ ReadRecipients(f) /\ flow'[f].users = OnRate(f[2]) /\ flow'[f].batch = {}
    BY <1>2, <2>2
  <2>3. CASE /\ flow[f].stage = "buffered" /\ flow'[f].window = flow[f].window
             /\ flow'[f].stage = "checking"
             /\ flow'[f].batch = Buffered(flow[f].users, flow[f].window)
    <3>1. \A s \in flow'[f].batch : recipientOf[s] \in flow[f].users
      BY <2>3 DEF Buffered
    <3> QED
      BY <1>2, <2>3, <3>1
  <2>4. CASE /\ flow[f].stage # "off" /\ flow'[f].window = flow[f].window
             /\ flow'[f].stage # "buffered" /\ flow'[f].batch = flow[f].batch
    BY <1>2, <2>4
  <2> QED
    BY <1>0, <1>4, <2>1, <2>2, <2>3, <2>4, PassMoves
<1> QED
  BY <1>3, <1>4

(* Two passes that have read the same update make the same digest of it.   *)
LEMMA SameKey ==
  ASSUME PassesAgree, mishaps = {}, flow \in [Flow -> FlowState],
         NEW f \in Flow, NEW g \in Flow, NEW s \in flow[f].batch, s \in flow[g].batch,
         flow[f].stage # "off", flow[g].stage # "off"
  PROVE  DigestOf(f, recipientOf[s]) = DigestOf(g, recipientOf[s])
<1>1. f[2] \in Kind /\ g[2] \in Kind
  BY DEF Flow
<1>2. recipientOf[s] \in OnRate(f[2]) /\ recipientOf[s] \in OnRate(g[2])
  BY DEF PassesAgree
<1>3. f[2] = g[2]
  BY <1>1, <1>2 DEF OnRate, Kind
<1>4. flow[f].window = flow[g].window
  <2>1. \A a, b \in DailyWindow(hour) : a = b
    BY DEF DailyWindow
  <2>2. /\ flow[f].window \in IF f[2] = "daily" THEN DailyWindow(hour) ELSE {hour}
        /\ flow[g].window \in IF g[2] = "daily" THEN DailyWindow(hour) ELSE {hour}
    BY DEF PassesAgree
  <2> QED
    BY <1>3, <2>1, <2>2
<1> QED
  BY <1>3, <1>4 DEF DigestOf

(* The key of a pass's digest for one of its recipients.                   *)
LEMMA KeysAreDigests ==
  ASSUME IInv, NEW f \in Flow, NEW s \in flow[f].batch
  PROVE  s \in Update /\ DigestOf(f, recipientOf[s]) \in Digest
<1>1. flow[f] \in FlowState /\ f[2] \in Kind
  BY DEF IInv, TypeOK, Flow
<1>2. s \in Update /\ flow[f].window \in 0..MaxHour
  BY <1>1 DEF FlowState
<1>3. recipientOf[s] \in User
  BY <1>2, ConstantsAssumption
<1> QED
  BY <1>1, <1>2, <1>3 DEF DigestOf, Digest

(* What is in the batch of a pass after a step.                            *)
LEMMA BatchHistory ==
  ASSUME IInv, [Next]_vars, NEW f \in Flow, NEW s \in flow'[f].batch, flow'[f].stage # "off"
  PROVE  \/ /\ s \in flow[f].batch /\ flow[f].stage # "off"
            /\ flow'[f].window = flow[f].window
         \/ /\ s \in Update /\ status[s] = "queued" /\ UNCHANGED <<status, sources>>
<1>1. CASE flow'[f] = flow[f]
  BY <1>1
<1>2. CASE /\ flow[f].stage # "off" /\ flow'[f].window = flow[f].window
           /\ flow'[f].batch = flow[f].batch
  BY <1>2
<1>3. CASE ReadBuffered(f) /\ flow'[f].batch = Buffered(flow[f].users, flow[f].window)
  BY <1>3 DEF ReadBuffered, Buffered, rows
<1> QED
  BY <1>1, <1>2, <1>3, PassMoves

(* No other digest takes over what a pass has in its batch.                *)
LEMMA BatchStep ==
  ASSUME HInv, [HistoryNext]_<<vars, mishaps>> PROVE BatchIsFree'
<1>0. /\ IInv /\ [Next]_vars /\ IInv' /\ PassesAgree /\ flow \in [Flow -> FlowState]
  BY Recorded, IInvInductive DEF HInv, IInv, TypeOK
<1> SUFFICES ASSUME mishaps' = {}, NEW f \in Flow, NEW s \in flow'[f].batch, flow'[f].stage # "off",
                    ~ KeyTaken(DigestOf(f, recipientOf[s]))'
             PROVE  /\ status'[s] \in {"queued", "pruned"}
                    /\ \A d \in Digest : s \in sources'[d] => Over(d)'
  BY DEF BatchIsFree
<1>1. mishaps = {}
  BY <1>0, Recorded
<1>2. CASE s \in flow[f].batch /\ flow[f].stage # "off" /\ flow'[f].window = flow[f].window
  <2> DEFINE k == DigestOf(f, recipientOf[s])
  <2>1. k' = k
    BY <1>2 DEF DigestOf
  <2>2. s \in Update /\ k \in Digest
    BY <1>0, <1>2, KeysAreDigests
  <2>3. status'[k] = "absent"
    BY <2>1 DEF KeyTaken
  <2> HIDE DEF k
  <2>4. status[k] = "absent"
    BY <1>0, <2>2, <2>3, RowHistory DEF Event
  <2>5. /\ status[s] \in {"queued", "pruned"}
        /\ \A d \in Digest : s \in sources[d] => Over(d)
    BY <1>1, <1>2, <2>4 DEF HInv, BatchIsFree, KeyTaken, k
  <2>6. ASSUME NEW d \in Digest, s \in sources'[d], s \notin sources[d] PROVE FALSE
    <3>1. PICK g \in Flow : /\ CreateDigest(g)
                            /\ s \in flow[g].batch /\ d = DigestOf(g, recipientOf[s])
                            /\ status'[d] = "queued"
      BY <1>0, <2>6, NewLists
    <3>2. flow[g].stage # "off"
      BY <3>1 DEF CreateDigest
    <3>3. d = k
      BY <1>0, <1>1, <1>2, <3>1, <3>2, SameKey DEF k
    <3> QED
      BY <2>3, <3>1, <3>3
  <2>7. \A d \in Digest : s \in sources'[d] => Over(d)'
    BY <2>5, <2>6, OverStays
  <2>8. status'[s] \in {"queued", "pruned"}
    <3>1. ASSUME NEW d \in Digest, s \in sources'[d], status'[d] = "queued" PROVE FALSE
      BY <2>7, <3>1 DEF Over
    <3> QED
      BY <1>0, <2>2, <2>5, <3>1, UpdateStatus
  <2> QED
    BY <2>7, <2>8
<1>3. CASE s \in Update /\ status[s] = "queued" /\ UNCHANGED <<status, sources>>
  <2>1. \A d \in Digest : s \in sources[d] => Over(d)
    BY <1>1, <1>3 DEF HInv, QueuedIsFree
  <2> QED
    BY <1>3, <2>1, OverStays
<1> QED
  BY <1>0, <1>2, <1>3, BatchHistory

(* An update comes back to the buffer by the release of a digest that is   *)
(* over with that.                                                         *)
LEMMA Released ==
  ASSUME HInv, [HistoryNext]_<<vars, mishaps>>, mishaps' = {}, NEW s \in Update,
         status[s] = "processing", status'[s] = "queued"
  PROVE  \E c \in Digest : s \in sources[c] /\ ~ Over(c) /\ Over(c)'
<1>0. /\ IInv /\ [Next]_vars /\ IInv' /\ mishaps = {} /\ loop \in [Worker -> LoopState]
      /\ status \in [Event -> Status]
  BY Recorded, IInvInductive DEF HInv, IInv, TypeOK
<1> USE ConstantsAssumption DEF Deliverable, Event
<1>1. PICK w \in Worker : ReleaseSources(w)
  <2>1. ASSUME NEW w \in Worker, ClaimCandidate(w) \/ CompleteEvent(w) \/ FailEvent(w)
        PROVE  status'[s] = status[s]
    <3>1. loop[w].job \in Deliverable
      BY <1>0, <2>1 DEF ClaimCandidate, CompleteEvent, FailEvent, Stage, HoldingStage, IInv, HeldRows,
           CandidatesExist
    <3> QED
      BY <1>0, <2>1, <3>1 DEF ClaimCandidate, CompleteEvent, FailEvent
  <2>2. ASSUME NEW w \in Worker, ConsumeSources(w) PROVE status'[s] # "queued"
    BY <1>0, <2>2 DEF ConsumeSources, SettleParked
  <2>3. ASSUME NEW f \in Flow, CreateDigest(f) PROVE status'[s] # "queued"
    <3>1. DigestOf(f, flow[f].user) # s
      BY <1>0, <2>3, CreateFrame
    <3> QED
      BY <1>0, <2>3, <3>1 DEF CreateDigest
  <2>4. ASSUME (\E p \in Direct \cup Update : Post(p)) \/ PruneNotifications PROVE status'[s] # "queued"
    BY <1>0, <2>4 DEF Post, PruneNotifications
  <2> QED
    BY <1>0, <2>1, <2>2, <2>3, <2>4, RowSteps DEF SendMail, rows
<1>2. PICK c : c = loop[w].job
  OBVIOUS
<1>3. /\ loop[w].pc \in {"releasing", "surrendering"} /\ SettleParked(c, "queued")
      /\ \/ loop[w].pc = "releasing" /\ loop'[w].pc = "auditing"
         \/ loop[w].pc = "surrendering" /\ loop'[w].pc = "polled"
  BY <1>0, <1>1, <1>2 DEF ReleaseSources, Stage, Goto, Rest, Resting, At
<1>4. c \in Digest /\ Holds(w, c) /\ loop[w].pc \in HoldingStage
  BY <1>0, <1>3, <1>2 DEF IInv, HeldRows, Holds, HoldingStage
<1>5. s \in sources[c]
  BY <1>0, <1>3 DEF SettleParked
<1>6. ~ Over(c)
  BY <1>3, <1>4 DEF Over
<1>7. Over(c)'
  <2>1. status[c] \in {"skipped", "failed", "pruned"}
    BY <1>0, <1>3, <1>4, <1>2 DEF HInv, StagesFit
  <2>2. status'[c] = status[c]
    BY <1>0, <1>3, <1>4, SettleFrame
  <2>3. emails'[c] = 0
    <3>1. emails[c] = 0
      BY <1>0, <1>3, <1>4 DEF HInv, EachIsMailedOnce
    <3> QED
      BY <1>1, <3>1 DEF ReleaseSources
  <2>4. ASSUME NEW x \in Worker, Holds(x, c)' PROVE loop'[x].pc = "auditing"
    <3>1. Holds(x, c)
      BY <1>0, <2>1, <2>4, HolderBefore
    <3>2. x = w
      BY <1>0, <1>4, <3>1 DEF IInv, ExclusiveDelivery
    <3> QED
      BY <1>3, <2>4, <3>2 DEF Holds, HoldingStage
  <2> QED
    BY <2>1, <2>2, <2>3, <2>4 DEF Over
<1> QED
  BY <1>4, <1>5, <1>6, <1>7

(* What is queued again is free to be listed again.                        *)
LEMMA QueuedStep ==
  ASSUME HInv, [HistoryNext]_<<vars, mishaps>> PROVE QueuedIsFree'
<1>0. IInv /\ [Next]_vars /\ OneListCounts /\ QueuedIsFree
  BY Recorded DEF HInv
<1> SUFFICES ASSUME mishaps' = {}, NEW s \in Update, NEW d \in Digest, status'[s] = "queued",
                    s \in sources'[d]
             PROVE  Over(d)'
  BY DEF QueuedIsFree
<1>1. mishaps = {}
  BY <1>0, Recorded
<1>2. s \in sources[d]
  BY <1>0, NewLists
<1>3. CASE status[s] = "queued"
  BY <1>0, <1>1, <1>2, <1>3, OverStays DEF QueuedIsFree
<1>4. CASE status[s] = "absent"
  BY <1>0, <1>2, <1>4 DEF IInv, SourcesAreOlder
<1>5. CASE status[s] = "processing"
  <2>1. PICK c \in Digest : s \in sources[c] /\ ~ Over(c) /\ Over(c)'
    BY <1>5, Released
  <2>2. CASE c = d
    BY <2>1, <2>2
  <2>3. CASE c # d
    <3>1. Over(d)
      BY <1>0, <1>1, <1>2, <2>1, <2>3 DEF OneListCounts
    <3> QED
      BY <3>1, OverStays
  <2> QED
    BY <2>2, <2>3
<1> QED
  BY <1>0, <1>3, <1>4, <1>5, UpdateStatus

(* A new digest lists only what no other can mail.                         *)
LEMMA ListsStep ==
  ASSUME HInv, [HistoryNext]_<<vars, mishaps>> PROVE OneListCounts'
<1>0. IInv /\ [Next]_vars /\ OneListCounts /\ BatchIsFree
  BY Recorded DEF HInv
<1> SUFFICES ASSUME mishaps' = {}, NEW s \in Update, NEW c \in Digest, NEW d \in Digest,
                    s \in sources'[c], s \in sources'[d], c # d
             PROVE  Over(c)' \/ Over(d)'
  BY DEF OneListCounts
<1>1. mishaps = {}
  BY <1>0, Recorded
<1>2. ASSUME NEW a \in Digest, NEW b \in Digest, a # b, s \in sources'[a], s \in sources'[b],
             s \notin sources[b]
      PROVE  Over(a)'
  <2>1. s \in sources[a]
    BY <1>0, <1>2, NewLists
  <2>2. PICK f \in Flow : CreateDigest(f) /\ s \in flow[f].batch /\ ~ KeyTaken(DigestOf(f, recipientOf[s]))
    BY <1>0, <1>2, NewLists
  <2>3. flow[f].stage # "off"
    BY <2>2 DEF CreateDigest
  <2>4. Over(a)
    BY <1>0, <1>1, <2>1, <2>2, <2>3 DEF BatchIsFree
  <2> QED
    BY <2>4, OverStays
<1>3. CASE s \in sources[c] /\ s \in sources[d]
  <2>1. Over(c) \/ Over(d)
    BY <1>0, <1>1, <1>3 DEF OneListCounts
  <2> QED
    BY <2>1, OverStays
<1> QED
  BY <1>2, <1>3

(* The parts together: the invariant is inductive.                         *)
LEMMA HInvInductive == HInv /\ [HistoryNext]_<<vars, mishaps>> => HInv'
<1> SUFFICES ASSUME HInv, [HistoryNext]_<<vars, mishaps>> PROVE HInv'
  OBVIOUS
<1>1. IInv'
  BY Recorded, IInvInductive DEF HInv
<1>2. StagesFit' /\ EachIsMailedOnce' /\ PassesAgree'
  BY StagesStep, MailsStep, PassesStep
<1>3. QueuedIsFree' /\ BatchIsFree' /\ OneListCounts'
  BY QueuedStep, BatchStep, ListsStep
<1> QED
  BY <1>1, <1>2, <1>3 DEF HInv

(* It holds in every reachable state.                                      *)
LEMMA HistoryInvariance == HistorySpec => []HInv
BY InitHInv, HInvInductive, PTL DEF HistorySpec

(* An update is in the list of at most one mail.                           *)
LEMMA OneMail ==
  ASSUME HInv, mishaps = {}, NEW s \in Update
  PROVE  Cardinality(Mailed(s)) <= 1
<1>1. \A c, d \in Mailed(s) : c = d
  <2> SUFFICES ASSUME NEW c \in Mailed(s), NEW d \in Mailed(s), c # d PROVE FALSE
    OBVIOUS
  <2>1. /\ c \in Digest /\ s \in sources[c] /\ emails[c] > 0
        /\ d \in Digest /\ s \in sources[d] /\ emails[d] > 0
    BY DEF Mailed
  <2>2. Over(c) \/ Over(d)
    BY <2>1 DEF HInv, OneListCounts
  <2> QED
    BY <2>1, <2>2 DEF Over
<1>2. CASE Mailed(s) = {}
  BY <1>2, FS_EmptySet
<1>3. CASE Mailed(s) # {}
  <2>1. PICK d : Mailed(s) = {d}
    BY <1>1, <1>3
  <2>2. Cardinality({d}) = 1
    BY FS_Singleton
  <2> QED
    BY <2>1, <2>2
<1> QED
  BY <1>2, <1>3

(* Without a mishap nothing is mailed twice: no event by itself, and no    *)
(* update in two digests, whatever number of workers run, crash and        *)
(* schedule at once, and whatever the host refuses and retention deletes.  *)
THEOREM NothingIsMailedTwice == HistorySpec => []MailedOnce
<1>1. HInv => MailedOnce
  <2> SUFFICES ASSUME HInv, mishaps = {}
               PROVE  /\ \A e \in Event : emails[e] <= 1
                      /\ \A s \in Update : Cardinality(Mailed(s)) <= 1
    BY DEF MailedOnce
  <2>1. \A e \in Event : emails[e] <= 1
    BY DEF HInv, EachIsMailedOnce
  <2> QED
    BY <2>1, OneMail
<1> QED
  BY <1>1, HistoryInvariance, PTL

(* While no statement of a delivery loop has failed, an event that is      *)
(* sent, skipped or failed stays so until retention deletes it.            *)
THEOREM FinishedStaysFinished == HistorySpec => OutcomesAreFinal
<1> DEFINE Final == \A e \in Event : "db" \notin mishaps' /\ status[e] \in Finished
                      => status'[e] \in {status[e], "pruned"}
<1>1. HInv /\ [HistoryNext]_<<vars, mishaps>> => [Final]_vars
  <2> SUFFICES ASSUME HInv, [HistoryNext]_<<vars, mishaps>>, NEW e \in Event, "db" \notin mishaps',
                      status[e] \in Finished
               PROVE  status'[e] \in {status[e], "pruned"}
    OBVIOUS
  <2>1. IInv /\ [Next]_vars /\ "db" \notin mishaps
    BY Recorded DEF HInv
  <2>2. CASE e \in Update
    BY <2>1, <2>2, UpdateStatus DEF Finished
  <2>3. CASE e \in Deliverable
    <3>1. \A w \in Worker : Holds(w, e) /\ Exists(e) =>
            loop[w].pc \notin {"accepted", "skipping", "retrying"}
      BY <2>1, <2>3 DEF HInv, StagesFit, Holds, Exists, Finished
    <3> QED
      BY <2>1, <2>3, <3>1, DeliverableStatus DEF Finished
  <2> QED
    BY <2>2, <2>3 DEF Event, Deliverable
<1> QED
  BY <1>1, HistoryInvariance, PTL DEF HistorySpec, OutcomesAreFinal
=============================================================================
