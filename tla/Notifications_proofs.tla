------------------------ MODULE Notifications_proofs ------------------------
(* Theorems about when digests are cut (DigestSchedule), for every placing of *)
(* hours and digest times that leaves an interval between two hours; and      *)
(* about how mail goes out (OutboundMail), for any administrators, mails,     *)
(* notices, URLs and bounds, under every fault.  The two share no variable.   *)
EXTENDS DigestSchedule, OutboundMail, TLAPS

-----------------------------------------------------------------------------
(* The digest schedule.                                                       *)

(* The passes of a worker are an interval apart, and the last of them is   *)
(* the one lastScheduleCheckAt remembers.                                  *)
Spaced ==
  \A w \in Worker :
    /\ lastCheck[w] <= now
    /\ \A t \in checks[w] : t <= lastCheck[w]
    /\ \A s, t \in checks[w] : s < t => t - s >= Interval

ScheduleInv == TypeOK /\ Spaced

(* No pass has begun: the invariant holds at the start.                    *)
LEMMA InitScheduleInv == ScheduleInit => ScheduleInv
BY ScheduleAssumption DEF ScheduleInit, ScheduleInv, TypeOK, Spaced

(* A pass begins when the last one began an interval ago or longer, so     *)
(* passes stay spaced.                                                     *)
LEMMA PassStep ==
  ASSUME ScheduleInv, NEW w \in Worker, Turn(w), Due(w)
  PROVE  ScheduleInv'
<1> USE ScheduleAssumption DEF ScheduleInv, TypeOK
<1>1. RunPass(w) /\ UNCHANGED now /\ turned' = [turned EXCEPT ![w] = now]
  BY DEF Turn
<1>2. lastCheck' = [lastCheck EXCEPT ![w] = now] /\ checks' = [checks EXCEPT ![w] = @ \cup {now}]
  BY <1>1 DEF RunPass
<1>3. hourly' \subseteq FullHour /\ daily' \subseteq DigestTime /\ failures' \in 0..MaxFailures
  <2>1. OpenHour(now) \subseteq FullHour /\ OpenDay(now) \subseteq DigestTime
    BY Zenon DEF OpenHour, OpenDay
  <2>2. hourly' \in {hourly, hourly \cup OpenHour(now)} /\ daily' \in {daily, daily \cup OpenDay(now)}
    BY <1>1 DEF RunPass
  <2>3. failures' \in 0..MaxFailures
    BY <1>1 DEF RunPass
  <2> QED
    BY <2>1, <2>2, <2>3
<1>4. TypeOK'
  BY <1>1, <1>2, <1>3
<1>5. Spaced'
  <2> SUFFICES ASSUME NEW v \in Worker
               PROVE  /\ lastCheck'[v] <= now'
                      /\ \A t \in checks'[v] : t <= lastCheck'[v]
                      /\ \A s, t \in checks'[v] : s < t => t - s >= Interval
    BY DEF Spaced
  <2>1. CASE v # w
    BY <1>1, <1>2, <2>1 DEF Spaced
  <2>2. CASE v = w
    <3>1. \A t \in checks[w] : t \in Int /\ t <= lastCheck[w] /\ now - t >= Interval
      BY DEF Due, Spaced
    <3>2. lastCheck'[w] = now /\ checks'[w] = checks[w] \cup {now} /\ now' = now
      BY <1>1, <1>2
    <3>3. \A s, t \in checks[w] : s < t => t - s >= Interval
      BY DEF Spaced
    <3> QED
      BY <2>2, <3>1, <3>2, <3>3
  <2> QED
    BY <2>1, <2>2
<1> QED
  BY <1>4, <1>5

(* The other steps let time pass or leave the passes alone.                *)
LEMMA ScheduleInvInductive == ScheduleInv /\ [ScheduleNext]_scheduleVars => ScheduleInv'
<1> SUFFICES ASSUME ScheduleInv, [ScheduleNext]_scheduleVars PROVE ScheduleInv'
  OBVIOUS
<1> USE ScheduleAssumption DEF ScheduleInv, TypeOK, Spaced
<1>1. CASE Tick
  BY <1>1 DEF Tick
<1>2. ASSUME NEW w \in Worker, Turn(w) PROVE ScheduleInv'
  <2>1. CASE Due(w)
    BY <1>2, <2>1, PassStep
  <2>2. CASE ~ Due(w)
    <3>1. turned' = [turned EXCEPT ![w] = now] /\ UNCHANGED <<now, lastCheck, checks, failures, hourly, daily>>
      BY <1>2, <2>2 DEF Turn
    <3> QED
      BY <3>1
  <2> QED
    BY <2>1, <2>2
<1>3. CASE UNCHANGED scheduleVars
  BY <1>3 DEF scheduleVars
<1> QED
  BY <1>1, <1>2, <1>3 DEF ScheduleNext

(* Two passes an interval apart cannot begin in one window of that width.  *)
LEMMA SpacedPasses == ScheduleInv => OnePassPerWindow
<1> SUFFICES ASSUME ScheduleInv, NEW w \in Worker, NEW s \in checks[w], NEW t \in checks[w],
                    NEW h \in OpenHour(s) \cap OpenHour(t)
             PROVE  s = t
  BY DEF OnePassPerWindow
<1>1. s \in Int /\ t \in Int /\ h \in Int
  BY ScheduleAssumption DEF ScheduleInv, TypeOK, OpenHour
<1>2. (s < t => t - s >= Interval) /\ (t < s => s - t >= Interval)
  BY DEF ScheduleInv, Spaced
<1>3. h <= s /\ s - h < Interval /\ h <= t /\ t - h < Interval
  BY DEF OpenHour
<1> QED
  BY <1>1, <1>2, <1>3, ScheduleAssumption

(* At any time of day, with any number of workers and failing passes, a    *)
(* worker begins at most one pass in each hourly window.                   *)
THEOREM HourlyWindowIsEnteredOnce == ScheduleSpec => []OnePassPerWindow
BY InitScheduleInv, ScheduleInvInductive, SpacedPasses, PTL DEF ScheduleSpec

----------------------------------------------------------------------------
(* The longest time from one pass of a worker to its next, and one tick.   *)
L == Interval + MaxTurn

(* A worker turns at least every MaxTurn, and a turn that passes nothing   *)
(* is less than Interval after the last pass.                              *)
Prompt ==
  \A w \in Worker :
    /\ now - turned[w] <= MaxTurn
    /\ turned[w] - lastCheck[w] <= Interval - 1

(* While the digest of a day is not cut, every pass of that day has failed:*)
(* no pass is later than as many longest gaps as there were failures.      *)
Late ==
  Lateness <= RestOfDay =>
    \A w \in Worker : \A d \in DigestTime \ daily : lastCheck[w] <= d + failures * L

DInv == TypeOK /\ Spaced /\ Prompt /\ Late

LEMMA Gaps ==
  /\ L \in Nat /\ L > 0
  /\ \A f \in 0..MaxFailures : /\ f * L \in Nat /\ (f + 1) * L = f * L + L
                               /\ f * L <= MaxFailures * L
  /\ Lateness = MaxFailures * L + L
<1>1. L \in Nat /\ L > 0 /\ MaxFailures \in Nat
  BY ScheduleAssumption DEF L
<1>2. ASSUME NEW f \in 0..MaxFailures
      PROVE  /\ f * L \in Nat /\ (f + 1) * L = f * L + L
             /\ f * L <= MaxFailures * L
  <2> DEFINE k == MaxFailures - f
  <2>1. f \in Nat /\ k \in Nat /\ MaxFailures = f + k
    BY <1>1
  <2>2. f * L \in Nat /\ k * L \in Nat /\ (f + k) * L = f * L + k * L
    BY <1>1, <2>1
  <2>3. (f + 1) * L = f * L + L
    BY <1>1, <2>1
  <2> QED
    BY <2>1, <2>2, <2>3
<1>3. Lateness = (MaxFailures + 1) * L
  BY DEF Lateness, L
<1>4. MaxFailures \in 0..MaxFailures
  BY <1>1
<1> QED
  BY <1>1, <1>2, <1>3, <1>4

LEMMA InitDInv == ScheduleInit => DInv
<1> SUFFICES ASSUME ScheduleInit PROVE DInv
  OBVIOUS
<1>1. TypeOK /\ Spaced
  BY InitScheduleInv DEF ScheduleInv
<1>2. Prompt
  BY ScheduleAssumption DEF ScheduleInit, Prompt
<1>3. ASSUME NEW w \in Worker, NEW d \in DigestTime
      PROVE  lastCheck[w] <= d + failures * L
  <2>1. lastCheck[w] = -Interval /\ failures = 0 /\ d \in Nat /\ L \in Nat
    BY ScheduleAssumption, Gaps DEF ScheduleInit
  <2> QED
    BY <2>1, ScheduleAssumption
<1> QED
  BY <1>1, <1>2, <1>3 DEF DInv, Late

(* A pass that leaves a day open, which its window has, has failed.        *)
LEMMA LateStep ==
  ASSUME DInv, ScheduleInv', NEW w \in Worker, Turn(w), Due(w)
  PROVE  Late'
<1> SUFFICES ASSUME Lateness <= RestOfDay, NEW v \in Worker, NEW d \in DigestTime \ daily'
             PROVE  lastCheck'[v] <= d + failures' * L
  BY DEF Late
<1>1. /\ now \in Nat /\ d \in Nat /\ failures \in 0..MaxFailures /\ failures' \in 0..MaxFailures
      /\ lastCheck[v] \in Int /\ lastCheck[w] \in Int /\ turned[w] \in Int
      /\ Interval \in Nat /\ MaxTurn \in Nat /\ RestOfDay \in Nat
  BY ScheduleAssumption DEF DInv, TypeOK, ScheduleInv
<1>2. RunPass(w) /\ d \notin daily
  BY DEF Turn, RunPass
<1>3. lastCheck[v] <= d + failures * L /\ lastCheck[w] <= d + failures * L
  BY <1>2 DEF DInv, Late
<1>4. now <= lastCheck[w] + L - 1
  BY <1>1 DEF DInv, Prompt, L
<1>5. /\ L \in Nat /\ failures * L \in Nat /\ (failures + 1) * L = failures * L + L
      /\ failures * L <= MaxFailures * L /\ Lateness = MaxFailures * L + L
      /\ MaxFailures * L \in Nat
  <2>1. MaxFailures \in 0..MaxFailures
    BY ScheduleAssumption
  <2> QED
    BY <1>1, <2>1, Gaps
<1>6. CASE now < d
  <2>1. lastCheck'[v] <= now
    BY <1>2 DEF RunPass, DInv, TypeOK, Spaced
  <2>2. failures' * L \in Nat
    BY <1>1, Gaps
  <2>3. lastCheck'[v] \in Int
    BY DEF ScheduleInv, TypeOK
  <2> QED
    BY <1>1, <1>6, <2>1, <2>2, <2>3
<1>7. CASE now >= d
  <2>1. now - d < RestOfDay
    BY <1>1, <1>3, <1>4, <1>5
  <2>2. d \in OpenDay(now)
    BY <1>7, <2>1 DEF OpenDay
  <2>3. failures' = failures + 1
    BY <1>2, <2>2 DEF RunPass
  <2>4. lastCheck'[v] = IF v = w THEN now ELSE lastCheck[v]
    BY <1>2 DEF RunPass, DInv, TypeOK
  <2> DEFINE F == failures * L
             G == failures' * L
  <2>5. G = F + L /\ F \in Nat /\ G \in Nat
    BY <1>1, <1>5, <2>3
  <2>6. lastCheck[v] <= d + F /\ lastCheck[w] <= d + F
    BY <1>3
  <2> HIDE DEF F, G
  <2>7. lastCheck'[v] <= d + G
    BY <1>1, <1>4, <1>5, <2>4, <2>5, <2>6
  <2> QED
    BY <2>7 DEF G
<1> QED
  BY <1>1, <1>6, <1>7

LEMMA DInvInductive == DInv /\ [ScheduleNext]_scheduleVars => DInv'
<1> SUFFICES ASSUME DInv, [ScheduleNext]_scheduleVars PROVE DInv'
  OBVIOUS
<1>1. ScheduleInv'
  BY ScheduleInvInductive DEF ScheduleInv, DInv
<1>2. CASE Tick
  <2>1. Prompt'
    BY <1>2, ScheduleAssumption DEF Tick, DInv, TypeOK, Prompt
  <2>2. Late'
    BY <1>2 DEF Tick, DInv, Late
  <2> QED
    BY <1>1, <2>1, <2>2 DEF DInv, ScheduleInv
<1>3. ASSUME NEW w \in Worker, Turn(w) PROVE DInv'
  <2>1. turned' = [turned EXCEPT ![w] = now] /\ now' = now
    BY <1>3 DEF Turn
  <2>2. CASE Due(w)
    <3>1. lastCheck' = [lastCheck EXCEPT ![w] = now]
      BY <1>3, <2>2 DEF Turn, RunPass
    <3>2. Prompt'
      BY <2>1, <3>1, ScheduleAssumption DEF DInv, TypeOK, Prompt
    <3> QED
      BY <1>1, <1>3, <2>2, <3>2, LateStep DEF DInv, ScheduleInv
  <2>3. CASE ~ Due(w)
    <3>1. UNCHANGED <<lastCheck, failures, daily>>
      BY <1>3, <2>3 DEF Turn
    <3>2. now - lastCheck[w] <= Interval - 1
      BY <2>3, ScheduleAssumption DEF Due, DInv, TypeOK
    <3>3. Prompt'
      BY <2>1, <3>1, <3>2, ScheduleAssumption DEF DInv, TypeOK, Prompt
    <3>4. Late'
      BY <3>1 DEF DInv, Late
    <3> QED
      BY <1>1, <3>3, <3>4 DEF DInv, ScheduleInv
  <2> QED
    BY <2>2, <2>3
<1>4. CASE UNCHANGED scheduleVars
  BY <1>1, <1>4 DEF scheduleVars, DInv, ScheduleInv, Prompt, Late
<1> QED
  BY <1>2, <1>3, <1>4 DEF ScheduleNext

LEMMA OpenDaysAreLate == DInv => DailyDigestIsCut
<1> SUFFICES ASSUME DInv, NEW d \in DigestTime, now >= d + Lateness, Lateness <= RestOfDay,
                    d \notin daily
             PROVE  FALSE
  BY DEF DailyDigestIsCut
<1>1. PICK w \in Worker : TRUE
  BY ScheduleAssumption
<1>2. /\ now \in Nat /\ d \in Nat /\ failures \in 0..MaxFailures
      /\ lastCheck[w] \in Int /\ turned[w] \in Int
      /\ Interval \in Nat /\ MaxTurn \in Nat /\ MaxFailures \in 0..MaxFailures
  BY ScheduleAssumption DEF DInv, TypeOK
<1>3. lastCheck[w] <= d + failures * L
  BY DEF DInv, Late
<1>4. now <= lastCheck[w] + L - 1
  BY <1>2 DEF DInv, Prompt, L
<1>5. /\ L \in Nat /\ failures * L \in Nat /\ MaxFailures * L \in Nat
      /\ failures * L <= MaxFailures * L /\ Lateness = MaxFailures * L + L
  BY <1>2, Gaps
<1> QED
  BY <1>2, <1>3, <1>4, <1>5

(* With any number of workers, if the day leaves room for one pass more    *)
(* than may fail, its digest is cut before the day ends.                   *)
THEOREM DailyWindowForgives == ScheduleSpec => []DailyDigestIsCut
BY InitDInv, DInvInductive, OpenDaysAreLate, PTL DEF ScheduleSpec

-----------------------------------------------------------------------------
(* What is known of the services, the mails and the settings.                *)

\* What Configure makes of the settings s.
Full(s) ==
  [url |-> EffectiveUrl(s), from |-> EffectiveFrom(s),
   transport |-> IF Valid(EffectiveUrl(s)) THEN EffectiveUrl(s) ELSE None]

IsService(x) == x = [url |-> x.url, from |-> x.from, transport |-> x.transport]
Consistent(x) == x.transport = IF Valid(x.url) THEN x.url ELSE None

ServicesOK ==
  /\ IsService(api) /\ Consistent(api)
  /\ IsService(worker.service)
  /\ worker.service.url = None \/ Consistent(worker.service)

\* Once it is handed over, a mail has its server and its settings.
MailOK(x) ==
  /\ "via" \in DOMAIN x => x.via = EffectiveUrl(x.read)
  /\ x.at = "done" =>
       /\ x.refused = "not_configured" => ~Valid(EffectiveUrl(x.read))
       /\ x.refused = "disabled" => ~Enabled(x.read)
  /\ x.at \in {"send", "sent", "rejected"} =>
       \/ "kind" \in DOMAIN x /\ x = [at |-> x.at, kind |-> x.kind, read |-> x.read, via |-> x.via]
       \/ x = [at |-> x.at, read |-> x.read, via |-> x.via, from |-> x.from]

IsWorker(w) == w = [at |-> w.at, of |-> w.of, read |-> w.read, service |-> w.service]

IInv ==
  /\ ServicesOK
  /\ mail = [m \in Mail |-> mail[m]] /\ \A m \in Mail : MailOK(mail[m])
  /\ IsWorker(worker)
  /\ worker.at \in {"record", "send"} => worker.service = Full(worker.read)

-----------------------------------------------------------------------------
LEMMA UrlsExist ==
    ASSUME NEW s
    PROVE  EffectiveUrl(s) # None
BY OutboundMailAssumption DEF EffectiveUrl, Or

(* Whatever the service was, it is configured as the settings say.           *)
LEMMA ConfigureIsFull ==
    ASSUME NEW x, IsService(x), x.url = None \/ Consistent(x), NEW s
    PROVE  Configure(x, s) = Full(s)
<1>1. CASE x.url = EffectiveUrl(s) /\ x.from = EffectiveFrom(s)
  <2>1. Consistent(x)
    BY <1>1, UrlsExist
  <2>2. x.transport = IF Valid(EffectiveUrl(s)) THEN EffectiveUrl(s) ELSE None
    BY <1>1, <2>1 DEF Consistent
  <2>3. Configure(x, s) = x
    BY <1>1 DEF Configure
  <2> QED
    BY <1>1, <2>2, <2>3 DEF IsService, Full
<1>2. CASE ~(x.url = EffectiveUrl(s) /\ x.from = EffectiveFrom(s))
  BY <1>2 DEF Configure, Full
<1> QED
  BY <1>1, <1>2

LEMMA FullIsConsistent ==
    ASSUME NEW s
    PROVE  IsService(Full(s)) /\ Consistent(Full(s))
BY DEF Full, IsService, Consistent

LEMMA InitOK == Init => IInv
<1> SUFFICES ASSUME Init PROVE IInv
  OBVIOUS
<1>1. IsService(Boot) /\ Consistent(Boot)
  BY DEF Boot, IsService, Consistent
<1>2. /\ worker = [at |-> "idle", of |-> None, read |-> None, service |-> [Boot EXCEPT !.url = None]]
      /\ api = Boot
  BY DEF Init, WorkerBoot
<1>3. IsService([Boot EXCEPT !.url = None]) /\ [Boot EXCEPT !.url = None].url = None
  BY DEF Boot, IsService
<1>4. IsWorker(worker) /\ worker.at = "idle" /\ worker.service = [Boot EXCEPT !.url = None]
  BY <1>2 DEF IsWorker
<1>5. ServicesOK
  BY <1>1, <1>2, <1>3, <1>4 DEF ServicesOK
<1>6. mail = [m \in Mail |-> mail[m]] /\ \A m \in Mail : MailOK(mail[m])
  <2>1. mail = [m \in Mail |-> NewMail]
    BY DEF Init
  <2>2. NewMail.at = "new" /\ "via" \notin DOMAIN NewMail
    BY DEF NewMail
  <2> QED
    BY <2>1, <2>2 DEF MailOK
<1> QED
  BY <1>4, <1>5, <1>6 DEF IInv

-----------------------------------------------------------------------------
(* What the steps keep, part by part.                                        *)

MailsOK == mail = [m \in Mail |-> mail[m]] /\ \A m \in Mail : MailOK(mail[m])

WorkerOK ==
  /\ IsWorker(worker)
  /\ worker.at \in {"record", "send"} => worker.service = Full(worker.read)

LEMMA OneMailChanges ==
    ASSUME IInv, NEW m \in Mail, NEW x, mail' = [mail EXCEPT ![m] = x], MailOK(x)
    PROVE  MailsOK'
BY DEF IInv, MailsOK

LEMMA MailsAreSent ==
    ASSUME IInv, NEW m \in Mail, Sending(m)
    PROVE  IInv'
<1> USE DEF Stored, History
<1>1. CASE AskMail(m)
  <2>1. PICK kind \in Kinds :
          mail' = [mail EXCEPT ![m] = [at |-> "asked", kind |-> kind, read |-> settings]]
    BY <1>1 DEF AskMail
  <2>2. MailOK([at |-> "asked", kind |-> kind, read |-> settings])
    BY DEF MailOK
  <2>3. MailsOK'
    BY <2>1, <2>2, OneMailChanges
  <2> QED
    BY <1>1, <2>3 DEF AskMail, IInv, MailsOK, ServicesOK
<1>2. CASE PrepareMail(m)
  <2> DEFINE read == mail[m].read
             kind == mail[m].kind
             next == Configure(api, read)
             refused == IF next.transport = None THEN "not_configured"
                        ELSE IF ~Urgent(kind) /\ ~Enabled(read) THEN "disabled" ELSE None
             done == [at |-> "done", read |-> read, refused |-> refused]
             ready == [at |-> "send", kind |-> kind, read |-> read, via |-> next.transport]
  <2>1. next = Full(read)
    BY ConfigureIsFull DEF IInv, ServicesOK
  <2>2. api' = next /\ worker' = worker
    BY <1>2 DEF PrepareMail
  <2>3. mail' = [mail EXCEPT ![m] = done] \/ (refused = None /\ mail' = [mail EXCEPT ![m] = ready])
    BY <1>2 DEF PrepareMail
  <2>4. next.transport = IF Valid(EffectiveUrl(read)) THEN EffectiveUrl(read) ELSE None
    BY <2>1 DEF Full
  <2> HIDE DEF next, read
  <2>5. refused = "not_configured" => ~Valid(EffectiveUrl(read))
    BY <2>4, UrlsExist, OutboundMailAssumption
  <2>6. refused = "disabled" => ~Enabled(read)
    BY OutboundMailAssumption
  <2>7. refused = None => next.transport = EffectiveUrl(read)
    BY <2>4, OutboundMailAssumption
  <2> HIDE DEF refused
  <2>8. MailOK(done)
    BY <2>5, <2>6 DEF MailOK
  <2>9. refused = None => MailOK(ready)
    BY <2>7 DEF MailOK
  <2> HIDE DEF done, ready
  <2>10. MailsOK'
    BY <2>3, <2>8, <2>9, OneMailChanges
  <2>11. ServicesOK'
    BY <2>1, <2>2, FullIsConsistent DEF IInv, ServicesOK
  <2> QED
    BY <2>2, <2>10, <2>11 DEF IInv, MailsOK
<1>3. CASE SendMail(m)
  <2>1. PICK outcome \in {"sent", "rejected"} :
          mail' = [mail EXCEPT ![m] = [at |-> outcome, read |-> mail[m].read,
                                       via |-> mail[m].via, from |-> api.from]]
    BY <1>3 DEF SendMail
  <2>2. mail[m].via = EffectiveUrl(mail[m].read)
    BY <1>3 DEF SendMail, IInv, MailOK
  <2>3. MailOK([at |-> outcome, read |-> mail[m].read, via |-> mail[m].via, from |-> api.from])
    BY <2>2 DEF MailOK
  <2>4. MailsOK'
    BY <2>1, <2>3, OneMailChanges
  <2> QED
    BY <1>3, <2>4 DEF SendMail, IInv, MailsOK, ServicesOK
<1>4. CASE RecordMail(m)
  <2> DEFINE x == mail[m]
             done == Closed(x)
             again == [x EXCEPT !.at = "rejected"]
  <2>1. x.at \in {"sent", "rejected"} /\ MailOK(x)
    BY <1>4 DEF RecordMail, IInv
  <2>2. mail' = [mail EXCEPT ![m] = done] \/ mail' = [mail EXCEPT ![m] = again]
    BY <1>4 DEF RecordMail
  <2> HIDE DEF x
  <2>3. \/ x = [at |-> x.at, kind |-> x.kind, read |-> x.read, via |-> x.via]
        \/ x = [at |-> x.at, read |-> x.read, via |-> x.via, from |-> x.from]
    BY <2>1 DEF MailOK
  <2>4. x.via = EffectiveUrl(x.read)
    BY <2>1, <2>3 DEF MailOK
  <2>5. /\ DOMAIN done = DOMAIN x \cup {"refused"}
        /\ done.at = "done" /\ done.read = x.read /\ done.via = x.via /\ done.refused = None
    BY <2>3 DEF Closed
  <2>6. /\ again.at = "rejected" /\ again.read = x.read /\ again.via = x.via
        /\ \/ again = [at |-> again.at, kind |-> again.kind, read |-> again.read, via |-> again.via]
           \/ again = [at |-> again.at, read |-> again.read, via |-> again.via, from |-> again.from]
    BY <2>3
  <2> HIDE DEF done, again
  <2>7. MailOK(done)
    BY <2>4, <2>5, OutboundMailAssumption DEF MailOK
  <2>8. MailOK(again)
    BY <2>4, <2>6 DEF MailOK
  <2>9. MailsOK'
    BY <2>2, <2>7, <2>8, OneMailChanges
  <2> QED
    BY <1>4, <2>9 DEF RecordMail, IInv, MailsOK, ServicesOK
<1> QED
  BY <1>1, <1>2, <1>3, <1>4 DEF Sending

LEMMA ApiRestarts ==
    ASSUME IInv, CrashApi
    PROVE  IInv'
<1>1. api' = Boot /\ worker' = worker
      /\ mail' = [m \in Mail |-> IF m \in InProgress THEN [at |-> "lost"] ELSE mail[m]]
  BY DEF CrashApi
<1>2. MailOK([at |-> "lost"])
  BY DEF MailOK
<1>3. MailsOK'
  BY <1>1, <1>2 DEF IInv, MailsOK
<1>4. ServicesOK'
  BY <1>1 DEF IInv, ServicesOK, Boot, IsService, Consistent
<1> QED
  BY <1>1, <1>3, <1>4 DEF IInv, MailsOK

LEMMA PanelsKeep ==
    ASSUME IInv, NEW a \in Admin, Panel(a)
    PROVE  IInv'
<1> USE DEF Stored, Delivery, History
<1>1. CASE AnswerStatus(a)
  <2>1. api' = Configure(api, call[a].read) /\ mail' = mail /\ worker' = worker
    BY <1>1 DEF AnswerStatus
  <2>2. api' = Full(call[a].read)
    BY <2>1, ConfigureIsFull DEF IInv, ServicesOK
  <2>3. ServicesOK'
    BY <2>1, <2>2, FullIsConsistent DEF IInv, ServicesOK
  <2> QED
    BY <2>1, <2>3 DEF IInv
<1>2. CASE AskStatus(a) \/ BeginSave(a) \/ UpdateEmailSettings(a) \/ ReadBack(a) \/ CallFails(a)
  <2>1. api' = api /\ mail' = mail /\ worker' = worker
    BY <1>2 DEF AskStatus, BeginSave, UpdateEmailSettings, ReadBack, CallFails
  <2> QED
    BY <2>1 DEF IInv, ServicesOK
<1> QED
  BY <1>1, <1>2 DEF Panel

(* A step of the worker that configures nothing.                             *)
LEMMA WorkerGoesOn ==
    ASSUME IInv, api' = api, mail' = mail, NEW at, worker' = [worker EXCEPT !.at = at],
           at \in {"record", "send"} => worker.at \in {"record", "send"}
    PROVE  IInv'
<1>1. IsWorker(worker') /\ worker'.at = at /\ worker'.service = worker.service
      /\ worker'.read = worker.read
  BY DEF IInv, IsWorker
<1> QED
  BY <1>1 DEF IInv, ServicesOK

LEMMA WorkerLetsGo ==
    ASSUME IInv, api' = api, mail' = mail, NEW at, at \notin {"record", "send"}, NEW of, NEW read,
           worker' = [worker EXCEPT !.at = at, !.of = of, !.read = read]
    PROVE  IInv'
<1>1. IsWorker(worker') /\ worker'.at = at /\ worker'.service = worker.service
  BY DEF IInv, IsWorker
<1> QED
  BY <1>1 DEF IInv, ServicesOK

LEMMA WorkersKeep ==
    ASSUME IInv, WorkerStep \/ StatementFails \/ Dies
    PROVE  IInv'
<1> USE DEF Stored, Elsewhere, History, Go, Release
<1>1. ASSUME NEW n \in Notice, Claim(n)
      PROVE  IInv'
  <2>1. worker' = [worker EXCEPT !.at = "claimed", !.of = n] /\ api' = api /\ mail' = mail
    BY <1>1 DEF Claim
  <2>2. IsWorker(worker') /\ worker'.at = "claimed" /\ worker'.service = worker.service
    BY <2>1 DEF IInv, IsWorker
  <2> QED
    BY <2>1, <2>2 DEF IInv, ServicesOK
<1>2. CASE Check
  <2>1. api' = api /\ mail' = mail
    BY <1>2 DEF Check
  <2>2. CASE worker.service.transport = None
    <3>1. worker' = [worker EXCEPT !.at = "skip"]
      BY <1>2, <2>2 DEF Check
    <3> QED
      BY <2>1, <3>1, WorkerGoesOn
  <2>3. CASE worker.service.transport # None
    <3>1. PICK at : worker' = [worker EXCEPT !.at = at, !.service = Configure(@, settings),
                                             !.read = settings]
      BY <1>2, <2>3 DEF Check
    <3>2. Configure(worker.service, settings) = Full(settings)
      BY ConfigureIsFull DEF IInv, ServicesOK
    <3>3. IsWorker(worker') /\ worker'.service = Full(settings) /\ worker'.read = settings
      BY <3>1, <3>2 DEF IInv, IsWorker
    <3> QED
      BY <2>1, <3>3, FullIsConsistent DEF IInv, ServicesOK
  <2> QED
    BY <2>2, <2>3
<1>3. CASE CheckPruned \/ RecordOutcome \/ RecordRetry
  <2>1. /\ api' = api /\ mail' = mail
        /\ worker' = [worker EXCEPT !.at = "idle", !.of = None, !.read = None]
    BY <1>3 DEF CheckPruned, RecordOutcome, RecordRetry
  <2> QED
    BY <2>1, WorkerLetsGo
<1>4. CASE RecordProcessing
  BY <1>4, WorkerGoesOn DEF RecordProcessing
<1>5. CASE Deliver
  <2>1. PICK outcome \in {"complete", "fail"} :
          worker' = [worker EXCEPT !.at = outcome] /\ api' = api /\ mail' = mail
    BY <1>5 DEF Deliver
  <2> QED
    BY <2>1, WorkerGoesOn
<1>6. CASE CompleteEvent
  <2>1. PICK at \in {"sent", "skipped", "fail"} :
          worker' = [worker EXCEPT !.at = at] /\ api' = api /\ mail' = mail
    BY <1>6 DEF CompleteEvent
  <2> QED
    BY <2>1, WorkerGoesOn
<1>7. CASE FailEvent
  <2>1. PICK at \in {"gave_up", "failed"} :
          worker' = [worker EXCEPT !.at = at] /\ api' = api /\ mail' = mail
    BY <1>7 DEF FailEvent
  <2> QED
    BY <2>1, WorkerGoesOn
<1>8. CASE RecordFailure
  <2>1. api' = api /\ mail' = mail
    BY <1>8 DEF RecordFailure
  <2>2. \/ worker' = [worker EXCEPT !.at = "retry"]
        \/ worker' = [worker EXCEPT !.at = "idle", !.of = None, !.read = None]
    BY <1>8 DEF RecordFailure
  <2> QED
    BY <2>1, <2>2, WorkerGoesOn, WorkerLetsGo
<1>9. CASE StatementFails
  BY <1>9, WorkerGoesOn DEF StatementFails
<1>10. CASE Dies
  <2>1. worker' = WorkerBoot /\ api' = api /\ mail' = mail
    BY <1>10 DEF Dies
  <2>2. IsWorker(WorkerBoot) /\ WorkerBoot.at = "idle"
        /\ IsService(WorkerBoot.service) /\ WorkerBoot.service.url = None
    BY DEF WorkerBoot, Boot, IsWorker, IsService
  <2> QED
    BY <2>1, <2>2 DEF IInv, ServicesOK
<1> QED
  BY <1>1, <1>2, <1>3, <1>4, <1>5, <1>6, <1>7, <1>8, <1>9, <1>10 DEF WorkerStep

LEMMA NextOK == IInv /\ [Next]_vars => IInv'
<1> SUFFICES ASSUME IInv, [Next]_vars PROVE IInv'
  OBVIOUS
<1>1. CASE \E a \in Admin : Panel(a)
  BY <1>1, PanelsKeep
<1>2. CASE \E m \in Mail : Sending(m)
  BY <1>2, MailsAreSent
<1>3. CASE WorkerStep \/ StatementFails \/ Dies
  BY <1>3, WorkersKeep
<1>4. CASE CrashApi
  BY <1>4, ApiRestarts
<1>5. CASE PruneChanges \/ PruneNotifications \/ PurgeAuditLogs \/ UNCHANGED vars
  <2>1. api' = api /\ mail' = mail /\ worker' = worker
    BY <1>5 DEF PruneChanges, PruneNotifications, PurgeAuditLogs, Elsewhere, vars
  <2> QED
    BY <2>1 DEF IInv, ServicesOK
<1> QED
  BY <1>1, <1>2, <1>3, <1>4, <1>5 DEF Next

LEMMA FollowsFromIInv == IInv => MailsFollowTheSettings
<1> SUFFICES ASSUME IInv PROVE MailsFollowTheSettings
  OBVIOUS
<1>1. ASSUME worker.at = "send"
      PROVE  worker.service = Configure([worker.service EXCEPT !.url = None], worker.read)
  <2> DEFINE x == [worker.service EXCEPT !.url = None]
  <2>1. IsService(x) /\ x.url = None
    BY DEF IInv, ServicesOK, IsService
  <2> HIDE DEF x
  <2>2. Configure(x, worker.read) = Full(worker.read)
    BY <2>1, ConfigureIsFull
  <2> QED
    BY <1>1, <2>2 DEF IInv, x
<1> QED
  BY <1>1 DEF IInv, MailOK, MailsFollowTheSettings

(* Whatever other requests configure between the moment a mail is asked for  *)
(* and the moment it is handed over, it goes to the server that its own      *)
(* reading of the settings named (EmailService.getReadyTransport,            *)
(* NotificationWorker.getSkipReason).                                        *)
THEOREM MailsGoWhereTheyShould == Spec => []MailsFollowTheSettings
<1>1. Init => IInv
  BY InitOK
<1>2. IInv /\ [Next]_vars => IInv'
  BY NextOK
<1>3. IInv => MailsFollowTheSettings
  BY FollowsFromIInv
<1> QED
  BY <1>1, <1>2, <1>3, PTL DEF Spec

-----------------------------------------------------------------------------
(* The panel.                                                                *)

\* What the form of the panel holds, and what goes along with a save.
Form  == [enabled : BOOLEAN, smtpUrl : Url, from : From]
Input == [enabled : BOOLEAN, smtpUrl : Url, fromAddress : From]

CallOK(c) ==
  \/ c = Idle \/ c = [at |-> "saved"]
  \/ c \in [at : {"status"}, read : Row \cup {None}]
  \/ c \in [at : {"save"}, existing : Row \cup {None}, input : Input]

PanelsOK ==
  /\ settings \in Row \cup {None}
  /\ panel \in [Admin -> Form \cup {None}]
  /\ call = [a \in Admin |-> call[a]] /\ \A a \in Admin : CallOK(call[a])

LEMMA Constants ==
    /\ EnvUrl \in Url /\ TypedUrl \subseteq Url /\ EnvFrom \in From /\ TypedFrom \subseteq From
    /\ None \notin Url /\ None \notin Row /\ None # Mask
BY OutboundMailAssumption DEF Urls, From

LEMMA EffectiveIsUrl ==
    ASSUME NEW s \in Row \cup {None}
    PROVE  EffectiveUrl(s) \in Url
BY Constants DEF EffectiveUrl, Or, Row

(* A sender that is stored as null is that of the environment.               *)
LEMMA EffectiveIsFrom ==
    ASSUME NEW s \in Row \cup {None}
    PROVE  EffectiveFrom(s) \in From
BY Constants DEF EffectiveFrom, Or, Row

LEMMA MaskedIsUrl ==
    ASSUME NEW u \in Url
    PROVE  Masked(u) \in Url
BY DEF Masked, Url

LEMMA MergedIsUrl ==
    ASSUME NEW u \in Url, NEW v \in Url
    PROVE  MergeSmtpUrl(u, v) \in Url
BY DEF MergeSmtpUrl, Url

(* Merging the mask gives back what was masked.                              *)
LEMMA MaskIsMergedAway ==
    ASSUME NEW u \in Url
    PROVE  MergeSmtpUrl(Masked(u), u) = u
<1>1. CASE u.password = None
  BY <1>1, Constants DEF MergeSmtpUrl, Masked
<1>2. CASE u.password # None
  <2>1. Masked(u) = [u EXCEPT !.password = Mask] /\ Masked(u).password = Mask
    BY <1>2 DEF Masked, Url
  <2>2. MergeSmtpUrl(Masked(u), u) = [Masked(u) EXCEPT !.password = u.password]
    BY <1>2, <2>1 DEF MergeSmtpUrl
  <2> QED
    BY <2>1, <2>2 DEF Url
<1> QED
  BY <1>1, <1>2

LEMMA OneCallChanges ==
    ASSUME PanelsOK, NEW a \in Admin, NEW c, call' = [call EXCEPT ![a] = c], CallOK(c)
    PROVE  call' = [b \in Admin |-> call'[b]] /\ \A b \in Admin : CallOK(call'[b])
BY DEF PanelsOK

LEMMA SavesKeep ==
    ASSUME PanelsOK, NEW a \in Admin, UpdateEmailSettings(a)
    PROVE  PanelsOK'
<1> DEFINE input == call[a].input
           existing == call[a].existing
           url == MergeSmtpUrl(input.smtpUrl, EffectiveUrl(existing))
<1>1. input \in Input /\ existing \in Row \cup {None}
  BY DEF UpdateEmailSettings, PanelsOK, CallOK, Idle
<1>2. url \in Url
  BY <1>1, EffectiveIsUrl, MergedIsUrl DEF Input
<1>3. settings' = input \/ settings' = [input EXCEPT !.smtpUrl = url]
  BY DEF UpdateEmailSettings
<1> HIDE DEF url, input
<1>4. settings' \in Row
  BY <1>1, <1>2, <1>3 DEF Input, Row
<1>5. call' = [call EXCEPT ![a] = [at |-> "saved"]] /\ panel' = panel
  BY DEF UpdateEmailSettings
<1>6. CallOK([at |-> "saved"])
  BY DEF CallOK
<1> QED
  BY <1>4, <1>5, <1>6, OneCallChanges DEF PanelsOK

LEMMA PanelStepsKeep ==
    ASSUME PanelsOK, NEW a \in Admin, Panel(a)
    PROVE  PanelsOK'
<1> USE DEF Stored
<1>1. CASE AskStatus(a) \/ ReadBack(a)
  <2>1. /\ call' = [call EXCEPT ![a] = [at |-> "status", read |-> settings]]
        /\ settings' = settings /\ panel' = panel
    BY <1>1 DEF AskStatus, ReadBack
  <2>2. CallOK([at |-> "status", read |-> settings])
    BY DEF PanelsOK, CallOK
  <2> QED
    BY <2>1, <2>2, OneCallChanges DEF PanelsOK
<1>2. CASE AnswerStatus(a)
  <2> DEFINE s == call[a].read
             form == [enabled |-> Enabled(s), smtpUrl |-> Masked(EffectiveUrl(s)),
                      from |-> EffectiveFrom(s)]
  <2>1. s \in Row \cup {None}
    BY <1>2 DEF AnswerStatus, PanelsOK, CallOK, Idle
  <2>2. /\ call' = [call EXCEPT ![a] = Idle] /\ settings' = settings
        /\ panel' = [panel EXCEPT ![a] = form]
    BY <1>2 DEF AnswerStatus
  <2> HIDE DEF s
  <2>3. Enabled(s) \in BOOLEAN
    BY <2>1 DEF Enabled, Row
  <2>4. form \in Form
    BY <2>1, <2>3, EffectiveIsUrl, EffectiveIsFrom, MaskedIsUrl DEF Form
  <2> HIDE DEF form
  <2>5. panel' \in [Admin -> Form \cup {None}]
    BY <2>2, <2>4 DEF PanelsOK
  <2>6. CallOK(Idle)
    BY DEF CallOK
  <2> QED
    BY <2>2, <2>5, <2>6, OneCallChanges DEF PanelsOK
<1>3. CASE BeginSave(a)
  <2>1. panel[a] \in Form
    BY <1>3 DEF BeginSave, PanelsOK
  <2>2. PICK enabled \in BOOLEAN, url \in TypedUrl \cup {panel[a].smtpUrl},
             from \in TypedFrom \cup {panel[a].from} :
          call' = [call EXCEPT ![a] = [at |-> "save", existing |-> settings,
                    input |-> [enabled |-> enabled, smtpUrl |-> url, fromAddress |-> from]]]
    BY <1>3 DEF BeginSave
  <2>3. url \in Url /\ from \in From
    BY <2>1, Constants DEF Form
  <2>4. [enabled |-> enabled, smtpUrl |-> url, fromAddress |-> from] \in Input
    BY <2>3 DEF Input
  <2>5. CallOK([at |-> "save", existing |-> settings,
                input |-> [enabled |-> enabled, smtpUrl |-> url, fromAddress |-> from]])
    BY <2>4 DEF CallOK, PanelsOK
  <2>6. settings' = settings /\ panel' = panel
    BY <1>3 DEF BeginSave
  <2> QED
    BY <2>2, <2>5, <2>6, OneCallChanges DEF PanelsOK
<1>4. CASE UpdateEmailSettings(a)
  BY <1>4, SavesKeep
<1>5. CASE CallFails(a)
  <2>1. CallOK(Idle)
    BY DEF CallOK
  <2> QED
    BY <1>5, <2>1, OneCallChanges DEF CallFails, PanelsOK
<1> QED
  BY <1>1, <1>2, <1>3, <1>4, <1>5 DEF Panel

LEMMA OthersLeavePanels ==
    ASSUME PanelsOK, [Next]_vars, ~\E a \in Admin : Panel(a)
    PROVE  /\ settings' = settings /\ panel' = panel
           /\ call' = call \/ call' = [a \in Admin |-> Idle]
<1> USE DEF Stored, Elsewhere
<1>1. CASE \E m \in Mail : Sending(m)
  BY <1>1 DEF Sending, AskMail, PrepareMail, SendMail, RecordMail
<1>2. CASE WorkerStep
  BY <1>2 DEF WorkerStep, Claim, Check, CheckPruned, RecordProcessing, Deliver, CompleteEvent,
     RecordOutcome, FailEvent, RecordFailure, RecordRetry
<1>3. CASE StatementFails \/ Dies \/ CrashApi
  BY <1>3 DEF StatementFails, Dies, CrashApi
<1>4. CASE PruneChanges \/ PruneNotifications \/ PurgeAuditLogs \/ UNCHANGED vars
  BY <1>4 DEF PruneChanges, PruneNotifications, PurgeAuditLogs, vars
<1> QED
  BY <1>1, <1>2, <1>3, <1>4 DEF Next

LEMMA PanelsStayOK == PanelsOK /\ [Next]_vars => PanelsOK'
<1> SUFFICES ASSUME PanelsOK, [Next]_vars PROVE PanelsOK'
  OBVIOUS
<1>1. CASE \E a \in Admin : Panel(a)
  BY <1>1, PanelStepsKeep
<1>2. CASE ~\E a \in Admin : Panel(a)
  BY <1>2, OthersLeavePanels DEF PanelsOK, CallOK
<1> QED
  BY <1>1, <1>2

(* What MaskedUrlIsKept says of a step.                                      *)
UrlKept ==
  \A a \in Admin :
    /\ call[a].at = "save" /\ call'[a].at = "saved" /\ settings # None
    /\ call[a].existing = settings /\ call[a].input.smtpUrl = Masked(EffectiveUrl(settings))
    => EffectiveUrl(settings') = EffectiveUrl(settings)

LEMMA MaskStep ==
    ASSUME PanelsOK, [Next]_vars, NEW a \in Admin,
           call[a].at = "save", call'[a].at = "saved", settings # None,
           call[a].existing = settings,
           call[a].input.smtpUrl = Masked(EffectiveUrl(settings))
    PROVE  EffectiveUrl(settings') = EffectiveUrl(settings)
<1> DEFINE input == call[a].input
           url == EffectiveUrl(settings)
<1>1. input \in Input
  BY DEF PanelsOK, CallOK, Idle
<1>2. UpdateEmailSettings(a)
  <2>1. PICK b \in Admin : Panel(b)
    BY OthersLeavePanels DEF Idle
  <2>2. ASSUME b # a
        PROVE  call'[a] = call[a]
    BY <2>1, <2>2 DEF Panel, AskStatus, AnswerStatus, BeginSave, UpdateEmailSettings, ReadBack,
       CallFails, PanelsOK
  <2>3. b = a
    BY <2>2
  <2> QED
    BY <2>1, <2>3 DEF Panel, AskStatus, AnswerStatus, BeginSave, ReadBack, CallFails, PanelsOK, Idle
<1>3. settings' = [input EXCEPT !.smtpUrl = MergeSmtpUrl(@, url)]
  BY <1>2 DEF UpdateEmailSettings
<1>4. url \in Url
  BY EffectiveIsUrl DEF PanelsOK
<1>5. MergeSmtpUrl(input.smtpUrl, url) = url
  BY <1>4, MaskIsMergedAway
<1> HIDE DEF input, url
<1>6. settings' \in Row /\ settings'.smtpUrl = url
  BY <1>1, <1>3, <1>4, <1>5 DEF Input, Row
<1>7. EffectiveUrl(settings') = url
  BY <1>4, <1>6, Constants DEF EffectiveUrl, Or
<1> QED
  BY <1>7 DEF url

(* An unchanged masked password preserves the credential                     *)
(* (docs/SETTINGS.md:96, mergeSmtpUrl): whatever mail, faults and other      *)
(* administrators do, a save with the masked URL leaves the URL in force as  *)
(* it was, if there is a row and it is the one that was read.                *)
THEOREM MaskPreservesTheCredential == Spec => MaskedUrlIsKept
<1>1. Init => PanelsOK
  <2> SUFFICES ASSUME Init PROVE PanelsOK
    OBVIOUS
  <2>1. settings \in Row \cup {None} /\ panel \in [Admin -> Form \cup {None}]
    BY OutboundMailAssumption DEF Init
  <2>2. call = [a \in Admin |-> Idle]
    BY DEF Init
  <2> QED
    BY <2>1, <2>2 DEF PanelsOK, CallOK
<1>2. PanelsOK /\ [Next]_vars => PanelsOK'
  BY PanelsStayOK
<1>3. PanelsOK /\ [Next]_vars => [UrlKept]_vars
  BY MaskStep DEF UrlKept
<1> QED
  BY <1>1, <1>2, <1>3, PTL DEF Spec, MaskedUrlIsKept, UrlKept

-----------------------------------------------------------------------------
(* The timelines.                                                            *)

Subject == Mail \cup Notice
Event == [status : Status, attempt : Nat]
Stages == {"idle", "claimed", "record", "send", "complete", "skip", "sent", "skipped", "fail",
           "gave_up", "failed", "retry"}

\* The newest of some steps.
Newest(steps) == steps[Len(steps)].status

IsRow(row) ==
  /\ row = [status |-> row.status, attempts |-> row.attempts, tries |-> row.tries]
  /\ row.status \in Status /\ row.attempts \in Nat /\ row.tries \in Seq(Status)

\* The attempts of a notification, and the log of its mails, end as its row says.
TriesTell(row) ==
  row.status # "queued" => row.tries # <<>> /\ row.tries[Len(row.tries)] = row.status
LogTells(steps, row) == steps # <<>> => Newest(steps) = row.status

TablesOK ==
  /\ log \in [Subject -> Seq(Event)]
  /\ notice = [n \in Notice |-> notice[n]] /\ \A n \in Notice : Exists(n) => IsRow(notice[n])
  /\ IsWorker(worker) /\ worker.at \in Stages
  /\ IF worker.at = "idle" THEN Held = None ELSE Held \in Notice
  /\ died \subseteq mishaps

\* While the worker has a notification, its row is ahead of the log.
RowOK(n) ==
  Exists(n) =>
    /\ Held # n /\ n \notin died =>
         notice[n].status # "processing" /\ TriesTell(notice[n]) /\ LogTells(log[n], notice[n])
    /\ Held = n =>
         /\ worker.at \in {"sent", "skipped"} => notice[n].status = worker.at /\ TriesTell(notice[n])
         /\ worker.at = "gave_up" => notice[n].status = "failed" /\ TriesTell(notice[n])
         /\ worker.at \in {"failed", "retry"} => notice[n].status = "queued"

\* What no fault has hit was accepted if and only if its row, its log or the
\* worker says so.
AcceptedOK(n) ==
  n \notin mishaps =>
    /\ Held # n =>
         /\ Exists(n) => (notice[n].status = "sent" <=> n \in accepted)
         /\ log[n] # <<>> => (Newest(log[n]) = "sent" <=> n \in accepted)
    /\ Held = n =>
         /\ worker.at \in {"complete", "sent"} => n \in accepted
         /\ worker.at \notin {"complete", "sent", "fail"} => n \notin accepted
         /\ worker.at = "fail" /\ Exists(n) => n \notin accepted
         /\ worker.at = "claimed" /\ log[n] # <<>> => Newest(log[n]) # "sent"

MailTold(m) ==
  m \notin mishaps =>
    /\ mail[m].at \in {"new", "asked", "send", "rejected"} => m \notin accepted
    /\ mail[m].at = "sent" => m \in accepted
    /\ mail[m].at = "done" /\ log[m] # <<>> => (Newest(log[m]) = "sent" <=> m \in accepted)

TInv ==
  /\ TablesOK
  /\ \A n \in Notice : RowOK(n) /\ AcceptedOK(n)
  /\ mail = [m \in Mail |-> mail[m]] /\ \A m \in Mail : MailTold(m)

LEMMA EndOfAppend ==
    ASSUME NEW S, NEW s \in Seq(S), NEW e \in S
    PROVE  /\ Append(s, e) \in Seq(S) /\ Append(s, e) # <<>>
           /\ Append(s, e)[Len(Append(s, e))] = e
<1>1. Len(s) \in Nat /\ Len(Append(s, e)) = Len(s) + 1 /\ Append(s, e)[Len(s) + 1] = e
  OBVIOUS
<1> QED
  BY <1>1

LEMMA EndOfSubSeq ==
    ASSUME NEW s \in Seq(Event), NEW k \in Nat, k <= Len(s),
           NEW t, t = SubSeq(s, k + 1, Len(s)), t # <<>>
    PROVE  s # <<>> /\ t[Len(t)] = s[Len(s)]
<1>1. k + 1 \in 1 .. Len(s) + 1 /\ Len(s) \in Nat
  OBVIOUS
<1>2. t \in Seq(Event) /\ Len(t) = Len(s) - k
  BY <1>1
<1>3. Len(s) - k > 0
  BY <1>1, <1>2
<1>4. t[Len(s) - k] = s[Len(s)]
  BY <1>1, <1>3
<1>5. s # <<>>
  <2>1. s = <<>> => Len(s) = 0
    OBVIOUS
  <2> QED
    BY <1>1, <1>3, <2>1
<1>6. t[Len(t)] = s[Len(s)]
  BY <1>2, <1>4
<1> QED
  BY <1>5, <1>6

LEMMA SuffixIsSeq ==
    ASSUME NEW S, NEW s \in Seq(S), NEW k \in Nat, k <= Len(s)
    PROVE  SubSeq(s, k + 1, Len(s)) \in Seq(S)
OBVIOUS

LEMMA AppendedIsNewest ==
    ASSUME log \in [Subject -> Seq(Event)], NEW x \in Subject, NEW status \in Status, NEW attempt \in Nat,
           log' = Append1(x, status, attempt)
    PROVE  /\ log' \in [Subject -> Seq(Event)]
           /\ log'[x] # <<>> /\ Newest(log'[x]) = status
           /\ \A y \in Subject \ {x} : log'[y] = log[y]
<1> DEFINE step == Step(status, attempt)
<1>1. step \in Event /\ step.status = status
  BY DEF Step, Event
<1>2. log'[x] = Append(log[x], step) /\ log' = [log EXCEPT ![x] = Append(log[x], step)]
  BY DEF Append1
<1> HIDE DEF step
<1>3. log[x] \in Seq(Event)
  OBVIOUS
<1>4. log'[x] \in Seq(Event) /\ log'[x] # <<>> /\ log'[x][Len(log'[x])] = step
  BY <1>1, <1>2, <1>3, EndOfAppend
<1> QED
  BY <1>1, <1>2, <1>4 DEF Newest

\* What retention leaves of the events of x ends as they did.
Shortened(before, after) == after # <<>> => before # <<>> /\ Newest(after) = Newest(before)

LEMMA RetentionShortens ==
    ASSUME log \in [Subject -> Seq(Event)], NEW X \in SUBSET Subject, NEW old \in Ages(X),
           log' = Younger(old)
    PROVE  log' \in [Subject -> Seq(Event)] /\ \A x \in Subject : Shortened(log[x], log'[x])
<1> SUFFICES ASSUME NEW x \in Subject
             PROVE  log'[x] \in Seq(Event) /\ Shortened(log[x], log'[x])
  BY DEF Younger, Subject
<1>1. CASE x \in X
  <2>1. x \in DOMAIN old /\ old[x] \in Nat /\ old[x] <= Len(log[x])
    <3>1. old \in [X -> UNION {0 .. Len(log[y]) : y \in X}] /\ old[x] <= Len(log[x])
      BY <1>1 DEF Ages
    <3>2. PICK y \in X : old[x] \in 0 .. Len(log[y])
      BY <1>1, <3>1
    <3>3. Len(log[y]) \in Nat
      OBVIOUS
    <3> QED
      BY <1>1, <3>1, <3>2, <3>3
  <2>2. log'[x] = SubSeq(log[x], old[x] + 1, Len(log[x]))
    BY <2>1 DEF Younger, Subject
  <2>3. log[x] \in Seq(Event)
    OBVIOUS
  <2>4. log'[x] \in Seq(Event)
    BY <2>1, <2>2, <2>3, SuffixIsSeq
  <2>5. log'[x] # <<>> => log[x] # <<>> /\ log'[x][Len(log'[x])] = log[x][Len(log[x])]
    <3> DEFINE s == log[x] t == log'[x] k == old[x]
    <3>1. s \in Seq(Event) /\ k \in Nat /\ k <= Len(s) /\ t = SubSeq(s, k + 1, Len(s))
      BY <2>1, <2>2, <2>3
    <3> HIDE DEF s, t, k
    <3>2. t # <<>> => s # <<>> /\ t[Len(t)] = s[Len(s)]
      BY <3>1, EndOfSubSeq
    <3> QED
      BY <3>2 DEF s, t
  <2> QED
    BY <2>4, <2>5 DEF Shortened, Newest
<1>2. CASE x \notin X
  <2>1. log'[x] = log[x]
    BY <1>2 DEF Younger, Ages, Subject
  <2> QED
    BY <2>1 DEF Shortened
<1> QED
  BY <1>1, <1>2

\* Nothing was done about x, but that retention may have taken some of it.
LeftAlone(n) ==
  /\ Held = n <=> Held' = n
  /\ Held = n => worker'.at = worker.at
  /\ notice'[n] \in {notice[n], None} /\ Shortened(log[n], log'[n])
  /\ n \in accepted <=> n \in accepted'
  /\ n \in mishaps => n \in mishaps'
  /\ n \in died => n \in died'

LEMMA LeftAloneIsOK ==
    ASSUME NEW n \in Notice, RowOK(n), AcceptedOK(n), LeftAlone(n)
    PROVE  RowOK(n)' /\ AcceptedOK(n)'
<1>1. Exists(n)' => Exists(n) /\ notice'[n] = notice[n]
  BY DEF Exists, LeftAlone
<1>2. ASSUME Exists(n), LogTells(log[n], notice[n])
      PROVE  LogTells(log'[n], notice[n])
  BY <1>2 DEF LogTells, LeftAlone, Shortened
<1>3. RowOK(n)'
  BY <1>1, <1>2 DEF RowOK, LeftAlone
<1>4. AcceptedOK(n)'
  BY <1>1 DEF AcceptedOK, LeftAlone, Shortened
<1> QED
  BY <1>3, <1>4

LEMMA IdsAreApart == None \notin Subject /\ \A m \in Mail : m \notin Notice
BY OutboundMailAssumption DEF Subject

LEMMA TimelinesBegin == Init => TInv
<1> SUFFICES ASSUME Init PROVE TInv
  OBVIOUS
<1>1. /\ worker.at = "idle" /\ worker.of = None
      /\ worker = [at |-> worker.at, of |-> worker.of, read |-> worker.read,
                   service |-> worker.service]
  BY DEF Init, WorkerBoot
<1>2. /\ log = [x \in Subject |-> <<>>]
      /\ notice = [n \in Notice |-> [status |-> "queued", attempts |-> 0, tries |-> <<>>]]
      /\ mail = [m \in Mail |-> NewMail] /\ accepted = {} /\ died = {} /\ mishaps = {}
  BY DEF Init, Subject
<1>3. /\ IsRow([status |-> "queued", attempts |-> 0, tries |-> <<>>])
      /\ [status |-> "queued", attempts |-> 0, tries |-> <<>>].status = "queued"
  BY DEF IsRow, Status
<1>4. TablesOK
  <2>1. log \in [Subject -> Seq(Event)]
    BY <1>2
  <2>2. notice = [n \in Notice |-> notice[n]] /\ \A n \in Notice : IsRow(notice[n])
    BY <1>2, <1>3
  <2> QED
    BY <1>1, <1>2, <2>1, <2>2 DEF TablesOK, Stages, IsWorker, Held
<1>5. \A n \in Notice : RowOK(n) /\ AcceptedOK(n)
  <2> TAKE n \in Notice
  <2>1. n # None /\ log[n] = <<>> /\ notice[n].status = "queued"
    BY <1>2, <1>3, IdsAreApart DEF Subject
  <2> QED
    BY <1>1, <1>2, <2>1 DEF RowOK, AcceptedOK, TriesTell, LogTells, Held
<1>6. \A m \in Mail : MailTold(m)
  BY <1>2 DEF MailTold, NewMail
<1> QED
  BY <1>2, <1>4, <1>5, <1>6 DEF TInv

LEMMA MailsLeftAlone ==
    ASSUME NEW m \in Mail, MailTold(m), mail'[m] = mail[m], Shortened(log[m], log'[m]),
           m \in accepted <=> m \in accepted', m \in mishaps => m \in mishaps'
    PROVE  MailTold(m)'
BY DEF MailTold, Shortened

(* A step of the worker about the notification h.                            *)
StepAbout(h) ==
  /\ Held \in {h, None} /\ Held' \in {h, None} /\ mail' = mail
  /\ \A x \in Subject \ {h} : log'[x] = log[x]
  /\ \A n \in Notice \ {h} : notice'[n] = notice[n]
  /\ accepted' \in {accepted, accepted \cup {h}} /\ mishaps' \in {mishaps, mishaps \cup {h}}
  /\ died' \in {died, died \cup {h}}

LEMMA StepsAboutOne ==
    ASSUME TInv, NEW h \in Notice, StepAbout(h), TablesOK', RowOK(h)', AcceptedOK(h)'
    PROVE  TInv'
<1>1. ASSUME NEW n \in Notice, n # h
      PROVE  RowOK(n)' /\ AcceptedOK(n)'
  <2>1. n \in Subject /\ n # None
    BY IdsAreApart DEF Subject
  <2>2. LeftAlone(n)
    BY <1>1, <2>1 DEF StepAbout, LeftAlone, Shortened
  <2> QED
    BY <2>2, LeftAloneIsOK DEF TInv
<1>2. ASSUME NEW m \in Mail
      PROVE  MailTold(m)'
  <2>1. m \in Subject /\ m # h
    BY IdsAreApart DEF Subject
  <2>2. Shortened(log[m], log'[m])
    BY <2>1 DEF StepAbout, Shortened
  <2> QED
    BY <2>1, <2>2, MailsLeftAlone DEF TInv, StepAbout
<1> QED
  BY <1>1, <1>2 DEF TInv, StepAbout

(* How a step of the worker leaves its own state, the rows and the log.      *)
LEMMA TablesStay ==
    ASSUME TablesOK, log' \in [Subject -> Seq(Event)],
           IsWorker(worker'), worker'.at \in Stages,
           IF worker'.at = "idle" THEN Held' = None ELSE Held' \in Notice,
           \/ notice' = notice
           \/ \E h \in Notice : IsRow(notice'[h]) /\ notice' = [notice EXCEPT ![h] = notice'[h]],
           died' \subseteq mishaps'
    PROVE  TablesOK'
BY DEF TablesOK, Exists

LEMMA WorkerGoes ==
    ASSUME IsWorker(worker), NEW at, worker' = [worker EXCEPT !.at = at]
    PROVE  IsWorker(worker') /\ worker'.at = at /\ Held' = Held
BY DEF IsWorker, Held

LEMMA WorkerReleases ==
    ASSUME IsWorker(worker), Release
    PROVE  IsWorker(worker') /\ worker'.at = "idle" /\ Held' = None
BY DEF IsWorker, Release, Held

LEMMA Recorded ==
    ASSUME TablesOK, NEW h \in Notice, NEW status \in Status,
           log' = Append1(h, status, IF Exists(h) THEN notice[h].attempts ELSE 1)
    PROVE  /\ log' \in [Subject -> Seq(Event)] /\ log'[h] # <<>> /\ Newest(log'[h]) = status
           /\ \A x \in Subject \ {h} : log'[x] = log[x]
<1> DEFINE attempt == IF Exists(h) THEN notice[h].attempts ELSE 1
<1>1. attempt \in Nat
  BY DEF TablesOK, IsRow
<1>2. h \in Subject /\ log \in [Subject -> Seq(Event)]
  BY DEF Subject, TablesOK
<1> HIDE DEF attempt
<1>3. log' = Append1(h, status, attempt)
  BY DEF attempt
<1> QED
  BY <1>1, <1>2, <1>3, AppendedIsNewest

LEMMA RowsStart ==
    ASSUME NEW row, IsRow(row), NEW new,
           new = [row EXCEPT !.status = "processing", !.attempts = @ + 1]
    PROVE  IsRow(new)
<1>1. /\ new = [status |-> new.status, attempts |-> new.attempts, tries |-> new.tries]
      /\ new.status = "processing" /\ new.attempts = row.attempts + 1 /\ new.tries = row.tries
  BY DEF IsRow
<1> QED
  BY <1>1 DEF IsRow, Status

LEMMA RowsEnd ==
    ASSUME NEW row, IsRow(row), NEW status \in Status, NEW try \in Status, NEW new,
           new = [row EXCEPT !.status = status, !.tries = Append(@, try)]
    PROVE  /\ IsRow(new) /\ new.status = status /\ new.attempts = row.attempts
           /\ status \in {try, "queued"} => TriesTell(new)
<1>1. /\ new = [status |-> new.status, attempts |-> new.attempts, tries |-> new.tries]
      /\ new.status = status /\ new.attempts = row.attempts /\ new.tries = Append(row.tries, try)
  BY DEF IsRow
<1>2. row.tries \in Seq(Status) /\ row.attempts \in Nat
  BY DEF IsRow
<1>3. /\ new.tries \in Seq(Status) /\ new.tries # <<>> /\ new.tries[Len(new.tries)] = try
  BY <1>1, <1>2, EndOfAppend
<1> QED
  BY <1>1, <1>2, <1>3 DEF IsRow, TriesTell

LEMMA ClaimTells ==
    ASSUME TInv, NEW h \in Notice, Claim(h)
    PROVE  TInv'
<1> USE DEF Elsewhere, History
<1>1. /\ worker.at = "idle" /\ Held = None /\ Exists(h) /\ IsRow(notice[h])
      /\ worker' = [worker EXCEPT !.at = "claimed", !.of = h]
      /\ notice' = [notice EXCEPT ![h].status = "processing", ![h].attempts = @ + 1]
      /\ UNCHANGED <<mail, log, accepted, died, mishaps>> /\ notice[h].status = "queued"
  BY DEF TInv, TablesOK, Claim
<1>2. IsWorker(worker') /\ worker'.at = "claimed" /\ Held' = h
  BY <1>1 DEF TInv, TablesOK, IsWorker, Held
<1>3. IsRow(notice'[h]) /\ notice' = [notice EXCEPT ![h] = notice'[h]]
  <2> DEFINE row == [notice[h] EXCEPT !.status = "processing", !.attempts = @ + 1]
  <2>1. notice' = [notice EXCEPT ![h] = row] /\ notice = [n \in Notice |-> notice[n]]
    BY <1>1 DEF TInv, TablesOK
  <2>2. IsRow(row)
    BY <1>1, RowsStart
  <2> HIDE DEF row
  <2>3. notice'[h] = row
    BY <2>1
  <2> QED
    BY <2>1, <2>2, <2>3
<1>4. TablesOK'
  BY <1>1, <1>2, <1>3, TablesStay DEF TInv, TablesOK, Stages
<1>5. StepAbout(h)
  BY <1>1, <1>2, <1>3 DEF StepAbout, TInv, TablesOK
<1>6. RowOK(h)'
  BY <1>2 DEF RowOK
<1>7. AcceptedOK(h)'
  <2>1. h # None /\ AcceptedOK(h)
    BY IdsAreApart DEF TInv, Subject
  <2> QED
    BY <1>1, <1>2, <2>1 DEF AcceptedOK
<1> QED
  BY <1>4, <1>5, <1>6, <1>7, StepsAboutOne

(* What is the same in every step of a worker that has the notification h.   *)
LEMMA HeldByTheWorker ==
    ASSUME TInv, worker.at # "idle"
    PROVE  /\ Held \in Notice /\ Held # None /\ Held \in Subject
           /\ TablesOK /\ IsWorker(worker) /\ worker.at \in Stages
           /\ RowOK(Held) /\ AcceptedOK(Held) /\ died \subseteq mishaps
           /\ Exists(Held) => IsRow(notice[Held])
BY IdsAreApart DEF TInv, TablesOK, Subject

(* The worker goes on, or stops, without having changed rows or log.         *)
LEMMA WorkerOnlyMoves ==
    ASSUME TInv, NEW h \in Notice, Held = h, Held' \in {h, None},
           IsWorker(worker'), worker'.at \in Stages, worker'.at = "idle" <=> Held' = None,
           UNCHANGED <<mail, notice, log>>, accepted' \in {accepted, accepted \cup {h}},
           mishaps' \in {mishaps, mishaps \cup {h}}, died' \in {died, died \cup {h}},
           died' \subseteq mishaps', RowOK(h)', AcceptedOK(h)'
    PROVE  TInv'
<1>1. h # None
  BY IdsAreApart DEF Subject
<1>2. TablesOK'
  BY <1>1, TablesStay DEF TInv, TablesOK
<1>3. StepAbout(h)
  BY DEF StepAbout
<1> QED
  BY <1>2, <1>3, StepsAboutOne

LEMMA ChecksTell ==
    ASSUME TInv, Check \/ CheckPruned \/ Deliver \/ StatementFails \/ Dies
    PROVE  TInv'
<1> USE DEF Elsewhere, History
<1>1. worker.at # "idle"
  BY DEF Check, CheckPruned, Deliver, StatementFails, Dies
<1> PICK h \in Notice : Held = h
  BY <1>1, HeldByTheWorker
<1>2. /\ h \in Notice /\ h # None /\ TablesOK /\ IsWorker(worker) /\ worker.at \in Stages
      /\ RowOK(h) /\ AcceptedOK(h) /\ died \subseteq mishaps
  BY <1>1, HeldByTheWorker
<1>3. UNCHANGED <<mail, notice, log>>
  BY DEF Check, CheckPruned, Deliver, StatementFails, Dies
<1>4. CASE Check
  <2>1. worker.at = "claimed" /\ UNCHANGED <<accepted, died, mishaps>>
    BY <1>4 DEF Check
  <2>2. IsWorker(worker') /\ worker'.at \in {"skip", "record"} /\ Held' = h
    BY <1>2, <1>4 DEF Check, IsWorker, Held
  <2>3. RowOK(h)' /\ AcceptedOK(h)'
    BY <1>2, <1>3, <2>1, <2>2 DEF RowOK, AcceptedOK, Exists
  <2> QED
    BY <1>2, <1>3, <2>1, <2>2, <2>3, WorkerOnlyMoves DEF Stages
<1>5. CASE CheckPruned
  <2>1. worker.at = "claimed" /\ ~Exists(h) /\ UNCHANGED <<accepted, died, mishaps>>
    BY <1>5 DEF CheckPruned
  <2>2. IsWorker(worker') /\ worker'.at = "idle" /\ Held' = None
    BY <1>2, <1>5, WorkerReleases DEF CheckPruned
  <2>3. RowOK(h)' /\ AcceptedOK(h)'
    BY <1>2, <1>3, <2>1, <2>2 DEF RowOK, AcceptedOK, Exists
  <2> QED
    BY <1>2, <1>3, <2>1, <2>2, <2>3, WorkerOnlyMoves DEF Stages
<1>6. CASE Deliver
  <2>1. PICK outcome \in {"complete", "fail"}, taken \in BOOLEAN :
          /\ outcome = "complete" => taken
          /\ worker' = [worker EXCEPT !.at = outcome]
          /\ accepted' = IF taken THEN accepted \cup {h} ELSE accepted
          /\ mishaps' = IF outcome = "fail" /\ taken THEN mishaps \cup {h} ELSE mishaps
    BY <1>6 DEF Deliver, Go
  <2>2. worker.at = "send" /\ died' = died
    BY <1>6 DEF Deliver
  <2>3. IsWorker(worker') /\ worker'.at = outcome /\ Held' = h
    BY <1>2, <2>1, WorkerGoes
  <2>4. RowOK(h)' /\ AcceptedOK(h)'
    BY <1>2, <1>3, <2>1, <2>2, <2>3 DEF RowOK, AcceptedOK, Exists
  <2>5. died' \subseteq mishaps'
    BY <1>2, <2>1, <2>2
  <2> QED
    BY <1>2, <1>3, <2>1, <2>2, <2>3, <2>4, <2>5, WorkerOnlyMoves DEF Stages
<1>7. CASE StatementFails
  <2>1. worker' = [worker EXCEPT !.at = "fail"] /\ mishaps' = mishaps \cup {h}
        /\ UNCHANGED <<accepted, died>>
    BY <1>7 DEF StatementFails, Go
  <2>2. IsWorker(worker') /\ worker'.at = "fail" /\ Held' = h
    BY <1>2, <2>1, WorkerGoes
  <2>3. RowOK(h)' /\ AcceptedOK(h)'
    BY <2>1, <2>2 DEF RowOK, AcceptedOK
  <2> QED
    BY <1>2, <1>3, <2>1, <2>2, <2>3, WorkerOnlyMoves DEF Stages
<1>8. CASE Dies
  <2>1. worker' = WorkerBoot /\ mishaps' = mishaps \cup {h} /\ died' = died \cup {h}
        /\ UNCHANGED accepted
    BY <1>8 DEF Dies
  <2>2. IsWorker(worker') /\ worker'.at = "idle" /\ Held' = None
    BY <2>1 DEF IsWorker, WorkerBoot, Held
  <2>3. RowOK(h)' /\ AcceptedOK(h)'
    BY <1>2, <2>1, <2>2 DEF RowOK, AcceptedOK
  <2> QED
    BY <1>2, <1>3, <2>1, <2>2, <2>3, WorkerOnlyMoves DEF Stages
<1> QED
  BY <1>4, <1>5, <1>6, <1>7, <1>8

LEMMA RecordsTell ==
    ASSUME TInv, RecordProcessing \/ RecordOutcome \/ RecordFailure \/ RecordRetry
    PROVE  TInv'
<1> USE DEF Elsewhere, History
<1>1. worker.at \in {"record", "sent", "skipped", "gave_up", "failed", "retry"}
  BY DEF RecordProcessing, RecordOutcome, RecordFailure, RecordRetry
<1> PICK h \in Notice : Held = h
  BY <1>1, HeldByTheWorker
<1> PICK what : what = CASE worker.at = "record" -> "processing"
                         [] worker.at \in {"sent", "skipped"} -> worker.at
                         [] worker.at \in {"gave_up", "failed"} -> "failed" [] OTHER -> "queued"
  OBVIOUS
<1>2. /\ h \in Notice /\ h # None /\ TablesOK /\ IsWorker(worker) /\ worker.at \in Stages
      /\ RowOK(h) /\ AcceptedOK(h) /\ died \subseteq mishaps
  BY <1>1, HeldByTheWorker
<1>3. UNCHANGED <<mail, notice, accepted, died, mishaps>>
  BY DEF RecordProcessing, RecordOutcome, RecordFailure, RecordRetry
<1>4. log' = Append1(h, what, IF Exists(h) THEN notice[h].attempts ELSE 1) /\ what \in Status
  BY <1>1 DEF RecordProcessing, RecordOutcome, RecordFailure, RecordRetry, Status
<1>5. /\ log' \in [Subject -> Seq(Event)] /\ log'[h] # <<>> /\ Newest(log'[h]) = what
      /\ \A x \in Subject \ {h} : log'[x] = log[x]
  BY <1>2, <1>4, Recorded
<1>6. \/ worker.at = "record" /\ worker' = [worker EXCEPT !.at = "send"]
      \/ worker.at = "failed" /\ worker' = [worker EXCEPT !.at = "retry"]
      \/ worker.at \in {"sent", "skipped", "gave_up", "retry"} /\ Release
  BY DEF RecordProcessing, RecordOutcome, RecordFailure, RecordRetry, Go
<1>7. /\ IsWorker(worker')
      /\ \/ worker.at = "record" /\ worker'.at = "send" /\ Held' = h
         \/ worker.at = "failed" /\ worker'.at = "retry" /\ Held' = h
         \/ worker.at \in {"sent", "skipped", "gave_up", "retry"} /\ worker'.at = "idle" /\ Held' = None
  BY <1>2, <1>6, WorkerGoes, WorkerReleases
<1>8. TablesOK'
  BY <1>2, <1>3, <1>5, <1>7, TablesStay DEF Stages
<1>9. StepAbout(h)
  BY <1>3, <1>5, <1>7 DEF StepAbout
<1>10. RowOK(h)'
  BY <1>1, <1>2, <1>3, <1>5, <1>7 DEF RowOK, Exists, LogTells, TriesTell
<1>11. AcceptedOK(h)'
  <2>1. worker'.at = "idle" => (what = "sent" <=> worker.at = "sent")
    BY <1>1, <1>7
  <2>2. Exists(h)' <=> Exists(h)
    BY <1>3 DEF Exists
  <2>3. worker'.at = "idle" /\ Exists(h) => (notice[h].status = "sent" <=> worker.at = "sent")
    BY <1>2, <1>7 DEF RowOK
  <2> QED
    BY <1>2, <1>3, <1>5, <1>7, <2>1, <2>2, <2>3 DEF AcceptedOK
<1> QED
  BY <1>2, <1>8, <1>9, <1>10, <1>11, StepsAboutOne

(* The outcome of an attempt in its row.                                     *)
LEMMA RowsClose ==
    ASSUME TablesOK, NEW h \in Notice, Exists(h), NEW status \in Status, NEW try \in Status,
           notice' = [notice EXCEPT ![h].status = status, ![h].tries = Append(@, try)]
    PROVE  /\ IsRow(notice'[h]) /\ notice' = [notice EXCEPT ![h] = notice'[h]]
           /\ notice'[h].status = status /\ notice'[h].attempts = notice[h].attempts
           /\ status \in {try, "queued"} => TriesTell(notice'[h])
           /\ \A n \in Notice \ {h} : notice'[n] = notice[n]
<1> DEFINE row == notice[h]
           new == [row EXCEPT !.status = status, !.tries = Append(@, try)]
<1>1. IsRow(row) /\ notice = [n \in Notice |-> notice[n]]
  BY DEF TablesOK
<1>2. notice' = [notice EXCEPT ![h] = [row EXCEPT !.status = status, !.tries = Append(@, try)]]
  BY <1>1
<1>3. IsRow(row)
  BY <1>1 DEF row
<1> HIDE DEF row
<1>4. IsRow(new) /\ new.status = status /\ new.attempts = row.attempts
      /\ (status \in {try, "queued"} => TriesTell(new))
  BY <1>3, RowsEnd
<1>5. notice' = [notice EXCEPT ![h] = new]
  BY <1>2
<1> HIDE DEF new
<1>6. notice'[h] = new
  BY <1>1, <1>5
<1> QED
  BY <1>1, <1>4, <1>5, <1>6 DEF row

LEMMA OutcomesTell ==
    ASSUME TInv, CompleteEvent \/ FailEvent
    PROVE  TInv'
<1> USE DEF Elsewhere, History
<1>1. worker.at \in {"complete", "skip", "fail"}
  BY DEF CompleteEvent, FailEvent
<1> PICK h \in Notice : Held = h
  BY <1>1, HeldByTheWorker
<1>2. /\ h # None /\ TablesOK /\ IsWorker(worker) /\ worker.at \in Stages
      /\ RowOK(h) /\ AcceptedOK(h) /\ died \subseteq mishaps
  BY <1>1, HeldByTheWorker
<1>3. UNCHANGED <<mail, log, accepted, died, mishaps>>
  BY DEF CompleteEvent, FailEvent
<1>4. CASE CompleteEvent /\ ~Exists(h)
  <2>1. worker' = [worker EXCEPT !.at = "fail"] /\ notice' = notice
    BY <1>4 DEF CompleteEvent, Go
  <2>2. IsWorker(worker') /\ worker'.at = "fail" /\ Held' = h
    BY <1>2, <2>1, WorkerGoes
  <2>3. RowOK(h)' /\ AcceptedOK(h)'
    BY <1>2, <1>3, <1>4, <2>1, <2>2 DEF RowOK, AcceptedOK, Exists
  <2> QED
    BY <1>2, <1>3, <2>1, <2>2, <2>3, WorkerOnlyMoves DEF Stages
<1>5. ASSUME Exists(h), NEW status \in Status, NEW try \in Status, NEW at \in Stages \ {"idle"},
             notice' = [notice EXCEPT ![h].status = status, ![h].tries = Append(@, try)],
             worker' = [worker EXCEPT !.at = at], status \in {try, "queued"},
             \/ at \in {"sent", "skipped"} /\ status = at
             \/ at = "gave_up" /\ status = "failed"
             \/ at = "failed" /\ status = "queued",
             at = "sent" <=> worker.at = "complete"
      PROVE  TInv'
  <2>1. /\ IsRow(notice'[h]) /\ notice' = [notice EXCEPT ![h] = notice'[h]]
        /\ notice'[h].status = status /\ TriesTell(notice'[h])
        /\ \A n \in Notice \ {h} : notice'[n] = notice[n]
    BY <1>2, <1>5, RowsClose
  <2>2. IsWorker(worker') /\ worker'.at = at /\ Held' = h
    BY <1>2, <1>5, WorkerGoes
  <2>3. TablesOK'
    BY <1>2, <1>3, <1>5, <2>1, <2>2, TablesStay DEF TablesOK
  <2>4. StepAbout(h)
    BY <1>3, <2>1, <2>2 DEF StepAbout
  <2>5. RowOK(h)'
    BY <1>5, <2>1, <2>2 DEF RowOK
  <2>6. AcceptedOK(h)'
    BY <1>1, <1>2, <1>3, <1>5, <2>2 DEF AcceptedOK
  <2> QED
    BY <2>3, <2>4, <2>5, <2>6, StepsAboutOne
<1>6. CASE CompleteEvent /\ Exists(h)
  <2> DEFINE outcome == IF worker.at = "complete" THEN "sent" ELSE "skipped"
  <2>1. /\ worker.at \in {"complete", "skip"} /\ worker' = [worker EXCEPT !.at = outcome]
        /\ notice' = [notice EXCEPT ![h].status = outcome, ![h].tries = Append(@, outcome)]
    BY <1>6 DEF CompleteEvent, Go
  <2>2. /\ outcome \in Status /\ outcome \in Stages \ {"idle"} /\ outcome \in {"sent", "skipped"}
        /\ outcome = "sent" <=> worker.at = "complete"
    BY <2>1 DEF Status, Stages
  <2> HIDE DEF outcome
  <2> QED
    BY <1>5, <1>6, <2>1, <2>2
<1>7. CASE FailEvent
  <2> DEFINE last == notice[h].attempts >= MaxAttempts
             status == IF last THEN "failed" ELSE "queued"
             at == IF last THEN "gave_up" ELSE "failed"
  <2>1. /\ worker.at = "fail" /\ Exists(h) /\ worker' = [worker EXCEPT !.at = at]
        /\ notice' = [notice EXCEPT ![h].status = status, ![h].tries = Append(@, "failed")]
    BY <1>7 DEF FailEvent, Go
  <2>2. /\ status \in Status /\ "failed" \in Status /\ at \in Stages \ {"idle"}
        /\ \/ at = "gave_up" /\ status = "failed"
           \/ at = "failed" /\ status = "queued"
    BY DEF Status, Stages
  <2> HIDE DEF last, status, at
  <2> QED
    BY <1>5, <2>1, <2>2
<1> QED
  BY <1>4, <1>6, <1>7

(* What is not about the worker's notification.                              *)
LEMMA TheRestIsLeftAlone ==
    ASSUME TInv, TablesOK', \A n \in Notice : LeftAlone(n),
           mail' = [m \in Mail |-> mail'[m]], \A m \in Mail : MailTold(m)'
    PROVE  TInv'
<1>1. \A n \in Notice : RowOK(n)' /\ AcceptedOK(n)'
  BY LeftAloneIsOK DEF TInv
<1> QED
  BY <1>1 DEF TInv

LEMMA PrunesTell ==
    ASSUME TInv, PruneChanges \/ PruneNotifications \/ PurgeAuditLogs
    PROVE  TInv'
<1> USE DEF Elsewhere, History
<1>1. UNCHANGED <<mail, worker, accepted, died, mishaps>>
  BY DEF PruneChanges, PruneNotifications, PurgeAuditLogs
<1>2. /\ Notice \in SUBSET Subject /\ Mail \cup Notice \in SUBSET Subject
      /\ log \in [Subject -> Seq(Event)]
  BY DEF Subject, TInv, TablesOK
<1>3. \E X \in SUBSET Subject : \E old \in Ages(X) : log' = Younger(old)
  BY <1>2 DEF PruneChanges, PruneNotifications, PurgeAuditLogs
<1>4. log' \in [Subject -> Seq(Event)] /\ \A x \in Subject : Shortened(log[x], log'[x])
  BY <1>2, <1>3, RetentionShortens
<1>5. notice' = [n \in Notice |-> notice'[n]] /\ \A n \in Notice : notice'[n] \in {notice[n], None}
  <2>1. notice = [n \in Notice |-> notice[n]]
    BY DEF TInv, TablesOK
  <2>2. CASE notice' = notice
    BY <2>1, <2>2
  <2>3. CASE PruneNotifications
    <3>1. PICK gone \in SUBSET Notice :
            notice' = [n \in Notice |-> IF n \in gone THEN None ELSE notice[n]]
      BY <2>3 DEF PruneNotifications
    <3> QED
      BY <3>1
  <2> QED
    BY <2>2, <2>3 DEF PruneChanges, PurgeAuditLogs
<1>6. TablesOK'
  <2>1. Held' = Held
    BY <1>1 DEF Held
  <2> QED
    BY <1>1, <1>4, <1>5, <2>1 DEF TInv, TablesOK, Exists, IsWorker
<1>7. ASSUME NEW n \in Notice
      PROVE  LeftAlone(n)
  BY <1>1, <1>4, <1>5 DEF LeftAlone, Held, Subject
<1>8. ASSUME NEW m \in Mail
      PROVE  MailTold(m)'
  BY <1>1, <1>4, MailsLeftAlone DEF TInv, Subject
<1> QED
  BY <1>1, <1>6, <1>7, <1>8, TheRestIsLeftAlone DEF TInv

(* A step of the API about one of its mails.                                 *)
LEMMA MailStepsTell ==
    ASSUME TInv, NEW m \in Mail, NEW x, mail' = [mail EXCEPT ![m] = x],
           \/ log' = log
           \/ \E status \in Status : log' = Append1(m, status, 1),
           UNCHANGED <<worker, notice, died>>,
           accepted' \in {accepted, accepted \cup {m}}, mishaps' \in {mishaps, mishaps \cup {m}},
           MailTold(m)'
    PROVE  TInv'
<1>1. m \in Subject /\ m \notin Notice /\ log \in [Subject -> Seq(Event)]
  BY IdsAreApart DEF Subject, TInv, TablesOK
<1>2. log' \in [Subject -> Seq(Event)] /\ \A y \in Subject \ {m} : log'[y] = log[y]
  <2>1. CASE log' = log
    BY <1>1, <2>1
  <2>2. ASSUME NEW status \in Status, log' = Append1(m, status, 1)
        PROVE  log' \in [Subject -> Seq(Event)] /\ \A y \in Subject \ {m} : log'[y] = log[y]
    <3>1. 1 \in Nat
      OBVIOUS
    <3> QED
      BY <1>1, <2>2, <3>1, AppendedIsNewest
  <2> QED
    BY <2>1, <2>2
<1>3. Held' = Held
  BY DEF Held
<1>4. TablesOK'
  BY <1>2, <1>3 DEF TInv, TablesOK, Exists, IsWorker
<1>5. ASSUME NEW n \in Notice
      PROVE  LeftAlone(n)
  <2>1. n \in Subject \ {m}
    BY <1>1 DEF Subject
  <2> QED
    BY <1>2, <1>3, <2>1 DEF LeftAlone, Shortened
<1>6. ASSUME NEW o \in Mail, o # m
      PROVE  MailTold(o)'
  <2>1. mail'[o] = mail[o] /\ o \in Subject
    BY <1>6 DEF TInv, Subject
  <2>2. Shortened(log[o], log'[o])
    BY <1>2, <1>6, <2>1 DEF Shortened
  <2> QED
    BY <1>6, <2>1, <2>2, MailsLeftAlone DEF TInv
<1>7. mail' = [o \in Mail |-> mail'[o]]
  BY DEF TInv
<1>8. \A o \in Mail : MailTold(o)'
  BY <1>6
<1> QED
  BY <1>4, <1>5, <1>7, <1>8, TheRestIsLeftAlone

LEMMA MailsTell ==
    ASSUME IInv, TInv, NEW m \in Mail, Sending(m)
    PROVE  TInv'
<1> USE DEF Stored, History
<1>1. /\ mail = [o \in Mail |-> mail[o]] /\ MailTold(m) /\ m \in Subject
      /\ log \in [Subject -> Seq(Event)]
  BY DEF TInv, TablesOK, Subject
<1>2. UNCHANGED <<worker, notice, died>>
  BY DEF Sending, AskMail, PrepareMail, SendMail, RecordMail
<1>3. ASSUME NEW status \in Status, log' = Append1(m, status, 1)
      PROVE  log'[m] # <<>> /\ Newest(log'[m]) = status
  <2>1. 1 \in Nat
    OBVIOUS
  <2> QED
    BY <1>1, <1>3, <2>1, AppendedIsNewest
<1>4. \A status \in {"processing", "failed", "skipped", "sent"} : status \in Status
  BY DEF Status
<1>5. CASE AskMail(m)
  <2>1. PICK x : /\ mail[m].at = "new" /\ mail' = [mail EXCEPT ![m] = x] /\ x.at = "asked"
                 /\ UNCHANGED <<log, accepted, mishaps>>
    <3>1. PICK kind \in Kinds :
            mail' = [mail EXCEPT ![m] = [at |-> "asked", kind |-> kind, read |-> settings]]
      BY <1>5 DEF AskMail
    <3>2. mail[m].at = "new" /\ UNCHANGED <<log, accepted, mishaps>>
      BY <1>5 DEF AskMail, NewMail
    <3>3. [at |-> "asked", kind |-> kind, read |-> settings].at = "asked"
      OBVIOUS
    <3> QED
      BY <3>1, <3>2, <3>3
  <2>2. mail'[m] = x
    BY <1>1, <2>1
  <2>3. MailTold(m)'
    BY <1>1, <2>1, <2>2 DEF MailTold
  <2> QED
    BY <1>2, <2>1, <2>3, MailStepsTell
<1>6. CASE PrepareMail(m)
  <2>1. PICK x, status :
          /\ status \in {"processing", "failed", "skipped"}
          /\ mail[m].at = "asked" /\ mail' = [mail EXCEPT ![m] = x] /\ x.at \in {"send", "done"}
          /\ accepted' = accepted
          /\ \/ log' = Append1(m, status, 1) /\ mishaps' = mishaps
             \/ log' = log /\ mishaps' = mishaps \cup {m}
    <3> DEFINE next == Configure(api, mail[m].read)
               kind == mail[m].kind
               refused == IF next.transport = None THEN "not_configured"
                          ELSE IF ~Urgent(kind) /\ ~Enabled(mail[m].read) THEN "disabled" ELSE None
               done == [at |-> "done", read |-> mail[m].read, refused |-> refused]
               failure == IF Urgent(kind) THEN "failed" ELSE "skipped"
               ready == [at |-> "send", kind |-> kind, read |-> mail[m].read, via |-> next.transport]
    <3>1. /\ mail[m].at = "asked" /\ accepted' = accepted
          /\ \/ /\ mail' = [mail EXCEPT ![m] = IF refused = None THEN ready ELSE done]
                /\ log' = Append1(m, IF refused = None THEN "processing" ELSE failure, 1)
                /\ mishaps' = mishaps
             \/ /\ mail' = [mail EXCEPT ![m] = done]
                /\ mishaps' = mishaps \cup {m} /\ log' = log
      BY <1>6 DEF PrepareMail
    <3>2. ready.at = "send" /\ done.at = "done" /\ failure \in {"failed", "skipped"}
      OBVIOUS
    <3> HIDE DEF ready, done, failure, refused
    <3> QED
      BY <3>1, <3>2
  <2>2. mail'[m] = x /\ status \in Status
    BY <1>1, <1>4, <2>1
  <2>3. MailTold(m)'
    BY <1>1, <1>3, <2>1, <2>2 DEF MailTold
  <2> QED
    BY <1>2, <2>1, <2>2, <2>3, MailStepsTell
<1>7. CASE SendMail(m)
  <2>1. PICK x, outcome, taken :
          /\ outcome \in {"sent", "rejected"} /\ taken \in BOOLEAN
          /\ mail[m].at = "send" /\ mail' = [mail EXCEPT ![m] = x] /\ x.at = outcome /\ log' = log
          /\ outcome = "sent" => taken
          /\ accepted' = IF taken THEN accepted \cup {m} ELSE accepted
          /\ mishaps' = IF outcome = "rejected" /\ taken THEN mishaps \cup {m} ELSE mishaps
    <3>1. PICK outcome \in {"sent", "rejected"}, taken \in BOOLEAN :
            /\ mail[m].at = "send" /\ log' = log
            /\ mail' = [mail EXCEPT ![m] = [at |-> outcome, read |-> mail[m].read,
                                            via |-> mail[m].via, from |-> api.from]]
            /\ outcome = "sent" => taken
            /\ accepted' = IF taken THEN accepted \cup {m} ELSE accepted
            /\ mishaps' = IF outcome = "rejected" /\ taken THEN mishaps \cup {m} ELSE mishaps
      BY <1>7 DEF SendMail
    <3> QED
      BY <3>1
  <2>2. mail'[m] = x
    BY <1>1, <2>1
  <2>3. MailTold(m)'
    BY <1>1, <2>1, <2>2 DEF MailTold
  <2> QED
    BY <1>2, <2>1, <2>3, MailStepsTell
<1>8. CASE RecordMail(m)
  <2>1. mail[m].at \in {"sent", "rejected"} /\ accepted' = accepted
    BY <1>8 DEF RecordMail
  <2> DEFINE x == mail[m]
             done == Closed(x)
             again == [x EXCEPT !.at = "rejected"]
             what == IF x.at = "sent" THEN "sent" ELSE "failed"
  <2>2. \/ log' = Append1(m, what, 1) /\ mail' = [mail EXCEPT ![m] = done] /\ mishaps' = mishaps
        \/ /\ mishaps' = mishaps \cup {m} /\ log' = log
           /\ mail' = [mail EXCEPT ![m] = IF x.at = "sent" THEN again ELSE done]
    BY <1>8 DEF RecordMail
  <2>3. done.at = "done"
    <3>1. "at" \in DOMAIN x
      BY <2>1 DEF IInv, MailOK
    <3> QED
      BY <3>1 DEF Closed
  <2>4. what \in Status /\ (what = "sent" <=> x.at = "sent")
    BY <1>4
  <2> HIDE DEF what, done, again
  <2>5. CASE log' = Append1(m, what, 1) /\ mail' = [mail EXCEPT ![m] = done] /\ mishaps' = mishaps
    <3>1. mail'[m] = done
      BY <1>1, <2>5
    <3>2. MailTold(m)'
      BY <1>1, <1>3, <2>1, <2>3, <2>4, <2>5, <3>1 DEF MailTold
    <3> QED
      BY <1>2, <2>1, <2>4, <2>5, <3>2, MailStepsTell
  <2>6. CASE mishaps' = mishaps \cup {m} /\ log' = log
             /\ mail' = [mail EXCEPT ![m] = IF x.at = "sent" THEN again ELSE done]
    <3>1. MailTold(m)'
      BY <2>6 DEF MailTold
    <3> QED
      BY <1>2, <2>1, <2>6, <3>1, MailStepsTell
  <2> QED
    BY <2>2, <2>5, <2>6
<1> QED
  BY <1>5, <1>6, <1>7, <1>8 DEF Sending

LEMMA CrashesTell ==
    ASSUME TInv, CrashApi
    PROVE  TInv'
<1>1. /\ mail' = [m \in Mail |-> IF m \in InProgress THEN [at |-> "lost"] ELSE mail[m]]
      /\ mishaps' = mishaps \cup InProgress /\ UNCHANGED <<worker, notice, log, accepted, died>>
  BY DEF CrashApi
<1>2. Held' = Held
  BY <1>1 DEF Held
<1>3. TablesOK'
  BY <1>1, <1>2 DEF TInv, TablesOK, Exists, IsWorker
<1>4. ASSUME NEW n \in Notice
      PROVE  LeftAlone(n)
  BY <1>1, <1>2 DEF LeftAlone, Shortened
<1>5. ASSUME NEW m \in Mail
      PROVE  MailTold(m)'
  <2>1. CASE m \in InProgress
    BY <1>1, <2>1 DEF MailTold
  <2>2. CASE m \notin InProgress
    BY <1>1, <2>2 DEF MailTold, TInv
  <2> QED
    BY <2>1, <2>2
<1>6. mail' = [m \in Mail |-> mail'[m]]
  BY <1>1
<1> QED
  BY <1>3, <1>4, <1>5, <1>6, TheRestIsLeftAlone

LEMMA TimelinesStay == IInv /\ TInv /\ [Next]_vars => TInv'
<1> SUFFICES ASSUME IInv, TInv, [Next]_vars PROVE TInv'
  OBVIOUS
<1>1. CASE \E m \in Mail : Sending(m)
  BY <1>1, MailsTell
<1>2. CASE WorkerStep \/ StatementFails \/ Dies
  BY <1>2, ClaimTells, ChecksTell, RecordsTell, OutcomesTell DEF WorkerStep
<1>3. CASE CrashApi
  BY <1>3, CrashesTell
<1>4. CASE PruneChanges \/ PruneNotifications \/ PurgeAuditLogs
  BY <1>4, PrunesTell
<1>5. CASE UNCHANGED vars \/ \E a \in Admin : Panel(a)
  <2>1. UNCHANGED <<mail, worker, notice, log, accepted, died, mishaps>>
    BY <1>5 DEF Panel, AskStatus, AnswerStatus, BeginSave, UpdateEmailSettings, ReadBack, CallFails,
                Delivery, History, vars
  <2> QED
    BY <2>1 DEF TInv, TablesOK, RowOK, AcceptedOK, MailTold, Held, Exists, IsWorker
<1> QED
  BY <1>1, <1>2, <1>3, <1>4, <1>5 DEF Next

(* What the timelines show.                                                  *)
LEMMA EndOfConcat ==
    ASSUME NEW s \in Seq(Event), NEW t \in Seq(Event)
    PROVE  /\ s \o t \in Seq(Event) /\ s # <<>> => s \o t # <<>>
           /\ t # <<>> => s \o t # <<>> /\ (s \o t)[Len(s \o t)] = t[Len(t)]
           /\ t = <<>> => s \o t = s
<1>1. /\ s \o t \in Seq(Event) /\ Len(s \o t) = Len(s) + Len(t)
      /\ Len(s) \in Nat /\ Len(t) \in Nat
  OBVIOUS
<1>2. s # <<>> => Len(s) > 0
  OBVIOUS
<1>3. t # <<>> => Len(t) > 0
  OBVIOUS
<1>4. s \o t = <<>> => Len(s \o t) = 0
  OBVIOUS
<1>5. Len(t) > 0 => (s \o t)[Len(s) + Len(t)] = t[Len(t)]
  BY <1>1
<1>6. t = <<>> => s \o t = s
  OBVIOUS
<1> QED
  BY <1>1, <1>2, <1>3, <1>4, <1>5, <1>6

LEMMA SynthesisEnds ==
    ASSUME NEW n \in Notice, IsRow(notice[n]), TriesTell(notice[n])
    PROVE  SyntheticSteps(n) # <<>> /\ Newest(SyntheticSteps(n)) = notice[n].status
<1> DEFINE tries == notice[n].tries
           status == notice[n].status
           queued == Step("queued", 0)
           again == Step("queued", Len(tries))
           steps == [i \in DOMAIN tries |-> Step(tries[i], i)]
           end == IF status = "queued" /\ tries # <<>> THEN <<again>> ELSE <<>>
           start == <<queued>> \o steps
<1>1. tries \in Seq(Status) /\ Len(tries) \in Nat /\ status \in Status
  BY DEF IsRow
<1>2. /\ queued \in Event /\ again \in Event
      /\ queued.status = "queued" /\ again.status = "queued"
  BY <1>1 DEF Step, Event, Status
<1>3. steps \in Seq(Event) /\ Len(steps) = Len(tries)
      /\ \A i \in DOMAIN tries : steps[i].status = tries[i]
  <2>1. \A i \in DOMAIN tries : tries[i] \in Status /\ i \in Nat
    BY <1>1
  <2>2. \A i \in DOMAIN tries : Step(tries[i], i) \in Event /\ Step(tries[i], i).status = tries[i]
    BY <2>1 DEF Step, Event
  <2>3. DOMAIN tries = 1 .. Len(tries)
    BY <1>1
  <2> QED
    BY <1>1, <2>2, <2>3
<1>4. SyntheticSteps(n) = start \o end
  BY DEF SyntheticSteps
<1> HIDE DEF queued, again, steps
<1>5. <<queued>> \in Seq(Event) /\ <<again>> \in Seq(Event) /\ <<>> \in Seq(Event)
      /\ <<queued>> # <<>> /\ <<again>> # <<>>
  BY <1>2
<1>6. /\ start \in Seq(Event) /\ start # <<>>
      /\ steps # <<>> => start[Len(start)] = steps[Len(steps)]
      /\ steps = <<>> => start = <<queued>>
  <2> DEFINE first == <<queued>>
  <2>1. first \in Seq(Event) /\ first # <<>> /\ steps \in Seq(Event)
    BY <1>3, <1>5
  <2> HIDE DEF first
  <2>2. /\ first \o steps \in Seq(Event) /\ first \o steps # <<>>
        /\ steps # <<>> => (first \o steps)[Len(first \o steps)] = steps[Len(steps)]
        /\ steps = <<>> => first \o steps = first
    BY <2>1, EndOfConcat
  <2> QED
    BY <2>2 DEF first
<1>7. end \in Seq(Event)
  BY <1>5
<1> HIDE DEF start, end
<1>8. /\ start \o end # <<>>
      /\ end # <<>> => (start \o end)[Len(start \o end)] = end[Len(end)]
      /\ end = <<>> => start \o end = start
  BY <1>6, <1>7, EndOfConcat
<1>9. CASE status = "queued" /\ tries # <<>>
  <2>1. end = <<again>> /\ end[Len(end)] = again /\ end # <<>>
    BY <1>9, <1>5 DEF end
  <2> QED
    BY <1>2, <1>4, <1>8, <1>9, <2>1 DEF Newest
<1>10. CASE status = "queued" /\ tries = <<>>
  <2>1. end = <<>>
    BY <1>10 DEF end
  <2>2. steps = <<>>
    BY <1>3, <1>10
  <2>3. SyntheticSteps(n) = <<queued>> /\ <<queued>>[Len(<<queued>>)] = queued
    BY <1>4, <1>6, <1>8, <2>1, <2>2
  <2> QED
    BY <1>2, <1>10, <2>3 DEF Newest
<1>11. CASE status # "queued"
  <2>1. end = <<>> /\ tries # <<>> /\ tries[Len(tries)] = status
    BY <1>11 DEF end, TriesTell
  <2>2. Len(tries) \in DOMAIN tries
    BY <1>1, <2>1
  <2>3. steps # <<>> /\ steps[Len(steps)].status = status
    <3>1. steps[Len(tries)].status = status
      BY <1>3, <2>1, <2>2
    <3>2. Len(tries) > 0 /\ (steps = <<>> => Len(steps) = 0)
      BY <1>1, <2>1
    <3> QED
      BY <1>3, <3>1, <3>2
  <2>4. SyntheticSteps(n) = start
    BY <1>4, <1>8, <2>1
  <2> QED
    BY <1>6, <1>8, <1>4, <2>3, <2>4 DEF Newest
<1> QED
  BY <1>9, <1>10, <1>11

(* Merging with the row's attempts does not change how a timeline ends.      *)
LEMMA MergingKeepsTheEnd ==
    ASSUME NEW n \in Notice, log[n] \in Seq(Event), log[n] # <<>>
    PROVE  MergedSteps(n) # <<>> /\ Newest(MergedSteps(n)) = Newest(log[n])
<1> DEFINE queued == <<Step("queued", 0)>>
<1>1. CASE HasQueuedStep(log[n])
  BY <1>1 DEF MergedSteps
<1>2. CASE ~HasQueuedStep(log[n])
  <2>1. queued \in Seq(Event)
    BY DEF Step, Event, Status
  <2>2. MergedSteps(n) = queued \o log[n]
    BY <1>2 DEF MergedSteps
  <2> HIDE DEF queued
  <2>3. queued \o log[n] # <<>> /\ (queued \o log[n])[Len(queued \o log[n])] = log[n][Len(log[n])]
    BY <2>1, EndOfConcat
  <2> QED
    BY <2>2, <2>3 DEF Newest
<1> QED
  BY <1>1, <1>2

LEMMA TimelineEnds ==
    ASSUME TInv, NEW x \in Subject, NEW statuses
    PROVE  /\ log[x] # <<>> => Timeline(x, statuses) # <<>>
                               /\ Shows(x, statuses) = Newest(log[x])
           /\ log[x] = <<>> /\ x \notin Fetched(statuses) => Timeline(x, statuses) = <<>>
           /\ log[x] = <<>> /\ x \in Fetched(statuses) /\ TriesTell(notice[x]) =>
                Timeline(x, statuses) # <<>> /\ Shows(x, statuses) = notice[x].status
<1>1. log[x] \in Seq(Event)
  BY DEF TInv, TablesOK
<1>2. Shows(x, statuses) = Newest(Timeline(x, statuses))
  BY DEF Shows, Newest, Last
<1>3. CASE x \in Fetched(statuses)
  <2>1. x \in Notice /\ IsRow(notice[x]) /\ Timeline(x, statuses) = MergedSteps(x)
    BY <1>3 DEF Fetched, Timeline, TInv, TablesOK
  <2>2. log[x] = <<>> => MergedSteps(x) = SyntheticSteps(x)
    BY DEF MergedSteps
  <2> QED
    BY <1>1, <1>2, <1>3, <2>1, <2>2, MergingKeepsTheEnd, SynthesisEnds
<1>4. CASE x \notin Fetched(statuses)
  BY <1>2, <1>4 DEF Timeline
<1> QED
  BY <1>3, <1>4

LEMMA NoticesAreFound == TInv => TimelineFindsEveryNotice
<1> SUFFICES ASSUME TInv, worker.at = "idle", NEW status \in Status, NEW n \in Notice,
                    Exists(n), n \notin died
             PROVE  n \in ListAuditEmails({status}) <=> notice[n].status = status
  BY DEF TimelineFindsEveryNotice
<1>1. Held # n /\ n \in Subject
  BY IdsAreApart DEF TInv, TablesOK, Subject
<1>2. TriesTell(notice[n]) /\ LogTells(log[n], notice[n])
  BY <1>1 DEF TInv, RowOK
<1>3. n \in Fetched({status}) <=> notice[n].status = status
  BY DEF Fetched
<1>4. n \in ListAuditEmails({status}) <=>
        Timeline(n, {status}) # <<>> /\ Shows(n, {status}) = status
  BY DEF ListAuditEmails
<1>5. CASE log[n] # <<>>
  BY <1>1, <1>2, <1>4, <1>5, TimelineEnds DEF LogTells
<1>6. CASE log[n] = <<>>
  BY <1>1, <1>2, <1>3, <1>4, <1>6, TimelineEnds
<1> QED
  BY <1>5, <1>6

LEMMA SentIsAccepted == TInv => SentMeansAccepted
<1> SUFFICES ASSUME TInv, NEW x \in ListAuditEmails(Status), Settled(x), x \notin mishaps
             PROVE  Shows(x, Status) = "sent" <=> x \in accepted
  BY DEF SentMeansAccepted
<1>1. x \in Subject /\ Timeline(x, Status) # <<>>
  BY DEF ListAuditEmails, Subject
<1>2. CASE x \in Mail
  <2>1. mail[x].at = "done" /\ x \notin Notice
    BY <1>2, IdsAreApart DEF Settled
  <2>2. log[x] # <<>>
    BY <1>1, <2>1, TimelineEnds DEF Fetched
  <2> QED
    BY <1>1, <1>2, <2>1, <2>2, TimelineEnds DEF TInv, MailTold
<1>3. CASE x \notin Mail
  <2>1. x \in Notice /\ Held # x /\ x \notin died
    BY <1>1, <1>3 DEF Settled, Subject, TInv, TablesOK
  <2>2. AcceptedOK(x) /\ RowOK(x)
    BY <2>1 DEF TInv
  <2>3. CASE log[x] # <<>>
    BY <1>1, <2>1, <2>2, <2>3, TimelineEnds DEF AcceptedOK
  <2>4. CASE log[x] = <<>>
    <3>1. x \in Fetched(Status)
      BY <1>1, <2>4, TimelineEnds
    <3>2. Exists(x) /\ TriesTell(notice[x])
      BY <2>1, <2>2, <3>1 DEF Fetched, RowOK
    <3> QED
      BY <1>1, <2>1, <2>2, <2>4, <3>1, <3>2, TimelineEnds DEF AcceptedOK
  <2> QED
    BY <2>3, <2>4
<1> QED
  BY <1>2, <1>3

(* Whatever is retried, fails, is pruned or purged, between two deliveries   *)
(* the audit page (AuditService.listAuditEmails, email-timelines) finds a    *)
(* notification under the status it has, and under no other.                 *)
THEOREM EveryNoticeIsFound == Spec => []TimelineFindsEveryNotice
<1>1. Init => IInv /\ TInv
  BY InitOK, TimelinesBegin
<1>2. IInv /\ TInv /\ [Next]_vars => (IInv /\ TInv)'
  BY NextOK, TimelinesStay
<1>3. TInv => TimelineFindsEveryNotice
  BY NoticesAreFound
<1> QED
  BY <1>1, <1>2, <1>3, PTL DEF Spec

(* Of a mail or notification that no fault has hit, the timeline shows       *)
(* "sent" when and only when a mail server has accepted it.                  *)
THEOREM TimelinesTellTheTruth == Spec => []SentMeansAccepted
<1>1. Init => IInv /\ TInv
  BY InitOK, TimelinesBegin
<1>2. IInv /\ TInv /\ [Next]_vars => (IInv /\ TInv)'
  BY NextOK, TimelinesStay
<1>3. TInv => SentMeansAccepted
  BY SentIsAccepted
<1> QED
  BY <1>1, <1>2, <1>3, PTL DEF Spec
=============================================================================
