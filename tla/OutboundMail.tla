---------------------------- MODULE OutboundMail ----------------------------
(* How mail leaves the system and what the audit log says of it: the mail   *)
(* settings and the panel that edits them (EmailSettingsPanel in App.tsx),   *)
(* the transport that the API's EmailService and the NotificationWorker      *)
(* build from them, the mails the API sends itself, the delivery of the      *)
(* notifications, and the delivery timelines that AuditService puts together *)
(* from the audit log and the notifications.  Digests and the updates parked *)
(* for them are in NotificationQueue.                                        *)
EXTENDS Naturals, Sequences, SequencesExt

CONSTANTS
  Admin,            \* administrators, each with the "Email config" panel
  Mail,             \* mails the API sends itself
  Notice,           \* notifications about tasks, delivered by the worker
  Kinds,            \* of the API's mails: "account_update", "password_reset"
  TypedUrl,         \* SMTP URLs an administrator types: [host, password]
  TypedFrom,        \* sender addresses an administrator types
  EnvUrl, EnvFrom,  \* SMTP_URL and SMTP_FROM, the same for both processes
  StoredBefore,     \* the settings an installation may have
  MaxSaves,         \* bound: saves of the panel
  MaxAttempts,      \* MAX_ATTEMPTS
  Faults,           \* "db", "late_error", "crash", "retention"
  None              \* null

Mask == "***"
\* The URLs there may be, typed, stored or of the environment, and the rows.
Urls == (TypedUrl \cup {EnvUrl} \cup {s.smtpUrl : s \in StoredBefore \ {None}}) \ {None}
Url == [host : {u.host : u \in Urls}, password : {u.password : u \in Urls} \cup {Mask, None}]
From == TypedFrom \cup {EnvFrom} \cup {s.fromAddress : s \in StoredBefore \ {None}}
Row == [enabled : BOOLEAN, smtpUrl : Url \cup {None}, fromAddress : From \cup {None}]

ASSUME OutboundMailAssumption ==
  /\ MaxSaves \in Nat /\ MaxAttempts \in Nat \ {0}
  /\ Kinds \subseteq {"account_update", "password_reset"}
  /\ Faults \subseteq {"db", "late_error", "crash", "retention"}
  /\ Urls \subseteq Url /\ EnvUrl # None /\ None \notin TypedUrl
  /\ \A u \in TypedUrl \cup {EnvUrl} : u.password # Mask
  /\ StoredBefore \subseteq Row \cup {None}
  /\ None \notin Url \cup Row \cup {Mask, "not_configured", "disabled"} \cup Mail \cup Notice
  /\ Mail \cap Notice = {}

VARIABLES
  settings,   \* the row "global" of EmailSettings, or None
  saves,      \* saves made so far
  panel,      \* panel[a]: the status the panel of a shows, or None
  call,       \* call[a]: the request of a that the API is answering
  api,        \* EmailService: [url, from, transport]
  mail,       \* mail[m]: sendAuditedEmail for the mail m
  worker,     \* NotificationWorker: its transport and where its loop is
  notice,     \* notice[n]: the row and its delivery attempts, None: pruned
  log,        \* log[x]: the audit events of a mail or notification, oldest first
  accepted,   \* history: what a mail server has accepted
  died,       \* history: the notices in the hands of a worker that died
  mishaps     \* history: the mails and notices that a fault has hit

Stored == <<settings, saves, panel>>
History == <<accepted, died, mishaps>>
vars == <<Stored, call, api, mail, worker, notice, log, History>>

----------------------------------------------------------------------------
(* Settings and transports.                                                *)
Or(value, default) == IF value = None THEN default ELSE value
EffectiveUrl(s) == IF s = None THEN EnvUrl ELSE Or(s.smtpUrl, EnvUrl)
EffectiveFrom(s) == IF s = None THEN EnvFrom ELSE Or(s.fromAddress, EnvFrom)
Enabled(s) == s = None \/ s.enabled

\* A text that is not a URL makes no transport.
Valid(url) == url.host # "none"
Boot == [url |-> EnvUrl, from |-> EnvFrom, transport |-> IF Valid(EnvUrl) THEN EnvUrl ELSE None]
Configure(service, s) ==
  IF service.url = EffectiveUrl(s) /\ service.from = EffectiveFrom(s) THEN service
  ELSE [url |-> EffectiveUrl(s), from |-> EffectiveFrom(s),
        transport |-> IF Valid(EffectiveUrl(s)) THEN EffectiveUrl(s) ELSE None]

Masked(url) == IF url.password = None THEN url ELSE [url EXCEPT !.password = Mask]
MergeSmtpUrl(input, existing) ==
  IF input.password = Mask /\ existing.password # None
  THEN [input EXCEPT !.password = existing.password] ELSE input

Idle == [at |-> "idle"]
NewMail == [at |-> "new"]
WorkerBoot == [at |-> "idle", of |-> None, read |-> None, service |-> [Boot EXCEPT !.url = None]]

Init ==
  /\ settings \in StoredBefore /\ saves = 0
  /\ panel = [a \in Admin |-> None]
  /\ call = [a \in Admin |-> Idle]
  /\ api = Boot
  /\ mail = [m \in Mail |-> NewMail]
  /\ worker = WorkerBoot
  /\ notice = [n \in Notice |-> [status |-> "queued", attempts |-> 0, tries |-> <<>>]]
  /\ log = [x \in Mail \cup Notice |-> <<>>]
  /\ accepted = {} /\ died = {} /\ mishaps = {}

Delivery == <<mail, worker, notice, log, History>>

----------------------------------------------------------------------------
(* The panel.  Each request reads the row first and continues later: the    *)
(* transport is configured from what was read.                              *)
AskStatus(a) ==   \* GET /auth/email/status, also refetched by the page
  /\ call[a] = Idle
  /\ call' = [call EXCEPT ![a] = [at |-> "status", read |-> settings]]
  /\ UNCHANGED <<Stored, api, Delivery>>
AnswerStatus(a) ==
  LET s == call[a].read IN
  /\ call[a].at = "status"
  /\ api' = Configure(api, s)
  /\ panel' = [panel EXCEPT ![a] =
       [enabled |-> Enabled(s), smtpUrl |-> Masked(EffectiveUrl(s)), from |-> EffectiveFrom(s)]]
  /\ call' = [call EXCEPT ![a] = Idle]
  /\ UNCHANGED <<settings, saves, Delivery>>

\* A switch is flipped, this one or one that is not about mail, or the form is
\* saved: whatever the form holds goes along.
BeginSave(a) ==
  /\ call[a] = Idle /\ panel[a] # None /\ saves < MaxSaves
  /\ \E enabled \in BOOLEAN, url \in TypedUrl \cup {panel[a].smtpUrl},
        from \in TypedFrom \cup {panel[a].from} :
       call' = [call EXCEPT ![a] =
         [at |-> "save", existing |-> settings,
          input |-> [enabled |-> enabled, smtpUrl |-> url, fromAddress |-> from]]]
  /\ saves' = saves + 1
  /\ UNCHANGED <<settings, panel, api, Delivery>>
MergeStoredOnly(a) ==   \* mutant: without the environment's password
  LET input == call[a].input IN
  /\ call[a].at = "save"
  /\ settings' =
       IF settings = None \/ call[a].existing = None \/ call[a].existing.smtpUrl = None
       THEN input
       ELSE [input EXCEPT !.smtpUrl = MergeSmtpUrl(@, call[a].existing.smtpUrl)]
  /\ call' = [call EXCEPT ![a] = [at |-> "saved"]]
  /\ UNCHANGED <<saves, panel, api, Delivery>>
UpdateEmailSettings(a) ==
  LET input == call[a].input IN
  /\ call[a].at = "save"
  /\ settings' =
       IF settings = None THEN input
       ELSE [input EXCEPT !.smtpUrl = MergeSmtpUrl(@, EffectiveUrl(call[a].existing))]
  /\ call' = [call EXCEPT ![a] = [at |-> "saved"]]
  /\ UNCHANGED <<saves, panel, api, Delivery>>
ReadBack(a) ==
  /\ call[a].at = "saved"
  /\ call' = [call EXCEPT ![a] = [at |-> "status", read |-> settings]]
  /\ UNCHANGED <<Stored, api, Delivery>>
CallFails(a) ==   \* the database does not answer: the panel is as before
  /\ "db" \in Faults /\ call[a] # Idle
  /\ call' = [call EXCEPT ![a] = Idle]
  /\ UNCHANGED <<Stored, api, Delivery>>

----------------------------------------------------------------------------
(* sendAuditedEmail: read the settings, configure and record, hand over,    *)
(* record the outcome.                                                      *)
Urgent(kind) == kind = "password_reset"   \* ignores the switch, and fails aloud
Step(status, attempt) == [status |-> status, attempt |-> attempt]
Append1(x, status, attempt) == [log EXCEPT ![x] = Append(@, Step(status, attempt))]
SentMails == <<mail, log, accepted, mishaps>>

AskMail(m) ==
  /\ mail[m] = NewMail
  /\ \E kind \in Kinds : mail' = [mail EXCEPT ![m] = [at |-> "asked", kind |-> kind, read |-> settings]]
  /\ UNCHANGED <<Stored, call, api, worker, notice, log, History>>

\* getReadyTransport and the first record.  refused: why the mail is not sent.
PrepareMail(m) ==
  LET next == Configure(api, mail[m].read)
      kind == mail[m].kind
      refused == IF next.transport = None THEN "not_configured"
                 ELSE IF ~Urgent(kind) /\ ~Enabled(mail[m].read) THEN "disabled" ELSE None
      done == [at |-> "done", read |-> mail[m].read, refused |-> refused]
      failure == IF Urgent(kind) THEN "failed" ELSE "skipped"
      ready == [at |-> "send", kind |-> kind, read |-> mail[m].read, via |-> next.transport]
  IN /\ mail[m].at = "asked"
     /\ api' = next
     /\ \/ /\ mail' = [mail EXCEPT ![m] = IF refused = None THEN ready ELSE done]
           /\ log' = Append1(m, IF refused = None THEN "processing" ELSE failure, 1)
           /\ UNCHANGED mishaps
        \/ /\ "db" \in Faults   \* the record fails, and the mail with it
           /\ mail' = [mail EXCEPT ![m] = done]
           /\ mishaps' = mishaps \cup {m}
           /\ UNCHANGED log
     /\ UNCHANGED <<Stored, call, worker, notice, accepted, died>>

SendByCurrent(m) ==   \* mutant: by the service's transport, whatever it is now
  /\ mail[m].at = "send" /\ api.transport # None
  /\ mail' = [mail EXCEPT ![m] = [at |-> "sent", read |-> mail[m].read,
                                  via |-> api.transport, from |-> api.from]]
  /\ accepted' = accepted \cup {m}
  /\ UNCHANGED <<Stored, call, api, worker, notice, log, died, mishaps>>

\* The server accepts the mail, rejects it, or accepts it and the answer is
\* lost.  The sender is the one that is configured now.
SendMail(m) ==
  /\ mail[m].at = "send"
  /\ \E outcome \in {"sent", "rejected"}, taken \in BOOLEAN :
       /\ outcome = "sent" => taken
       /\ outcome = "rejected" /\ taken => "late_error" \in Faults
       /\ mail' = [mail EXCEPT ![m] = [at |-> outcome, read |-> mail[m].read,
                                       via |-> mail[m].via, from |-> api.from]]
       /\ accepted' = IF taken THEN accepted \cup {m} ELSE accepted
       /\ mishaps' = IF outcome = "rejected" /\ taken THEN mishaps \cup {m} ELSE mishaps
  /\ UNCHANGED <<Stored, call, api, worker, notice, log, died>>

\* A mail that was handed over, accepted or not, is over.
Closed(x) == [f \in DOMAIN x \cup {"refused"} |->
  CASE f = "at" -> "done" [] f = "refused" -> None [] OTHER -> x[f]]

RecordAsSent(m) ==   \* mutant: a rejection is recorded like an acceptance
  /\ mail[m].at \in {"sent", "rejected"}
  /\ log' = Append1(m, "sent", 1)
  /\ mail' = [mail EXCEPT ![m] = Closed(mail[m])]
  /\ UNCHANGED <<Stored, call, api, worker, notice, History>>

\* A failing record of "sent" is taken for a rejection by the server.
RecordMail(m) ==
  /\ mail[m].at \in {"sent", "rejected"}
  /\ \/ /\ log' = Append1(m, IF mail[m].at = "sent" THEN "sent" ELSE "failed", 1)
        /\ mail' = [mail EXCEPT ![m] = Closed(mail[m])]
        /\ UNCHANGED mishaps
     \/ /\ "db" \in Faults
        /\ mail' = [mail EXCEPT ![m] = IF mail[m].at = "sent" THEN [mail[m] EXCEPT !.at = "rejected"]
                                       ELSE Closed(mail[m])]
        /\ mishaps' = mishaps \cup {m}
        /\ UNCHANGED log
  /\ UNCHANGED <<Stored, call, api, worker, notice, accepted, died>>
InProgress == {m \in Mail : mail[m].at \in {"asked", "send", "sent", "rejected"}}
CrashApi ==   \* the API restarts: requests and mails in progress are gone
  /\ "crash" \in Faults
  /\ api # Boot \/ InProgress # {}
  /\ api' = Boot
  /\ call' = [a \in Admin |-> Idle]
  /\ mail' = [m \in Mail |-> IF m \in InProgress THEN [at |-> "lost"] ELSE mail[m]]
  /\ mishaps' = mishaps \cup InProgress
  /\ UNCHANGED <<Stored, worker, notice, log, accepted, died>>

----------------------------------------------------------------------------
(* The worker: processNextNotification, getSkipReason, completeEvent and    *)
(* failEvent.  A notification that was pruned meanwhile cannot be updated.  *)
Elsewhere == <<Stored, call, api, mail>>
Held == worker.of
Go(at) == worker' = [worker EXCEPT !.at = at]
Release == worker' = [worker EXCEPT !.at = "idle", !.of = None, !.read = None]
Exists(n) == notice[n] # None

Claim(n) ==
  /\ worker.at = "idle" /\ Exists(n) /\ notice[n].status = "queued"
  /\ notice' = [notice EXCEPT ![n].status = "processing", ![n].attempts = @ + 1]
  /\ worker' = [worker EXCEPT !.at = "claimed", !.of = n]
  /\ UNCHANGED <<Elsewhere, log, History>>
\* Without a transport the settings are not even read.
Check ==
  /\ worker.at = "claimed" /\ Exists(Held)
  /\ IF worker.service.transport = None
     THEN worker' = [worker EXCEPT !.at = "skip"]
     ELSE worker' = [worker EXCEPT !.at = IF Enabled(settings) THEN "record" ELSE "skip",
                                   !.service = Configure(@, settings), !.read = settings]
  /\ UNCHANGED <<Elsewhere, notice, log, History>>
CheckPruned ==   \* the row that was claimed is gone
  /\ worker.at = "claimed" /\ ~Exists(Held)
  /\ Release
  /\ UNCHANGED <<Elsewhere, notice, log, History>>
RecordProcessing ==
  /\ worker.at = "record"
  /\ log' = Append1(Held, "processing", IF Exists(Held) THEN notice[Held].attempts ELSE 1)
  /\ Go("send")
  /\ UNCHANGED <<Elsewhere, notice, History>>
Deliver ==
  /\ worker.at = "send"
  /\ \E outcome \in {"complete", "fail"}, taken \in BOOLEAN :
       /\ worker.service.transport = None => outcome = "fail" /\ ~taken
       /\ outcome = "complete" => taken
       /\ outcome = "fail" /\ taken => "late_error" \in Faults
       /\ Go(outcome)
       /\ accepted' = IF taken THEN accepted \cup {Held} ELSE accepted
       /\ mishaps' = IF outcome = "fail" /\ taken THEN mishaps \cup {Held} ELSE mishaps
  /\ UNCHANGED <<Elsewhere, notice, log, died>>
CompleteEvent ==
  LET outcome == IF worker.at = "complete" THEN "sent" ELSE "skipped" IN
  /\ worker.at \in {"complete", "skip"}
  /\ IF Exists(Held)
     THEN /\ notice' = [notice EXCEPT ![Held].status = outcome, ![Held].tries = Append(@, outcome)]
          /\ Go(outcome)
     ELSE Go("fail") /\ UNCHANGED notice
  /\ UNCHANGED <<Elsewhere, log, History>>
RecordOutcome ==
  /\ worker.at \in {"sent", "skipped"}
  /\ log' = Append1(Held, worker.at, IF Exists(Held) THEN notice[Held].attempts ELSE 1)
  /\ Release
  /\ UNCHANGED <<Elsewhere, notice, History>>
FailEvent ==
  /\ worker.at = "fail" /\ Exists(Held)
  /\ notice' = [notice EXCEPT
       ![Held].status = IF notice[Held].attempts >= MaxAttempts THEN "failed" ELSE "queued",
       ![Held].tries = Append(@, "failed")]
  /\ Go(IF notice[Held].attempts >= MaxAttempts THEN "gave_up" ELSE "failed")
  /\ UNCHANGED <<Elsewhere, log, History>>
RecordFailureOnly ==   \* mutant: no record of the retry
  /\ worker.at \in {"gave_up", "failed"}
  /\ log' = Append1(Held, "failed", IF Exists(Held) THEN notice[Held].attempts ELSE 1)
  /\ Release
  /\ UNCHANGED <<Elsewhere, notice, History>>
RecordFailure ==
  /\ worker.at \in {"gave_up", "failed"}
  /\ log' = Append1(Held, "failed", IF Exists(Held) THEN notice[Held].attempts ELSE 1)
  /\ IF worker.at = "failed" THEN Go("retry") ELSE Release
  /\ UNCHANGED <<Elsewhere, notice, History>>
RecordRetry ==
  /\ worker.at = "retry"
  /\ log' = Append1(Held, "queued", IF Exists(Held) THEN notice[Held].attempts ELSE 1)
  /\ Release
  /\ UNCHANGED <<Elsewhere, notice, History>>

\* A statement fails: the event is failed, and a failure of that ends the
\* process.
StatementFails ==
  /\ "db" \in Faults
  /\ worker.at \in {"claimed", "record", "complete", "skip", "sent", "skipped"}
  /\ Go("fail")
  /\ mishaps' = mishaps \cup {Held}
  /\ UNCHANGED <<Elsewhere, notice, log, accepted, died>>
Dies ==
  /\ worker.at # "idle"
  /\ \/ "crash" \in Faults /\ Held \notin died
     \/ "db" \in Faults /\ worker.at \in {"fail", "failed", "gave_up", "retry"}
     \/ worker.at = "fail" /\ ~Exists(Held)
  /\ worker' = WorkerBoot
  /\ died' = died \cup {Held} /\ mishaps' = mishaps \cup {Held}
  /\ UNCHANGED <<Elsewhere, notice, log, accepted>>

----------------------------------------------------------------------------
(* Retention, by age: the changes policy deletes the audit events of tasks  *)
(* and projects, those of their mails among them, the notifications policy  *)
(* all audit events of mails and the notifications, the purge of the audit  *)
(* log all audit events.                                                    *)

\* How many events of each are old enough to go (what the clocks say is left
\* out), and those that are left.
Ages(X) == {old \in [X -> UNION {0 .. Len(log[x]) : x \in X}] : \A x \in X : old[x] <= Len(log[x])}
Younger(old) == [x \in Mail \cup Notice |->
  IF x \in DOMAIN old THEN SubSeq(log[x], old[x] + 1, Len(log[x])) ELSE log[x]]

PruneChanges ==
  /\ "retention" \in Faults
  /\ \E old \in Ages(Notice) : log' = Younger(old)
  /\ UNCHANGED <<Elsewhere, worker, notice, History>>
PruneNotifications ==
  /\ "retention" \in Faults
  /\ \E old \in Ages(Mail \cup Notice), gone \in SUBSET Notice :
       /\ \A n \in Notice : old[n] > 0 => n \in gone
       /\ log' = Younger(old)
       /\ notice' = [n \in Notice |-> IF n \in gone THEN None ELSE notice[n]]
  /\ UNCHANGED <<Elsewhere, worker, History>>
PurgeAuditLogs ==
  /\ "retention" \in Faults
  /\ \E old \in Ages(Mail \cup Notice) : log' = Younger(old)
  /\ UNCHANGED <<Elsewhere, worker, notice, History>>

----------------------------------------------------------------------------
(* AuditService.listAuditEmails: one timeline per mail and notification.    *)
SyntheticSteps(n) ==
  LET tries == notice[n].tries IN
  <<Step("queued", 0)>> \o [i \in DOMAIN tries |-> Step(tries[i], i)]
    \o (IF notice[n].status = "queued" /\ tries # <<>>
        THEN <<Step("queued", Len(tries))>> ELSE <<>>)
HasQueuedStep(steps) == \E i \in DOMAIN steps : steps[i].status = "queued"
MergedSteps(n) ==
  IF log[n] = <<>> THEN SyntheticSteps(n)
  ELSE IF HasQueuedStep(log[n]) THEN log[n]
  ELSE <<Step("queued", 0)>> \o log[n]

Status == {"queued", "processing", "sent", "skipped", "failed"}
\* The filter applies to the notifications' rows, and to what the timelines show.
Fetched(statuses) == {n \in Notice : Exists(n) /\ notice[n].status \in statuses}
Timeline(x, statuses) == IF x \in Fetched(statuses) THEN MergedSteps(x) ELSE log[x]
Shows(x, statuses) == LET steps == Timeline(x, statuses) IN Last(steps).status
ListAuditEmails(statuses) ==
  {x \in Mail \cup Notice : /\ Timeline(x, statuses) # <<>>
                            /\ Shows(x, statuses) \in statuses}

----------------------------------------------------------------------------
WorkerStep ==
  \/ \E n \in Notice : Claim(n)
  \/ Check \/ CheckPruned \/ RecordProcessing \/ Deliver \/ CompleteEvent
  \/ RecordOutcome \/ FailEvent \/ RecordFailure \/ RecordRetry
Panel(a) ==
  \/ AskStatus(a) \/ AnswerStatus(a) \/ BeginSave(a) \/ UpdateEmailSettings(a)
  \/ ReadBack(a) \/ CallFails(a)
Sending(m) == AskMail(m) \/ PrepareMail(m) \/ SendMail(m) \/ RecordMail(m)
Next ==
  \/ \E a \in Admin : Panel(a)
  \/ \E m \in Mail : Sending(m)
  \/ WorkerStep \/ StatementFails \/ Dies \/ CrashApi
  \/ PruneChanges \/ PruneNotifications \/ PurgeAuditLogs
Spec == Init /\ [][Next]_vars

----------------------------------------------------------------------------
(* A mail the API hands over goes to the server that the settings named     *)
(* when the mail was asked for, and is refused only for what they said,     *)
(* whatever other requests configure meanwhile (getReadyTransport).  The    *)
(* same holds for what the worker hands over.                               *)
MailsFollowTheSettings ==
  /\ \A m \in Mail :
       /\ "via" \in DOMAIN mail[m] => mail[m].via = EffectiveUrl(mail[m].read)
       /\ mail[m].at = "done" =>
            /\ mail[m].refused = "not_configured" => ~Valid(EffectiveUrl(mail[m].read))
            /\ mail[m].refused = "disabled" => ~Enabled(mail[m].read)
  /\ worker.at = "send" =>
       worker.service = Configure([worker.service EXCEPT !.url = None], worker.read)

(* Saving the form with the masked URL it shows leaves the URL in force,    *)
(* with its password, as it was (docs/SETTINGS.md:96), unless another save  *)
(* came in between or the row is only made by this save.                    *)
MaskedUrlIsKept ==
  [][\A a \in Admin :
       /\ call[a].at = "save" /\ call'[a].at = "saved" /\ settings # None
       /\ call[a].existing = settings /\ call[a].input.smtpUrl = Masked(EffectiveUrl(settings))
       => EffectiveUrl(settings') = EffectiveUrl(settings)]_vars

(* Whatever was retried, pruned or purged: while the worker is between two  *)
(* notifications, "Audit notifications" finds under each status exactly the *)
(* notifications that have it, but for those a worker died with.            *)
TimelineFindsEveryNotice ==
  worker.at = "idle" =>
    \A status \in Status :
      LET kept == {n \in Notice : Exists(n) /\ n \notin died} IN
      ListAuditEmails({status}) \cap kept = {n \in kept : notice[n].status = status}

(* The timeline tells the truth: of what no fault has hit, it shows "sent"  *)
(* when and only when a mail server has accepted it.                        *)
Settled(x) == IF x \in Mail THEN mail[x].at = "done" ELSE Held # x
SentMeansAccepted ==
  \A x \in ListAuditEmails(Status) :
    Settled(x) /\ x \notin mishaps => (Shows(x, Status) = "sent" <=> x \in accepted)

----------------------------------------------------------------------------
(* What does not hold.                                                      *)

(* A masked password that is left as it is preserves the credential         *)
(* (docs/SETTINGS.md:96): violated where no settings are stored yet and the *)
(* password is the environment's, upsert's create stores the mask.          *)
MaskIsNeverStored == settings = None \/ settings.smtpUrl = None \/ settings.smtpUrl.password # Mask

(* Values saved by an administrator override those of the environment       *)
(* (docs/SETTINGS.md:96): violated by a worker without a transport, which   *)
(* skips every mail and never reads the settings that would give it one.    *)
SavedUrlIsTried ==
  [][\A n \in Notice : worker.at = "claimed" /\ worker'.at = "skip" =>
       ~Valid(EffectiveUrl(settings)) \/ ~Enabled(settings)]_vars

(* Server and sender of a mail are of one state of the settings.            *)
OneConfigurationPerMail ==
  \A m \in Mail : "from" \in DOMAIN mail[m] => mail[m].from = EffectiveFrom(mail[m].read)
=============================================================================
