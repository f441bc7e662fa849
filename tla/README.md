# TLA+ models of Tavi

Tavi is a task tracker: a web application, an API server (NestJS, Prisma, PostgreSQL)
and one or more worker processes. What the processes share is in the database and in the
backup directory; there is no message broker and no in-memory state that outlives a
request, apart from the workers' local variables and the settings of the mail transports.
The hard behaviours are therefore mostly of one kind: several actors that read rows, go
away, and come back to write them. In the browser it is the same with responses.

This directory holds models of the parts where that can go wrong, the TLC runs that
check them on small instances, and theorems that TLAPS proves for all instances.

## Inventory

| part | state it keeps | operations | meets | what is hard | what makes it correct | modelled in |
|---|---|---|---|---|---|---|
| notification delivery (`apps/worker/src/notification-worker.ts`) | `NotificationEvent` rows, delivery attempts | claim, inspect, send, complete, retry, give up | mail host, other workers, retention | workers race for rows; the host's answer is lost; statements fail between two commits; processes die | an event is in one pair of hands, bounded mails, every event ends | `NotificationQueue`, `QueueHistory` |
| digests (same file) | digest rows, updates parked in them | hourly and daily pass, read the buffer, create, consume, release | the profile (digest rate), delivery | two passes over one buffer, stale batches, a user changing the rate | no update closed unmailed, mailed twice or parked for ever | the same, `UpdateLedger` |
| digest schedule (same file) | `lastScheduleCheckAt` | check, pass | the clock | windows as wide as the interval of checks | one pass per window, no day lost | `DigestSchedule` |
| project rollup (`apps/api/src/project-rollup.ts`, `apps/worker/src/loop-import-worker.ts`) | derived status and counters of a project | derive | two implementations | formulas of different shape | they agree | `ProjectRollup` |
| projects and tasks (`projects.service.ts`, `tasks.service.ts`) | `Project`, `Task` rows | create, update, bulk update, archive, copy, move, reorder, convert either way, delete | each other, through shared rows | checks before the transaction, read committed transactions that do not see each other | rollups fit the tasks, archiving hides nothing, completion fits status | `Workspace`; reordering in `WebClient` |
| outbox posting (`notification-events.service.ts`) | rows in `queued` | post a change, choose recipients | projects and tasks (same transaction) | deduplication keys | a change reaches whom it concerns, once | `Post` of `NotificationQueue`; recipients are not |
| retention (`retention.service.ts`) | settings | prune notifications, audit, logins, backup files | all of those tables | deletes by age, whatever the state | nothing in use loses what it needs | in `NotificationQueue`, `OutboundMail`, `BackupFiles` |
| Loop import (`imports.service.ts`, `loop-import-worker.ts`) | `ImportJob`, staged rows | stage, parse, map, decide, commit, remove | projects and tasks | status checked and then written; removal during a commit; dead workers; a preview and a commit by two implementations | results name what was made, rollups follow, every job ends, the preview can be relied on | `ImportPipeline`, `ImportPreview` |
| scheduled backups (`backup-worker.ts`) | `lastScheduledRunAt`, files | claim the time, write, prune by tier | other workers | claimed before written | a scheduled time is backed up once, and not forgotten | `BackupFiles`, `BackupRestore` |
| backup files and restore (`backups.service.ts`) | files, protection, the whole database | create, upload, protect, prune, delete; full, project and user restore | retention, everything | directory listings that go stale; snapshots table by table; matching of rows | protected files stay; a quiet snapshot restores what it saw; partial restores spare the rest | `BackupFiles`, `BackupRestore` |
| password reset, sessions (`auth.service.ts`) | one-time password, session | login, issue, expire, use, change profile | mail | reissue against a failing mail; two uses of one password | a dead password stays dead, a mailed one works | `Accounts` |
| local accounts (`local-accounts.service.ts`, `local-auth-bootstrap.service.ts`) | users and roles | create, change, delete, import, reset | sessions | counting admins before changing them | an admin remains | `Accounts` |
| personal to-dos (`personal-todos.service.ts`, `PersonalTodoPanel.tsx`) | to-dos of a user | create, check, delete, order, retention | the tabs of the user | optimistic changes against polls | tabs come to agree with the server | `WebClient` |
| workspace reading, view states (`workspace.service.ts`) | marks of what was viewed | read, mark | colleagues' changes | a mark covers what it was not meant for | no unseen change loses its highlight | `WebClient` |
| saved views (`saved-views.service.ts`, `saved-view-state.ts`) | layouts | save, update, delete, apply | the page | applied part by part over what has changed | a view brings its layout back | `WorkspaceView` |
| web application (`App.tsx`, `api.ts`, `storage.ts`) | page state, cached responses, local config | poll, change in advance, roll back, search, select, apply | the API | effects that trigger effects, stale responses | effects end, bulk actions touch what is open, the config is shared | `WebClient`, `WorkspaceView`, panels in `OutboundMail` |
| outbound mail (`email.service.ts`, `email-helpers.ts`) | mail settings, transports | save, show, configure, send | worker, audit log | settings read at one time and used at another; a failing record after an accepted mail | a mail goes where the settings say | `OutboundMail` |
| audit log (`audit.service.ts`) | audit events | record, delivery timelines, purge | mails, retention | a timeline from what is left of three tables | it shows what happened | delivery timelines in `OutboundMail`; the rest is not |
| HTTP controllers, guards, metrics; migrations; deployment and scripts | none of their own | - | - | - | - | not modelled |

`PROJECT.json` lists these parts with their status, and the hazards with their lines.

## Modules

Every module has the constants and variables at its head with a line each. `MC...`
modules hold symmetry sets and the values that configurations refer to. Definitions
marked `mutant:` are wrong on purpose. They are used by no action; each shows a change of
the code that one of the properties notices (`PROJECT.json`, "mutants").

### NotificationQueue, QueueHistory, UpdateLedger

`NotificationQueue` is the table `NotificationEvent` and the worker processes. Every
database statement, or transaction, is one action; what a worker remembers between two of
them is in `loop` (the delivery loop) and `flow` (the hourly and the daily part of a
scheduling pass, which run side by side).

* `status`, `attempts`, `delayed`, `birth`, `sources` are the columns `status`,
  `attemptCount`, "`nextAttemptAt` lies ahead", `createdAt` and
  `payload.sourceNotificationIds`. `absent` and `pruned` are rows that are not there
  yet or no longer.
* claiming: `FindCandidate` / `NoCandidate` (find the oldest due event), `ClaimCandidate`
  (the guarded `updateMany`). The second statement compares `nextAttemptAt` with the time
  of the first; the model says the same with the attempt counter, which rises with every
  claim.
* delivery: `Inspect` (read the event, `getSkipReason`), `SendMail`, `CompleteEvent`,
  `ConsumeSources` / `ReleaseSources`, `RecordAudit`; on an error `ReadFailedEvent`,
  `FailEvent`. `DatabaseError` is any failing statement in the try block;
  `FailEventThrows` and `Crash` end the process, `Restart` starts it again.
* scheduling: `StartSchedule`, `SkipSchedule`, `ReadRecipients`, `ReadBuffered`,
  `CheckDigest`, `CreateDigest`, `CreateDigestFails` (the unique key), `EndFlow`,
  `EndSchedule`.
* around it: `Post`, `ToggleDigest`, `BackoffElapses`, `PruneNotifications`, `Tick`.

`Environment` says which faults may happen, because some properties hold under all of
them and some only without. Mail contents, recipients, the reminders' calendar (a reminder
is a `Direct` event posted at any time) and the legacy kinds are left out. A digest's
unique key counts as taken also after the retention sweep has deleted the row: the
shortest retention is a week, and no pass asks for a key that old.

`QueueHistory` adds the variable `mishaps`, a record of what has gone wrong so far, for
the two promises that hold until something does. Changing the digest rate twice while a
pass runs is such a mishap ("toggle"): an hourly and a daily pass may then both batch an
update. `UpdateLedger` is the abstract specification: what becomes of an update (buffered,
parked, closed, deleted) without workers, digests, attempts or faults.
`NotificationQueue` implements it (`ImplementsLedger`) under the mapping `PlaceOf`.

### DigestSchedule

The times of the scheduling passes in ticks: `Turn` is one round of a worker's loop,
`RunPass` its scheduling pass when one is due, `OpenHour` and `OpenDay` the two window
functions. `NotificationQueue` says what a pass does, this module when there is one.

### ProjectRollup

`DerivedStatus` follows `deriveProjectRollup` of the API, `WorkerStatus` and the sums
`recalculateProjects` of the import worker. The overdue counter reads the clock in both
and is left out. `Workspace` and `WorkspaceView` use it.

### Workspace

Projects and tasks on a read committed database. A request is `Begin...` (what it reads
before its transaction, and the checks it makes on that), then one action of the same
name for the rows its transaction writes, `ReadTasks` and `WriteRollup` for every project
it recalculates, `Cleanup` for an emptied "Unassigned" project, and `Commit`, or
`Rollback` at any point. Uncommitted rows are in `own`: others do not see them, and wait
before writing them. Simplifications, all on the side of the database:

* the first writes of a transaction are one step, which is taken when all their rows are
  free: a transaction that waits for a row has not been seen to do anything yet, except
  for locks it holds meanwhile, and those can only lead to a deadlock, which the database
  ends with an error (`Rollback`);
* several projects are recalculated in any order, where `updateTask` has a fixed one;
* `deleteTask` is `archiveTasks` with one task;
* `sortOrder` and view states are in `WebClient`, audit records are left out, titles
  are reduced to what `isUnassignedProjectTitle` and the cleanup compare;
* the notifications a request posts in its transaction are left out here; they enter
  `NotificationQueue` by `Post`. Only six call sites post any. Former assignees are not
  told, and since `updateTask` writes a whole row as it was read, it can undo a
  concurrent change that has been announced.

### ImportPipeline

The import jobs with their rows (`job`), what imports make of projects and tasks
(`project`, `task`), the workers (`worker`) and the administrators' requests (`request`).

* requests: `Upload`, `RemoveImport`, and in two parts, the check of `awaiting_review` and
  the write after it, `BeginMapping` / `UpdateMapping`, `BeginProjectDecision` and
  `BeginTaskDecision` / `UpdateDecisions`, `BeginCommit` / `QueueCommit`.
  `RequestTooLate`: the import was removed in between.
* the worker's loop: `FindParseJob`, `FindCommitJob` (the oldest queued job), `ClaimJob`
  (the guarded update), `ParseJob`; then `BeginRows` (the rows are read once), for every
  row `ReadRow` (what `upsertProject` and `upsertTask` find) and `CommitRow` or
  `RollBackRow` with `MarkRowFailed`; for every touched project `ReadProject` and
  `WriteProject`; `CompleteJob`. `CallFails` and `FailJob`: a query outside the row
  transactions throws. `Crash`: the process ends.
* `projectIdByKey` and `taskIdByKey` are the worker's caches. They are set inside a row's
  transaction and survive its rollback: `Gone` stands for the id of a creation that was
  rolled back. `gone` says that the rows a worker has read were removed or staged anew,
  so that their updates fail.

Both kinds of upsert follow `Plan` (create or use, with or without source id) and
`OutcomeOf`. Data is reduced to keys: whether a row's other columns differ from what is
stored is left open (`Differences`). The recalculated rollup is reduced to the total, as
`ProjectRollup` treats the rest of what is computed from the same read. Left out: reading
the file (every job has the rows `File`), the missing users that block a commit, archived
projects and tasks as matches, changes of projects by other requests, and titles that
agree up to case only (`ImportPreview` has those). A crash ends the worker of a job once;
this bound keeps one worker from dying for ever.

`exposed`, `crashed` and `overtaken` are history. `exposed` holds the projects whose last
recalculation met another worker's, was cut off by a failure or a crash, or that lost a
task which the moving row had read in another project. The next undisturbed
recalculation takes a project out. `overtaken` holds the jobs to which a request has
written after they had left `awaiting_review`: the check and the write are apart, so of
two administrators one may stage, decide or queue what the other has queued already.

### ImportPreview

One file from staging to commit, with the data `ImportPipeline` leaves out: titles up to
case, owners and assignees, source ids, cells of several lines, mappings. The API
prepares the rows (`Prepare`) and shows the overlaps it finds (`ProjectOverlap`,
`TaskOverlap`, `PreviewErrors`); after decisions and changes by others the worker prepares
the same rows anew and looks by rules of its own (`Upsert`, `ProcessRow`). Due dates and
other columns are one text. Some of what it shows about the code: an ambiguous match is
flagged on a group's first row only, while all its rows fail; the preview compares titles
without case and takes projects with a source id also, the commit compares them exactly
and takes only those without, but by source id archived ones too; a file that writes one
title in two ways makes a project twice when imported again.

### BackupFiles

The backup directory, the table of protections, the workers that write a backup at the
scheduled time and the requests of the API. A sweep is `ReadDirectory`, `StatFiles` file
by file and `SweepFile` for every file it has chosen by the policy (`Retained`); another
process may write, delete or protect between any two of these. Whatever throws while the
API lists a directory (a file that vanished, a failing query) makes it go on with the next
configured one (`NextDirectory`): nothing is stored there, so that every protection is
deleted, or none is left and the listing is empty; the worker's run ends (`GivesUp`).
`Claim` is the guarded
update of `lastScheduledRunAt`. `runs`, `settled`, `promised` and `exposed` are history.
`Sound` sweeps are those that neither an administrator nor an unsound sweep overtook and
whose policy keeps a file: `dailyCount` may be zero.

### BackupRestore

A snapshot (`BeginSnapshot`, `ReadTable` for one table after the other, `StoreSnapshot`)
by the API or the worker, while people change users, projects and tasks and the outbox
delivers; then full, project and user restores. A full restore is one step, as the
database locks the rows; the other two decide from what they read before their
transaction. View states, settings tables and audit rows are left out. The model shows
that to-dos are lost by a full restore, that a "processing" event restored stays stuck,
that a project without source is doubled when restored twice, and that a restore of users
may demote the last administrator.

### Accounts

Rows of users, the sessions of browsers, one-time passwords from the request to their
expiry. A request reads and checks (`UpdateAccount`, ...) and writes in a later step
(`Commit...`). Items have an owner, so that deleting an account has something to hand
over. An id is given to one account only, as ids are random.

### WebClient

The tabs of one user. A response to `GET /workspace` is held, changed in advance by
`onMutate`, put back when the request fails (with all that other answers have brought
since), and replaced by polls; requests are served (`ReadTasks`, `ReorderProjectTasks`,
...) while colleagues work. A failed poll in the background replaces the page by an error
and mounts it anew. View states are read together with the rows.

### WorkspaceView

The state of the page over the rows of the last response: filters, groups, sorting,
search, open projects, selection, saved views. `RunEffects` is the pass of the effects
after a render in which something changed; `due` counts the renders until nothing does.
The page scrolls in a frame of its own (App.tsx:2455), which comes before the next render
or after it (`early`), and then forgets the match that waits. The order in which projects
were last updated is a number for each of them (`places`), 0 for one that is archived.
Left out: sorting by dates, renaming views, reordering, bulk copy, the editors, the panels
for adding tasks. Users and colleagues act between renders, one request at a time.

### OutboundMail

The row of the mail settings, the panel that edits it, the transports that API and worker
build from it, every mail the API sends (`sendAuditedEmail`), the worker's notices with
their attempts and audit steps, the three retention policies, and the delivery timelines
(`Timeline`, `ListAuditEmails`). The log is kept by mail and notification; retention takes
the oldest events of each, any number of them, since how old they are in comparison makes
no difference to a timeline. Links, wording, limits, searches and dates are left out.

## Runs

| run | configuration | question | bounds | distinct states |
|---|---|---|---|---|
| notification_faults | `NotificationFaults` | Two workers deliver and schedule under refused mail, crashes, failing statements, passes longer than an hour and the retention sweep: is an event in two hands, is a parked update left without its digest, is anything mailed twice, an outcome overwritten? | one update, one user, 2 attempts, hours 0 to 2, a day of 2 hours; rows kept less than an hour, so that digests and their updates both expire | 1 198 124 |
| notification_liveness | `NotificationLiveness` | Does the outbox implement the ledger; with refused mail, lost answers and changes of the digest rate, does every event end and every parked update settle? | one worker, one update, 2 attempts, hours 0 and 1 | 70 678 |
| digest_windows | `DigestWindows` | Is a window entered twice, a day's digest lost? | two workers, three hourly windows, one failing pass | 25 372 |
| workspace | `Workspace` | All requests one after the other, failing anywhere: are rollups, archiving and completion consistent? Two at a time: does a request that runs alone repair what they left? | 2 projects, 2 tasks, 3 statuses ("sequence"); 1 task and 6 of the 10 operations ("concurrent") | 297 663 |
| import_replicas | `ImportReplicas` | Do groups, results and rollups come out right, does a result stay, is a taken job in somebody's hands? | three instances: two workers and two jobs ("replicas"), one worker and one job with every fault and decision ("faults"), two requests at a time ("reviewers"); 2 rows of one project, one of them moving a task, the other with a source id | 496 261 |
| import_preview | `ImportPreview` | Do the rows end as the preview said? Is anything changed that was not shown? Does a second import create anything? | seven files of one or two rows, five tables, four mappings, two imports, one change | 69 131 |
| backup_files | `BackupFiles` | Is a time backed up twice or never, does protection hold, does the policy cover its periods, may sweeps delete the newest file? | two workers, one request, 2 events of any kind (failures included), 5 ticks of a day of 3 | 96 790 |
| backup_restore | `BackupRestore` | Does a quiet snapshot restore what it saw, do partial restores spare the rest, when is mail sent again? | 2 users, 2 projects, 2 tasks, an event, 2 changes, 2 restores | 846 340 |
| accounts | `Accounts` | When can the last administrator go, does a dead password stay dead, does a mailed one work? | 3 ids, 2 browsers, 3 requests of 14 kinds, 2 one-time passwords | 589 412 |
| web_client | `WebClient` | Does an order stay, is an unseen change highlighted, do tabs and config come to agree? | up to 2 tabs, 3 tasks, 2 to-dos; one tab: two acts of the user and one change or failure; two tabs: one act | 393 718 |
| workspace_view | `WorkspaceView` | Do the effects end with the match on the screen, does a view bring its layout back, do bulk actions touch what is open? | 3 projects, 4 tasks, 3 acts of a set of activities, 4 with views; three tables of rows, one of them for searches and filters only | 876 896 |
| outbound_mail | `OutboundMail` | Does a mail go where the settings say, do the timelines find every notice, do they tell sent from not sent? | one administrator, one mail of the API, one notice, 1 save, 3 attempts; saves and faults apart | 152 168 |

`ImportFaults` is a further configuration, of `ImportPipeline` under weak fairness:
every job is settled (`EveryJobIsSettled`) unless its worker died, although rows and
calls fail (41 253 states).

Why these bounds are enough to be interesting: two workers are what it takes to race for
a row, and each has both parts of a pass, so up to four passes meet in one buffer. Two
attempts are one retry and one giving up. Two hours make two hourly windows and one daily
one, so an update can be released from one digest and parked in the next, of either kind.
Updates of different users share no rows, so one user is enough. Two tasks of three
statuses reach four of the eight derived statuses; the others are the matter of the
theorem about the rollup, which has no bound. Two requests are enough for every lost
update between transactions. The liveness run has one worker because its subject is
the end of each event, not the race for it; the races are in the other one.

Two imports of one file make every row meet its own result, in order and at the same time.
Two rows of one project are what a group is. A file of two rows has every kind of match
the preview knows between the rows and the table, and one between the rows themselves.
Two days before the clock starts have files, so a policy of one day and two weeks has
something to keep and to delete while two workers and an administrator do what they may.
Three requests are a preparation and two that overlap. In the workspace view, three acts
are one to hide something, one to search for it and one to change it; a view needs a
fourth. The sets of activities keep apart what has nothing to do with each other.

TLC looks for deadlocks in the notification runs. The others say `CHECK_DEADLOCK FALSE`,
since they stop at the end of modelled time or when ids, requests or acts have run out;
in the import runs idle workers poll without changing the state. `Workspace` makes
symmetric use of ids and sessions, `ImportReplicas` of workers and administrators,
`DigestWindows` and `NotificationFaults` of workers, which is sound as no definition names
one and these runs check no liveness.

### What the properties except, and why

The code gives up some promises under certain circumstances; the properties say which, by
history variables.

* `MailedOnce` needs `mishaps = {}`: after a failed statement, a pass longer than an hour,
  a rate that was switched during a pass, or an answer lost after acceptance, something
  may be mailed again. Crashes are no exception: what a dead worker holds is never
  mailed again, since nothing requeues `processing`. `OutcomesAreFinal` suffers from
  failed statements only.
* `SequencesStayConsistent` is about requests one at a time. Two at a time, rollups may
  be wrong until the next request that recalculates the project alone
  (`SoloRequestsRepairRollups`), and what was checked before a transaction may be false
  in it. Still nothing that was archived comes back (`ArchivedIsFinal`).
* In `ImportPipeline`, `SettledJobsStay`, `GroupsStayTogether` and `ResultsMatchEffects`
  except the jobs in `overtaken`, `TakenJobsAreHeld` those in `crashed`, `RollupsFollow`
  the projects in `exposed`.
* `ProtectionHolds` excepts files whose protection met an open listing;
  `SweepSparesTheNewest` is about sound sweeps.
* `MailedOtpWorks` excepts passwords that the failing mail of another request cleared,
  `LastAdminStays` the guest's login and requests that counted other administrators.
* `ChangesAreHighlighted` excepts a change that comes while a mark is being served,
  `OrderIsAsDropped` reorders that overlap, `ConfigIsShared` a config that was refused.
* `SavedViewRoundTrips` excepts views whose search had to reveal a hidden match,
  `BulkTouchesOpenProjects` tasks that were selected when a view was applied, that a
  response moved, or that a response brought into a project while it was being converted
  to a task: converting closes a project without deselecting (`clearProjectPanels`). No
  run is large enough to show this last one; the proof of the theorem did not go through
  without it.
* `SentMeansAccepted` excepts mails and notices a fault has hit: a failing audit record
  after acceptance is handled like a rejection.

## Fairness

`NotificationLiveness` assumes weak fairness of every worker's loop and of every
part of a scheduling pass (`NotificationWorker.run` is an endless loop over awaited calls
that return or throw) and of the end of a retry delay (`nextAttemptAt` is a time, and the
clock goes on). Nothing is assumed of users, of the API, of the retention sweep, or of the
mail host, which may refuse every message. The run has neither crashes nor failing
statements: with them `EveryEventIsSettled` is false, as nothing requeues an event left in
`processing` by a dead worker; the code has no recovery for it and no document promises
one.

`BackupFiles` assumes that some worker goes on (`DueBackupIsWritten`); the administrator
may do nothing. `WebClient` assumes that tabs poll (also in the background,
`refetchIntervalInBackground`), that the timer of the config fires and that requests come
to an end, answered or not; users and colleagues need not act. `ImportFaults` assumes weak
fairness of the worker's loop, nothing of the administrator; `EveryJobIsSettled` excepts
jobs whose worker died, since no claim takes up `parsing` or `committing`.

## Proofs

The theorems are listed in `PROJECT.json`. They hold for every value of the constants that
satisfies the assumption of the module (`ConstantsAssumption`, `ScheduleAssumption`,
`ImportAssumption`, ...): types, non-empty sets where the code has at least one of
something, and no more. None of the invariants is inductive by itself. What follows is
what each proof adds; every added part was checked by TLC on the run of its module before
it was proved.

**NotificationQueue_proofs.** Types, exclusive and bounded delivery, no update closed
unmailed, no parked update without its digest, under every fault. `IInv` adds

* `HeldRows`: what a worker may assume of the event it holds in each stage (it has been
  claimed, so it is not in the queue; before sending it has been mailed less often than
  claimed; what it settles is a digest that has been mailed);
* `AttemptsLeft`: a row in the queue has an attempt left, since `failEvent` requeues only
  below the limit, comparing the counter it has read, which `HeldRows` says is current;
* `SourcesAreOlder` with `BatchesExist` and `BirthsArePast`: a digest is not older than
  the updates it names, since it is created after they were read. Hence the retention
  sweep, which deletes by age, takes no digest of an update that stays;
* `CandidatesExist`, a matter of types.

`ClosingIsFinal` is an action property from the same invariant. `OutboxImplementsLedger` is
the refinement: initial states map to initial states, and every step of workers, passes,
users, retention and faults is a step of `UpdateLedger` or stutters, one case per action.
Close needs `ClosedUpdatesWereMailed`'s strengthening, the others the stages in `HeldRows`.

Of `QueueHistory`, the theorems are `MailedOnce` and `OutcomesAreFinal`. `HInv` is `IInv` with
`StagesFit` (a worker that met no failing statement knows how far its event is),
`EachIsMailedOnce` (an accepted mail is the only one of its event, and its worker is past
sending), `PassesAgree` (passes that run together have the same windows and, per user,
batches of one kind), and three steps from there to one digest per update: `QueuedIsFree`
and `BatchIsFree` (what lists an update that is buffered, or in a batch, was not mailed and
never will be), and `OneListCounts` (of two digests that list it, one is over).

**Workspace_proofs.** Of `ProjectRollup`: the two rollups agree on every finite set of
tasks. The counters of disjoint statuses add up to the size of their union
(`SumsAreSizes`), and equal sizes of a set and its part mean equal sets
(`CountingDecides`).

Of `Workspace`: first every action is brought to one of three kinds: a request
begins, writes rows, or goes on. `Shape` (types, tasks have homes, no two transactions hold
one row) gives `ArchivedIsFinal`. `Solo` adds what a request that runs alone has
recalculated (`AloneIsRight`): current as its transaction sees the rows, which is what is
committed. `InOrder` is about sequences: the tables are sound, also as an open transaction
sees them, but for the projects it has yet to recalculate; each kind of write is shown to
keep that (`KeepsSound`), so that `SequencesStayConsistent` follows for any number of
projects and tasks.

**ImportPipeline_proofs.** The invariants build on each other.

* `Base`: types; a job has its rows from the end of the parse until it is removed; the
  status of a job fits the stage of the worker that holds it (`HoldersFit`), and two hold
  one job only if it was overtaken (`OneHolder`); requests that were checked are about
  reviewed jobs; plans and caches name rows that exist, or ids that were not stored.
  `SettledJobsStay` follows from it.
* `TakenJobsAreHeld` is inductive over `Base`.
* `Rollups`: `RollupsFollow`, and a total about to be written that is no longer right is
  somebody else's to write again, or the project is exposed (`RecalculationsFollow`).
* `Results`, for jobs not overtaken: what a job says it made is what is there with its
  mark (`JobFits`); a worker has the rows behind it with outcomes and, where they did not
  fail, the project its cache names for their key; the rows before it are pending
  (`CommitFits`). A cache loses no id of a project that exists when a row is rolled back
  (`KeepsIds`), since the key it sets was either missing, or `Gone`, or is set to the same
  id. Hence `GroupsStayTogether` and, with `Rollups`, `EffectsAreAccountedFor`.

**Backups_proofs.** About two modules, so that those of `BackupRestore` have names of their
own (`DbSpec`). Of `BackupFiles`: `Proceeds` reduces the steps to one process going on while
others may be overtaken. One backup per time, from the claim's guard (what was claimed is not later
than `lastRun`). Protection, from what an open listing may still delete (`Promises`). The
retention tiers: for every set of files, protections and policy each tier keeps the newest
file of each period it counts, and later tiers skip only what an earlier one covers; this
rests on the calendar being monotone (`Calendar`) and on well-founded induction over sizes
of sets. `SweepSparesTheNewest`, from the newest file being kept by a policy that keeps any
and from what is written since being newer (`Dated`).
Of `BackupRestore`, `DatabaseInv`: the tables are well formed (`DatabaseIsSound`) and no id
is given out again (`IdsAreNew`); a snapshot has rows as the schema wants them, and those of
`asOf` while nothing has changed (`HoldsWhatWas`); what a restore has read of a project's
source is still so where the project is (`RestoreInv`), which is what matching by source
needs. A quiet backup is as sound as the tables were, so that no full restore refuses it
(`QuietBackups`). The loops of the partial restores are recursive functions of the steps
done; they exist (`ProjectLoop`, `UserLoop`), and `Midway` and `MidwayOfUsers`, which hold
before every pass of the loop by induction on the least pass where they would not, say what
is well formed, spared and replaced so far: hence `PartialRestores`. `MailedAgain` counts:
mailings, and one more while the event waits or is being sent, are at most one more than
the restores that put it back.

**Accounts_proofs.** `RequestOK` says for every request in flight what it was checked for
and against which accounts; `OtpsOK` relates one-time passwords in rows, in mails and in
the histories. `LastAdminStays` is an action property: from what a request has read and
the accounts being the same, the check it has passed still counts an administrator more.

**WorkspaceView_proofs.** `IInv` types the page, the rows and the requests, and says that a
view is what some page was when it was saved. `BulkTouchesOpenProjects` follows from
`Follows`: a selected task is in an open project or was left behind. Every way to open,
close, reveal, filter or hide is shown to keep that (`Keeps`: same homes, nothing more
selected, what is selected stays in an open project), and so is a pass of the effects,
which is a sequence of those.
`RevealShowsTheMatch` needs to know what is about to happen (`RInv`): while a match waits,
it is the one of the last key, and is on the screen unless an effect is due; when none is
due and none was forgotten, it has been scrolled to. `EffectsSettle` needs how far a
search has got (`SInv`). The first render may reveal a match, and revealing one may close projects
and mark them as viewed, which with "Not viewed" takes them off the list, so that the
second may have another match to reveal. By then only the first one's project is open, and
it is the first of its group (`Alone`): another match is in another group, revealing it
closes that project only, its own group keeps its place and no other comes earlier
(`GroupsComeLater`, `SecondReveal`), so it stays the first match. The third render changes
nothing but what waits and what is selected (`Rests`), the fourth nothing. On the way, the
list is shown to depend on the rows, the filters and the projects that pass them only
(`SameRows`, `SameView`), the ranks of projects to be ordered (`BeforeIsLexical`,
`RanksInOrder`) and the first match to be one only (`OneFirstMatch`).

`SavedViewRoundTrips` compares two pages, the one saved (of which the history has the
picture) and the one shown. `VInv`: they have the same choices (`Chosen`), and what is open
is as it was saved (`AsSaved`), or the effects have revealed a match, and closed others, for
other rows (`Astray`): with "Not viewed" a revealed match marks projects as viewed, and rows
marked as viewed never become those of the saved page again, so that the property has
nothing to ask. Where the rows are the same, the first match is the same, was on the screen
when the view was saved, and needs no revealing (`ShownIsOpen`, `RevealsCarry`).

**Notifications_proofs.** About two small modules, so that the definitions of
`DigestSchedule` have names of their own (`ScheduleInit` and so on).
Of `DigestSchedule`: a worker enters an hourly window once, from `Spaced`: its passes
begin at least an interval apart, and a window is not wider. The daily digest is cut in
time, from `Prompt` (a worker turns at least every `MaxTurn`) and `Late`: while the day is
open every pass of it has failed, so no pass is later than as many longest gaps as there
were failures.

Of `OutboundMail`: a mail is sent by an object that others configure meanwhile. `IInv`
says that the service and the worker have the transport of the URL they hold, that what a
mail was handed to is what its settings name (`MailOK`), and that configuring depends on
the settings only, not on what the service was before (`ConfigureIsFull`): hence
`MailsFollowTheSettings`. `PanelsOK` types the rows, forms and calls, and gives
`MaskedUrlIsKept`: merging a masked URL into the one it masks gives that one
(`MaskIsMergedAway`).
`TInv` follows the timelines. `RowOK`: a notification that no worker holds or has died
with is not in progress, and its attempts and its log end as its row says; while a worker
holds it, where the worker is tells what the log still lacks. `AcceptedOK` and `MailTold`:
of what no fault has hit, row, log and place of the worker say together whether a server
has accepted it. Recording adds an end (`AppendedIsNewest`), retention takes from the
beginning (`RetentionShortens`), merging with the attempts of a row keeps the end
(`MergingKeepsTheEnd`, `SynthesisEnds`): hence `TimelineFindsEveryNotice` and
`SentMeansAccepted`.

**WebClient_proofs.** A list ordered by the rows' positions (`InOrder`) is defined by
ranks: the row in place `n` is the one before which `n - 1` come. The ranks of a finite
set grow with the order, so they are different, and there are as many as rows, so each
occurs (`RanksAreTaken`, from the library's theorem on injections, no induction): the list
holds each row once (`ListIsSorted`). Dragging keeps it so (`MovedIsPermuted`).
`TypeInv` types rows, pages and requests: lists have numbered rows, a mounted page and a
request that may have to be rolled back have a whole response each. Every handler sends a request, answers some or goes on with one
(`Continues`), hence what was read for a request is not made up. `OrderInv`: a reorder that
no other overtook since its read has read the positions that the tasks still have
(`ReadOK`), so that writing only those that differ gives every task its place; and the tasks
of the latest drop have their places in it (`DropOK`): hence `OrderIsAsDropped`.
`ChangesAreHighlighted` is inductive as it stands, over any number of tabs and tasks.

**Only model-checked.** Liveness: `EveryEventIsSettled`, `NoUpdateStaysParked`,
`DueBackupIsWritten`, `TabsCatchUp`, `ConfigIsShared`, `EveryJobIsSettled`, which are out
of reach for TLAPS, as is `ENABLED`. Of `ImportPreview`, `PreviewHolds`,
`ReimportCreatesNothing` and `ChangesWereShown`: they compare what two folds over the rows,
groups and tasks of a file compute, for which the provers would need an induction.

## Where code and documents part

Each of these is a property that TLC finds violated. Five have a configuration of their
own; for the others put the property in the place of those that the named configuration
checks.

| property | configuration | what happens | what is said |
|---|---|---|---|
| `EveryHourIsServed` | `MissedHour` (`MCDigestSchedule`) | a check just before the hour and one just after the window leave the hour without a digest; its updates wait for the next | CHANGELOG.md:177, one hourly summary |
| `SettledRollupIsCurrent` | `RollupRace` (`Workspace`) | two tasks created at once: each transaction recalculates without the other's task, the second to write wins | docs/WORKSPACE.md:139, docs/DESIGN.md:205, an immediate rollup of the active tasks |
| `ArchivingDropsNoTasks` | `ConversionRace` (`Workspace`) | `convertProjectToTask` checks `taskTotalCount` before its transaction; a task created meanwhile ends up active in an archived project | docs/WORKSPACE.md:130, task lists are never dropped silently |
| `SplitRowsStayGrouped` | `SplitRows` (`MCImportPipeline`) | of the rows of a project that is to be added although it exists with a source id, the second finds the cached copy, gives it the source id the original holds, and fails | docs/IMPORT_EXPORT.md:73, the staged tasks stay grouped |
| `IgnoredProjectsAreUsed` | `ImportPreview` | a row ends in another project than the one shown as used unchanged | docs/IMPORT_EXPORT.md, "Use existing project unchanged" |
| `ProtectedFilesStay` | `BackupFiles` | a file protected while a sweep's listing is open is deleted | docs/BACKUPS.md, protected files are excluded from pruning |
| `SelectedUsersAreRestored` | `BackupRestore` | a user matched by id and another by e-mail are written over one another | docs/BACKUPS.md, restores selected users |
| `SettingsAreRestored` | `BackupRestore` | the worker's snapshot (backup-worker.ts:742) leaves out `userConfig` and `personalTodoRetention`, which the API's (backups.service.ts:2415) holds: restoring a scheduled backup gives everybody a new account's settings | CHANGELOG.md:197, backup and restore coverage of the user configuration |
| `ChoicesStay` | `WebClient` | a rollback puts a whole stale response back, and with it a config that was changed since | docs/DESIGN.md, filters and grouping persist |
| `SavedViewsKeepNotViewed` | `WorkspaceView` | the "Not viewed" filter is not stored in a view | docs/WORKSPACE.md:125, docs/DESIGN.md:81, docs/ARCHITECTURE.md:260 |
| `SearchScrollsToTheMatch` | `WorkspaceView` | revealing a match closes a project that "Not viewed" then takes off the list, so that another match comes first; the page scrolls to the first one in a frame that comes late and forgets the second | CHANGELOG.md:85, search scrolls to the first matching task row |
| `BulkTouchesOnlyOpenProjects` | `WorkspaceView` | after a view was applied, a response moved a task, or a project was converted, bulk actions touch selected tasks of closed projects | (no promise; what closing a project otherwise does) |
| `MaskIsNeverStored` | `OutboundMail` | with no settings stored, saving the form stores the masked URL of the environment: the `create` of the upsert (email.service.ts:255) is not merged | docs/SETTINGS.md:96, an unchanged masked password preserves the credential |
| `SavedUrlIsTried` | `StuckWorker` (`MCOutboundMail`) | a worker started without a usable URL skips every mail before it reads the settings that would give it one | docs/SETTINGS.md:96, saved values override the environment's |
| `OneConfigurationPerMail` | `OutboundMail` | server and sender of a mail are read at different times | (no promise) |

Noticed while reading, without a model: docs/NOTIFICATIONS.md:8 and :70 and
docs/SETTINGS.md:94 describe updates that arrive at once when the daily digest is off; the
code batches them by the hour. In the mail panel every switch saves the whole form, so a
stale form overwrites another administrator's save, and refetching the status resets what
was typed. A full restore makes the mail settings anew without URL, sender and home
(backups.service.ts:1223, 1513). A bulk update and a concurrent change can leave a task
done without completion time, since `buildBulkTaskUpdate` writes each of the two only if it
differs from what was read.

## Not modelled, and why

Recipients and wording of notices and the calendar of due reminders: the choice is a pure
function at six call sites. Login rows and the estimates shown before a prune. The preview
of a restore. The searches of the audit log. Controllers, schemas, configuration, metrics,
migrations and deployment keep no state; unique keys and defaults of the schema are
modelled where a service relies on them. Limits, date filters and rows of one millisecond
in the timelines of the audit log; `lastScheduledRunAt` set back by a full restore and
password hashes written by a restore of users (modules `BackupRestore`, `BackupFiles` and
`Accounts` do not meet); the read of the next `sortOrder` before a to-do is created; the
project a successful reorder expands. Of the web application, the editors, drag handles,
the account and backup panels beyond the requests they send.

## Plan

What is left is in the components that PROJECT.json lists as partly modelled or not
modelled: the editors and panels of the web application, the request guards, and what the
folds of `ImportPreview` compute for every file, which TLC checks for small ones.

## Running

    tlc -workers 2 -config NotificationFaults.cfg MCNotificationQueue
    tlapm NotificationQueue_proofs.tla

The other runs name their module in `PROJECT.json`. `ImportPipeline_proofs` takes about a
quarter of an hour, the others up to five minutes each.
