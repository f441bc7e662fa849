---------------------------- MODULE BackupFiles ----------------------------
(***************************************************************************)
(* The stored backups: the workers that write one at the scheduled time    *)
(* of a day, the administrator who writes, uploads, protects and deletes   *)
(* them, and the sweeps that delete what the retention policy does not     *)
(* keep.  The directory and the table of protections are shared by every   *)
(* process; a sweep works from a listing it made some steps ago.           *)
(***************************************************************************)
EXTENDS Naturals, FiniteSets, Sequences

CONSTANTS
    Worker,        \* worker processes
    Request,       \* requests and timers of the API
    Upload,        \* names the administrator uploads files under
    TimeOfDay,     \* the hours a backup can be scheduled at
    FirstTime,     \* the one it is scheduled at when the clock starts
    Policies,      \* retention policies an administrator may choose
    TicksPerDay, DaysPerWeek, DaysPerMonth,
    Start, MaxTime, \* the clock's first and last value
    Written,       \* the backups there are when it starts
    MaxEvents,     \* bound on requests and failures
    Activities     \* what happens besides the schedule

ASSUME ConstantsAssumption ==
    /\ TicksPerDay \in Nat \ {0}
    /\ DaysPerWeek \in Nat \ {0}
    /\ DaysPerMonth \in Nat \ {0}
    /\ TimeOfDay \subseteq 1..(TicksPerDay - 1) /\ FirstTime \in TimeOfDay
    /\ Policies \subseteq [daily: Nat, weekly: Nat, monthly: Nat]
    /\ MaxTime \in Nat \ {0} /\ MaxEvents \in Nat
    /\ Start \in 1..MaxTime /\ Written \subseteq 1..(Start - 1)
    /\ Upload \subseteq 1..MaxTime
    /\ Worker \cap Request = {}

VARIABLES
    now,         \* the clock, in ticks
    events,      \* requests and failures so far
    settings,    \* the row of BackupSettings, with the policy
    mtime,       \* mtime[f]: when the file was written, 0 when there is none
    protection,  \* the rows of BackupFileProtection
    op,          \* op[p]: what a process is doing
    runs,        \* history: how often a scheduled time was claimed
    settled,     \* history: claimed times whose backup was written or failed
    promised,    \* history: files the administrator has protected
    exposed      \* history: files whose protection met an open listing

store    == <<mtime, protection>>
schedule == <<settings, runs, settled>>
history  == <<promised, exposed>>
vars     == <<now, events, schedule, store, op, history>>

Process == Worker \cup Request

\* buildBackupFileName: a file is named by the time its backup was begun.
File == 1..MaxTime

\* getUtcDayKey, getUtcWeekKey, getUtcMonthKey: later periods are greater.
Day   == [t \in Nat |-> t \div TicksPerDay]
Week  == [t \in Nat |-> Day[t] \div DaysPerWeek]
Month == [t \in Nat |-> Day[t] \div DaysPerMonth]

\* buildScheduledRunAt: today's scheduled time.
ScheduledAt(t, time) == Day[t] * TicksPerDay + time

NoPolicy == [daily |-> 0, weekly |-> 0, monthly |-> 0]

\* What a process has yet to list, and what for.
Purpose == {"sweep", "look"}
Stage   == {"idle", "claim", "write", "protect", "unprotect", "list", "stat", "sweep"}

OpState == [stage: Stage, slot: 0..MaxTime, begun: 0..MaxTime, names: SUBSET File,
            policy: Policies \cup {NoPolicy}, doomed: SUBSET File,
            todo: Seq(Purpose), fresh: BOOLEAN]

Idle == [stage |-> "idle", slot |-> 0, begun |-> 0, names |-> {}, policy |-> NoPolicy,
         doomed |-> {}, todo |-> <<>>, fresh |-> TRUE]

TypeOK ==
    /\ now \in Start..MaxTime
    /\ settings \in [enabled: BOOLEAN, time: TimeOfDay, lastRun: 0..MaxTime,
                     policy: Policies]
    /\ events \in 0..MaxEvents
    /\ mtime \in [File -> 0..MaxTime]
    /\ protection \subseteq File
    /\ op \in [Process -> OpState]
    /\ runs \in [0..MaxTime -> Nat]
    /\ settled \subseteq 0..MaxTime
    /\ promised \subseteq File
    /\ exposed \subseteq File

Init ==
    /\ now = Start
    /\ settings \in [enabled: {TRUE}, time: {FirstTime}, lastRun: {0},
                     policy: Policies]
    /\ events = 0
    /\ mtime = [f \in File |-> IF f \in Written THEN f ELSE 0]
    /\ protection = {}
    /\ op = [p \in Process |-> Idle]
    /\ runs = [t \in 0..MaxTime |-> 0]
    /\ settled = {}
    /\ promised = {}
    /\ exposed = {}

Tick == /\ now < MaxTime
        /\ now' = now + 1
        /\ UNCHANGED <<events, schedule, store, op, history>>

-----------------------------------------------------------------------------
(* The retention policy.                                                   *)

Stored(dates) == {f \in File : dates[f] # 0}

\* The order of the listing, newest first; equal dates are ordered by name.
Newer(dates, f, g) ==
    dates[f] > dates[g] \/ (dates[f] = dates[g] /\ f > g)

\* addTierRetainedBackups: of the files that are left, the newest one of
\* each period, for the newest "count" periods.
TierKeeps(dates, left, count, Period) ==
    LET representatives ==
            {f \in left : \A g \in left \ {f} :
                Period[dates[g]] = Period[dates[f]] => Newer(dates, f, g)}
    IN  {f \in representatives :
            Cardinality({g \in representatives : Newer(dates, g, f)}) < count}

\* mutant: the days' files are counted again among the weeks.
RetainedWithoutTiers(dates, guarded, policy) ==
    LET left == Stored(dates) \ guarded
    IN  guarded \cup TierKeeps(dates, left, policy.daily, Day)

\* mutant: protection is applied to the days only.
RetainedUnguarded(dates, guarded, policy) ==
    TierKeeps(dates, Stored(dates), policy.daily, Day)
        \cup TierKeeps(dates, Stored(dates), policy.weekly, Week)

\* mutant: the oldest file of a period represents it.
RetainedOldest(dates, guarded, policy) ==
    guarded \cup {f \in Stored(dates) : \A g \in Stored(dates) \ {f} :
                        Day[dates[f]] = Day[dates[g]] => Newer(dates, g, f)}

\* selectRetainedBackupFileNames: protected files, then days, weeks, months.
Retained(dates, guarded, policy) ==
    LET left    == Stored(dates) \ guarded
        days    == TierKeeps(dates, left, policy.daily, Day)
        weeks   == TierKeeps(dates, left \ days, policy.weekly, Week)
        months  == TierKeeps(dates, left \ (days \cup weeks), policy.monthly, Month)
    IN  guarded \cup days \cup weeks \cup months

\* What a sweep deletes of a listing.
Doomed(dates, guarded, policy) == Stored(dates) \ Retained(dates, guarded, policy)

-----------------------------------------------------------------------------
(* Steps of a process.                                                     *)

Set(p, o) == op' = [op EXCEPT ![p] = o]

\* The same for a step after which the listings of Q do not hold any more.
SetAndOvertake(p, o, Q) ==
    op' = [q \in Process |->
              IF q = p THEN o ELSE [op[q] EXCEPT !.fresh = @ /\ q \notin Q]]

Knowing(f) == {q \in Process : f \in op[q].names}
Listing    == {q \in Process : op[q].names # {}}

\* A sweep that was not overtaken, by a policy that keeps something.
Sound(p) == op[p].fresh /\ op[p].policy # NoPolicy

\* A process turns to the next listing it has to make.
Then(todo) == [Idle EXCEPT !.stage = IF todo = <<>> THEN "idle" ELSE "list",
                           !.todo = todo]

\* A file that some process takes for unprotected, or for not there.
AtRisk(q, f) ==
    \/ op[q].stage = "stat" /\ f \notin op[q].names
    \/ op[q].stage = "unprotect" /\ f \in op[q].names
    \/ f \in op[q].doomed

\* The policy and the names (readdir).
ReadDirectory(p) ==
    /\ op[p].stage = "list"
    /\ Set(p, [op[p] EXCEPT !.stage = "stat", !.names = Stored(mtime),
                            !.policy = settings.policy])
    /\ UNCHANGED <<now, events, schedule, store, history>>

\* After a sweep that deleted something the directory is listed once more.
AfterSweep(p, swept) ==
    Then((IF swept THEN <<"look">> ELSE <<>>) \o Tail(op[p].todo))

\* The dates and the protections: what a sweep deletes is decided here.
\* Protections of names outside the listing are deleted in the same step (a
\* protection given in between is lost as if given before).
StatFiles(p) ==
    /\ op[p].stage = "stat"
    /\ op[p].names \subseteq Stored(mtime)
    /\ protection' = protection \cap op[p].names
    /\ \E doomed \in {Doomed([f \in File |-> IF f \in op[p].names THEN mtime[f] ELSE 0],
                            protection \cap op[p].names, op[p].policy)} :
           Set(p, IF Head(op[p].todo) = "sweep" /\ doomed # {}
                  THEN [op[p] EXCEPT !.stage = "sweep", !.doomed = doomed]
                  ELSE AfterSweep(p, FALSE))
    /\ UNCHANGED <<now, events, schedule, mtime, history>>

\* Whatever throws while the API lists a directory, the next configured one
\* takes its place: nothing is stored there, so that every protection is taken
\* for one of a file that is gone.  When none is left the listing is empty and
\* deletes nothing.
NextDirectory(p) ==
    /\ p \in Request
    /\ \/ protection' = {} /\ exposed' = exposed \cup promised
       \/ UNCHANGED <<protection, exposed>>
    /\ Set(p, Then(Tail(op[p].todo)))

\* A process gives up.
GivesUp(p) == Set(p, Idle) /\ UNCHANGED <<protection, exposed>>

\* A file of the listing has vanished: the run of a worker fails.
StatFails(p) ==
    /\ op[p].stage = "stat"
    /\ ~(op[p].names \subseteq Stored(mtime))
    /\ NextDirectory(p) \/ (p \in Worker /\ GivesUp(p))
    /\ UNCHANGED <<now, events, schedule, mtime, promised>>

\* The loop of pruneStoredBackups; a file that is gone counts as deleted.
\* The order of the deletions does not matter.
SweepFile(p, f) ==
    /\ op[p].stage = "sweep" /\ f \in op[p].doomed
    /\ mtime' = [mtime EXCEPT ![f] = 0]
    /\ SetAndOvertake(p, IF op[p].doomed = {f} THEN AfterSweep(p, TRUE)
                         ELSE [op[p] EXCEPT !.doomed = @ \ {f}],
                      IF Sound(p) THEN {} ELSE Listing)
    /\ UNCHANGED <<now, events, schedule, protection, history>>

-----------------------------------------------------------------------------
(* The schedule of the worker (runScheduledBackup).                        *)

\* mutant: the time has to be met exactly.
ReadsOnTheHour(p) ==
    /\ p \in Worker /\ op[p].stage = "idle"
    /\ settings.enabled
    /\ now = ScheduledAt(now, settings.time)
    /\ settings.lastRun < ScheduledAt(now, settings.time)
    /\ Set(p, [Idle EXCEPT !.stage = "claim", !.begun = now,
                           !.slot = ScheduledAt(now, settings.time)])
    /\ UNCHANGED <<now, events, schedule, store, history>>

\* A run that finds its time claimed already does nothing; only the claim
\* compares the last run, so such a read is left out.
ReadSchedule(p) ==
    /\ p \in Worker /\ op[p].stage = "idle"
    /\ settings.enabled
    /\ now >= ScheduledAt(now, settings.time)
    /\ settings.lastRun < ScheduledAt(now, settings.time)
    /\ Set(p, [Idle EXCEPT !.stage = "claim", !.begun = now,
                           !.slot = ScheduledAt(now, settings.time)])
    /\ UNCHANGED <<now, events, schedule, store, history>>

\* mutant: the day is claimed without comparing the last run.
ClaimsAnyway(p) == settings.enabled

\* The guarded update: whoever comes second finds the time claimed.
ClaimMatches(p) ==
    /\ settings.enabled
    /\ settings.lastRun < op[p].slot
    /\ op[p].slot = ScheduledAt(op[p].slot, settings.time)

Claim(p) ==
    /\ op[p].stage = "claim"
    /\ IF ClaimMatches(p)
       THEN /\ settings' = [settings EXCEPT !.lastRun = op[p].slot]
            /\ runs' = [runs EXCEPT ![op[p].slot] = @ + 1]
            /\ Set(p, [op[p] EXCEPT !.stage = "write"])
       ELSE Set(p, Idle) /\ UNCHANGED <<settings, runs>>
    /\ UNCHANGED <<now, events, settled, store, history>>

\* The snapshot is written under a temporary name and renamed.
WriteBackup(p) ==
    /\ op[p].stage = "write"
    /\ mtime' = [mtime EXCEPT ![op[p].begun] = now]
    /\ settled' = IF p \in Worker THEN settled \cup {op[p].slot} ELSE settled
    /\ SetAndOvertake(p, Then(IF p \in Worker THEN <<"sweep">> ELSE <<"sweep", "look">>),
                      Knowing(op[p].begun))
    /\ UNCHANGED <<now, events, settings, runs, protection, history>>

Happens(activity) ==
    activity \in Activities /\ events < MaxEvents /\ events' = events + 1

\* Any step may throw, or the process may die: what it was about is given up,
\* but a listing of the API goes on elsewhere.  A backup that was claimed is
\* not tried again.
Fail(p) ==
    /\ Happens("failure") /\ op[p].stage # "idle"
    /\ settled' = IF op[p].stage = "write" /\ p \in Worker
                  THEN settled \cup {op[p].slot} ELSE settled
    /\ \/ op[p].stage \in {"list", "stat"} /\ NextDirectory(p)
       \/ GivesUp(p)
    /\ UNCHANGED <<now, settings, runs, mtime, promised>>

-----------------------------------------------------------------------------
(* Requests of the administrator and the hourly timer of the API.          *)

Starts(p, activity) ==
    p \in Request /\ op[p].stage = "idle" /\ Happens(activity)

UpdateBackupSettings(p) ==
    /\ Starts(p, "settings")
    /\ \E enabled \in BOOLEAN, time \in TimeOfDay, policy \in Policies :
            settings' = [settings EXCEPT !.enabled = enabled, !.time = time,
                                         !.policy = policy]
    /\ Set(p, Then(<<"look">>))
    /\ UNCHANGED <<now, runs, settled, store, history>>

CreateBackupNow(p) ==
    /\ Starts(p, "create")
    /\ Set(p, [Idle EXCEPT !.stage = "write", !.begun = now])
    /\ UNCHANGED <<now, schedule, store, history>>

\* The name is the administrator's: the file may be there already.
UploadBackupFile(p, f) ==
    /\ Starts(p, "upload") /\ f \in Upload
    /\ mtime' = [mtime EXCEPT ![f] = now]
    /\ SetAndOvertake(p, Then(<<"sweep", "look">>), Knowing(f))
    /\ UNCHANGED <<now, schedule, protection, history>>

\* The protection is deleted by a second statement.
DeleteBackupFile(p, f) ==
    /\ Starts(p, "delete") /\ mtime[f] # 0
    /\ mtime' = [mtime EXCEPT ![f] = 0]
    /\ SetAndOvertake(p, [Idle EXCEPT !.stage = "unprotect", !.names = {f}], Listing)
    /\ promised' = promised \ {f}
    /\ exposed' = exposed \ {f}
    /\ UNCHANGED <<now, schedule, protection>>

BeginProtection(p, f) ==
    /\ Starts(p, "protect") /\ mtime[f] # 0
    /\ \/ /\ Set(p, [Idle EXCEPT !.stage = "protect", !.names = {f}])
          /\ UNCHANGED history
       \/ /\ Set(p, [Idle EXCEPT !.stage = "unprotect", !.names = {f}])
          /\ promised' = promised \ {f} /\ exposed' = exposed \ {f}
    /\ UNCHANGED <<now, schedule, store>>

UpdateProtection(p) ==
    \E f \in op[p].names :
        /\ \/ /\ op[p].stage = "protect"
              /\ protection' = protection \cup {f}
              /\ promised' = promised \cup {f}
              /\ exposed' = IF mtime[f] = 0 \/ \E q \in Process \ {p} : AtRisk(q, f)
                            THEN exposed \cup {f} ELSE exposed
           \/ /\ op[p].stage = "unprotect"
              /\ protection' = protection \ {f}
              /\ UNCHANGED history
        /\ SetAndOvertake(p, Then(<<"look">>), Listing)
        /\ UNCHANGED <<now, events, schedule, mtime>>

\* runAutomaticRetentionPrune, or a prune the administrator asks for.
PruneBackups(p) ==
    /\ Starts(p, "prune")
    /\ \E todo \in {<<"sweep">>, <<"sweep", "look">>} : Set(p, Then(todo))
    /\ UNCHANGED <<now, schedule, store, history>>

GetBackupStatus(p) ==
    /\ Starts(p, "status")
    /\ Set(p, Then(<<"look">>))
    /\ UNCHANGED <<now, schedule, store, history>>

-----------------------------------------------------------------------------
\* A listing, from its names to the last deletion it leads to.
ListingStep(p) ==
    \/ ReadDirectory(p) \/ StatFiles(p) \/ StatFails(p)
    \/ \E f \in File : SweepFile(p, f)

WorkerStep(p) == ReadSchedule(p) \/ Claim(p) \/ WriteBackup(p) \/ ListingStep(p)

Administrator(p) ==
    \/ UpdateBackupSettings(p) \/ CreateBackupNow(p) \/ UpdateProtection(p)
    \/ PruneBackups(p) \/ GetBackupStatus(p)
    \/ \E f \in File : UploadBackupFile(p, f) \/ DeleteBackupFile(p, f)
                            \/ BeginProtection(p, f)

Next ==
    \/ Tick
    \/ \E p \in Worker : WorkerStep(p)
    \/ \E p \in Request : WriteBackup(p) \/ ListingStep(p) \/ Administrator(p)
    \/ \E p \in Process : Fail(p)

\* A worker's loop never stops; nobody has to send a request.
Fairness == WF_op(\E p \in Worker : WorkerStep(p))

Spec == Init /\ [][Next]_vars /\ Fairness

-----------------------------------------------------------------------------
(* Properties.                                                             *)

\* However many workers look at the schedule, and however often it is
\* changed, a scheduled time is backed up at most once.
OneBackupPerSlot == \A t \in 0..MaxTime : runs[t] <= 1

\* A protected file stays, with its protection, until the administrator
\* removes either one -- unless its protection met a listing that was open
\* when it was given, or a listing that failed and fell back to an empty
\* directory.
ProtectionHolds ==
    \A f \in promised \ exposed : f \in protection /\ mtime[f] # 0

\* The retention policy keeps a file in each of the newest days, weeks and
\* months it counts, although a file that one count keeps is not offered to
\* the next: the tiers never leave a gap between them.
Covers(kept, all, count, Period) ==
    \A f \in all :
        Cardinality({Period[mtime[g]] : g \in
                        {h \in all : Period[mtime[h]] > Period[mtime[f]]}}) < count
        => \E k \in kept : Period[mtime[k]] = Period[mtime[f]]

EveryPeriodIsCovered ==
    \A policy \in Policies :
        LET all  == Stored(mtime) \ protection
            kept == Retained(mtime, protection \cap Stored(mtime), policy)
        IN  /\ Covers(kept, all, policy.daily, Day)
            /\ Covers(kept, all, policy.weekly, Week)
            /\ Covers(kept, all, policy.monthly, Month)

\* Whatever files are written and other sweeps delete meanwhile, a sweep does
\* not delete the newest of the unprotected files -- unless the policy keeps
\* none, or an administrator, or a sweep that goes on although one of the two
\* is true of it, has overtaken the listing.
SweepSparesTheNewest ==
    [][\A p \in Process, f \in File :
            /\ f \in op[p].doomed /\ f \notin op'[p].doomed /\ Sound(p)
            /\ mtime[f] # 0 /\ mtime'[f] = 0
            => \E g \in Stored(mtime) \ protection : Newer(mtime, g, f)]_vars

\* A scheduled time does not stay due, and a claimed one does not stay without
\* an outcome: again and again the workers have caught up with the schedule.
Due(t) ==
    /\ settings.enabled /\ settings.lastRun < t
    /\ t = ScheduledAt(now, settings.time) /\ now >= t

DueBackupIsWritten ==
    []<>(\A t \in 1..MaxTime : ~Due(t) /\ (runs[t] > 0 => t \in settled))

\* docs/BACKUPS.md: "Protected backup files are excluded from automatic
\* pruning until an admin chooses Unprotect."
ProtectedFilesStay ==
    [][\A f \in promised : mtime[f] # 0 /\ mtime'[f] = 0 => f \notin promised']_vars

=============================================================================
