---------------------------- MODULE Backups_proofs ----------------------------
(* Theorems about backups.  The files (BackupFiles): for any number of       *)
(* workers and requests, any calendar, any retention policies and any number *)
(* of files.  What is in them and what comes of restoring it                 *)
(* (BackupRestore): for any tables, changes and restores.                    *)
EXTENDS BackupFiles, BackupRestore, TLAPS, FiniteSetTheorems, WellFoundedInduction

-----------------------------------------------------------------------------
(* The calendar: a later time is of the same or of a later period.           *)

Monotone(Period) ==
    /\ Period \in [Nat -> Nat]
    /\ \A s, t \in Nat : s <= t => Period[s] <= Period[t]

LEMMA Quotient ==
    ASSUME NEW k \in Nat \ {0}, NEW t \in Nat
    PROVE  t \div k \in Nat
OBVIOUS

LEMMA QuotientGrows ==
    ASSUME NEW k \in Nat \ {0}, NEW s \in Nat, NEW t \in Nat, s <= t
    PROVE  s \div k <= t \div k
<1> DEFINE a == s \div k
           b == t \div k
<1>1. a \in Nat /\ b \in Nat
  BY Quotient
<1>2. k * a <= s /\ t < k * (b + 1)
  OBVIOUS
<1> HIDE DEF a, b
<1>3. k * a < k * (b + 1)
  BY <1>1, <1>2
<1>4. a < b + 1
  BY <1>1, <1>3
<1> QED
  BY <1>1, <1>4 DEF a, b

LEMMA Calendar == Monotone(Day) /\ Monotone(Week) /\ Monotone(Month)
<1>1. ASSUME NEW P, Monotone(P), NEW k \in Nat \ {0},
             NEW R, R = [t \in Nat |-> P[t] \div k]
      PROVE  Monotone(R)
  <2>1. R \in [Nat -> Nat]
    BY <1>1, Quotient DEF Monotone
  <2>2. ASSUME NEW s \in Nat, NEW t \in Nat, s <= t
        PROVE  R[s] <= R[t]
    BY <1>1, <2>2, QuotientGrows DEF Monotone
  <2> QED
    BY <2>1, <2>2 DEF Monotone
<1>2. Monotone(Day)
  BY Quotient, QuotientGrows, ConstantsAssumption DEF Monotone, Day
<1>3. Monotone(Week) /\ Monotone(Month)
  BY <1>1, <1>2, ConstantsAssumption DEF Week, Month
<1> QED
  BY <1>2, <1>3

-----------------------------------------------------------------------------
(* What a process is doing.                                                  *)

(* A listing has something to go on to; only a sweep has chosen files, of    *)
(* those it has listed; a backup is begun at a time it can be named by.      *)
OpOK(o) ==
    /\ o \in OpState
    /\ o.stage \in {"list", "stat", "sweep"} => o.todo # <<>>
    /\ o.stage # "sweep" => o.doomed = {}
    /\ o.doomed \subseteq o.names
    /\ o.stage \in {"claim", "write"} => o.begun \in File

(* The same activity, possibly overtaken.                                    *)
Same(a, b) ==
    /\ a.stage = b.stage /\ a.slot = b.slot /\ a.begun = b.begun /\ a.names = b.names
    /\ a.policy = b.policy /\ a.doomed = b.doomed /\ a.todo = b.todo
    /\ a.fresh => b.fresh

OpsOK == op \in [Process -> OpState] /\ \A p \in Process : OpOK(op[p])

(* One process goes over to o; the others go on, those of Q overtaken.       *)
Proceeds(p, o, Q) ==
    /\ op' \in [Process -> OpState]
    /\ op'[p] = o
    /\ \A q \in Process \ {p} : Same(op'[q], op[q]) /\ (op'[q].fresh => q \notin Q)

LEMMA SetMoves ==
    ASSUME OpsOK, NEW p \in Process, NEW o \in OpState, Set(p, o)
    PROVE  Proceeds(p, o, {})
BY DEF OpsOK, Set, Proceeds, Same

LEMMA OvertakeMoves ==
    ASSUME OpsOK, NEW p \in Process, NEW o \in OpState, NEW Q, SetAndOvertake(p, o, Q)
    PROVE  Proceeds(p, o, Q)
<1>1. ASSUME NEW q \in Process
      PROVE  /\ [op[q] EXCEPT !.fresh = @ /\ q \notin Q] \in OpState
             /\ Same([op[q] EXCEPT !.fresh = @ /\ q \notin Q], op[q])
             /\ [op[q] EXCEPT !.fresh = @ /\ q \notin Q].fresh => q \notin Q
  <2>1. op[q] \in OpState
    BY DEF OpsOK
  <2> DEFINE b == op[q].fresh /\ q \notin Q
  <2>2. b \in BOOLEAN /\ (b => op[q].fresh) /\ (b => q \notin Q)
    OBVIOUS
  <2>3. [op[q] EXCEPT !.fresh = @ /\ q \notin Q] = [op[q] EXCEPT !.fresh = b]
    OBVIOUS
  <2> HIDE DEF b
  <2>4. [op[q] EXCEPT !.fresh = b] \in OpState /\ [op[q] EXCEPT !.fresh = b].fresh = b
    BY <2>1, <2>2 DEF OpState
  <2>5. Same([op[q] EXCEPT !.fresh = b], op[q])
    BY <2>1, <2>2, <2>4 DEF OpState, Same
  <2> QED
    BY <2>2, <2>3, <2>4, <2>5
<1>2. op' = [q \in Process |-> IF q = p THEN o ELSE [op[q] EXCEPT !.fresh = @ /\ q \notin Q]]
  BY DEF SetAndOvertake
<1>3. op' \in [Process -> OpState]
  BY <1>1, <1>2
<1>4. \A q \in Process \ {p} : op'[q] = [op[q] EXCEPT !.fresh = @ /\ q \notin Q]
  BY <1>2
<1> QED
  BY <1>1, <1>2, <1>3, <1>4 DEF Proceeds

LEMMA MovesOK ==
    ASSUME OpsOK, NEW p \in Process, NEW o, NEW Q, OpOK(o), Proceeds(p, o, Q)
    PROVE  OpsOK'
<1>1. ASSUME NEW q \in Process
      PROVE  OpOK(op'[q])
  BY DEF Proceeds, OpsOK, OpOK, Same
<1> QED
  BY <1>1 DEF Proceeds, OpsOK

LEMMA IdleOK == OpOK(Idle) /\ Idle.stage = "idle" /\ Idle.names = {} /\ Idle.doomed = {}
<1>1. 0 \in 0..MaxTime /\ <<>> \in Seq(Purpose) /\ NoPolicy \in Policies \cup {NoPolicy}
  BY ConstantsAssumption
<1>2. Idle \in OpState
  BY <1>1 DEF Idle, OpState, Stage
<1> QED
  BY <1>2 DEF Idle, OpOK

LEMMA ThenOK ==
    ASSUME NEW todo \in Seq(Purpose)
    PROVE  /\ OpOK(Then(todo)) /\ Then(todo).stage \in {"idle", "list"}
           /\ Then(todo).names = {} /\ Then(todo).doomed = {}
<1> DEFINE s == IF todo = <<>> THEN "idle" ELSE "list"
<1>1. s \in Stage /\ s \in {"idle", "list"}
  BY DEF Stage
<1>2. Then(todo) = [Idle EXCEPT !.stage = s, !.todo = todo]
  BY DEF Then
<1>3. Idle \in OpState
  BY IdleOK DEF OpOK
<1>4. s = "list" => todo # <<>>
  OBVIOUS
<1> HIDE DEF s
<1>5. /\ Then(todo) \in OpState /\ Then(todo).stage = s /\ Then(todo).todo = todo
      /\ Then(todo).names = {} /\ Then(todo).doomed = {}
  BY <1>1, <1>2, <1>3, IdleOK DEF OpState
<1> QED
  BY <1>1, <1>4, <1>5 DEF OpOK

LEMMA Todo ==
    ASSUME NEW o, OpOK(o), o.stage \in {"list", "stat", "sweep"}
    PROVE  /\ o.todo \in Seq(Purpose) /\ Head(o.todo) \in Purpose
           /\ Tail(o.todo) \in Seq(Purpose)
           /\ <<"look">> \o Tail(o.todo) \in Seq(Purpose)
<1>1. o.todo \in Seq(Purpose) /\ o.todo # <<>>
  BY DEF OpOK, OpState
<1>2. <<"look">> \in Seq(Purpose)
  BY DEF Purpose
<1> QED
  BY <1>1, <1>2

-----------------------------------------------------------------------------
(* What each step makes of the process that takes it.                        *)

(* Nothing is taken for unprotected, or for not there.                       *)
Quiet(o) == o.doomed = {} /\ o.stage \notin {"stat", "unprotect", "sweep"}

LEMMA ThenQuiet ==
    ASSUME NEW todo \in Seq(Purpose)
    PROVE  OpOK(Then(todo)) /\ Quiet(Then(todo)) /\ Then(todo) \in OpState
BY ThenOK DEF Quiet, OpOK

LEMMA Purposes ==
    /\ <<>> \in Seq(Purpose) /\ <<"look">> \in Seq(Purpose) /\ <<"sweep">> \in Seq(Purpose)
    /\ <<"sweep", "look">> \in Seq(Purpose)
BY DEF Purpose

LEMMA AfterSweepQuiet ==
    ASSUME NEW p \in Process, OpOK(op[p]), op[p].stage \in {"list", "stat", "sweep"},
           NEW swept \in BOOLEAN
    PROVE  /\ OpOK(AfterSweep(p, swept)) /\ Quiet(AfterSweep(p, swept))
           /\ AfterSweep(p, swept) \in OpState
<1>1. (IF swept THEN <<"look">> ELSE <<>>) \o Tail(op[p].todo) \in Seq(Purpose)
  BY Todo
<1> QED
  BY <1>1, ThenQuiet DEF AfterSweep

(* The steps after which the process is quiet.                               *)
Quiets(p) ==
    \/ StatFails(p) \/ Claim(p) \/ WriteBackup(p) \/ Fail(p)
    \/ ReadSchedule(p) \/ UpdateBackupSettings(p) \/ CreateBackupNow(p)
    \/ UpdateProtection(p) \/ PruneBackups(p) \/ GetBackupStatus(p)
    \/ \E f \in File : UploadBackupFile(p, f)

LEMMA ProcessSteps ==
    ASSUME [Next]_vars
    PROVE  \/ Tick \/ UNCHANGED vars
           \/ \E p \in Process :
                \/ Quiets(p) \/ ReadDirectory(p) \/ StatFiles(p)
                \/ \E f \in File : SweepFile(p, f) \/ DeleteBackupFile(p, f)
                                        \/ BeginProtection(p, f)
BY DEF Next, WorkerStep, ListingStep, Administrator, Process, Quiets

LEMMA QuietSteps ==
    ASSUME TypeOK, OpsOK, NEW p \in Process, Quiets(p)
    PROVE  OpOK(op'[p]) /\ Quiet(op'[p]) /\ Proceeds(p, op'[p], {})
<1>1. OpOK(op[p]) /\ op[p] \in OpState
  BY DEF OpsOK, OpOK
<1>2. \A o \in OpState : \A Q : Proceeds(p, o, Q) => op'[p] = o /\ Proceeds(p, op'[p], {})
  BY DEF Proceeds
<1>3. ASSUME NEW o, OpOK(o), Quiet(o), Set(p, o) \/ \E Q : SetAndOvertake(p, o, Q)
      PROVE  OpOK(op'[p]) /\ Quiet(op'[p]) /\ Proceeds(p, op'[p], {})
  <2>1. o \in OpState
    BY <1>3 DEF OpOK
  <2>2. \E Q : Proceeds(p, o, Q)
    BY <1>3, <2>1, SetMoves, OvertakeMoves
  <2> QED
    BY <1>2, <1>3, <2>1, <2>2
<1>4. ASSUME NEW todo \in Seq(Purpose), Set(p, Then(todo)) \/ \E Q : SetAndOvertake(p, Then(todo), Q)
      PROVE  OpOK(op'[p]) /\ Quiet(op'[p]) /\ Proceeds(p, op'[p], {})
  BY <1>3, <1>4, ThenQuiet
<1>5. ASSUME Set(p, Idle)
      PROVE  OpOK(op'[p]) /\ Quiet(op'[p]) /\ Proceeds(p, op'[p], {})
  BY <1>3, <1>5, IdleOK DEF Quiet
<1>6. now \in File /\ now \in 0..MaxTime
  BY ConstantsAssumption DEF TypeOK, File
<1>7. CASE StatFails(p) \/ Fail(p)
  <2>1. CASE GivesUp(p)
    BY <1>5, <2>1 DEF GivesUp
  <2>2. CASE NextDirectory(p) /\ op[p].stage \in {"list", "stat"}
    <3>1. Tail(op[p].todo) \in Seq(Purpose)
      BY <1>1, <2>2, Todo
    <3> QED
      BY <1>4, <2>2, <3>1 DEF NextDirectory
  <2> QED
    BY <1>7, <2>1, <2>2 DEF StatFails, Fail
<1>8. CASE Claim(p)
  <2>1. ASSUME Set(p, [op[p] EXCEPT !.stage = "write"])
        PROVE  OpOK(op'[p]) /\ Quiet(op'[p]) /\ Proceeds(p, op'[p], {})
    <3> DEFINE o == [op[p] EXCEPT !.stage = "write"]
    <3>1. /\ o \in OpState /\ o.stage = "write" /\ o.begun = op[p].begun
          /\ o.doomed = op[p].doomed
      BY <1>1 DEF OpState, Stage
    <3>2. op[p].stage = "claim"
      BY <1>8 DEF Claim
    <3> HIDE DEF o
    <3>3. OpOK(o) /\ Quiet(o)
      BY <1>1, <3>1, <3>2 DEF OpOK, Quiet
    <3> QED
      BY <1>3, <2>1, <3>3 DEF o
  <2> QED
    BY <1>5, <1>8, <2>1 DEF Claim
<1>9. CASE WriteBackup(p)
  BY <1>4, <1>9, Purposes DEF WriteBackup
<1>11. CASE ReadSchedule(p)
  <2> DEFINE t == ScheduledAt(now, settings.time)
             o == [Idle EXCEPT !.stage = "claim", !.begun = now, !.slot = t]
  <2>1. t \in 0..MaxTime
    <3>1. settings.time \in Nat /\ Day[now] \in Nat /\ now \in Nat
      <4>1. settings.time \in TimeOfDay /\ now \in Start..MaxTime
        BY DEF TypeOK
      <4>2. TimeOfDay \subseteq Nat /\ Start..MaxTime \subseteq Nat
        BY ConstantsAssumption
      <4>3. \A u \in Nat : Day[u] \in Nat
        BY Calendar DEF Monotone
      <4> QED
        BY <4>1, <4>2, <4>3
    <3>2. Day[now] * TicksPerDay \in Nat
      BY <3>1, ConstantsAssumption
    <3>3. now >= t
      BY <1>11 DEF ReadSchedule
    <3> QED
      BY <1>6, <3>1, <3>2, <3>3, ConstantsAssumption DEF ScheduledAt
  <2>2. Idle \in OpState
    BY IdleOK DEF OpOK
  <2> HIDE DEF t
  <2>3. /\ o \in OpState /\ o.stage = "claim" /\ o.begun = now /\ o.doomed = {}
    BY <1>6, <2>1, <2>2, IdleOK DEF OpState, Stage
  <2> HIDE DEF o
  <2>4. OpOK(o) /\ Quiet(o)
    BY <1>6, <2>3 DEF OpOK, Quiet
  <2> QED
    BY <1>3, <1>11, <2>4 DEF ReadSchedule, o, t
<1>12. CASE CreateBackupNow(p)
  <2> DEFINE o == [Idle EXCEPT !.stage = "write", !.begun = now]
  <2>1. Idle \in OpState
    BY IdleOK DEF OpOK
  <2>2. /\ o \in OpState /\ o.stage = "write" /\ o.begun = now /\ o.doomed = {}
    BY <1>6, <2>1, IdleOK DEF OpState, Stage
  <2> HIDE DEF o
  <2>3. OpOK(o) /\ Quiet(o)
    BY <1>6, <2>2 DEF OpOK, Quiet
  <2> QED
    BY <1>3, <1>12, <2>3 DEF CreateBackupNow, o
<1>13. CASE UpdateBackupSettings(p) \/ UpdateProtection(p) \/ GetBackupStatus(p)
  BY <1>4, <1>13, Purposes DEF UpdateBackupSettings, UpdateProtection, GetBackupStatus
<1>14. CASE PruneBackups(p)
  BY <1>4, <1>14, Purposes DEF PruneBackups
<1>15. CASE \E f \in File : UploadBackupFile(p, f)
  BY <1>4, <1>15, Purposes DEF UploadBackupFile
<1> QED
  BY <1>7, <1>8, <1>9, <1>11, <1>12, <1>13, <1>14, <1>15 DEF Quiets

LEMMA ReadDirectoryStep ==
    ASSUME TypeOK, OpsOK, NEW p \in Process, ReadDirectory(p)
    PROVE  /\ OpOK(op'[p]) /\ Proceeds(p, op'[p], {}) /\ op'[p].stage = "stat"
           /\ op'[p].names = Stored(mtime) /\ op'[p].doomed = {}
<1> DEFINE N == Stored(mtime)
           o == [op[p] EXCEPT !.stage = "stat", !.names = N, !.policy = settings.policy]
<1>1. OpOK(op[p]) /\ op[p] \in OpState /\ op[p].stage = "list"
  BY DEF OpsOK, OpOK, ReadDirectory
<1>2. settings.policy \in Policies /\ N \subseteq File
  BY DEF TypeOK, Stored
<1> HIDE DEF N
<1>3. /\ o \in OpState /\ o.stage = "stat" /\ o.names = N /\ o.doomed = op[p].doomed
      /\ o.todo = op[p].todo
  BY <1>1, <1>2 DEF OpState, Stage
<1>4. Set(p, o)
  BY DEF ReadDirectory, N
<1> HIDE DEF o
<1>5. Proceeds(p, o, {})
  BY <1>3, <1>4, SetMoves
<1> QED
  BY <1>1, <1>3, <1>5 DEF OpOK, Proceeds, N

(* What a sweep deletes of its listing is decided.                           *)
Chosen(p) == Doomed([f \in File |-> IF f \in op[p].names THEN mtime[f] ELSE 0],
                    protection \cap op[p].names, op[p].policy)

LEMMA StatFilesStep ==
    ASSUME TypeOK, OpsOK, NEW p \in Process, StatFiles(p)
    PROVE  /\ OpOK(op'[p]) /\ Proceeds(p, op'[p], {})
           /\ \/ Quiet(op'[p])
              \/ /\ op'[p].stage = "sweep" /\ op'[p].doomed = Chosen(p)
                 /\ op'[p].policy = op[p].policy /\ op'[p].names = op[p].names
<1> DEFINE o == [op[p] EXCEPT !.stage = "sweep", !.doomed = Chosen(p)]
<1>1. OpOK(op[p]) /\ op[p] \in OpState /\ op[p].stage = "stat"
  BY DEF OpsOK, OpOK, StatFiles
<1>2. Chosen(p) \subseteq op[p].names /\ op[p].names \subseteq File
  BY <1>1 DEF Chosen, Doomed, Stored, OpState
<1>3. Set(p, o) \/ Set(p, AfterSweep(p, FALSE))
  BY DEF StatFiles, Chosen
<1>4. CASE Set(p, AfterSweep(p, FALSE))
  <2>1. /\ OpOK(AfterSweep(p, FALSE)) /\ Quiet(AfterSweep(p, FALSE))
        /\ AfterSweep(p, FALSE) \in OpState
    BY <1>1, AfterSweepQuiet
  <2>2. Proceeds(p, AfterSweep(p, FALSE), {})
    BY <1>4, <2>1, SetMoves
  <2> QED
    BY <2>1, <2>2 DEF Proceeds
<1>5. CASE Set(p, o)
  <2> HIDE DEF Chosen
  <2>1. /\ o \in OpState /\ o.stage = "sweep" /\ o.doomed = Chosen(p)
        /\ o.names = op[p].names /\ o.policy = op[p].policy /\ o.todo = op[p].todo
    BY <1>1, <1>2 DEF OpState, Stage
  <2> HIDE DEF o
  <2>2. Proceeds(p, o, {})
    BY <1>5, <2>1, SetMoves
  <2> QED
    BY <1>1, <1>2, <2>1, <2>2 DEF OpOK, Proceeds
<1> QED
  BY <1>3, <1>4, <1>5

LEMMA SweepFileStep ==
    ASSUME TypeOK, OpsOK, NEW p \in Process, NEW f \in File, SweepFile(p, f)
    PROVE  /\ OpOK(op'[p]) /\ Proceeds(p, op'[p], IF Sound(p) THEN {} ELSE Listing)
           /\ op'[p].doomed = op[p].doomed \ {f}
           /\ \/ Quiet(op'[p])
              \/ /\ op'[p].stage = "sweep" /\ op'[p].policy = op[p].policy
                 /\ op'[p].fresh = op[p].fresh /\ op'[p].names = op[p].names
<1> DEFINE D == op[p].doomed \ {f}
           o == [op[p] EXCEPT !.doomed = @ \ {f}]
           Q == IF Sound(p) THEN {} ELSE Listing
<1>1. OpOK(op[p]) /\ op[p] \in OpState /\ op[p].stage = "sweep" /\ f \in op[p].doomed
  BY DEF OpsOK, OpOK, SweepFile
<1>2. CASE op[p].doomed = {f}
  <2>1. SetAndOvertake(p, AfterSweep(p, TRUE), Q)
    BY <1>2 DEF SweepFile
  <2>2. /\ OpOK(AfterSweep(p, TRUE)) /\ Quiet(AfterSweep(p, TRUE))
        /\ AfterSweep(p, TRUE) \in OpState
    BY <1>1, AfterSweepQuiet
  <2>3. Proceeds(p, AfterSweep(p, TRUE), Q)
    BY <2>1, <2>2, OvertakeMoves
  <2> QED
    BY <1>2, <2>2, <2>3 DEF Proceeds, Quiet
<1>3. CASE op[p].doomed # {f}
  <2>1. SetAndOvertake(p, o, Q)
    BY <1>3 DEF SweepFile
  <2>2. D \in SUBSET File
    BY <1>1 DEF OpState
  <2>3. o = [op[p] EXCEPT !.doomed = D]
    OBVIOUS
  <2> HIDE DEF D
  <2>4. /\ o \in OpState /\ o.stage = "sweep" /\ o.doomed = D /\ o.fresh = op[p].fresh
        /\ o.names = op[p].names /\ o.policy = op[p].policy /\ o.todo = op[p].todo
    BY <1>1, <2>2, <2>3 DEF OpState
  <2> HIDE DEF o
  <2>5. Proceeds(p, o, Q)
    BY <2>1, <2>4, OvertakeMoves
  <2>6. OpOK(o)
    BY <1>1, <2>4 DEF OpOK, D
  <2> QED
    BY <2>4, <2>5, <2>6 DEF Proceeds, D
<1> QED
  BY <1>2, <1>3

(* The file whose protection goes next.                                      *)
LEMMA UnprotectStep ==
    ASSUME TypeOK, OpsOK, NEW p \in Process, NEW f \in File,
           \/ DeleteBackupFile(p, f)
           \/ BeginProtection(p, f)
    PROVE  /\ OpOK(op'[p]) /\ Proceeds(p, op'[p], {}) /\ op'[p].doomed = {}
           /\ DeleteBackupFile(p, f) => Proceeds(p, op'[p], Listing)
           /\ op'[p].stage \in {"protect", "unprotect"} /\ op'[p].names = {f}
           /\ op'[p].stage = "protect" => UNCHANGED <<mtime, promised, exposed>>
<1>1. ASSUME NEW s \in {"protect", "unprotect"}, NEW Q,
             \/ SetAndOvertake(p, [Idle EXCEPT !.stage = s, !.names = {f}], Q)
             \/ Q = {} /\ Set(p, [Idle EXCEPT !.stage = s, !.names = {f}])
      PROVE  /\ OpOK(op'[p]) /\ Proceeds(p, op'[p], {}) /\ Proceeds(p, op'[p], Q)
             /\ op'[p].doomed = {} /\ op'[p].stage = s /\ op'[p].names = {f}
  <2> DEFINE o == [Idle EXCEPT !.stage = s, !.names = {f}]
  <2>1. Idle \in OpState
    BY IdleOK DEF OpOK
  <2>2. o \in OpState /\ o.stage = s /\ o.doomed = {} /\ o.names = {f}
    BY <2>1, IdleOK DEF OpState, Stage
  <2> HIDE DEF o
  <2>3. OpOK(o)
    BY <2>2 DEF OpOK
  <2>4. Proceeds(p, o, Q)
    BY <1>1, <2>2, SetMoves, OvertakeMoves DEF o
  <2> QED
    BY <2>2, <2>3, <2>4 DEF Proceeds
<1>2. CASE DeleteBackupFile(p, f)
  BY <1>1, <1>2 DEF DeleteBackupFile
<1>3. CASE BeginProtection(p, f) /\ Set(p, [Idle EXCEPT !.stage = "protect", !.names = {f}])
                /\ UNCHANGED history
  <2>1. ~ DeleteBackupFile(p, f)
    BY <1>3 DEF BeginProtection, DeleteBackupFile, store, TypeOK
  <2> QED
    BY <1>1, <1>3, <2>1 DEF BeginProtection, store, history
<1>4. CASE BeginProtection(p, f) /\ Set(p, [Idle EXCEPT !.stage = "unprotect", !.names = {f}])
  <2>1. ~ DeleteBackupFile(p, f)
    BY <1>4 DEF BeginProtection, DeleteBackupFile, store, TypeOK
  <2> QED
    BY <1>1, <1>4, <2>1
<1> QED
  BY <1>2, <1>3, <1>4 DEF BeginProtection

-----------------------------------------------------------------------------
(* Types.                                                                    *)

LEMMA OpsStep ==
    ASSUME TypeOK, OpsOK, [Next]_vars
    PROVE  OpsOK'
<1>1. CASE Tick \/ UNCHANGED vars
  BY <1>1 DEF Tick, vars, OpsOK
<1>2. ASSUME NEW p \in Process,
             \/ Quiets(p) \/ ReadDirectory(p) \/ StatFiles(p)
             \/ \E f \in File : SweepFile(p, f) \/ DeleteBackupFile(p, f)
                                     \/ BeginProtection(p, f)
      PROVE  OpOK(op'[p]) /\ \E Q : Proceeds(p, op'[p], Q)
  <2>1. CASE Quiets(p)
    BY <2>1, QuietSteps
  <2>2. CASE ReadDirectory(p)
    BY <2>2, ReadDirectoryStep
  <2>3. CASE StatFiles(p)
    BY <2>3, StatFilesStep
  <2>4. ASSUME NEW f \in File, SweepFile(p, f)
        PROVE  OpOK(op'[p]) /\ \E Q : Proceeds(p, op'[p], Q)
    BY <2>4, SweepFileStep
  <2>5. ASSUME NEW f \in File, DeleteBackupFile(p, f) \/ BeginProtection(p, f)
        PROVE  OpOK(op'[p]) /\ \E Q : Proceeds(p, op'[p], Q)
    BY <2>5, UnprotectStep
  <2> QED
    BY <1>2, <2>1, <2>2, <2>3, <2>4, <2>5
<1> QED
  BY <1>1, <1>2, MovesOK, ProcessSteps

LEMMA HappensType ==
    ASSUME TypeOK, NEW a, Happens(a)
    PROVE  events' \in 0..MaxEvents
BY ConstantsAssumption DEF Happens, TypeOK

LEMMA DirectoryType ==
    ASSUME TypeOK, NEW p \in Process, NextDirectory(p) \/ GivesUp(p)
    PROVE  protection' \subseteq File /\ exposed' \subseteq File
BY DEF NextDirectory, GivesUp, TypeOK

LEMMA TypeStep ==
    ASSUME TypeOK, OpsOK, [Next]_vars
    PROVE  TypeOK'
<1>1. op' \in [Process -> OpState]
  BY OpsStep DEF OpsOK
<1>2. now \in 0..MaxTime /\ now \in File /\ MaxTime \in Nat
  BY ConstantsAssumption DEF TypeOK, File
<1>3. \A p \in Process : op[p] \in OpState /\ OpOK(op[p])
  BY DEF OpsOK, OpOK
<1> USE DEF TypeOK
<1>4. CASE Tick \/ UNCHANGED vars
  <2>1. now' \in Start..MaxTime
    <3>1. Start \in Nat
      BY ConstantsAssumption
    <3> QED
      BY <1>2, <1>4, <3>1 DEF Tick, vars
  <2>2. UNCHANGED <<events, settings, runs, settled, mtime, protection, promised, exposed>>
    BY <1>4 DEF Tick, vars, schedule, store, history
  <2> QED
    BY <1>1, <2>1, <2>2
<1>5. ASSUME NEW p \in Process, Quiets(p)
      PROVE  TypeOK'
  <2>1. CASE StatFails(p)
    BY <1>1, <2>1, DirectoryType DEF StatFails, GivesUp, schedule
  <2>2. CASE Claim(p)
    <3>1. op[p].slot \in 0..MaxTime
      BY <1>3 DEF OpState
    <3>2. [settings EXCEPT !.lastRun = op[p].slot] \in
             [enabled: BOOLEAN, time: TimeOfDay, lastRun: 0..MaxTime, policy: Policies]
      BY <3>1
    <3>3. settings' \in [enabled: BOOLEAN, time: TimeOfDay, lastRun: 0..MaxTime, policy: Policies]
      BY <2>2, <3>2 DEF Claim
    <3>4. runs' \in [0..MaxTime -> Nat]
      BY <2>2, <3>1 DEF Claim
    <3> QED
      BY <1>1, <2>2, <3>3, <3>4 DEF Claim, store, history
  <2>3. CASE WriteBackup(p)
    <3>1. op[p].begun \in File /\ op[p].slot \in 0..MaxTime
      BY <1>3, <2>3 DEF WriteBackup, OpOK, OpState
    <3>2. mtime' \in [File -> 0..MaxTime]
      BY <1>2, <2>3, <3>1 DEF WriteBackup
    <3>3. settled' \subseteq 0..MaxTime
      BY <2>3, <3>1 DEF WriteBackup
    <3> QED
      BY <1>1, <2>3, <3>2, <3>3 DEF WriteBackup, history
  <2>4. CASE Fail(p)
    <3>1. op[p].slot \in 0..MaxTime
      BY <1>3 DEF OpState
    <3>2. settled' \subseteq 0..MaxTime /\ events' \in 0..MaxEvents
      BY <2>4, <3>1, HappensType DEF Fail
    <3> QED
      BY <1>1, <2>4, <3>2, DirectoryType DEF Fail, GivesUp
  <2>5. CASE ReadSchedule(p)
    BY <1>1, <2>5 DEF ReadSchedule, schedule, store, history
  <2>6. CASE UpdateBackupSettings(p)
    <3>1. PICK enabled \in BOOLEAN, time \in TimeOfDay, policy \in Policies :
            settings' = [settings EXCEPT !.enabled = enabled, !.time = time, !.policy = policy]
      BY <2>6 DEF UpdateBackupSettings
    <3>2. settings' \in [enabled: BOOLEAN, time: TimeOfDay, lastRun: 0..MaxTime, policy: Policies]
      BY <3>1
    <3>3. events' \in 0..MaxEvents
      BY <2>6, HappensType DEF UpdateBackupSettings, Starts
    <3> QED
      BY <1>1, <2>6, <3>2, <3>3 DEF UpdateBackupSettings, store, history
  <2>7. CASE CreateBackupNow(p) \/ PruneBackups(p) \/ GetBackupStatus(p)
    <3>1. events' \in 0..MaxEvents
      BY <2>7, HappensType DEF CreateBackupNow, PruneBackups, GetBackupStatus, Starts
    <3> QED
      BY <1>1, <2>7, <3>1 DEF CreateBackupNow, PruneBackups, GetBackupStatus, schedule, store,
                              history
  <2>8. CASE UpdateProtection(p)
    <3>1. PICK f \in op[p].names :
            /\ protection' \in {protection \cup {f}, protection \ {f}}
            /\ promised' \in {promised, promised \cup {f}}
            /\ exposed' \in {exposed, exposed \cup {f}}
            /\ UNCHANGED <<now, events, schedule, mtime>>
      BY <2>8 DEF UpdateProtection, history
    <3>2. f \in File
      BY <1>3 DEF OpState
    <3>3. protection' \subseteq File /\ promised' \subseteq File /\ exposed' \subseteq File
      BY <3>1, <3>2
    <3> QED
      BY <1>1, <3>1, <3>3 DEF schedule
  <2>9. ASSUME NEW f \in File, UploadBackupFile(p, f)
        PROVE  TypeOK'
    <3>1. mtime' \in [File -> 0..MaxTime] /\ events' \in 0..MaxEvents
      BY <1>2, <2>9, HappensType, SMTT(30) DEF UploadBackupFile, Starts
    <3> QED
      BY <1>1, <2>9, <3>1 DEF UploadBackupFile, schedule, history
  <2> QED
    BY <1>5, <2>1, <2>2, <2>3, <2>4, <2>5, <2>6, <2>7, <2>8, <2>9 DEF Quiets
<1>6. ASSUME NEW p \in Process, ReadDirectory(p) \/ StatFiles(p)
      PROVE  TypeOK'
  BY <1>1, <1>6 DEF ReadDirectory, StatFiles, schedule, store, history
<1>7. ASSUME NEW p \in Process, NEW f \in File,
             SweepFile(p, f) \/ DeleteBackupFile(p, f) \/ BeginProtection(p, f)
      PROVE  TypeOK'
  <2>1. mtime' \in [File -> 0..MaxTime]
    <3>1. mtime' = mtime \/ mtime' = [mtime EXCEPT ![f] = 0]
      BY <1>7 DEF SweepFile, DeleteBackupFile, BeginProtection, store
    <3> QED
      BY <1>2, <3>1
  <2>2. promised' \subseteq File /\ exposed' \subseteq File /\ protection' = protection
    BY <1>7 DEF SweepFile, DeleteBackupFile, BeginProtection, history, store
  <2>3. events' \in 0..MaxEvents
    BY <1>7, HappensType DEF SweepFile, DeleteBackupFile, BeginProtection, Starts
  <2>4. UNCHANGED <<now, settings, runs, settled>>
    BY <1>7 DEF SweepFile, DeleteBackupFile, BeginProtection, schedule
  <2> QED
    BY <1>1, <2>1, <2>2, <2>3, <2>4
<1> QED
  BY <1>4, <1>5, <1>6, <1>7, ProcessSteps

-----------------------------------------------------------------------------
(* The claims of scheduled times.                                            *)

(* A time that was claimed is not later than the last one, and the guarded   *)
(* update claims only later ones.                                            *)
Slots ==
    \A t \in 0..MaxTime : /\ runs[t] # 0 => t <= settings.lastRun
                          /\ runs[t] <= 1

LEMMA SlotsStep ==
    ASSUME TypeOK, OpsOK, Slots, [Next]_vars
    PROVE  Slots'
<1>1. CASE UNCHANGED runs /\ settings'.lastRun = settings.lastRun
  BY <1>1 DEF Slots
<1>2. CASE Tick \/ UNCHANGED vars
  BY <1>1, <1>2 DEF Tick, vars, schedule
<1>3. ASSUME NEW p \in Process, Claim(p)
      PROVE  Slots'
  <2>1. op[p].slot \in 0..MaxTime /\ settings.lastRun \in 0..MaxTime
    BY DEF OpsOK, OpState, TypeOK
  <2>2. CASE ClaimMatches(p)
    <3> DEFINE s == op[p].slot
    <3>1. settings' = [settings EXCEPT !.lastRun = s] /\ runs' = [runs EXCEPT ![s] = @ + 1]
      BY <1>3, <2>2 DEF Claim
    <3>2. settings'.lastRun = s
      BY <3>1 DEF TypeOK
    <3>3. settings.lastRun < s
      BY <2>2 DEF ClaimMatches
    <3>4. runs[s] = 0
      BY <2>1, <3>3 DEF Slots, TypeOK
    <3>5. ASSUME NEW t \in 0..MaxTime
          PROVE  (runs'[t] # 0 => t <= s) /\ runs'[t] <= 1
      <4>1. runs'[t] = IF t = s THEN 1 ELSE runs[t]
        BY <2>1, <3>1, <3>4 DEF TypeOK
      <4> QED
        BY <2>1, <3>3, <4>1 DEF Slots
    <3> QED
      BY <3>2, <3>5 DEF Slots
  <2>3. CASE ~ ClaimMatches(p)
    BY <1>1, <1>3, <2>3 DEF Claim
  <2> QED
    BY <2>2, <2>3
<1>4. ASSUME NEW p \in Process, UpdateBackupSettings(p)
      PROVE  Slots'
  BY <1>1, <1>4 DEF UpdateBackupSettings, TypeOK
<1>5. ASSUME NEW p \in Process, Quiets(p), ~ Claim(p), ~ UpdateBackupSettings(p)
      PROVE  Slots'
  BY <1>1, <1>5 DEF Quiets, StatFails, WriteBackup, Fail, ReadSchedule, CreateBackupNow,
                    UpdateProtection, PruneBackups, GetBackupStatus, UploadBackupFile, schedule
<1>6. ASSUME NEW p \in Process,
             \/ ReadDirectory(p) \/ StatFiles(p)
             \/ \E f \in File : SweepFile(p, f) \/ DeleteBackupFile(p, f)
                                     \/ BeginProtection(p, f)
      PROVE  Slots'
  BY <1>1, <1>6 DEF ReadDirectory, StatFiles, SweepFile, DeleteBackupFile, BeginProtection,
                    schedule
<1> QED
  BY <1>2, <1>3, <1>4, <1>5, <1>6, ProcessSteps

-----------------------------------------------------------------------------
(* Protected files.                                                          *)

(* The file is there and protected, and no process has taken it for anything *)
(* else or is about to.                                                      *)
Promises ==
    \A f \in promised \ exposed :
        /\ f \in protection /\ mtime[f] # 0
        /\ \A q \in Process : ~ AtRisk(q, f)

LEMMA OthersRisk ==
    ASSUME NEW p \in Process, NEW Q, Proceeds(p, op'[p], Q), NEW q \in Process, q # p, NEW f
    PROVE  AtRisk(q, f)' <=> AtRisk(q, f)
BY DEF Proceeds, Same, AtRisk

LEMMA QuietRisk ==
    ASSUME NEW p \in Process, Quiet(op'[p]), NEW f
    PROVE  ~ AtRisk(p, f)'
BY DEF Quiet, AtRisk

(* A step of a process that ends quiet and puts nothing else at risk.        *)
LEMMA RiskQuiet ==
    ASSUME NEW p \in Process, Proceeds(p, op'[p], {}), Quiet(op'[p]), NEW f,
           \A q \in Process \ {p} : ~ AtRisk(q, f)
    PROVE  \A q \in Process : ~ AtRisk(q, f)'
BY OthersRisk, QuietRisk

LEMMA PromisesQuiet ==
    ASSUME TypeOK, OpsOK, Promises, NEW p \in Process, Quiets(p)
    PROVE  Promises'
<1>0. Proceeds(p, op'[p], {}) /\ Quiet(op'[p])
  BY QuietSteps
<1>1. CASE promised' \ exposed' = {}
  BY <1>1 DEF Promises
<1>2. CASE UNCHANGED <<protection, promised, exposed>> /\ \A f \in File : mtime[f] # 0 => mtime'[f] # 0
  <2>1. promised \subseteq File
    BY DEF TypeOK
  <2> QED
    BY <1>0, <1>2, <2>1, RiskQuiet DEF Promises
<1>3. CASE StatFails(p) \/ Fail(p)
  <2>1. CASE exposed' = exposed \cup promised /\ promised' = promised
    BY <1>1, <2>1
  <2>2. UNCHANGED <<mtime, promised>>
    BY <1>3 DEF StatFails, Fail
  <2>3. \/ UNCHANGED <<protection, exposed>>
        \/ exposed' = exposed \cup promised
    BY <1>3 DEF StatFails, Fail, GivesUp, NextDirectory
  <2> QED
    BY <1>2, <2>1, <2>2, <2>3
<1>4. CASE WriteBackup(p) \/ \E f \in File : UploadBackupFile(p, f)
  <2>1. PICK f \in File : mtime' = [mtime EXCEPT ![f] = now] /\ UNCHANGED <<protection, history>>
    BY <1>4 DEF WriteBackup, UploadBackupFile, OpsOK, OpOK
  <2>2. now # 0
    BY ConstantsAssumption DEF TypeOK
  <2> QED
    BY <1>2, <2>1, <2>2 DEF TypeOK, history
<1>5. CASE UpdateProtection(p)
  <2>1. PICK f \in op[p].names :
          /\ \/ /\ op[p].stage = "protect"
                /\ protection' = protection \cup {f}
                /\ promised' = promised \cup {f}
                /\ exposed' = IF mtime[f] = 0 \/ \E q \in Process \ {p} : AtRisk(q, f)
                              THEN exposed \cup {f} ELSE exposed
             \/ /\ op[p].stage = "unprotect"
                /\ protection' = protection \ {f}
                /\ UNCHANGED <<promised, exposed>>
          /\ UNCHANGED mtime
    BY <1>5 DEF UpdateProtection, history
  <2>2. CASE op[p].stage = "protect"
    <3>1. ASSUME NEW g \in promised' \ exposed'
          PROVE  /\ g \in protection' /\ mtime'[g] # 0
                 /\ \A q \in Process \ {p} : ~ AtRisk(q, g)
      BY <2>1, <2>2 DEF Promises
    <3> QED
      BY <1>0, <3>1, RiskQuiet DEF Promises
  <2>3. CASE op[p].stage = "unprotect"
    <3>1. AtRisk(p, f)
      BY <2>3 DEF AtRisk
    <3>2. f \notin promised \ exposed
      BY <3>1 DEF Promises
    <3>3. ASSUME NEW g \in promised' \ exposed'
          PROVE  /\ g \in protection' /\ mtime'[g] # 0
                 /\ \A q \in Process \ {p} : ~ AtRisk(q, g)
      BY <2>1, <2>3, <3>2 DEF Promises
    <3> QED
      BY <1>0, <3>3, RiskQuiet DEF Promises
  <2> QED
    BY <2>1, <2>2, <2>3
<1>6. CASE \/ Claim(p) \/ ReadSchedule(p) \/ UpdateBackupSettings(p)
           \/ CreateBackupNow(p) \/ PruneBackups(p) \/ GetBackupStatus(p)
  BY <1>2, <1>6 DEF Claim, ReadSchedule, UpdateBackupSettings, CreateBackupNow,
                    PruneBackups, GetBackupStatus, store, history
<1> QED
  BY <1>3, <1>4, <1>5, <1>6 DEF Quiets

LEMMA PromisesStep ==
    ASSUME TypeOK, OpsOK, Promises, [Next]_vars
    PROVE  Promises'
<1>1. CASE Tick \/ UNCHANGED vars
  BY <1>1 DEF Tick, vars, store, history, Promises, AtRisk
<1>2. ASSUME NEW p \in Process, Quiets(p)
      PROVE  Promises'
  BY <1>2, PromisesQuiet
<1>3. ASSUME NEW p \in Process, ReadDirectory(p)
      PROVE  Promises'
  <2>1. Proceeds(p, op'[p], {}) /\ UNCHANGED <<mtime, protection, promised, exposed>>
    BY <1>3, ReadDirectoryStep DEF ReadDirectory, store, history
  <2>2. ASSUME NEW f \in promised \ exposed
        PROVE  ~ AtRisk(p, f)'
    <3>1. f \in Stored(mtime)
      BY DEF Promises, Stored, TypeOK
    <3> QED
      BY <1>3, <3>1, ReadDirectoryStep DEF AtRisk
  <2> QED
    BY <2>1, <2>2, OthersRisk DEF Promises
<1>4. ASSUME NEW p \in Process, StatFiles(p)
      PROVE  Promises'
  <2>1. /\ Proceeds(p, op'[p], {}) /\ UNCHANGED <<mtime, promised, exposed>>
        /\ protection' = protection \cap op[p].names /\ op[p].stage = "stat"
    BY <1>4, StatFilesStep DEF StatFiles, history
  <2>2. ASSUME NEW f \in promised \ exposed
        PROVE  f \in protection' /\ ~ AtRisk(p, f)'
    <3>1. f \in op[p].names /\ f \in protection
      BY <2>1 DEF Promises, AtRisk
    <3>2. f \notin Chosen(p)
      BY <3>1 DEF Chosen, Doomed, Retained
    <3>3. CASE Quiet(op'[p])
      BY <2>1, <3>1, <3>3, QuietRisk
    <3>4. CASE op'[p].stage = "sweep" /\ op'[p].doomed = Chosen(p)
      BY <2>1, <3>1, <3>2, <3>4 DEF AtRisk
    <3> QED
      BY <1>4, <3>3, <3>4, StatFilesStep
  <2> QED
    BY <2>1, <2>2, OthersRisk DEF Promises
<1>5. ASSUME NEW p \in Process, NEW g \in File, SweepFile(p, g)
      PROVE  Promises'
  <2>1. /\ UNCHANGED <<protection, promised, exposed>> /\ g \in op[p].doomed
        /\ mtime' = [mtime EXCEPT ![g] = 0]
    BY <1>5 DEF SweepFile, history
  <2>2. /\ Proceeds(p, op'[p], IF Sound(p) THEN {} ELSE Listing)
        /\ op'[p].doomed = op[p].doomed \ {g}
        /\ Quiet(op'[p]) \/ op'[p].stage = "sweep"
    BY <1>5, SweepFileStep
  <2>3. ASSUME NEW f \in promised \ exposed
        PROVE  f # g /\ ~ AtRisk(p, f)'
    <3>1. f \notin op[p].doomed
      BY DEF Promises, AtRisk
    <3> QED
      BY <2>1, <2>2, <3>1 DEF AtRisk, Quiet
  <2> QED
    BY <2>1, <2>2, <2>3, OthersRisk DEF Promises, TypeOK
<1>6. ASSUME NEW p \in Process, NEW g \in File, DeleteBackupFile(p, g) \/ BeginProtection(p, g)
      PROVE  Promises'
  <2>1. /\ Proceeds(p, op'[p], {}) /\ op'[p].doomed = {} /\ op'[p].names = {g}
        /\ op'[p].stage \in {"protect", "unprotect"}
        /\ op'[p].stage = "protect" => UNCHANGED <<mtime, promised, exposed>>
    BY <1>6, UnprotectStep
  <2>2. /\ protection' = protection
        /\ \A f \in File \ {g} : mtime'[f] = mtime[f]
        /\ \/ promised' = promised \ {g} /\ exposed' = exposed \ {g}
           \/ UNCHANGED <<promised, exposed, mtime>> /\ op'[p].stage = "protect"
    <3>1. CASE DeleteBackupFile(p, g)
      BY <3>1 DEF DeleteBackupFile, TypeOK
    <3>2. CASE BeginProtection(p, g) /\ promised' = promised \ {g} /\ exposed' = exposed \ {g}
      BY <3>2 DEF BeginProtection, store
    <3>3. CASE /\ BeginProtection(p, g) /\ Set(p, [Idle EXCEPT !.stage = "protect", !.names = {g}])
               /\ UNCHANGED history
      <4>1. op'[p] = [Idle EXCEPT !.stage = "protect", !.names = {g}]
        BY <3>3 DEF Set, TypeOK
      <4>2. op'[p].stage = "protect"
        BY <4>1 DEF Idle
      <4> QED
        BY <3>3, <4>2 DEF BeginProtection, store, history
    <3> QED
      BY <1>6, <3>1, <3>2, <3>3 DEF BeginProtection
  <2>3. promised \subseteq File
    BY DEF TypeOK
  <2>4. ASSUME NEW f \in promised' \ exposed'
        PROVE  /\ f \in promised \ exposed /\ mtime'[f] = mtime[f]
               /\ ~ AtRisk(p, f)'
    BY <2>1, <2>2, <2>3 DEF AtRisk
  <2> QED
    BY <2>1, <2>2, <2>4, OthersRisk DEF Promises
<1> QED
  BY <1>1, <1>2, <1>3, <1>4, <1>5, <1>6, ProcessSteps

-----------------------------------------------------------------------------
(* The tiers of the retention policy.                                        *)

Dates == [File -> 0..MaxTime]

LEMMA Least ==
    ASSUME NEW S \in SUBSET Nat, S # {}
    PROVE  \E x \in S : \A y \in S : x <= y
<1>1. \E x \in S : \A y \in S : ~ (<<y, x>> \in OpToRel(<, Nat))
  BY NatLessThanWellFounded, WFMin, Zenon
<1>2. \E x \in S : \A y \in S : ~ (y < x)
  BY <1>1, Zenon DEF OpToRel
<1> QED
  BY <1>2

LEMMA FilesAreFinite ==
    /\ IsFiniteSet(File)
    /\ \A S \in SUBSET File : IsFiniteSet(S) /\ Cardinality(S) \in Nat
<1>1. IsFiniteSet(File)
  BY FS_Interval, ConstantsAssumption DEF File
<1>2. \A S \in SUBSET File : IsFiniteSet(S) /\ Cardinality(S) \in Nat
  BY <1>1, FS_Subset, FS_CardinalityType
<1> QED
  BY <1>1, <1>2

(* Files have a newest one.                                                  *)
LEMMA Newest ==
    ASSUME NEW dates \in Dates, NEW S \in SUBSET File, S # {}
    PROVE  \E r \in S : \A g \in S \ {r} : Newer(dates, r, g)
<1> USE DEF Dates
<1>1. MaxTime \in Nat /\ \A g \in S : g \in 1..MaxTime /\ dates[g] \in 0..MaxTime
  BY ConstantsAssumption DEF File
<1> DEFINE A == {MaxTime - dates[g] : g \in S}
<1>2. A \in SUBSET Nat /\ A # {}
  BY <1>1
<1>3. PICK a \in A : \A b \in A : a <= b
  BY <1>2, Least
<1>4. PICK m \in S : a = MaxTime - dates[m]
  BY <1>3
<1>5. \A g \in S : dates[g] <= dates[m]
  <2> SUFFICES ASSUME NEW g \in S PROVE dates[g] <= dates[m]
    OBVIOUS
  <2>1. MaxTime - dates[g] \in A
    OBVIOUS
  <2>2. MaxTime - dates[m] <= MaxTime - dates[g]
    BY <1>3, <1>4, <2>1
  <2> QED
    BY <1>1, <2>2
<1> DEFINE L == {g \in S : dates[g] = dates[m]}
           B == {MaxTime - g : g \in L}
<1>6. B \in SUBSET Nat /\ B # {}
  BY <1>1
<1>7. PICK b \in B : \A c \in B : b <= c
  BY <1>6, Least
<1>8. PICK r \in L : b = MaxTime - r
  BY <1>7
<1>9. \A g \in L : g <= r
  <2> SUFFICES ASSUME NEW g \in L PROVE g <= r
    OBVIOUS
  <2>1. MaxTime - g \in B
    OBVIOUS
  <2>2. MaxTime - r <= MaxTime - g
    BY <1>7, <1>8, <2>1
  <2> QED
    BY <1>1, <2>2
<1>10. ASSUME NEW g \in S \ {r}
       PROVE  Newer(dates, r, g)
  <2>1. r \in S /\ dates[r] = dates[m]
    OBVIOUS
  <2>2. dates[g] <= dates[r]
    BY <1>5, <2>1
  <2>3. CASE dates[g] = dates[r]
    <3>1. g \in L
      BY <2>1, <2>3
    <3>2. g <= r /\ g # r
      BY <1>9, <3>1
    <3> QED
      BY <1>1, <2>1, <2>3, <3>2 DEF Newer
  <2>4. CASE dates[g] # dates[r]
    BY <1>1, <2>1, <2>2, <2>4 DEF Newer
  <2> QED
    BY <2>3, <2>4
<1> QED
  BY <1>10

LEMMA NewerOrders ==
    ASSUME NEW dates \in Dates, NEW f \in File, NEW g \in File, NEW h \in File
    PROVE  /\ Newer(dates, f, g) => ~ Newer(dates, g, f)
           /\ Newer(dates, f, g) /\ Newer(dates, g, h) => Newer(dates, f, h)
BY ConstantsAssumption DEF Dates, File, Newer

(* Of the files left for a tier, one of the period of f is kept if fewer     *)
(* periods are newer than the tier counts.                                   *)
Later(dates, all, f, Period) ==
    {Period[dates[g]] : g \in {h \in all : Period[dates[h]] > Period[dates[f]]}}

LEMMA TierCovers ==
    ASSUME NEW dates \in Dates, NEW Period, Monotone(Period), NEW count \in Nat,
           NEW all \in SUBSET File, NEW left \in SUBSET all, NEW f \in left,
           Cardinality(Later(dates, all, f, Period)) < count
    PROVE  \E k \in TierKeeps(dates, left, count, Period) : Period[dates[k]] = Period[dates[f]]
<1> DEFINE reps == {r \in left : \A g \in left \ {r} :
                      Period[dates[g]] = Period[dates[r]] => Newer(dates, r, g)}
           S == {g \in left : Period[dates[g]] = Period[dates[f]]}
           T == {Period[dates[g]] : g \in {h \in all : Period[dates[h]] > Period[dates[f]]}}
<1>1. \A g \in File : dates[g] \in Nat /\ Period[dates[g]] \in Nat
  BY ConstantsAssumption DEF Dates, Monotone
<1>2. PICK r \in S : \A g \in S \ {r} : Newer(dates, r, g)
  BY Newest
<1>3. r \in reps /\ Period[dates[r]] = Period[dates[f]] /\ r \in File
  BY <1>2
<1> DEFINE N == {g \in reps : Newer(dates, g, r)}
           M == [g \in N |-> Period[dates[g]]]
<1>4. ASSUME NEW g \in N
      PROVE  g \in all /\ Period[dates[g]] > Period[dates[f]]
  <2>0. g \in File /\ g \in left
    OBVIOUS
  <2>1. g \in File /\ g \in left /\ g # r
    <3>1. ~ Newer(dates, r, r)
      BY <1>3, NewerOrders
    <3> QED
      BY <2>0, <3>1
  <2>2. Period[dates[r]] <= Period[dates[g]]
    BY <1>1, <1>3, <2>1 DEF Newer, Monotone
  <2>3. Period[dates[g]] # Period[dates[r]]
    BY <1>3, <2>1, NewerOrders
  <2> QED
    BY <1>1, <1>3, <2>1, <2>2, <2>3
<1>5. ASSUME NEW g \in N, NEW h \in N, M[g] = M[h]
      PROVE  g = h
  BY <1>5, NewerOrders
<1>6. M \in Injection(N, T)
  <2>1. \A g \in N : Period[dates[g]] \in T
    BY <1>4
  <2> HIDE DEF N, T
  <2>2. M \in [N -> T]
    BY <2>1
  <2> QED
    BY <1>5, <2>2 DEF Injection, IsInjective
<1>7. IsFiniteSet(T) /\ Cardinality(T) \in Nat
  <2> DEFINE A == {h \in all : Period[dates[h]] > Period[dates[f]]}
             F == [g \in A |-> Period[dates[g]]]
  <2>1. IsFiniteSet(A)
    BY FilesAreFinite
  <2>2. F \in Surjection(A, T)
    BY DEF Surjection
  <2> QED
    BY <2>1, <2>2, FS_Surjection, FS_CardinalityType
<1>8. Cardinality(N) <= Cardinality(T) /\ Cardinality(N) \in Nat
  BY <1>6, <1>7, FS_Injection, FilesAreFinite
<1>9. Cardinality(N) < count
  <2>1. Later(dates, all, f, Period) = T
    BY DEF Later
  <2> QED
    BY <1>7, <1>8, <2>1
<1>10. r \in TierKeeps(dates, left, count, Period)
  BY <1>3, <1>9 DEF TierKeeps
<1> QED
  BY <1>3, <1>10

(* A tier that counts at all keeps the newest file that is left for it.      *)
LEMMA TierKeepsNewest ==
    ASSUME NEW dates \in Dates, NEW Period, NEW count \in Nat \ {0},
           NEW left \in SUBSET File, NEW r \in left, \A g \in left \ {r} : Newer(dates, r, g)
    PROVE  r \in TierKeeps(dates, left, count, Period)
<1> DEFINE reps == {f \in left : \A g \in left \ {f} :
                      Period[dates[g]] = Period[dates[f]] => Newer(dates, f, g)}
           N == {g \in reps : Newer(dates, g, r)}
<1>1. r \in reps
  OBVIOUS
<1>2. ~ Newer(dates, r, r)
  BY ConstantsAssumption DEF Newer, Dates, File
<1>3. N = {}
  BY <1>2, NewerOrders
<1>4. Cardinality(N) = 0
  BY <1>3, FS_EmptySet
<1> QED
  BY <1>1, <1>4 DEF TierKeeps

LEMMA TierKeepsNothing ==
    ASSUME NEW dates, NEW Period, NEW left \in SUBSET File
    PROVE  TierKeeps(dates, left, 0, Period) = {}
BY FilesAreFinite DEF TierKeeps

(* Whatever a policy counts, it keeps the newest file -- unless it counts    *)
(* nothing.                                                                  *)
LEMMA RetainsNewest ==
    ASSUME NEW dates \in Dates, NEW guarded,
           NEW policy \in [daily: Nat, weekly: Nat, monthly: Nat], policy # NoPolicy,
           NEW r \in Stored(dates) \ guarded,
           \A g \in (Stored(dates) \ guarded) \ {r} : Newer(dates, r, g)
    PROVE  r \in Retained(dates, guarded, policy)
<1> DEFINE left   == Stored(dates) \ guarded
           days   == TierKeeps(dates, left, policy.daily, Day)
           weeks  == TierKeeps(dates, left \ days, policy.weekly, Week)
           months == TierKeeps(dates, left \ (days \cup weeks), policy.monthly, Month)
<1>1. left \in SUBSET File
  BY DEF Stored
<1>2. Retained(dates, guarded, policy) = guarded \cup days \cup weeks \cup months
  BY DEF Retained
<1>3. CASE policy.daily # 0
  <2>1. r \in days
    BY <1>1, <1>3, TierKeepsNewest
  <2> QED
    BY <1>2, <2>1
<1>4. CASE policy.daily = 0 /\ policy.weekly # 0
  <2>1. days = {}
    BY <1>1, <1>4, TierKeepsNothing
  <2>2. left \ days = left
    BY <2>1
  <2>3. r \in TierKeeps(dates, left, policy.weekly, Week)
    BY <1>1, <1>4, TierKeepsNewest
  <2> QED
    BY <1>2, <2>2, <2>3
<1>5. CASE policy.daily = 0 /\ policy.weekly = 0
  <2>1. policy.monthly \in Nat \ {0}
    BY <1>5 DEF NoPolicy
  <2>2. days = {}
    BY <1>1, <1>5, TierKeepsNothing
  <2>3. left \ days \in SUBSET File
    BY <1>1
  <2>4. weeks = {}
    BY <1>5, <2>3, TierKeepsNothing
  <2>5. left \ (days \cup weeks) = left
    BY <2>2, <2>4
  <2>6. r \in TierKeeps(dates, left, policy.monthly, Month)
    BY <1>1, <2>1, TierKeepsNewest
  <2> QED
    BY <1>2, <2>5, <2>6
<1> QED
  BY <1>3, <1>4, <1>5

-----------------------------------------------------------------------------
(* Every period a policy counts has a file.                                  *)

LEMMA PeriodsCovered == TypeOK => EveryPeriodIsCovered
<1> SUFFICES ASSUME TypeOK, NEW policy \in Policies
             PROVE  LET all  == Stored(mtime) \ protection
                        kept == Retained(mtime, protection \cap Stored(mtime), policy)
                    IN  /\ Covers(kept, all, policy.daily, Day)
                        /\ Covers(kept, all, policy.weekly, Week)
                        /\ Covers(kept, all, policy.monthly, Month)
  BY DEF EveryPeriodIsCovered
<1> DEFINE all    == Stored(mtime) \ protection
           kept   == Retained(mtime, protection \cap Stored(mtime), policy)
           days   == TierKeeps(mtime, all, policy.daily, Day)
           weeks  == TierKeeps(mtime, all \ days, policy.weekly, Week)
           months == TierKeeps(mtime, all \ (days \cup weeks), policy.monthly, Month)
<1>1. mtime \in Dates /\ all \in SUBSET File
  BY DEF TypeOK, Dates, Stored
<1>2. policy.daily \in Nat /\ policy.weekly \in Nat /\ policy.monthly \in Nat
  BY ConstantsAssumption
<1>3. days \subseteq kept /\ weeks \subseteq kept /\ months \subseteq kept
  <2>1. Stored(mtime) \ (protection \cap Stored(mtime)) = all
    OBVIOUS
  <2> QED
    BY <2>1 DEF Retained
(* What an earlier tier has kept covers its own period.                      *)
<1>4. ASSUME NEW Period, Monotone(Period), NEW count \in Nat, NEW taken \in SUBSET kept,
             TierKeeps(mtime, all \ taken, count, Period) \subseteq kept
      PROVE  Covers(kept, all, count, Period)
  <2> HIDE DEF all, kept
  <2> SUFFICES ASSUME NEW f \in all, Cardinality(Later(mtime, all, f, Period)) < count
               PROVE  \E k \in kept : Period[mtime[k]] = Period[mtime[f]]
    BY DEF Covers, Later
  <2>1. CASE f \in taken
    BY <2>1
  <2>2. CASE f \in all \ taken
    <3> DEFINE left == all \ taken
    <3>1. left \in SUBSET all /\ f \in left
      BY <2>2
    <3> HIDE DEF left
    <3>2. count \in Nat /\ Monotone(Period)
      BY <1>4
    <3>3. \E k \in TierKeeps(mtime, left, count, Period) : Period[mtime[k]] = Period[mtime[f]]
      BY <1>1, <3>1, <3>2, TierCovers
    <3> QED
      BY <1>4, <3>3 DEF left
  <2> QED
    BY <2>1, <2>2
<1> HIDE DEF all, kept, days, weeks, months
<1>5. Covers(kept, all, policy.daily, Day)
  <2>1. TierKeeps(mtime, all \ {}, policy.daily, Day) \subseteq kept
    <3>1. all \ {} = all
      OBVIOUS
    <3> QED
      BY <1>3, <3>1 DEF days
  <2>2. {} \in SUBSET kept
    OBVIOUS
  <2> QED
    BY <1>2, <1>4, <2>1, <2>2, Calendar
<1>6. Covers(kept, all, policy.weekly, Week)
  BY <1>2, <1>3, <1>4, Calendar DEF weeks
<1>7. Covers(kept, all, policy.monthly, Month)
  <2>1. days \cup weeks \in SUBSET kept
    BY <1>3
  <2> QED
    BY <1>2, <1>3, <1>4, <2>1, Calendar DEF months
<1> QED
  BY <1>5, <1>6, <1>7 DEF all, kept

-----------------------------------------------------------------------------
(* The newest file.                                                          *)

(* No file is dated later than now.                                          *)
Dated == \A f \in File : mtime[f] <= now

(* A file that a sound sweep has chosen is not the newest one that is left:  *)
(* what is newer was not chosen, or was and has something newer again.       *)
SweepsSpare ==
    \A p \in Process : Sound(p) =>
        \A f \in op[p].doomed : mtime[f] # 0 =>
            \E g \in Stored(mtime) \ protection : Newer(mtime, g, f)

(* The steps that give a file the date of now.                               *)
Writes(p, f) == /\ mtime' = [mtime EXCEPT ![f] = now]
                /\ Proceeds(p, op'[p], Knowing(f))
                /\ UNCHANGED <<now, protection>>

LEMMA WritesSteps ==
    ASSUME TypeOK, OpsOK, NEW p \in Process,
           WriteBackup(p) \/ \E f \in File : UploadBackupFile(p, f)
    PROVE  \E f \in File : Writes(p, f)
<1>1. CASE WriteBackup(p)
  <2>1. op[p].begun \in File
    BY <1>1 DEF OpsOK, OpOK, WriteBackup
  <2>2. ASSUME NEW todo \in Seq(Purpose), NEW Q, SetAndOvertake(p, Then(todo), Q)
        PROVE  Proceeds(p, op'[p], Q)
    BY <2>2, ThenQuiet, OvertakeMoves DEF Proceeds
  <2>3. Proceeds(p, op'[p], Knowing(op[p].begun))
    BY <1>1, <2>2, Purposes DEF WriteBackup
  <2> QED
    BY <1>1, <2>1, <2>3 DEF WriteBackup, Writes
<1>2. ASSUME NEW f \in File, UploadBackupFile(p, f)
      PROVE  Writes(p, f)
  <2>1. Proceeds(p, Then(<<"sweep", "look">>), Knowing(f))
    BY <1>2, ThenQuiet, Purposes, OvertakeMoves DEF UploadBackupFile
  <2> QED
    BY <1>2, <2>1 DEF UploadBackupFile, Writes, Proceeds
<1> QED
  BY <1>1, <1>2

LEMMA DatedStep ==
    ASSUME TypeOK, OpsOK, Dated, [Next]_vars
    PROVE  Dated'
<1>1. now \in Nat /\ mtime \in [File -> Nat]
  BY ConstantsAssumption DEF TypeOK
<1>2. CASE Tick \/ UNCHANGED vars
  BY <1>1, <1>2 DEF Tick, vars, store, Dated
<1>3. ASSUME NEW p \in Process, NEW f \in File, Writes(p, f)
      PROVE  Dated'
  BY <1>1, <1>3 DEF Writes, Dated
<1>4. ASSUME UNCHANGED <<now, mtime>>
      PROVE  Dated'
  BY <1>4 DEF Dated
<1>5. ASSUME NEW p \in Process, Quiets(p)
      PROVE  Dated'
  <2>1. CASE WriteBackup(p) \/ \E f \in File : UploadBackupFile(p, f)
    BY <1>3, <2>1, WritesSteps
  <2>2. CASE ~ WriteBackup(p) /\ ~ \E f \in File : UploadBackupFile(p, f)
    BY <1>4, <1>5, <2>2 DEF Quiets, StatFails, Claim, Fail, ReadSchedule, UpdateBackupSettings,
          CreateBackupNow, UpdateProtection, PruneBackups, GetBackupStatus, store
  <2> QED
    BY <2>1, <2>2
<1>6. ASSUME NEW p \in Process, ReadDirectory(p) \/ StatFiles(p)
      PROVE  Dated'
  BY <1>4, <1>6 DEF ReadDirectory, StatFiles, store
<1>7. ASSUME NEW p \in Process, NEW f \in File,
             SweepFile(p, f) \/ DeleteBackupFile(p, f) \/ BeginProtection(p, f)
      PROVE  Dated'
  <2>1. now' = now /\ (mtime' = mtime \/ mtime' = [mtime EXCEPT ![f] = 0])
    BY <1>7 DEF SweepFile, DeleteBackupFile, BeginProtection, store
  <2> QED
    BY <1>1, <2>1 DEF Dated
<1> QED
  BY <1>2, <1>5, <1>6, <1>7, ProcessSteps

(* A process that stays sound has the same files chosen as before.           *)
LEMMA OthersStaySound ==
    ASSUME NEW p \in Process, NEW Q, Proceeds(p, op'[p], Q), NEW q \in Process, q # p, Sound(q)'
    PROVE  Sound(q) /\ q \notin Q /\ op'[q].doomed = op[q].doomed
BY DEF Proceeds, Same, Sound

(* A step that leaves the files alone and takes no protection for more than  *)
(* it was, whose process has nothing chosen.                                 *)
LEMMA SparedByOthers ==
    ASSUME SweepsSpare, NEW p \in Process, Proceeds(p, op'[p], {}),
           mtime' = mtime, protection' \subseteq protection,
           Sound(p)' => \A f \in op'[p].doomed :
                \E g \in Stored(mtime) \ protection' : Newer(mtime, g, f)
    PROVE  SweepsSpare'
<1>1. ASSUME NEW q \in Process, q # p, Sound(q)', NEW f \in op'[q].doomed, mtime'[f] # 0
      PROVE  \E g \in Stored(mtime) \ protection' : Newer(mtime, g, f)
  BY <1>1, OthersStaySound DEF SweepsSpare
<1> QED
  BY <1>1 DEF SweepsSpare, Stored, Newer

(* After a step that overtakes all listings nobody's choice is sound.        *)
LEMMA SparedByOvertaking ==
    ASSUME OpsOK, NEW p \in Process, Proceeds(p, op'[p], Listing),
           Sound(p)' => op'[p].doomed = {}
    PROVE  SweepsSpare'
<1>1. ASSUME NEW q \in Process, q # p, Sound(q)'
      PROVE  op'[q].doomed = {}
  <2>1. q \notin Listing /\ op'[q].doomed = op[q].doomed
    BY <1>1, OthersStaySound
  <2> QED
    BY <2>1 DEF Listing, OpsOK, OpOK
<1> QED
  BY <1>1 DEF SweepsSpare

LEMMA SparedByWriting ==
    ASSUME TypeOK, OpsOK, Dated, SweepsSpare,
           NEW p \in Process, NEW w \in File, Writes(p, w), op'[p].doomed = {}
    PROVE  SweepsSpare'
<1>1. /\ now \in Nat \ {0} /\ mtime \in [File -> Nat] /\ \A f \in File : f \in Nat
      /\ \A f \in File : mtime'[f] = IF f = w THEN now ELSE mtime[f]
      /\ protection' = protection
  <2>1. now \in Nat \ {0} /\ 0..MaxTime \subseteq Nat /\ File \subseteq Nat
    <3>1. now \in Start..MaxTime /\ Start \in 1..MaxTime /\ MaxTime \in Nat
      BY ConstantsAssumption DEF TypeOK
    <3> QED
      BY <3>1 DEF File
  <2>2. mtime \in [File -> Nat]
    BY <2>1 DEF TypeOK
  <2>3. mtime' = [mtime EXCEPT ![w] = now] /\ protection' = protection
    BY DEF Writes
  <2> QED
    BY <2>1, <2>2, <2>3
<1>2. ASSUME NEW q \in Process, q # p, Sound(q)', NEW f \in op'[q].doomed, mtime'[f] # 0
      PROVE  \E g \in Stored(mtime)' \ protection' : Newer(mtime, g, f)'
  <2>1. Sound(q) /\ q \notin Knowing(w) /\ f \in op[q].doomed
    BY <1>2, OthersStaySound DEF Writes
  <2>2. f \in File /\ f # w
    BY <2>1 DEF OpsOK, OpOK, OpState, Knowing
  <2>3. PICK g \in Stored(mtime) \ protection : Newer(mtime, g, f)
    BY <1>1, <1>2, <2>1, <2>2 DEF SweepsSpare
  <2>4. g \in Stored(mtime)' /\ g \in File
    BY <1>1, <2>3 DEF Stored
  <2>5. mtime[g] <= now /\ mtime'[f] = mtime[f] /\ mtime[g] <= mtime'[g]
    BY <1>1, <2>2, <2>4 DEF Dated
  <2>6. Newer(mtime, g, f)'
    BY <1>1, <2>2, <2>3, <2>4, <2>5 DEF Newer
  <2> QED
    BY <1>1, <2>3, <2>4, <2>6
<1> QED
  BY <1>2 DEF SweepsSpare

(* A sound sweep deletes a file: whoever counted on that one has a newer one *)
(* to count on.                                                              *)
LEMMA SparedBySweeping ==
    ASSUME TypeOK, OpsOK, SweepsSpare, NEW p \in Process, NEW w \in File,
           SweepFile(p, w), Sound(p)
    PROVE  SweepsSpare'
<1>1. /\ mtime \in Dates /\ w \in op[p].doomed /\ protection' = protection
      /\ \A f \in File : mtime'[f] = IF f = w THEN 0 ELSE mtime[f]
  BY DEF TypeOK, SweepFile, Dates
<1>2. ASSUME NEW q \in Process, Sound(q)', NEW f \in op'[q].doomed, mtime'[f] # 0
      PROVE  Sound(q) /\ f \in op[q].doomed /\ f \in File /\ f # w
  <2>1. Sound(q) /\ f \in op[q].doomed
    <3>1. CASE q = p
      BY <1>2, <3>1, SweepFileStep
    <3>2. CASE q # p
      BY <1>2, <3>2, SweepFileStep, OthersStaySound
    <3> QED
      BY <3>1, <3>2
  <2>2. f \in File
    BY <2>1 DEF OpsOK, OpState
  <2> QED
    BY <1>1, <1>2, <2>1, <2>2
<1>3. ASSUME NEW f \in File, NEW g \in Stored(mtime) \ protection, Newer(mtime, g, f)
      PROVE  \E h \in (Stored(mtime) \ protection) \ {w} : Newer(mtime, h, f)
  <2>1. CASE g # w
    BY <1>3, <2>1
  <2>2. CASE g = w
    <3>1. PICK h \in Stored(mtime) \ protection : Newer(mtime, h, w)
      BY <1>1, <1>3, <2>2 DEF SweepsSpare, Stored
    <3>2. h \in File /\ h # w
      BY <1>1, <3>1, NewerOrders DEF Stored
    <3> QED
      BY <1>1, <1>3, <2>2, <3>1, <3>2, NewerOrders
  <2> QED
    BY <2>1, <2>2
<1>4. ASSUME NEW q \in Process, Sound(q)', NEW f \in op'[q].doomed, mtime'[f] # 0
      PROVE  \E h \in Stored(mtime)' \ protection' : Newer(mtime, h, f)'
  <2>1. Sound(q) /\ f \in op[q].doomed /\ f \in File /\ f # w
    BY <1>2, <1>4
  <2>2. PICK h \in (Stored(mtime) \ protection) \ {w} : Newer(mtime, h, f)
    BY <1>1, <1>3, <1>4, <2>1 DEF SweepsSpare
  <2>3. h \in File /\ mtime'[h] = mtime[h] /\ mtime'[f] = mtime[f] /\ mtime[h] # 0
    BY <1>1, <2>1, <2>2 DEF Stored
  <2> QED
    BY <1>1, <2>2, <2>3 DEF Stored, Newer
<1> QED
  BY <1>4 DEF SweepsSpare

(* What a policy that keeps anything has chosen leaves a newer file alone.   *)
LEMMA ChosenSpares ==
    ASSUME TypeOK, OpsOK, NEW p \in Process, op[p].names \subseteq Stored(mtime),
           op[p].policy # NoPolicy, NEW f \in Chosen(p)
    PROVE  \E g \in Stored(mtime) \ (protection \cap op[p].names) : Newer(mtime, g, f)
<1> DEFINE names   == op[p].names
           dates   == [g \in File |-> IF g \in names THEN mtime[g] ELSE 0]
           guarded == protection \cap names
           left    == Stored(dates) \ guarded
           policy  == op[p].policy
<1>1. names \subseteq File /\ policy \in [daily: Nat, weekly: Nat, monthly: Nat]
  <2>1. op[p] \in OpState
    BY DEF OpsOK
  <2> QED
    BY <2>1, ConstantsAssumption DEF OpState, NoPolicy
<1>2. dates \in Dates
  BY ConstantsAssumption DEF TypeOK, Dates
<1>3. f \in left /\ f \notin Retained(dates, guarded, policy)
  BY DEF Chosen, Doomed, Retained
<1>4. left \in SUBSET File
  BY DEF Stored
<1>5. \A g \in left : g \in names /\ dates[g] = mtime[g]
  BY DEF Stored
<1> HIDE DEF dates, guarded, names
<1>6. PICK r \in left : \A g \in left \ {r} : Newer(dates, r, g)
  BY <1>2, <1>3, <1>4, Newest
<1>7. r \in Retained(dates, guarded, policy)
  BY <1>1, <1>2, <1>6, RetainsNewest
<1>8. Newer(dates, r, f)
  BY <1>3, <1>6, <1>7
<1>9. Newer(mtime, r, f)
  BY <1>3, <1>5, <1>6, <1>8 DEF Newer
<1> QED
  BY <1>5, <1>6, <1>9 DEF names, guarded

LEMMA SweepsSpareStep ==
    ASSUME TypeOK, OpsOK, Dated, SweepsSpare, [Next]_vars
    PROVE  SweepsSpare'
<1>1. CASE Tick \/ UNCHANGED vars
  BY <1>1 DEF Tick, vars, store, SweepsSpare, Sound, Stored, Newer
<1>2. ASSUME NEW p \in Process, Quiets(p)
      PROVE  SweepsSpare'
  <2>1. Proceeds(p, op'[p], {}) /\ op'[p].doomed = {}
    BY <1>2, QuietSteps DEF Quiet
  <2>2. CASE WriteBackup(p) \/ \E f \in File : UploadBackupFile(p, f)
    BY <2>1, <2>2, WritesSteps, SparedByWriting
  <2>3. CASE UpdateProtection(p)
    <3>1. Proceeds(p, Then(<<"look">>), Listing)
      BY <2>3, ThenQuiet, Purposes, OvertakeMoves DEF UpdateProtection
    <3> QED
      BY <2>1, <3>1, SparedByOvertaking DEF Proceeds
  <2>4. CASE \/ StatFails(p) \/ Claim(p) \/ Fail(p) \/ ReadSchedule(p) \/ UpdateBackupSettings(p)
             \/ CreateBackupNow(p) \/ PruneBackups(p) \/ GetBackupStatus(p)
    <3>1. mtime' = mtime /\ protection' \subseteq protection
      BY <2>4 DEF StatFails, NextDirectory, GivesUp, Claim, Fail, ReadSchedule,
                  UpdateBackupSettings, CreateBackupNow, PruneBackups, GetBackupStatus, store
    <3> QED
      BY <2>1, <3>1, SparedByOthers
  <2> QED
    BY <1>2, <2>2, <2>3, <2>4 DEF Quiets
<1>3. ASSUME NEW p \in Process, ReadDirectory(p)
      PROVE  SweepsSpare'
  <2>1. Proceeds(p, op'[p], {}) /\ op'[p].doomed = {} /\ UNCHANGED <<mtime, protection>>
    BY <1>3, ReadDirectoryStep DEF ReadDirectory, store
  <2> QED
    BY <2>1, SparedByOthers
<1>4. ASSUME NEW p \in Process, StatFiles(p)
      PROVE  SweepsSpare'
  <2>1. /\ mtime' = mtime /\ protection' = protection \cap op[p].names
        /\ op[p].names \subseteq Stored(mtime)
    BY <1>4 DEF StatFiles
  <2>2. /\ Proceeds(p, op'[p], {})
        /\ \/ op'[p].doomed = {}
           \/ op'[p].doomed = Chosen(p) /\ op'[p].policy = op[p].policy
    BY <1>4, StatFilesStep DEF Quiet
  <2>3. ASSUME Sound(p)', NEW f \in op'[p].doomed
        PROVE  \E g \in Stored(mtime) \ protection' : Newer(mtime, g, f)
    <3>1. f \in Chosen(p) /\ op[p].policy # NoPolicy
      BY <2>2, <2>3 DEF Sound
    <3> HIDE DEF Chosen
    <3> QED
      BY <2>1, <3>1, ChosenSpares
  <2> QED
    BY <2>1, <2>2, <2>3, SparedByOthers
<1>5. ASSUME NEW p \in Process, NEW w \in File, SweepFile(p, w)
      PROVE  SweepsSpare'
  <2>1. CASE Sound(p)
    BY <1>5, <2>1, SparedBySweeping
  <2>2. CASE ~ Sound(p)
    <3>1. Proceeds(p, op'[p], Listing)
      BY <1>5, <2>2, SweepFileStep
    <3>2. Sound(p)' => op'[p].doomed = {}
      BY <1>5, <2>2, SweepFileStep DEF Sound, Quiet
    <3> QED
      BY <3>1, <3>2, SparedByOvertaking
  <2> QED
    BY <2>1, <2>2
<1>6. ASSUME NEW p \in Process, NEW f \in File, DeleteBackupFile(p, f)
      PROVE  SweepsSpare'
  BY <1>6, UnprotectStep, SparedByOvertaking
<1>7. ASSUME NEW p \in Process, NEW f \in File, BeginProtection(p, f)
      PROVE  SweepsSpare'
  <2>1. Proceeds(p, op'[p], {}) /\ op'[p].doomed = {}
    BY <1>7, UnprotectStep
  <2>2. UNCHANGED <<mtime, protection>>
    BY <1>7 DEF BeginProtection, store
  <2> QED
    BY <2>1, <2>2, SparedByOthers
<1> QED
  BY <1>1, <1>2, <1>3, <1>4, <1>5, <1>6, <1>7, ProcessSteps

-----------------------------------------------------------------------------
(* Theorems.                                                                 *)

IInv == TypeOK /\ OpsOK /\ Slots /\ Promises /\ Dated /\ SweepsSpare

LEMMA InitInv == Init => IInv
<1> SUFFICES ASSUME Init PROVE IInv
  OBVIOUS
<1> USE DEF Init
<1>1. /\ MaxTime \in Nat /\ Start \in Nat /\ 0 \in 0..MaxTime /\ Start \in Start..MaxTime
      /\ 0 \in 0..MaxEvents /\ FirstTime \in TimeOfDay
  BY ConstantsAssumption
<1>2. \A p \in Process : op[p] = Idle
  OBVIOUS
<1>3. OpsOK
  BY <1>2, IdleOK DEF OpsOK, OpOK
<1>4. mtime \in [File -> 0..MaxTime] /\ Dated
  <2>1. \A f \in File : mtime[f] = IF f \in Written THEN f ELSE 0
    OBVIOUS
  <2>2. \A f \in File : mtime[f] \in 0..MaxTime /\ mtime[f] <= now
    BY <1>1, <2>1, ConstantsAssumption DEF File
  <2> QED
    BY <2>2 DEF Dated
<1>5. TypeOK
  <2>1. settings \in [enabled: BOOLEAN, time: TimeOfDay, lastRun: 0..MaxTime, policy: Policies]
    BY <1>1
  <2> QED
    BY <1>1, <1>3, <1>4, <2>1 DEF TypeOK, OpsOK
<1>6. Slots /\ Promises
  BY DEF Slots, Promises
<1>7. SweepsSpare
  BY <1>2, IdleOK DEF SweepsSpare
<1> QED
  BY <1>3, <1>4, <1>5, <1>6, <1>7 DEF IInv

LEMMA InvStep == IInv /\ [Next]_vars => IInv'
BY OpsStep, TypeStep, SlotsStep, PromisesStep, DatedStep, SweepsSpareStep DEF IInv

LEMMA Invariant == Spec => []IInv
BY InitInv, InvStep, PTL DEF Spec

(* Every variable stays within its type.                                     *)
THEOREM TypeCorrect == Spec => []TypeOK
<1>1. IInv => TypeOK
  BY DEF IInv
<1> QED
  BY <1>1, Invariant, PTL

(* However many workers look at the schedule (runScheduledBackup), and        *)
(* however often it is changed, a scheduled time is backed up at most once.  *)
THEOREM BackedUpOnce == Spec => []OneBackupPerSlot
<1>1. IInv => OneBackupPerSlot
  BY DEF IInv, Slots, OneBackupPerSlot
<1> QED
  BY <1>1, Invariant, PTL

(* A protected file whose protection met no open listing stays with its      *)
(* protection (updateBackupProtection, pruneStoredBackups).                  *)
THEOREM ProtectionKept == Spec => []ProtectionHolds
<1>1. IInv => ProtectionHolds
  BY DEF IInv, Promises, ProtectionHolds
<1> QED
  BY <1>1, Invariant, PTL

(* Whatever is stored and protected, and whatever the policy, each of the    *)
(* newest days, weeks and months it counts keeps a file                      *)
(* (selectRetainedBackupFileNames).                                          *)
THEOREM PeriodsKept == Spec => []EveryPeriodIsCovered
<1>1. IInv => EveryPeriodIsCovered
  BY PeriodsCovered DEF IInv
<1> QED
  BY <1>1, Invariant, PTL

(* No sound sweep deletes the newest of the unprotected files, however many  *)
(* of them run at once (pruneStoredBackups).                                 *)
THEOREM NewestSpared == Spec => SweepSparesTheNewest
<1> DEFINE A == \A p \in Process, f \in File :
                    /\ f \in op[p].doomed /\ f \notin op'[p].doomed /\ Sound(p)
                    /\ mtime[f] # 0 /\ mtime'[f] = 0
                    => \E g \in Stored(mtime) \ protection : Newer(mtime, g, f)
<1>1. IInv => A
  BY DEF IInv, SweepsSpare
<1>2. Spec => [][A]_vars
  BY <1>1, Invariant, PTL
<1> QED
  BY <1>2 DEF SweepSparesTheNewest
-----------------------------------------------------------------------------
(* What a restore finds in the tables, in the backup and in what it has read *)
(* (DatabaseInv).                                                            *)

Older(table, n) == \A x \in DOMAIN table : x < n

\* Ids are not given out a second time.
IdsAreNew == Older(users, next.users) /\ Older(projects, next.projects) /\ Older(tasks, next.tasks)

Role    == {"admin", "viewer", "none"}
Account == [email: Email, password: Id, config: {"default", "chosen"}]

\* The tables that a snapshot has read, with no id that is still to be given
\* out.
HoldsRows(f, read, ids) ==
    /\ "users" \in read => HasRows(f.users, Account) /\ EmailsDiffer(f.users)
                           /\ Older(f.users, ids.users)
    /\ "roles" \in read => f.roles \in [DOMAIN f.roles -> Role]
    /\ "projects" \in read => HasRows(f.projects, ProjectRow) /\ SourcesDiffer(f.projects)
                              /\ Older(f.projects, ids.projects)
    /\ "tasks" \in read => HasRows(f.tasks, TaskRow) /\ SourcesDiffer(f.tasks)
                           /\ Older(f.tasks, ids.tasks)
    /\ "mail" \in read => f.mail \in Status

\* Those of a snapshot during which nothing has changed.
HoldsWhatWas(f, read) ==
    LET was == f.asOf[1]
    IN  /\ Schema(f.asOf[1], f.asOf[2], f.asOf[3])
        /\ "users" \in read => f.users = [u \in DOMAIN was |->
              [email |-> was[u].email, password |-> was[u].password,
               config |-> IF f.writer = "worker" THEN "default" ELSE was[u].config]]
        /\ "roles" \in read =>
              f.roles = [u \in {v \in DOMAIN was : was[v].role # "none"} |-> was[u].role]
        /\ "projects" \in read => f.projects = f.asOf[2]
        /\ "tasks" \in read => f.tasks = f.asOf[3]
        /\ "mail" \in read => f.mail = f.asOf[4]

SnapInv == snap # None =>
    /\ file = None
    /\ {"unread", "quiet", "asOf", "writer"} \cup (Table \ snap.unread) \subseteq DOMAIN snap
    /\ HoldsRows(snap, Table \ snap.unread, next)
    /\ snap.quiet => /\ snap.asOf = <<users, projects, tasks, mail>>
                     /\ HoldsWhatWas(snap, Table \ snap.unread)

FileInv == file # None =>
    /\ HoldsRows(file, Table, next)
    /\ file.quiet => HoldsWhatWas(file, Table)

\* What a restore has read of the accounts and the projects: a project keeps
\* its source as long as it is there.
RestoreInv == restore # NoRestore =>
    /\ file # None
    /\ \/ restore.scope = "projects" /\ restore.selected \subseteq DOMAIN file.projects
       \/ restore.scope = "users" /\ restore.selected \subseteq DOMAIN file.users
    /\ HasRows(restore.users, UserRow) /\ HasRows(restore.projects, ProjectRow)
    /\ Older(restore.users, next.users) /\ Older(restore.projects, next.projects)
    /\ \A q \in DOMAIN restore.projects \cap DOMAIN projects :
          restore.projects[q].source = projects[q].source

DatabaseInv == DbTypeOK /\ IdsAreNew /\ SnapInv /\ FileInv /\ RestoreInv

-----------------------------------------------------------------------------
(* A loop over the rows of a backup goes through a transaction after each.   *)

LEMMA OrdersAreSequences ==
    ASSUME NEW S \in SUBSET Id, NEW order \in SetToSeqs(S)
    PROVE  /\ Len(order) \in Nat
           /\ \A i \in 1..Len(order) : order[i] \in S
<1>1. IsFiniteSet(S) /\ Cardinality(S) \in Nat
  <2>1. IsFiniteSet(Id)
    BY DatabaseAssumption, FS_Interval DEF Id
  <2> QED
    BY <2>1, FS_Subset, FS_CardinalityType
<1>2. order \in [1..Cardinality(S) -> S]
  BY DEF SetToSeqs
<1>3. order \in Seq(S) /\ Len(order) = Cardinality(S)
  BY <1>1, <1>2
<1> QED
  BY <1>1, <1>2, <1>3

LEMMA ProjectLoop ==
    ASSUME NEW order, Len(order) \in Nat
    PROVE  \E after :
             /\ after[0] = [ok |-> TRUE, projects |-> projects, tasks |-> tasks, next |-> next]
             /\ \A n \in 1..Len(order) : after[n] = RestoreProject(after[n - 1], order[n])
             /\ ProjectsRestored(order) = after[Len(order)]
<1> DEFINE N == Len(order)
           start == [ok |-> TRUE, projects |-> projects, tasks |-> tasks, next |-> next]
           Step(s, n) == RestoreProject(s, order[n])
           Upto(g, k) == g = [n \in 0..k |-> IF n = 0 THEN start ELSE Step(g[n - 1], n)]
           after == CHOOSE g : Upto(g, N)
<1>1. ProjectsRestored(order) = after[N]
  BY DEF ProjectsRestored
<1> HIDE DEF start, Step
<1>2. \E g : Upto(g, 0)
  <2> DEFINE g == [n \in 0..0 |-> start]
  <2>1. Upto(g, 0)
    OBVIOUS
  <2> QED
    BY <2>1
<1>3. ASSUME NEW k \in Nat, NEW g, Upto(g, k)
      PROVE  \E h : Upto(h, k + 1)
  <2> DEFINE h == [n \in 0..(k + 1) |-> IF n <= k THEN g[n] ELSE Step(g[k], k + 1)]
  <2>1. ASSUME NEW n \in 0..(k + 1)
        PROVE  h[n] = IF n = 0 THEN start ELSE Step(h[n - 1], n)
    <3>1. CASE n = 0
      BY <1>3, <3>1
    <3>2. CASE n \in 1..k
      <4>1. h[n] = g[n] /\ h[n - 1] = g[n - 1]
        BY <3>2
      <4>2. g[n] = Step(g[n - 1], n)
        BY <1>3, <3>2
      <4> QED
        BY <3>2, <4>1, <4>2
    <3>3. CASE n = k + 1
      BY <3>3
    <3> QED
      BY <3>1, <3>2, <3>3
  <2>2. Upto(h, k + 1)
    BY <2>1
  <2> QED
    BY <2>2
<1>4. \E g : Upto(g, N)
  <2> DEFINE Missing == {k \in Nat : ~ \E g : Upto(g, k)}
  <2>1. Missing = {}
    <3> SUFFICES ASSUME Missing # {} PROVE FALSE
      OBVIOUS
    <3>1. PICK k \in Missing : \A m \in Missing : k <= m
      BY Least, Missing \in SUBSET Nat
    <3>2. k # 0
      BY <1>2
    <3>3. k - 1 \in Nat /\ k - 1 \notin Missing
      BY <3>1, <3>2, SMTT(30)
    <3>4. PICK g : Upto(g, k - 1)
      BY <3>3
    <3>5. \E h : Upto(h, (k - 1) + 1)
      BY <1>3, <3>3, <3>4
    <3> QED
      BY <3>1, <3>5
  <2> QED
    BY <2>1
<1>5. Upto(after, N)
  BY <1>4
<1> HIDE DEF after
<1>6. /\ after[0] = start
      /\ \A n \in 1..N : after[n] = Step(after[n - 1], n)
  <2>1. \A n \in 0..N : after[n] = IF n = 0 THEN start ELSE Step(after[n - 1], n)
    BY <1>5
  <2>2. N \in Nat
    OBVIOUS
  <2> HIDE DEF N
  <2> QED
    BY <2>1, <2>2
<1> QED
  BY <1>1, <1>6 DEF start, Step

-----------------------------------------------------------------------------
(* A restore of projects, between two of them.                               *)

\* A task of a project that may have been given an id beyond the bound.
LoopTask == [content: Id, source: Source \cup {Nil}, project: Nat]

\* The project is as it was, with its tasks; or the restore is about it.
Kept(s, q) ==
    /\ q \in DOMAIN s.projects /\ s.projects[q] = projects[q]
    /\ TasksOf(s.tasks, q) = TasksOf(tasks, q)
IsReplaced(q) ==
    \E p \in restore.replaced :
        p = q \/ projects[q].source \in {file.projects[p].source} \ {Nil}

Midway(s) == s.ok =>
    /\ s.next \in [{"users", "projects", "tasks"} -> Nat] /\ s.next.users = next.users
    /\ next.projects <= s.next.projects /\ next.tasks <= s.next.tasks
    /\ DOMAIN s.projects \subseteq Nat \ {0} /\ s.projects \in [DOMAIN s.projects -> ProjectRow]
    /\ DOMAIN s.tasks \subseteq Nat \ {0} /\ s.tasks \in [DOMAIN s.tasks -> LoopTask]
    /\ SourcesDiffer(s.projects) /\ SourcesDiffer(s.tasks)
    /\ RefersTo(DOMAIN users, s.projects, s.tasks)
    /\ Older(s.projects, s.next.projects) /\ Older(s.tasks, s.next.tasks)
    /\ \A q \in DOMAIN projects : Kept(s, q) \/ IsReplaced(q)

LEMMA MatchedProject ==
    ASSUME DatabaseInv, restore.scope = "projects", NEW p \in restore.selected
    PROVE  /\ p \in DOMAIN file.projects /\ file.projects[p] \in ProjectRow
           /\ Replaced(p) # Nil =>
                /\ Replaced(p) \in DOMAIN restore.projects
                /\ \/ Replaced(p) = p
                   \/ /\ restore.projects[Replaced(p)].source = file.projects[p].source
                      /\ file.projects[p].source # Nil
<1>1. restore # NoRestore
  BY DEF NoRestore
<1>2. p \in DOMAIN file.projects /\ HasRows(file.projects, ProjectRow)
  BY <1>1 DEF DatabaseInv, RestoreInv, FileInv, HoldsRows, Table
<1> DEFINE source == file.projects[p].source
           same   == {q \in DOMAIN restore.projects :
                        source # Nil /\ restore.projects[q].source = source}
<1>3. CASE same # {}
  <2>1. Replaced(p) = CHOOSE q \in same : TRUE
    BY <1>3 DEF Replaced, MatchExistingProject, Pick
  <2>2. Replaced(p) \in same
    BY <1>3, <2>1
  <2> QED
    BY <1>2, <2>2 DEF HasRows
<1>4. CASE same = {}
  <2>1. Replaced(p) = IF p \in DOMAIN restore.projects THEN p ELSE Nil
    BY <1>4 DEF Replaced, MatchExistingProject
  <2> QED
    BY <1>2, <2>1 DEF HasRows
<1> QED
  BY <1>3, <1>4

\* The tasks of a project get the next ids, one after the other.
LEMMA Places ==
    ASSUME NEW mine \in SUBSET Id, NEW t \in mine
    PROVE  /\ Cardinality(mine) \in Nat
           /\ Cardinality({u \in mine : u < t}) \in 0..(Cardinality(mine) - 1)
<1>1. IsFiniteSet(Id)
  BY DatabaseAssumption, FS_Interval DEF Id
<1>2. IsFiniteSet(mine) /\ Cardinality(mine) \in Nat
  BY <1>1, FS_Subset, FS_CardinalityType
<1> DEFINE before == {u \in mine : u < t}
<1>3. t \in Nat /\ t \notin before /\ before \subseteq mine /\ before # mine
  BY DEF Id
<1> HIDE DEF before
<1>4. IsFiniteSet(before) /\ Cardinality(before) \in Nat
  BY <1>2, <1>3, FS_Subset, FS_CardinalityType
<1>5. Cardinality(before) < Cardinality(mine)
  <2>1. before \in SUBSET mine
    BY <1>3
  <2>2. /\ Cardinality(before) <= Cardinality(mine)
        /\ Cardinality(mine) = Cardinality(before) => mine = before
    BY <1>2, <2>1, FS_Subset
  <2> QED
    BY <1>2, <1>3, <1>4, <2>2
<1>6. Cardinality(before) \in 0..(Cardinality(mine) - 1)
  BY <1>2, <1>4, <1>5
<1> QED
  BY <1>2, <1>6 DEF before

LEMMA ProjectStep ==
    ASSUME DatabaseInv, restore.scope = "projects", NEW p \in restore.selected,
           NEW s, Midway(s)
    PROVE  Midway(RestoreProject(s, p))
<1> DEFINE old   == Replaced(p)
           row   == file.projects[p]
           left  == Without(s.projects, {old})
           kept  == Without(s.tasks, TasksOf(s.tasks, old))
           new   == s.next.projects
           mine  == TasksOf(file.tasks, p)
           place == [t \in mine |-> s.next.tasks + Cardinality({u \in mine : u < t})]
           made  == [t \in {place[u] : u \in mine} |->
                        [file.tasks[CHOOSE u \in mine : place[u] = t] EXCEPT !.project = new]]
           owner == ResolveRestoreUserId(row.owner)
           ends  == With(left, new, [row EXCEPT !.owner = owner])
           all   == [t \in DOMAIN kept \cup DOMAIN made |->
                        IF t \in DOMAIN made THEN made[t] ELSE kept[t]]
           okay  == /\ old # Nil => old \in DOMAIN s.projects
                    /\ owner \in DOMAIN users \cup {Nil}
                    /\ SourcesDiffer(ends) /\ SourcesDiffer(all)
           then  == [s.next EXCEPT !.projects = @ + 1, !.tasks = @ + Cardinality(mine)]
           r     == [ok |-> okay, projects |-> ends, tasks |-> all, next |-> then]
<1>1. RestoreProject(s, p) = IF ~s.ok \/ Skipped(p) THEN s ELSE r
  BY DEF RestoreProject
<1>2. CASE ~s.ok \/ Skipped(p)
  BY <1>1, <1>2
<1>3. CASE s.ok /\ ~Skipped(p) /\ ~okay
  <2>1. RestoreProject(s, p) = r
    BY <1>1, <1>3
  <2>2. r.ok = okay
    OBVIOUS
  <2> HIDE DEF r, okay
  <2> QED
    BY <1>3, <2>1, <2>2 DEF Midway
<1>4. CASE s.ok /\ ~Skipped(p) /\ okay
  <2>0. RestoreProject(s, p) = r /\ old = Replaced(p) /\ row = file.projects[p]
    BY <1>1, <1>4
  <2>1. /\ row \in ProjectRow
        /\ old # Nil => /\ p \in restore.replaced
                        /\ old \in DOMAIN restore.projects
                        /\ \/ old = p
                           \/ /\ restore.projects[old].source = row.source
                              /\ row.source # Nil
    BY <1>4, MatchedProject DEF Skipped
  <2>2. mine \in SUBSET Id /\ file.tasks \in [DOMAIN file.tasks -> TaskRow] /\ mine \subseteq DOMAIN file.tasks
    BY DEF DatabaseInv, RestoreInv, FileInv, HoldsRows, HasRows, Table, TasksOf, NoRestore
  <2>3. /\ s.next \in [{"users", "projects", "tasks"} -> Nat] /\ s.next.users = next.users
        /\ next.projects <= s.next.projects /\ next.tasks <= s.next.tasks
        /\ DOMAIN s.projects \subseteq Nat \ {0} /\ s.projects \in [DOMAIN s.projects -> ProjectRow]
        /\ DOMAIN s.tasks \subseteq Nat \ {0} /\ s.tasks \in [DOMAIN s.tasks -> LoopTask]
        /\ RefersTo(DOMAIN users, s.projects, s.tasks)
        /\ Older(s.projects, s.next.projects) /\ Older(s.tasks, s.next.tasks)
    BY <1>4 DEF Midway
  <2>4. next.projects \in Nat \ {0} /\ next.tasks \in Nat \ {0} /\ new \in Nat \ {0} /\ s.next.tasks \in Nat \ {0}
    BY <2>3, DatabaseAssumption DEF DatabaseInv, DbTypeOK
  <2>5. owner \in Id \cup {Nil} /\ owner \in DOMAIN users \cup {Nil}
    BY <1>4 DEF DatabaseInv, DbTypeOK, Schema, HasRows
  <2>6. /\ Cardinality(mine) \in Nat
        /\ \A t \in mine : /\ place[t] \in Nat \ {0} /\ s.next.tasks <= place[t]
                           /\ place[t] < s.next.tasks + Cardinality(mine)
    <3>1. CASE mine = {}
      BY <3>1, FS_EmptySet
    <3>2. ASSUME NEW t \in mine
          PROVE  /\ Cardinality(mine) \in Nat
                 /\ place[t] \in Nat \ {0} /\ s.next.tasks <= place[t]
                 /\ place[t] < s.next.tasks + Cardinality(mine)
      <4> DEFINE c == Cardinality({u \in mine : u < t})
      <4>1. Cardinality(mine) \in Nat /\ c \in 0..(Cardinality(mine) - 1)
        BY <2>2, Places
      <4>2. place[t] = s.next.tasks + c
        OBVIOUS
      <4> HIDE DEF c, place, mine
      <4> QED
        BY <4>1, <4>2, <2>4
    <3> QED
      BY <3>1, <3>2
  <2> HIDE DEF place
  <2>7. ASSUME NEW t \in DOMAIN made
        PROVE  /\ t \in Nat \ {0} /\ s.next.tasks <= t /\ t < s.next.tasks + Cardinality(mine)
               /\ made[t] \in LoopTask /\ made[t].project = new
    <3> DEFINE u == CHOOSE v \in mine : place[v] = t
    <3>1. PICK v \in mine : place[v] = t
      OBVIOUS
    <3>2. u \in mine /\ place[u] = t
      BY <3>1
    <3>3. made[t] = [file.tasks[u] EXCEPT !.project = new]
      OBVIOUS
    <3> HIDE DEF u, made
    <3>4. file.tasks[u] \in TaskRow
      BY <2>2, <3>2
    <3>5. made[t] \in LoopTask /\ made[t].project = new
      BY <2>4, <3>3, <3>4 DEF TaskRow, LoopTask
    <3> QED
      BY <2>6, <3>2, <3>5
  <2>8. /\ DOMAIN left = DOMAIN s.projects \ {old}
        /\ \A q \in DOMAIN left : left[q] = s.projects[q]
    BY DEF Without, Restrict
  <2>9. /\ DOMAIN kept = {t \in DOMAIN s.tasks : s.tasks[t].project # old}
        /\ \A t \in DOMAIN kept : kept[t] = s.tasks[t]
    BY DEF Without, Restrict, TasksOf
  <2>10. /\ DOMAIN ends = DOMAIN left \cup {new}
         /\ \A q \in DOMAIN ends : ends[q] = IF q = new THEN [row EXCEPT !.owner = owner] ELSE left[q]
    BY DEF With
  <2>11. [row EXCEPT !.owner = owner] \in ProjectRow /\ [row EXCEPT !.owner = owner].owner = owner
    BY <2>1, <2>5 DEF ProjectRow
  <2>12. /\ DOMAIN all = DOMAIN kept \cup DOMAIN made
         /\ \A t \in DOMAIN all : all[t] = IF t \in DOMAIN made THEN made[t] ELSE kept[t]
    OBVIOUS
  <2>13. then \in [{"users", "projects", "tasks"} -> Nat] /\ then.users = next.users
         /\ then.projects = s.next.projects + 1 /\ then.tasks = s.next.tasks + Cardinality(mine)
    <3> DEFINE c == Cardinality(mine)
    <3>1. c \in Nat /\ then = [s.next EXCEPT !.projects = @ + 1, !.tasks = @ + c]
      BY <2>6
    <3> HIDE DEF c, then, mine
    <3>2. then = [x \in {"users", "projects", "tasks"} |->
                    IF x = "projects" THEN s.next[x] + 1
                    ELSE IF x = "tasks" THEN s.next[x] + c ELSE s.next[x]]
      BY <2>3, <3>1
    <3>3. /\ then["users"] = s.next["users"] /\ then["projects"] = s.next["projects"] + 1
          /\ then["tasks"] = s.next["tasks"] + c
      BY <3>2
    <3>4. /\ s.next["users"] \in Nat /\ s.next["projects"] \in Nat /\ s.next["tasks"] \in Nat
      BY <2>3
    <3>5. then \in [{"users", "projects", "tasks"} -> Nat]
      <4> DEFINE value(x) == IF x = "projects" THEN s.next[x] + 1
                             ELSE IF x = "tasks" THEN s.next[x] + c ELSE s.next[x]
      <4>1. \A x \in {"users", "projects", "tasks"} : value(x) \in Nat
        BY <3>1, <3>4
      <4>2. then = [x \in {"users", "projects", "tasks"} |-> value(x)]
        BY <3>2
      <4> HIDE DEF value
      <4> QED
        BY <4>1, <4>2
    <3> QED
      BY <2>3, <3>3, <3>5 DEF c
  <2>14. SourcesDiffer(ends) /\ SourcesDiffer(all)
    BY <1>4
  <2>15. ends = [q \in DOMAIN ends |-> ends[q]] /\ all = [t \in DOMAIN all |-> all[t]]
    BY DEF With
  <2> HIDE DEF left, kept, ends, all, made, then, okay, old, row, owner, mine
  <2>16. DOMAIN ends \subseteq Nat \ {0} /\ ends \in [DOMAIN ends -> ProjectRow]
    BY <2>3, <2>4, <2>8, <2>10, <2>11, <2>15
  <2>17. DOMAIN all \subseteq Nat \ {0} /\ all \in [DOMAIN all -> LoopTask]
    BY <2>3, <2>7, <2>9, <2>12, <2>15
  <2>18. RefersTo(DOMAIN users, ends, all)
    <3>1. ASSUME NEW q \in DOMAIN ends PROVE ends[q].owner \in DOMAIN users \cup {Nil}
      BY <2>3, <2>5, <2>8, <2>10, <2>11 DEF RefersTo
    <3>2. ASSUME NEW t \in DOMAIN all PROVE all[t].project \in DOMAIN ends
      BY <2>3, <2>7, <2>8, <2>9, <2>10, <2>12 DEF RefersTo
    <3> QED
      BY <3>1, <3>2 DEF RefersTo
  <2>19. Older(ends, then.projects)
    BY <2>3, <2>4, <2>8, <2>10, <2>13 DEF Older
  <2>20. Older(all, then.tasks)
    BY <2>3, <2>4, <2>6, <2>7, <2>9, <2>12, <2>13 DEF Older
  <2>21. ASSUME NEW q \in DOMAIN projects, Kept(s, q), q # old
         PROVE  q \in DOMAIN ends /\ ends[q] = projects[q] /\ TasksOf(all, q) = TasksOf(tasks, q)
    <3>1. q # new
      BY <2>3, <2>4, <2>21 DEF Kept, Older
    <3>2. q \in DOMAIN ends /\ ends[q] = projects[q]
      BY <2>8, <2>10, <2>21, <3>1 DEF Kept
    <3>3. \A t \in DOMAIN kept : t \notin DOMAIN made
      BY <2>3, <2>4, <2>7, <2>9 DEF Older
    <3>4. TasksOf(all, q) = TasksOf(s.tasks, q)
      BY <2>7, <2>9, <2>12, <2>21, <3>1, <3>3 DEF TasksOf
    <3> QED
      BY <2>21, <3>2, <3>4 DEF Kept
  <2>22. ASSUME old # Nil, old \in DOMAIN projects
         PROVE  IsReplaced(old)
    <3>1. restore.projects[old].source = projects[old].source
      BY <2>1, <2>22 DEF DatabaseInv, RestoreInv, NoRestore
    <3> QED
      BY <2>0, <2>1, <2>22, <3>1 DEF IsReplaced
  <2>23. \A q \in DOMAIN projects : q # Nil
    BY DatabaseAssumption DEF DatabaseInv, DbTypeOK, Schema, HasRows
  <2>24. ASSUME NEW q \in DOMAIN projects
         PROVE  Kept(r, q) \/ IsReplaced(q)
    <3>1. Kept(s, q) \/ IsReplaced(q)
      BY <1>4 DEF Midway
    <3>2. r.projects = ends /\ r.tasks = all
      OBVIOUS
    <3> QED
      BY <2>21, <2>22, <2>23, <3>1, <3>2 DEF Kept
  <2>25. next.projects <= then.projects /\ next.tasks <= then.tasks
    BY <2>3, <2>4, <2>6, <2>13
  <2>26. r.ok = okay /\ r.projects = ends /\ r.tasks = all /\ r.next = then
    OBVIOUS
  <2> HIDE DEF r
  <2>27. Midway(r)
    BY <2>13, <2>14, <2>16, <2>17, <2>18, <2>19, <2>20, <2>24, <2>25, <2>26 DEF Midway
  <2> QED
    BY <2>0, <2>27
<1> QED
  BY <1>2, <1>3, <1>4

LEMMA ProjectsAreRestored ==
    ASSUME DatabaseInv, restore.scope = "projects", NEW order \in SetToSeqs(restore.selected)
    PROVE  Midway(ProjectsRestored(order))
<1> DEFINE start == [ok |-> TRUE, projects |-> projects, tasks |-> tasks, next |-> next]
           N     == Len(order)
<1>1. restore.selected \in SUBSET Id
  BY DEF DatabaseInv, RestoreInv, FileInv, HoldsRows, HasRows, Table, NoRestore
<1>2. N \in Nat /\ \A n \in 1..N : order[n] \in restore.selected
  BY <1>1, OrdersAreSequences
<1>3. PICK after : /\ after[0] = start
                   /\ \A n \in 1..N : after[n] = RestoreProject(after[n - 1], order[n])
                   /\ ProjectsRestored(order) = after[N]
  BY <1>2, ProjectLoop
<1>4. Midway(start)
  <2>1. /\ next \in [{"users", "projects", "tasks"} -> Nat]
        /\ DOMAIN projects \subseteq Nat \ {0} /\ projects \in [DOMAIN projects -> ProjectRow]
        /\ DOMAIN tasks \subseteq Nat \ {0}
    BY DatabaseAssumption DEF DatabaseInv, DbTypeOK, Schema, HasRows, Id
  <2>2. tasks \in [DOMAIN tasks -> LoopTask]
    <3>1. TaskRow \subseteq LoopTask
      BY DatabaseAssumption DEF TaskRow, LoopTask, Id
    <3> QED
      BY <3>1 DEF DatabaseInv, DbTypeOK, Schema, HasRows
  <2>3. next.projects <= next.projects /\ next.tasks <= next.tasks
    BY <2>1
  <2>4. /\ SourcesDiffer(projects) /\ SourcesDiffer(tasks)
        /\ RefersTo(DOMAIN users, projects, tasks)
        /\ Older(projects, next.projects) /\ Older(tasks, next.tasks)
    BY DEF DatabaseInv, DbTypeOK, Schema, IdsAreNew
  <2>5. \A q \in DOMAIN projects : Kept(start, q)
    BY DEF Kept
  <2>6. start.projects = projects /\ start.tasks = tasks /\ start.next = next
    OBVIOUS
  <2> HIDE DEF start
  <2> QED
    BY <2>1, <2>2, <2>3, <2>4, <2>5, <2>6 DEF Midway
<1> HIDE DEF start
<1>5. ASSUME NEW n \in 1..N, Midway(after[n - 1])
      PROVE  Midway(after[n])
  BY <1>2, <1>3, <1>5, ProjectStep
<1> DEFINE Astray == {n \in Nat : n <= N /\ ~ Midway(after[n])}
<1> HIDE DEF N
<1>6. Astray = {}
  <2> SUFFICES ASSUME Astray # {} PROVE FALSE
    OBVIOUS
  <2>1. PICK n \in Astray : \A m \in Astray : n <= m
    BY Least, Astray \in SUBSET Nat
  <2>2. n # 0
    BY <1>3, <1>4
  <2>3. n \in 1..N /\ n - 1 \in Nat /\ n - 1 \notin Astray
    BY <1>2, <2>1, <2>2
  <2>4. Midway(after[n - 1])
    BY <1>2, <2>3
  <2> QED
    BY <1>5, <2>3, <2>4
<1>7. Midway(after[N])
  BY <1>2, <1>6
<1> QED
  BY <1>3, <1>7

-----------------------------------------------------------------------------
(* A restore of users, between two of them.                                  *)

LEMMA UserLoop ==
    ASSUME NEW order, Len(order) \in Nat
    PROVE  \E after :
             /\ after[0] = [ok |-> TRUE, users |-> users]
             /\ \A n \in 1..Len(order) : after[n] = RestoreUser(after[n - 1], order[n])
             /\ UsersRestored(order) = after[Len(order)]
<1> DEFINE N == Len(order)
           start == [ok |-> TRUE, users |-> users]
           Step(s, n) == RestoreUser(s, order[n])
           Upto(g, k) == g = [n \in 0..k |-> IF n = 0 THEN start ELSE Step(g[n - 1], n)]
           after == CHOOSE g : Upto(g, N)
<1>1. UsersRestored(order) = after[N]
  BY DEF UsersRestored
<1> HIDE DEF start, Step
<1>2. \E g : Upto(g, 0)
  <2> DEFINE g == [n \in 0..0 |-> start]
  <2>1. Upto(g, 0)
    OBVIOUS
  <2> QED
    BY <2>1
<1>3. ASSUME NEW k \in Nat, NEW g, Upto(g, k)
      PROVE  \E h : Upto(h, k + 1)
  <2> DEFINE h == [n \in 0..(k + 1) |-> IF n <= k THEN g[n] ELSE Step(g[k], k + 1)]
  <2>1. ASSUME NEW n \in 0..(k + 1)
        PROVE  h[n] = IF n = 0 THEN start ELSE Step(h[n - 1], n)
    <3>1. CASE n = 0
      BY <1>3, <3>1
    <3>2. CASE n \in 1..k
      <4>1. h[n] = g[n] /\ h[n - 1] = g[n - 1]
        BY <3>2
      <4>2. g[n] = Step(g[n - 1], n)
        BY <1>3, <3>2
      <4> QED
        BY <3>2, <4>1, <4>2
    <3>3. CASE n = k + 1
      BY <3>3
    <3> QED
      BY <3>1, <3>2, <3>3
  <2>2. Upto(h, k + 1)
    BY <2>1
  <2> QED
    BY <2>2
<1>4. \E g : Upto(g, N)
  <2> DEFINE Missing == {k \in Nat : ~ \E g : Upto(g, k)}
  <2>1. Missing = {}
    <3> SUFFICES ASSUME Missing # {} PROVE FALSE
      OBVIOUS
    <3>1. PICK k \in Missing : \A m \in Missing : k <= m
      BY Least, Missing \in SUBSET Nat
    <3>2. k # 0
      BY <1>2
    <3>3. k - 1 \in Nat /\ k - 1 \notin Missing
      BY <3>1, <3>2, SMTT(30)
    <3>4. PICK g : Upto(g, k - 1)
      BY <3>3
    <3>5. \E h : Upto(h, (k - 1) + 1)
      BY <1>3, <3>3, <3>4
    <3> QED
      BY <3>1, <3>5
  <2> QED
    BY <2>1
<1>5. Upto(after, N)
  BY <1>4
<1> HIDE DEF after
<1>6. /\ after[0] = start
      /\ \A n \in 1..N : after[n] = Step(after[n - 1], n)
  <2>1. \A n \in 0..N : after[n] = IF n = 0 THEN start ELSE Step(after[n - 1], n)
    BY <1>5
  <2>2. N \in Nat
    OBVIOUS
  <2> HIDE DEF N
  <2> QED
    BY <2>1, <2>2
<1> QED
  BY <1>1, <1>6 DEF start, Step

\* The restore is about the account, by its id or by an e-mail it has or had.
IsSelected(v) ==
    \E u \in restore.replaced :
        u = v \/ file.users[u].email \in {users[v].email, restore.users[v].email}

MidwayOfUsers(s) == s.ok =>
    /\ HasRows(s.users, UserRow) /\ EmailsDiffer(s.users) /\ Older(s.users, next.users)
    /\ DOMAIN users \subseteq DOMAIN s.users
    /\ \A v \in DOMAIN users : s.users[v] = users[v] \/ IsSelected(v)

LEMMA MatchedUser ==
    ASSUME DatabaseInv, restore.scope = "users", NEW u \in restore.selected
    PROVE  /\ u \in DOMAIN file.users /\ UserOf(file, u) \in UserRow /\ RoleIn(file, u) \in Role
           /\ MatchExistingUser(u) # Nil =>
                /\ MatchExistingUser(u) \in DOMAIN restore.users
                /\ \/ MatchExistingUser(u) = u
                   \/ restore.users[MatchExistingUser(u)].email = file.users[u].email
<1>1. restore # NoRestore
  BY DEF NoRestore
<1>2. u \in DOMAIN file.users /\ HasRows(file.users, Account)
      /\ file.roles \in [DOMAIN file.roles -> Role]
  BY <1>1 DEF DatabaseInv, RestoreInv, FileInv, HoldsRows, Table
<1>3. RoleIn(file, u) \in Role
  BY <1>2 DEF RoleIn, Role
<1>4. UserOf(file, u) \in UserRow
  BY <1>2, <1>3 DEF UserOf, UserRow, Account, Role, HasRows
<1> DEFINE same == {v \in DOMAIN restore.users : restore.users[v].email = file.users[u].email}
<1>5. CASE same # {}
  <2>1. MatchExistingUser(u) = CHOOSE v \in same : TRUE
    BY <1>5 DEF MatchExistingUser, Pick
  <2>2. MatchExistingUser(u) \in same
    BY <1>5, <2>1
  <2> QED
    BY <1>2, <1>3, <1>4, <2>2
<1>6. CASE same = {}
  <2>1. MatchExistingUser(u) = IF u \in DOMAIN restore.users THEN u ELSE Nil
    BY <1>6 DEF MatchExistingUser
  <2> QED
    BY <1>2, <1>3, <1>4, <2>1
<1> QED
  BY <1>5, <1>6

LEMMA UserStep ==
    ASSUME DatabaseInv, restore.scope = "users", NEW u \in restore.selected,
           NEW s, MidwayOfUsers(s)
    PROVE  MidwayOfUsers(RestoreUser(s, u))
<1> DEFINE old  == MatchExistingUser(u)
           id   == IF old = Nil THEN u ELSE old
           role == IF u \notin DOMAIN file.roles /\ old # Nil /\ old \in DOMAIN s.users
                   THEN s.users[old].role ELSE RoleIn(file, u)
           row  == [UserOf(file, u) EXCEPT !.role = role]
           ends == With(s.users, id, row)
           okay == (old # Nil <=> id \in DOMAIN s.users) /\ EmailsDiffer(ends)
           r    == [ok |-> okay, users |-> ends]
<1>1. RestoreUser(s, u) = IF ~s.ok \/ SkippedUser(u) THEN s ELSE r
  BY DEF RestoreUser
<1>2. CASE ~s.ok \/ SkippedUser(u)
  BY <1>1, <1>2
<1>3. CASE s.ok /\ ~SkippedUser(u) /\ ~okay
  <2>1. RestoreUser(s, u) = r
    BY <1>1, <1>3
  <2>2. r.ok = okay
    OBVIOUS
  <2> HIDE DEF r, okay
  <2> QED
    BY <1>3, <2>1, <2>2 DEF MidwayOfUsers
<1>4. CASE s.ok /\ ~SkippedUser(u) /\ okay
  <2>0. RestoreUser(s, u) = r
    BY <1>1, <1>4
  <2>1. /\ HasRows(s.users, UserRow) /\ Older(s.users, next.users)
        /\ DOMAIN users \subseteq DOMAIN s.users
        /\ \A v \in DOMAIN users : s.users[v] = users[v] \/ IsSelected(v)
    BY <1>4 DEF MidwayOfUsers
  <2>2. /\ u \in DOMAIN file.users /\ UserOf(file, u) \in UserRow /\ RoleIn(file, u) \in Role
        /\ old # Nil => /\ u \in restore.replaced /\ old \in DOMAIN restore.users
                        /\ \/ old = u
                           \/ restore.users[old].email = file.users[u].email
    BY <1>4, MatchedUser DEF SkippedUser
  <2>3. /\ HasRows(file.users, Account) /\ Older(file.users, next.users)
        /\ HasRows(restore.users, UserRow) /\ Older(restore.users, next.users)
    BY DEF DatabaseInv, RestoreInv, FileInv, HoldsRows, Table, NoRestore
  <2>4. id \in Id /\ id < next.users
    BY <2>2, <2>3 DEF HasRows, Older
  <2>5. role \in Role
    BY <2>1, <2>2 DEF HasRows, UserRow, Role
  <2> HIDE DEF role
  <2>6. row \in UserRow
    BY <2>2, <2>5 DEF UserRow, Role
  <2>7. /\ DOMAIN ends = DOMAIN s.users \cup {id}
        /\ \A v \in DOMAIN ends : ends[v] = IF v = id THEN row ELSE s.users[v]
        /\ ends = [v \in DOMAIN ends |-> ends[v]]
    BY DEF With
  <2>8. EmailsDiffer(ends) /\ (old = Nil => u \notin DOMAIN s.users)
    BY <1>4
  <2>9. r.users = ends
    OBVIOUS
  <2>10. ASSUME NEW v \in DOMAIN users
         PROVE  ends[v] = users[v] \/ IsSelected(v)
    <3>1. CASE v # id
      BY <2>1, <2>7, <3>1
    <3>2. CASE v = id
      <4>1. old # Nil /\ v = old
        BY <2>1, <2>8, <3>2
      <4> QED
        BY <2>2, <4>1 DEF IsSelected
    <3> QED
      BY <3>1, <3>2
  <2> HIDE DEF ends, row, id, r
  <2>11. HasRows(ends, UserRow)
    BY <2>1, <2>4, <2>6, <2>7 DEF HasRows
  <2>12. Older(ends, next.users)
    BY <2>1, <2>4, <2>7 DEF Older
  <2>13. DOMAIN users \subseteq DOMAIN ends
    BY <2>1, <2>7
  <2> QED
    BY <2>0, <2>8, <2>9, <2>10, <2>11, <2>12, <2>13 DEF MidwayOfUsers
<1> QED
  BY <1>2, <1>3, <1>4

LEMMA UsersAreRestored ==
    ASSUME DatabaseInv, restore.scope = "users", NEW order \in SetToSeqs(restore.selected)
    PROVE  MidwayOfUsers(UsersRestored(order))
<1> DEFINE start == [ok |-> TRUE, users |-> users]
           N     == Len(order)
<1>1. restore.selected \in SUBSET Id
  BY DEF DatabaseInv, RestoreInv, FileInv, HoldsRows, HasRows, Table, NoRestore
<1>2. N \in Nat /\ \A n \in 1..N : order[n] \in restore.selected
  BY <1>1, OrdersAreSequences
<1>3. PICK after : /\ after[0] = start
                   /\ \A n \in 1..N : after[n] = RestoreUser(after[n - 1], order[n])
                   /\ UsersRestored(order) = after[N]
  BY <1>2, UserLoop
<1>4. MidwayOfUsers(start)
  BY DEF MidwayOfUsers, DatabaseInv, DbTypeOK, Schema, IdsAreNew
<1> HIDE DEF start
<1>5. ASSUME NEW n \in 1..N, MidwayOfUsers(after[n - 1])
      PROVE  MidwayOfUsers(after[n])
  BY <1>2, <1>3, <1>5, UserStep
<1> DEFINE Astray == {n \in Nat : n <= N /\ ~ MidwayOfUsers(after[n])}
<1> HIDE DEF N
<1>6. Astray = {}
  <2> SUFFICES ASSUME Astray # {} PROVE FALSE
    OBVIOUS
  <2>1. PICK n \in Astray : \A m \in Astray : n <= m
    BY Least, Astray \in SUBSET Nat
  <2>2. n # 0
    BY <1>3, <1>4
  <2>3. n \in 1..N /\ n - 1 \in Nat /\ n - 1 \notin Astray
    BY <1>2, <2>1, <2>2
  <2>4. MidwayOfUsers(after[n - 1])
    BY <1>2, <2>3
  <2> QED
    BY <1>5, <2>3, <2>4
<1>7. MidwayOfUsers(after[N])
  BY <1>2, <1>6
<1> QED
  BY <1>3, <1>7

-----------------------------------------------------------------------------
(* The steps: what they do to the tables.                                    *)

\* A change of the tables gives out new ids, and no project a new source.
IdsGoOn ==
    next.users <= next'.users /\ next.projects <= next'.projects /\ next.tasks <= next'.tasks

Onward ==
    /\ IdsGoOn
    /\ \A q \in DOMAIN projects' :
          \/ q \in DOMAIN projects /\ projects'[q].source = projects[q].source
          \/ next.projects <= q

\* The tables are well formed, and no id is one of those still to be given out.
TablesOK == Schema(users, projects, tasks) /\ IdsAreNew /\ todos \subseteq DOMAIN users
         /\ next \in [{"users", "projects", "tasks"} -> 1..(MaxId + 1)]

LEMMA TakesTheNext ==
    ASSUME TablesOK, NEW table \in {"users", "projects", "tasks"}, Takes(table)
    PROVE  /\ next[table] \in Id /\ next'[table] = next[table] + 1
           /\ \A x \in {"users", "projects", "tasks"} \ {table} : next'[x] = next[x]
           /\ next' \in [{"users", "projects", "tasks"} -> 1..(MaxId + 1)]
           /\ \A x \in {"users", "projects", "tasks"} : next[x] \in Nat
<1>1. next[table] \in 1..(MaxId + 1) /\ next[table] <= MaxId /\ next' = [next EXCEPT ![table] = @ + 1]
  BY DEF TablesOK, Takes
<1>2. next[table] \in Id /\ next[table] + 1 \in 1..(MaxId + 1)
  BY <1>1, DatabaseAssumption DEF Id
<1>3. next' = [x \in {"users", "projects", "tasks"} |-> IF x = table THEN next[x] + 1 ELSE next[x]]
  BY <1>1 DEF TablesOK
<1>4. next' \in [{"users", "projects", "tasks"} -> 1..(MaxId + 1)]
  BY <1>1, <1>2 DEF TablesOK
<1>5. \A x \in {"users", "projects", "tasks"} : next[x] \in Nat
  BY DatabaseAssumption DEF TablesOK
<1> QED
  BY <1>2, <1>3, <1>4, <1>5

LEMMA NextStays ==
    ASSUME TablesOK, next' = next
    PROVE  /\ next.users <= next'.users /\ next.projects <= next'.projects
           /\ next.tasks <= next'.tasks
           /\ next' \in [{"users", "projects", "tasks"} -> 1..(MaxId + 1)]
BY DatabaseAssumption DEF TablesOK

LEMMA WithoutRows ==
    ASSUME NEW table, NEW Row, HasRows(table, Row), NEW gone
    PROVE  /\ HasRows(Without(table, gone), Row)
           /\ DOMAIN Without(table, gone) = DOMAIN table \ gone
           /\ \A x \in DOMAIN table \ gone : Without(table, gone)[x] = table[x]
BY DEF HasRows, Without, Restrict

LEMMA WorkspaceStep ==
    ASSUME TablesOK, Workspace
    PROVE  TablesOK' /\ Onward
<1>0. /\ HasRows(users, UserRow) /\ HasRows(projects, ProjectRow) /\ HasRows(tasks, TaskRow)
      /\ EmailsDiffer(users) /\ SourcesDiffer(projects) /\ SourcesDiffer(tasks)
      /\ RefersTo(DOMAIN users, projects, tasks)
      /\ Older(users, next.users) /\ Older(projects, next.projects) /\ Older(tasks, next.tasks)
  BY DEF TablesOK, Schema, IdsAreNew
<1>1. ASSUME NEW e \in Email, CreateAccount(e)
      PROVE  TablesOK' /\ Onward
  <2> DEFINE row == [email |-> e, role |-> "viewer", password |-> next.users, config |-> "default"]
  <2>1. /\ users' = With(users, next.users, row) /\ Takes("users")
        /\ UNCHANGED <<projects, tasks, todos>>
        /\ \A u \in DOMAIN users : users[u].email # e
    BY <1>1 DEF CreateAccount
  <2>2. /\ next.users \in Id /\ next'.users = next.users + 1
        /\ next'.projects = next.projects /\ next'.tasks = next.tasks
        /\ next' \in [{"users", "projects", "tasks"} -> 1..(MaxId + 1)]
        /\ next.users \in Nat /\ next.projects \in Nat /\ next.tasks \in Nat
    BY <2>1, TakesTheNext
  <2>3. row \in UserRow
    BY <2>2 DEF UserRow
  <2>4. /\ HasRows(users', UserRow) /\ DOMAIN users' = DOMAIN users \cup {next.users}
        /\ \A x \in DOMAIN users \cup {next.users} :
              users'[x] = IF x = next.users THEN row ELSE users[x]
    <3> HIDE DEF row
    <3> DEFINE ends == With(users, next.users, row)
    <3>1. HasRows(users, UserRow) /\ next.users \in Id /\ row \in UserRow /\ users' = ends
      BY <1>0, <2>1, <2>2, <2>3
    <3>2. /\ HasRows(ends, UserRow) /\ DOMAIN ends = DOMAIN users \cup {next.users}
          /\ \A x \in DOMAIN users \cup {next.users} :
                ends[x] = IF x = next.users THEN row ELSE users[x]
      BY <3>1 DEF HasRows, With
    <3> HIDE DEF ends
    <3> QED
      BY <3>1, <3>2
  <2>5. EmailsDiffer(users')
    BY <1>0, <2>1, <2>4 DEF EmailsDiffer
  <2>6. Older(users', next'.users)
    BY <1>0, <2>2, <2>4 DEF Older, HasRows, Id
  <2>7. RefersTo(DOMAIN users', projects', tasks')
    BY <1>0, <2>1, <2>4 DEF RefersTo
  <2>8. Onward
    BY <2>1, <2>2 DEF Onward, IdsGoOn
  <2> QED
    BY <1>0, <2>1, <2>2, <2>4, <2>5, <2>6, <2>7, <2>8 DEF TablesOK, Schema, IdsAreNew
<1>2. ASSUME NEW u \in DOMAIN users, NEW e \in Email, NEW r \in {"admin", "viewer"},
             UpdateAccount(u, e, r)
      PROVE  TablesOK' /\ Onward
  <2>1. /\ users' = [users EXCEPT ![u].email = e, ![u].role = r]
        /\ UNCHANGED <<projects, tasks, todos, next>>
        /\ \A v \in DOMAIN users \ {u} : users[v].email # e
    BY <1>2 DEF UpdateAccount
  <2>2. users \in [DOMAIN users -> UserRow]
    BY <1>0 DEF HasRows
  <2>3. /\ DOMAIN users' = DOMAIN users /\ users' \in [DOMAIN users -> UserRow]
        /\ \A v \in DOMAIN users : users'[v].email = IF v = u THEN e ELSE users[v].email
    BY <2>1, <2>2 DEF UserRow
  <2>4. HasRows(users', UserRow) /\ EmailsDiffer(users') /\ Older(users', next'.users)
    BY <1>0, <2>1, <2>3 DEF HasRows, EmailsDiffer, Older
  <2>5. Onward
    BY <2>1, NextStays DEF Onward, IdsGoOn
  <2> QED
    BY <1>0, <2>1, <2>3, <2>4, <2>5 DEF TablesOK, Schema, IdsAreNew, Older
<1>3. ASSUME NEW u \in DOMAIN users, UpdateUserConfig(u)
      PROVE  TablesOK' /\ Onward
  <2>1. /\ users' = [users EXCEPT ![u].config = "chosen"]
        /\ UNCHANGED <<projects, tasks, todos, next>>
    BY <1>3 DEF UpdateUserConfig
  <2>2. users \in [DOMAIN users -> UserRow]
    BY <1>0 DEF HasRows
  <2>3. /\ DOMAIN users' = DOMAIN users /\ users' \in [DOMAIN users -> UserRow]
        /\ \A v \in DOMAIN users : users'[v].email = users[v].email
    BY <2>1, <2>2 DEF UserRow
  <2>4. HasRows(users', UserRow) /\ EmailsDiffer(users') /\ Older(users', next'.users)
    BY <1>0, <2>1, <2>3 DEF HasRows, EmailsDiffer, Older
  <2>5. Onward
    BY <2>1, NextStays DEF Onward, IdsGoOn
  <2> QED
    BY <1>0, <2>1, <2>3, <2>4, <2>5 DEF TablesOK, Schema, IdsAreNew
<1>4. ASSUME NEW u \in DOMAIN users, DeleteAccount(u)
      PROVE  TablesOK' /\ Onward
  <2>1. /\ users' = Without(users, {u}) /\ projects' = Disowned(projects, u)
        /\ todos' = todos \ {u} /\ UNCHANGED <<tasks, next>>
    BY <1>4 DEF DeleteAccount
  <2>2. /\ HasRows(users', UserRow) /\ DOMAIN users' = DOMAIN users \ {u}
        /\ \A x \in DOMAIN users \ {u} : users'[x] = users[x]
    BY <1>0, <2>1, WithoutRows
  <2>3. projects \in [DOMAIN projects -> ProjectRow] /\ DOMAIN projects \subseteq Id
    BY <1>0 DEF HasRows
  <2>4. /\ DOMAIN projects' = DOMAIN projects /\ projects' \in [DOMAIN projects -> ProjectRow]
        /\ \A p \in DOMAIN projects :
              /\ projects'[p].source = projects[p].source
              /\ projects'[p].owner = IF projects[p].owner = u THEN Nil ELSE projects[p].owner
    BY <2>1, <2>3 DEF Disowned, ProjectRow
  <2>5. /\ HasRows(projects', ProjectRow) /\ SourcesDiffer(projects')
        /\ EmailsDiffer(users')
    BY <1>0, <2>2, <2>3, <2>4 DEF HasRows, SourcesDiffer, EmailsDiffer
  <2>6. RefersTo(DOMAIN users', projects', tasks')
    BY <1>0, <2>1, <2>2, <2>4 DEF RefersTo
  <2>7. Older(users', next'.users) /\ Older(projects', next'.projects)
    BY <1>0, <2>1, <2>2, <2>4 DEF Older
  <2>8. Onward
    BY <2>1, <2>4, NextStays DEF Onward, IdsGoOn
  <2>9. todos' \subseteq DOMAIN users'
    BY <2>1, <2>2 DEF TablesOK
  <2> QED
    BY <1>0, <2>1, <2>2, <2>5, <2>6, <2>7, <2>8, <2>9 DEF TablesOK, Schema, IdsAreNew
<1>5. ASSUME NEW s \in Source \cup {Nil}, NEW owner \in DOMAIN users \cup {Nil},
             CreateProject(s, owner)
      PROVE  TablesOK' /\ Onward
  <2> DEFINE row == [content |-> next.projects, source |-> s, owner |-> owner]
  <2>1. /\ projects' = With(projects, next.projects, row) /\ Takes("projects")
        /\ UNCHANGED <<users, tasks, todos>>
        /\ s # Nil => \A p \in DOMAIN projects : projects[p].source # s
    BY <1>5 DEF CreateProject
  <2>2. /\ next.projects \in Id /\ next'.projects = next.projects + 1
        /\ next'.users = next.users /\ next'.tasks = next.tasks
        /\ next' \in [{"users", "projects", "tasks"} -> 1..(MaxId + 1)]
        /\ next.users \in Nat /\ next.projects \in Nat /\ next.tasks \in Nat
    BY <2>1, TakesTheNext
  <2>3. row \in ProjectRow
    BY <1>0, <2>2 DEF ProjectRow, HasRows
  <2>4. /\ HasRows(projects', ProjectRow) /\ DOMAIN projects' = DOMAIN projects \cup {next.projects}
        /\ \A x \in DOMAIN projects \cup {next.projects} :
              projects'[x] = IF x = next.projects THEN row ELSE projects[x]
    <3> HIDE DEF row
    <3> DEFINE ends == With(projects, next.projects, row)
    <3>1. HasRows(projects, ProjectRow) /\ next.projects \in Id /\ row \in ProjectRow /\ projects' = ends
      BY <1>0, <2>1, <2>2, <2>3
    <3>2. /\ HasRows(ends, ProjectRow) /\ DOMAIN ends = DOMAIN projects \cup {next.projects}
          /\ \A x \in DOMAIN projects \cup {next.projects} :
                ends[x] = IF x = next.projects THEN row ELSE projects[x]
      BY <3>1 DEF HasRows, With
    <3> HIDE DEF ends
    <3> QED
      BY <3>1, <3>2
  <2>5. SourcesDiffer(projects')
    BY <1>0, <2>1, <2>4 DEF SourcesDiffer
  <2>6. Older(projects', next'.projects)
    BY <1>0, <2>2, <2>4 DEF Older, HasRows, Id
  <2>7. RefersTo(DOMAIN users', projects', tasks')
    BY <1>0, <2>1, <2>4 DEF RefersTo
  <2>8. Onward
    BY <2>2, <2>4 DEF Onward, IdsGoOn
  <2> QED
    BY <1>0, <2>1, <2>2, <2>4, <2>5, <2>6, <2>7, <2>8 DEF TablesOK, Schema, IdsAreNew
<1>6. ASSUME NEW p \in DOMAIN projects, CreateTask(p)
      PROVE  TablesOK' /\ Onward
  <2> DEFINE row == [content |-> next.tasks, source |-> Nil, project |-> p]
  <2>1. /\ tasks' = With(tasks, next.tasks, row) /\ Takes("tasks")
        /\ UNCHANGED <<users, projects, todos>>
    BY <1>6 DEF CreateTask
  <2>2. /\ next.tasks \in Id /\ next'.tasks = next.tasks + 1
        /\ next'.users = next.users /\ next'.projects = next.projects
        /\ next' \in [{"users", "projects", "tasks"} -> 1..(MaxId + 1)]
        /\ next.users \in Nat /\ next.projects \in Nat /\ next.tasks \in Nat
    BY <2>1, TakesTheNext
  <2>3. row \in TaskRow
    BY <1>0, <2>2 DEF TaskRow, HasRows
  <2>4. /\ HasRows(tasks', TaskRow) /\ DOMAIN tasks' = DOMAIN tasks \cup {next.tasks}
        /\ \A x \in DOMAIN tasks \cup {next.tasks} :
              tasks'[x] = IF x = next.tasks THEN row ELSE tasks[x]
    <3> HIDE DEF row
    <3> DEFINE ends == With(tasks, next.tasks, row)
    <3>1. HasRows(tasks, TaskRow) /\ next.tasks \in Id /\ row \in TaskRow /\ tasks' = ends
      BY <1>0, <2>1, <2>2, <2>3
    <3>2. /\ HasRows(ends, TaskRow) /\ DOMAIN ends = DOMAIN tasks \cup {next.tasks}
          /\ \A x \in DOMAIN tasks \cup {next.tasks} :
                ends[x] = IF x = next.tasks THEN row ELSE tasks[x]
      BY <3>1 DEF HasRows, With
    <3> HIDE DEF ends
    <3> QED
      BY <3>1, <3>2
  <2>5. SourcesDiffer(tasks')
    BY <1>0, <2>1, <2>4 DEF SourcesDiffer
  <2>6. Older(tasks', next'.tasks)
    BY <1>0, <2>2, <2>4 DEF Older, HasRows, Id
  <2>7. RefersTo(DOMAIN users', projects', tasks')
    BY <1>0, <2>1, <2>4 DEF RefersTo
  <2>8. Onward
    BY <2>1, <2>2 DEF Onward, IdsGoOn
  <2> QED
    BY <1>0, <2>1, <2>2, <2>4, <2>5, <2>6, <2>7, <2>8 DEF TablesOK, Schema, IdsAreNew
<1>7. ASSUME NEW t \in DOMAIN tasks, NEW p \in DOMAIN projects, MoveTask(t, p)
      PROVE  TablesOK' /\ Onward
  <2>1. /\ tasks' = [tasks EXCEPT ![t].project = p]
        /\ UNCHANGED <<users, projects, todos, next>>
    BY <1>7 DEF MoveTask
  <2>2. tasks \in [DOMAIN tasks -> TaskRow] /\ p \in Id
    BY <1>0 DEF HasRows
  <2>3. /\ DOMAIN tasks' = DOMAIN tasks /\ tasks' \in [DOMAIN tasks -> TaskRow]
        /\ \A v \in DOMAIN tasks : /\ tasks'[v].source = tasks[v].source
                                   /\ tasks'[v].project = IF v = t THEN p ELSE tasks[v].project
    BY <2>1, <2>2 DEF TaskRow
  <2>4. HasRows(tasks', TaskRow) /\ SourcesDiffer(tasks') /\ Older(tasks', next'.tasks)
    BY <1>0, <2>1, <2>3 DEF HasRows, SourcesDiffer, Older
  <2>5. RefersTo(DOMAIN users', projects', tasks')
    BY <1>0, <2>1, <2>3 DEF RefersTo
  <2>6. Onward
    BY <2>1, NextStays DEF Onward, IdsGoOn
  <2> QED
    BY <1>0, <2>1, <2>4, <2>5, <2>6 DEF TablesOK, Schema, IdsAreNew
<1>8. ASSUME ResetWorkspace
      PROVE  TablesOK' /\ Onward
  <2>1. /\ projects' = Without(projects, DOMAIN projects) /\ tasks' = Without(tasks, DOMAIN tasks)
        /\ UNCHANGED <<users, todos, next>>
    BY <1>8 DEF ResetWorkspace
  <2>2. /\ HasRows(projects', ProjectRow) /\ DOMAIN projects' = {}
        /\ HasRows(tasks', TaskRow) /\ DOMAIN tasks' = {}
    <3>1. HasRows(projects', ProjectRow) /\ DOMAIN projects' = DOMAIN projects \ DOMAIN projects
      BY <1>0, <2>1, WithoutRows
    <3>2. HasRows(tasks', TaskRow) /\ DOMAIN tasks' = DOMAIN tasks \ DOMAIN tasks
      BY <1>0, <2>1, WithoutRows
    <3> QED
      BY <3>1, <3>2
  <2>3. /\ SourcesDiffer(projects') /\ SourcesDiffer(tasks')
        /\ RefersTo(DOMAIN users', projects', tasks')
        /\ Older(projects', next'.projects) /\ Older(tasks', next'.tasks)
    BY <2>2 DEF SourcesDiffer, RefersTo, Older
  <2>4. Onward
    BY <2>1, <2>2, NextStays DEF Onward, IdsGoOn
  <2> QED
    BY <1>0, <2>1, <2>2, <2>3, <2>4 DEF TablesOK, Schema, IdsAreNew
<1>9. ASSUME NEW u \in DOMAIN users, CreateTodo(u)
      PROVE  TablesOK' /\ Onward
  <2>1. UNCHANGED <<users, projects, tasks, next>> /\ todos' = todos \cup {u}
    BY <1>9 DEF CreateTodo
  <2>2. Onward
    BY <2>1, NextStays DEF Onward, IdsGoOn
  <2> QED
    BY <1>0, <2>1, <2>2 DEF TablesOK, Schema, IdsAreNew
<1>10. ASSUME PostEvent
       PROVE  TablesOK' /\ Onward
  <2>1. UNCHANGED <<users, projects, tasks, next, todos>>
    BY <1>10 DEF PostEvent, tables
  <2>2. Onward
    BY <2>1, NextStays DEF Onward, IdsGoOn
  <2> QED
    BY <1>0, <2>1, <2>2 DEF TablesOK, Schema, IdsAreNew
<1> QED
  BY <1>1, <1>2, <1>3, <1>4, <1>5, <1>6, <1>7, <1>8, <1>9, <1>10 DEF Workspace

-----------------------------------------------------------------------------
(* The steps: snapshots and what is restored from them.                      *)

LEMMA IdsAreNat ==
    ASSUME next \in [{"users", "projects", "tasks"} -> 1..(MaxId + 1)]
    PROVE  next.users \in Nat /\ next.projects \in Nat /\ next.tasks \in Nat
BY DatabaseAssumption

LEMMA StaysOlder ==
    ASSUME NEW table, NEW Row, HasRows(table, Row), NEW m \in Nat, NEW n \in Nat, m <= n,
           Older(table, m)
    PROVE  Older(table, n)
BY DatabaseAssumption DEF HasRows, Older, Id

LEMMA HoldsMore ==
    ASSUME NEW f, NEW read, HoldsRows(f, read, next), IdsGoOn,
           next \in [{"users", "projects", "tasks"} -> 1..(MaxId + 1)],
           next' \in [{"users", "projects", "tasks"} -> 1..(MaxId + 1)]
    PROVE  HoldsRows(f, read, next')
<1>1. /\ next.users \in Nat /\ next.projects \in Nat /\ next.tasks \in Nat
      /\ next'.users \in Nat /\ next'.projects \in Nat /\ next'.tasks \in Nat
  BY DatabaseAssumption
<1>2. "users" \in read => Older(f.users, next'.users)
  BY <1>1, StaysOlder DEF HoldsRows, IdsGoOn
<1>3. "projects" \in read => Older(f.projects, next'.projects)
  BY <1>1, StaysOlder DEF HoldsRows, IdsGoOn
<1>4. "tasks" \in read => Older(f.tasks, next'.tasks)
  BY <1>1, StaysOlder DEF HoldsRows, IdsGoOn
<1> QED
  BY <1>2, <1>3, <1>4 DEF HoldsRows

\* What was read before stays so when the snapshot is changed otherwise.
LEMMA SameReading ==
    ASSUME NEW f, NEW g, NEW read, NEW ids, HoldsRows(f, read, ids),
           "users" \in read => g.users = f.users, "roles" \in read => g.roles = f.roles,
           "projects" \in read => g.projects = f.projects, "tasks" \in read => g.tasks = f.tasks,
           "mail" \in read => g.mail = f.mail
    PROVE  HoldsRows(g, read, ids)
BY DEF HoldsRows

LEMMA Outdated ==
    ASSUME SnapInv, FileInv, IdsGoOn, Moves, file' = file,
           next \in [{"users", "projects", "tasks"} -> 1..(MaxId + 1)],
           next' \in [{"users", "projects", "tasks"} -> 1..(MaxId + 1)]
    PROVE  SnapInv' /\ FileInv'
<1>1. FileInv'
  <2> SUFFICES ASSUME file # None PROVE FileInv'
    BY DEF FileInv
  <2>1. HoldsRows(file, Table, next) /\ (file.quiet => HoldsWhatWas(file, Table))
    BY DEF FileInv
  <2>2. HoldsRows(file, Table, next')
    BY <2>1, HoldsMore
  <2> QED
    BY <2>1, <2>2 DEF FileInv, HoldsRows, HoldsWhatWas, Table
<1>2. SnapInv'
  <2>1. CASE snap = None
    BY <2>1 DEF SnapInv, Moves
  <2>2. CASE snap # None
    <3> DEFINE read == Table \ snap.unread
    <3>1. /\ file = None /\ HoldsRows(snap, read, next)
          /\ {"unread", "quiet", "asOf", "writer"} \cup read \subseteq DOMAIN snap
      BY <2>2 DEF SnapInv
    <3>2. snap' = [snap EXCEPT !.quiet = FALSE]
      BY <2>2 DEF Moves
    <3>3. /\ DOMAIN snap' = DOMAIN snap /\ snap'.unread = snap.unread /\ snap'.quiet = FALSE
          /\ \A t \in read : snap'[t] = snap[t]
      BY <3>1, <3>2 DEF Table
    <3> HIDE DEF read
    <3>4. HoldsRows(snap, read, next')
      BY <3>1, HoldsMore
    <3>5. HoldsRows(snap', read, next')
      BY <3>3, <3>4, SameReading
    <3>6. read = Table \ snap'.unread
      BY <3>3 DEF read
    <3>7. HoldsRows(snap', Table \ snap'.unread, next')
      BY <3>5, <3>6
    <3> QED
      BY <3>1, <3>3, <3>6, <3>7 DEF SnapInv, Table
  <2> QED
    BY <2>1, <2>2
<1> QED
  BY <1>1, <1>2

LEMMA ReadRows ==
    ASSUME TablesOK, mail \in Status
    PROVE  /\ HasRows(Rows("users"), Account) /\ EmailsDiffer(Rows("users"))
           /\ Older(Rows("users"), next.users)
           /\ Rows("roles") \in [DOMAIN Rows("roles") -> Role]
           /\ Rows("projects") = projects /\ Rows("tasks") = tasks /\ Rows("mail") = mail
           /\ Rows("users") = [u \in DOMAIN users |->
                 [email |-> users[u].email, password |-> users[u].password,
                  config |-> IF snap.writer = "worker" THEN "default" ELSE users[u].config]]
           /\ Rows("roles") = [u \in {v \in DOMAIN users : users[v].role # "none"} |-> users[u].role]
<1>1. /\ HasRows(users, UserRow) /\ EmailsDiffer(users) /\ Older(users, next.users)
  BY DEF TablesOK, Schema, IdsAreNew
<1>2. Rows("users") = [u \in DOMAIN users |->
                 [email |-> users[u].email, password |-> users[u].password,
                  config |-> IF snap.writer = "worker" THEN "default" ELSE users[u].config]]
  BY DEF Rows, ConfigIn
<1>3. Rows("roles") = [u \in {v \in DOMAIN users : users[v].role # "none"} |-> users[u].role]
  BY DEF Rows
<1>4. Rows("projects") = projects /\ Rows("tasks") = tasks /\ Rows("mail") = mail
  BY DEF Rows
<1>5. Rows("roles") \in [DOMAIN Rows("roles") -> Role]
  BY <1>1, <1>3 DEF HasRows, UserRow, Role
<1>6. HasRows(Rows("users"), Account)
  BY <1>1, <1>2 DEF HasRows, UserRow, Account
<1>7. EmailsDiffer(Rows("users")) /\ Older(Rows("users"), next.users)
  BY <1>1, <1>2 DEF EmailsDiffer, Older
<1> QED
  BY <1>2, <1>3, <1>4, <1>5, <1>6, <1>7

LEMMA ReadStep ==
    ASSUME DatabaseInv, TablesOK, NEW t \in Table, ReadTable(t)
    PROVE  SnapInv'
<1> DEFINE read == Table \ snap.unread
<1>1. /\ snap # None /\ t \in snap.unread
      /\ snap' = [x \in DOMAIN snap \cup {t} |->
                    CASE x = t        -> Rows(t)
                      [] x = "unread" -> snap.unread \ {t}
                      [] OTHER        -> snap[x]]
      /\ UNCHANGED <<users, projects, tasks, next, mail, file>>
  BY DEF ReadTable, tables, outbox
<1>2. /\ file = None /\ HoldsRows(snap, read, next)
      /\ {"unread", "quiet", "asOf", "writer"} \cup read \subseteq DOMAIN snap
      /\ snap.quiet => /\ snap.asOf = <<users, projects, tasks, mail>>
                       /\ HoldsWhatWas(snap, read)
  BY <1>1 DEF DatabaseInv, SnapInv
<1>3. t # "unread" /\ t # "quiet" /\ t # "asOf" /\ t # "writer" /\ t \notin read
  BY <1>1 DEF Table
<1>4. /\ DOMAIN snap' = DOMAIN snap \cup {t} /\ snap'[t] = Rows(t)
      /\ snap'["unread"] = snap["unread"] \ {t} /\ snap'["quiet"] = snap["quiet"]
      /\ snap'["asOf"] = snap["asOf"] /\ snap'["writer"] = snap["writer"]
  BY <1>1, <1>2, <1>3
<1>5. \A x \in read : snap'[x] = snap[x]
  <2> SUFFICES ASSUME NEW x \in read PROVE snap'[x] = snap[x]
    OBVIOUS
  <2>1. x \in DOMAIN snap /\ x # t /\ x # "unread"
    BY <1>2, <1>3 DEF Table
  <2> QED
    BY <1>1, <2>1
<1>6. Table \ snap'.unread = read \cup {t}
  BY <1>4
<1>7. mail \in Status
  BY DEF DatabaseInv, DbTypeOK
<1> HIDE DEF read
<1>8. HoldsRows(snap', read, next)
  BY <1>2, <1>5, SameReading
<1>9. HoldsRows(snap', read \cup {t}, next)
  <2>1. SourcesDiffer(projects) /\ SourcesDiffer(tasks) /\ HasRows(projects, ProjectRow)
        /\ HasRows(tasks, TaskRow) /\ Older(projects, next.projects) /\ Older(tasks, next.tasks)
    BY DEF TablesOK, Schema, IdsAreNew
  <2> QED
    BY <1>4, <1>7, <1>8, <2>1, ReadRows DEF HoldsRows, Table
<1>10. ASSUME snap'.quiet
       PROVE  /\ snap'.asOf = <<users, projects, tasks, mail>>
              /\ HoldsWhatWas(snap', read \cup {t})
  <2>1. /\ snap.asOf = <<users, projects, tasks, mail>> /\ snap'.asOf = <<users, projects, tasks, mail>>
        /\ HoldsWhatWas(snap, read) /\ snap'.writer = snap.writer
    BY <1>2, <1>4, <1>10
  <2> DEFINE was == snap.asOf[1]
  <2>2. /\ snap'.asOf = snap.asOf
        /\ was = users /\ snap.asOf[2] = projects /\ snap.asOf[3] = tasks /\ snap.asOf[4] = mail
    BY <2>1
  <2>3. /\ "users" \in read \cup {t} => snap'.users = [u \in DOMAIN was |->
              [email |-> was[u].email, password |-> was[u].password,
               config |-> IF snap'.writer = "worker" THEN "default" ELSE was[u].config]]
    BY <1>4, <1>5, <1>7, <2>1, <2>2, ReadRows DEF HoldsWhatWas
  <2>4. "roles" \in read \cup {t} =>
              snap'.roles = [u \in {v \in DOMAIN was : was[v].role # "none"} |-> was[u].role]
    <3>1. CASE t = "roles"
      <4>1. snap'.roles = Rows("roles")
        BY <1>4, <3>1
      <4>2. Rows("roles") = [u \in {v \in DOMAIN users : users[v].role # "none"} |-> users[u].role]
        BY <1>7, ReadRows
      <4> QED
        BY <2>2, <4>1, <4>2
    <3>2. CASE "roles" \in read
      <4>1. snap'.roles = snap.roles
        BY <1>5, <3>2
      <4> QED
        BY <2>1, <3>2, <4>1 DEF HoldsWhatWas
    <3> QED
      BY <3>1, <3>2
  <2>5. /\ "projects" \in read \cup {t} => snap'.projects = snap.asOf[2]
        /\ "tasks" \in read \cup {t} => snap'.tasks = snap.asOf[3]
        /\ "mail" \in read \cup {t} => snap'.mail = snap.asOf[4]
    BY <1>4, <1>5, <1>7, <2>1, <2>2, ReadRows DEF HoldsWhatWas
  <2> QED
    BY <2>1, <2>2, <2>3, <2>4, <2>5 DEF HoldsWhatWas
<1>11. /\ snap'.quiet => HoldsWhatWas(snap', Table \ snap'.unread)
       /\ HoldsRows(snap', Table \ snap'.unread, next')
       /\ {"unread", "quiet", "asOf", "writer"} \cup (Table \ snap'.unread) \subseteq DOMAIN snap'
  BY <1>1, <1>2, <1>4, <1>6, <1>9, <1>10
<1> QED
  BY <1>1, <1>2, <1>10, <1>11 DEF SnapInv

LEMMA FullRestoreKeeps ==
    ASSUME DatabaseInv, TablesOK, ApplyFullRestore
    PROVE  TablesOK' /\ IdsGoOn
<1>1. /\ file # None /\ Consistent(file)
      /\ users' = RestoredUsers(file) /\ projects' = file.projects /\ tasks' = file.tasks
      /\ todos' = {} /\ next' = next
  BY DEF ApplyFullRestore, Restores, RestoredProjects, RestoredTasks
<1>2. HoldsRows(file, Table, next)
  BY <1>1 DEF DatabaseInv, FileInv
<1>3. /\ HasRows(file.users, Account) /\ EmailsDiffer(file.users) /\ Older(file.users, next.users)
      /\ file.roles \in [DOMAIN file.roles -> Role]
      /\ HasRows(file.projects, ProjectRow) /\ SourcesDiffer(file.projects)
      /\ Older(file.projects, next.projects)
      /\ HasRows(file.tasks, TaskRow) /\ SourcesDiffer(file.tasks) /\ Older(file.tasks, next.tasks)
  BY <1>2 DEF HoldsRows, Table
<1>4. \A u \in DOMAIN file.users : UserOf(file, u) \in UserRow /\ UserOf(file, u).email = file.users[u].email
  <2> SUFFICES ASSUME NEW u \in DOMAIN file.users
               PROVE  UserOf(file, u) \in UserRow /\ UserOf(file, u).email = file.users[u].email
    OBVIOUS
  <2>1. RoleIn(file, u) \in Role
    BY <1>3 DEF RoleIn, Role
  <2> QED
    BY <1>3, <2>1 DEF UserOf, UserRow, Account, Role, HasRows
<1>5. /\ DOMAIN users' = DOMAIN file.users
      /\ \A u \in DOMAIN file.users : users'[u] = UserOf(file, u)
      /\ users' = [u \in DOMAIN users' |-> users'[u]]
  BY <1>1 DEF RestoredUsers
<1>6. HasRows(users', UserRow) /\ EmailsDiffer(users') /\ Older(users', next'.users)
  BY <1>1, <1>3, <1>4, <1>5 DEF HasRows, EmailsDiffer, Older
<1>7. RefersTo(DOMAIN users', projects', tasks')
  BY <1>1, <1>5 DEF Consistent
<1>8. IdsGoOn
  BY <1>1, NextStays DEF IdsGoOn
<1> QED
  BY <1>1, <1>3, <1>5, <1>6, <1>7, <1>8 DEF TablesOK, Schema, IdsAreNew

LEMMA ProjectRestoreStep ==
    ASSUME DatabaseInv, TablesOK, ApplyProjectRestore
    PROVE  /\ TablesOK' /\ IdsGoOn
           /\ SparesOtherProjects
<1>1. PICK order \in SetToSeqs(restore.selected) :
        LET s == ProjectsRestored(order)
        IN  /\ s.ok /\ s.next.projects <= MaxId + 1 /\ s.next.tasks <= MaxId + 1
            /\ projects' = s.projects /\ tasks' = s.tasks /\ next' = s.next
  BY DEF ApplyProjectRestore
<1> DEFINE s == ProjectsRestored(order)
<1>2. restore.scope = "projects" /\ users' = users /\ todos' = todos
  BY DEF ApplyProjectRestore
<1>3. Midway(s)
  BY <1>2, ProjectsAreRestored
<1>4. /\ s.ok /\ s.next.projects <= MaxId + 1 /\ s.next.tasks <= MaxId + 1
      /\ projects' = s.projects /\ tasks' = s.tasks /\ next' = s.next
  BY <1>1
<1> HIDE DEF s
<1>5. /\ next' \in [{"users", "projects", "tasks"} -> Nat] /\ next'.users = next.users
      /\ next.projects <= next'.projects /\ next.tasks <= next'.tasks
      /\ DOMAIN projects' \subseteq Nat \ {0} /\ projects' \in [DOMAIN projects' -> ProjectRow]
      /\ DOMAIN tasks' \subseteq Nat \ {0} /\ tasks' \in [DOMAIN tasks' -> LoopTask]
      /\ SourcesDiffer(projects') /\ SourcesDiffer(tasks')
      /\ RefersTo(DOMAIN users, projects', tasks')
      /\ Older(projects', next'.projects) /\ Older(tasks', next'.tasks)
      /\ \A q \in DOMAIN projects : Kept(s, q) \/ IsReplaced(q)
      /\ next'.projects <= MaxId + 1 /\ next'.tasks <= MaxId + 1
  BY <1>3, <1>4 DEF Midway
<1>6. SparesOtherProjects
  BY <1>4, <1>5 DEF SparesOtherProjects, Kept, IsReplaced
<1>7. next \in [{"users", "projects", "tasks"} -> 1..(MaxId + 1)]
  BY DEF TablesOK
<1>8. /\ next'.users \in 1..(MaxId + 1) /\ next'.projects \in 1..(MaxId + 1)
      /\ next'.tasks \in 1..(MaxId + 1)
  BY <1>5, <1>7, DatabaseAssumption
<1>9. next' \in [{"users", "projects", "tasks"} -> 1..(MaxId + 1)]
  BY <1>5, <1>8
<1>10. HasRows(projects', ProjectRow)
  BY <1>5, <1>8, DatabaseAssumption DEF HasRows, Older, Id
<1>11. HasRows(tasks', TaskRow)
  <2>1. DOMAIN tasks' \subseteq Id
    BY <1>5, <1>8, DatabaseAssumption DEF Older, Id
  <2>2. ASSUME NEW t \in DOMAIN tasks' PROVE tasks'[t] \in TaskRow
    <3>1. tasks'[t] \in LoopTask /\ tasks'[t].project \in Id
      BY <1>5, <1>10 DEF RefersTo, HasRows
    <3> QED
      BY <3>1 DEF LoopTask, TaskRow
  <2> QED
    BY <1>5, <2>1, <2>2 DEF HasRows
<1>12. IdsGoOn
  BY <1>5, <1>7, IdsAreNat DEF IdsGoOn
<1> QED
  BY <1>2, <1>5, <1>6, <1>9, <1>10, <1>11, <1>12 DEF TablesOK, Schema, IdsAreNew

LEMMA UserRestoreStep ==
    ASSUME DatabaseInv, TablesOK, ApplyUserRestore
    PROVE  /\ TablesOK' /\ IdsGoOn
           /\ SparesOtherUsers
<1>1. PICK order \in SetToSeqs(restore.selected) :
        UsersRestored(order).ok /\ users' = UsersRestored(order).users
  BY DEF ApplyUserRestore
<1> DEFINE s == UsersRestored(order)
<1>2. restore.scope = "users" /\ UNCHANGED <<projects, tasks, todos, next>>
  BY DEF ApplyUserRestore
<1>3. MidwayOfUsers(s)
  BY <1>2, UsersAreRestored
<1>4. s.ok /\ users' = s.users
  BY <1>1
<1> HIDE DEF s
<1>5. /\ HasRows(users', UserRow) /\ EmailsDiffer(users') /\ Older(users', next.users)
      /\ DOMAIN users \subseteq DOMAIN users'
      /\ \A v \in DOMAIN users : users'[v] = users[v] \/ IsSelected(v)
  BY <1>3, <1>4 DEF MidwayOfUsers
<1>6. SparesOtherUsers
  BY <1>5 DEF SparesOtherUsers, IsSelected
<1>7. RefersTo(DOMAIN users', projects', tasks')
  BY <1>2, <1>5 DEF TablesOK, Schema, RefersTo
<1>8. IdsGoOn
  BY <1>2, NextStays DEF IdsGoOn
<1> QED
  BY <1>2, <1>5, <1>6, <1>7, <1>8 DEF TablesOK, Schema, IdsAreNew

-----------------------------------------------------------------------------
(* The invariant.                                                            *)

LEMMA DatabaseInit == DbInit => DatabaseInv
<1> SUFFICES ASSUME DbInit PROVE DatabaseInv
  OBVIOUS
<1>1. Schema(users, projects, tasks) /\ snap = None /\ file = None /\ restore = NoRestore
      /\ users = FirstUsers /\ projects = FirstProjects /\ tasks = FirstTasks
      /\ todos = {} /\ mail \in Status /\ sending = FALSE /\ changes = 0 /\ restores = 0
  BY DatabaseAssumption DEF DbInit, Status
<1>2. ASSUME NEW table \in {FirstUsers, FirstProjects, FirstTasks}
      PROVE  /\ Cardinality(DOMAIN table) + 1 \in 1..(MaxId + 1)
             /\ Older(table, Cardinality(DOMAIN table) + 1)
  <2>1. DOMAIN table \subseteq Id /\ DOMAIN table = 1..Cardinality(DOMAIN table)
    BY DatabaseAssumption DEF Schema, HasRows
  <2>2. IsFiniteSet(Id) /\ Cardinality(Id) = MaxId
    BY DatabaseAssumption, FS_Interval DEF Id
  <2>3. Cardinality(DOMAIN table) \in Nat /\ Cardinality(DOMAIN table) <= MaxId
    <3>1. DOMAIN table \in SUBSET Id
      BY <2>1
    <3> QED
      BY <2>2, <3>1, FS_Subset, FS_CardinalityType
  <2> QED
    BY <2>1, <2>3, DatabaseAssumption DEF Older
<1>3. next \in [{"users", "projects", "tasks"} -> 1..(MaxId + 1)] /\ IdsAreNew
  <2>1. next = [users |-> Cardinality(DOMAIN FirstUsers) + 1,
                projects |-> Cardinality(DOMAIN FirstProjects) + 1,
                tasks |-> Cardinality(DOMAIN FirstTasks) + 1]
    BY DEF DbInit
  <2>2. /\ next.users \in 1..(MaxId + 1) /\ next.projects \in 1..(MaxId + 1)
        /\ next.tasks \in 1..(MaxId + 1)
        /\ Older(FirstUsers, next.users) /\ Older(FirstProjects, next.projects)
        /\ Older(FirstTasks, next.tasks)
    BY <1>2, <2>1
  <2> QED
    BY <1>1, <2>1, <2>2 DEF IdsAreNew
<1>4. sending \in BOOLEAN
  BY <1>1
<1>5. changes \in 0..MaxChanges /\ restores \in 0..MaxRestores
  BY <1>1, DatabaseAssumption
<1>6. SnapInv /\ FileInv /\ RestoreInv
  BY <1>1 DEF SnapInv, FileInv, RestoreInv
<1> QED
  BY <1>1, <1>3, <1>4, <1>5, <1>6 DEF DatabaseInv, DbTypeOK

LEMMA TablesStay ==
    ASSUME DatabaseInv, UNCHANGED tables
    PROVE  /\ TablesOK /\ TablesOK' /\ Onward
           /\ UNCHANGED <<users, projects, tasks, todos, next>>
<1>1. TablesOK
  BY DEF DatabaseInv, DbTypeOK, TablesOK
<1>2. UNCHANGED <<users, projects, tasks, todos, next>>
  BY DEF tables
<1>3. TablesOK'
  BY <1>1, <1>2 DEF TablesOK, Schema, IdsAreNew, RefersTo
<1>4. Onward
  BY <1>1, <1>2, NextStays DEF Onward, IdsGoOn
<1> QED
  BY <1>1, <1>2, <1>3, <1>4

LEMMA BackupStays ==
    ASSUME DatabaseInv, UNCHANGED <<tables, file>>
    PROVE  /\ FileInv'
           /\ snap' = snap /\ mail' = mail => SnapInv'
<1>1. UNCHANGED <<users, projects, tasks, next>>
  BY TablesStay
<1>2. FileInv'
  <2> SUFFICES ASSUME file # None PROVE FileInv'
    BY DEF FileInv
  <2> QED
    BY <1>1 DEF DatabaseInv, FileInv, HoldsRows, HoldsWhatWas
<1>3. ASSUME snap' = snap, mail' = mail
      PROVE  SnapInv'
  <2> SUFFICES ASSUME snap # None PROVE SnapInv'
    BY <1>3 DEF SnapInv
  <2> QED
    BY <1>1, <1>3 DEF DatabaseInv, SnapInv, HoldsRows, HoldsWhatWas
<1> QED
  BY <1>2, <1>3

LEMMA RestoreStays ==
    ASSUME RestoreInv, Onward, UNCHANGED <<file, restore>>, TablesOK, TablesOK'
    PROVE  RestoreInv'
<1> SUFFICES ASSUME restore # NoRestore PROVE RestoreInv'
  BY DEF RestoreInv
<1>1. /\ file # None
      /\ \/ restore.scope = "projects" /\ restore.selected \subseteq DOMAIN file.projects
         \/ restore.scope = "users" /\ restore.selected \subseteq DOMAIN file.users
      /\ HasRows(restore.users, UserRow) /\ HasRows(restore.projects, ProjectRow)
      /\ Older(restore.users, next.users) /\ Older(restore.projects, next.projects)
      /\ \A q \in DOMAIN restore.projects \cap DOMAIN projects :
            restore.projects[q].source = projects[q].source
  BY DEF RestoreInv
<1>2. /\ next.users \in Nat /\ next.projects \in Nat /\ next'.users \in Nat /\ next'.projects \in Nat
      /\ next.users <= next'.users /\ next.projects <= next'.projects
  BY DatabaseAssumption DEF TablesOK, Onward, IdsGoOn
<1>3. Older(restore.users, next'.users) /\ Older(restore.projects, next'.projects)
  BY <1>1, <1>2, StaysOlder
<1>4. ASSUME NEW q \in DOMAIN restore.projects \cap DOMAIN projects'
      PROVE  restore.projects[q].source = projects'[q].source
  <2>1. q \in Nat /\ q < next.projects
    BY <1>1, <1>4, DatabaseAssumption DEF HasRows, Older, Id
  <2>2. ~ (next.projects <= q)
    BY <1>2, <2>1
  <2>3. q \in DOMAIN projects /\ projects'[q].source = projects[q].source
    BY <1>4, <2>2 DEF Onward
  <2> QED
    BY <1>1, <1>4, <2>3
<1> QED
  BY <1>1, <1>3, <1>4 DEF RestoreInv

LEMMA WorkspaceFrame ==
    ASSUME Workspace, mail \in Status, changes \in 0..MaxChanges
    PROVE  /\ Moves /\ UNCHANGED <<sending, mailed, requeued, file, restore, restores>>
           /\ changes' \in 0..MaxChanges /\ mail' \in Status
           /\ mail' = mail \/ PostEvent
<1>1. Change
  BY DEF Workspace, CreateAccount, UpdateAccount, UpdateUserConfig, DeleteAccount, CreateProject,
     CreateTask, MoveTask, ResetWorkspace, CreateTodo, PostEvent
<1>2. mail' = mail \/ PostEvent
  BY DEF Workspace, CreateAccount, UpdateAccount, UpdateUserConfig, DeleteAccount, CreateProject,
     CreateTask, MoveTask, ResetWorkspace, CreateTodo
<1>3. PostEvent => mail' = "queued"
  BY DEF PostEvent
<1>4. changes' \in 0..MaxChanges
  BY <1>1, DatabaseAssumption DEF Change
<1> QED
  BY <1>1, <1>2, <1>3, <1>4 DEF Change, Status

LEMMA BeginRestoreStep ==
    ASSUME DatabaseInv, NEW scope \in {"projects", "users"}, NEW selected, NEW replaced,
           BeginRestore(scope, selected, replaced),
           \/ scope = "projects" /\ selected \subseteq DOMAIN file.projects
           \/ scope = "users" /\ selected \subseteq DOMAIN file.users
    PROVE  RestoreInv'
<1>1. /\ restore' = [scope |-> scope, selected |-> selected, replaced |-> replaced,
                     users |-> users, projects |-> projects]
      /\ UNCHANGED <<tables, file>> /\ file # None
  BY DEF BeginRestore, Restores
<1>2. UNCHANGED <<users, projects, next>>
  BY <1>1, TablesStay
<1>3. /\ restore'.scope = scope /\ restore'.selected = selected
      /\ restore'.users = users /\ restore'.projects = projects
  BY <1>1
<1>4. /\ HasRows(users, UserRow) /\ HasRows(projects, ProjectRow)
      /\ Older(users, next.users) /\ Older(projects, next.projects)
  BY DEF DatabaseInv, DbTypeOK, Schema, IdsAreNew
<1> QED
  BY <1>1, <1>2, <1>3, <1>4 DEF RestoreInv

LEMMA DatabaseStep == DatabaseInv /\ [DbNext]_dbVars => DatabaseInv'
<1> SUFFICES ASSUME DatabaseInv, [DbNext]_dbVars PROVE DatabaseInv'
  OBVIOUS
<1>0. /\ TablesOK /\ SnapInv /\ FileInv /\ RestoreInv
      /\ mail \in Status /\ sending \in BOOLEAN
      /\ changes \in 0..MaxChanges /\ restores \in 0..MaxRestores
      /\ next \in [{"users", "projects", "tasks"} -> 1..(MaxId + 1)]
  BY DEF DatabaseInv, DbTypeOK, TablesOK
<1> DEFINE Rest == /\ mail' \in Status /\ sending' \in BOOLEAN
                   /\ changes' \in 0..MaxChanges /\ restores' \in 0..MaxRestores
<1>a. ASSUME TablesOK', Rest, SnapInv', FileInv', RestoreInv'
      PROVE  DatabaseInv'
  BY <1>a DEF DatabaseInv, DbTypeOK, TablesOK
<1>b. ASSUME Restores("full") \/ Restores("projects") \/ Restores("users")
      PROVE  restores' \in 0..MaxRestores
  BY <1>0, <1>b, DatabaseAssumption DEF Restores
<1> HIDE DEF Rest
<1>1. CASE UNCHANGED dbVars
  <2>1. UNCHANGED <<tables, outbox, snap, file, restore, changes, restores, mail, sending>>
    BY <1>1 DEF dbVars, outbox
  <2> QED
    BY <1>0, <1>a, <2>1, TablesStay, BackupStays, RestoreStays DEF Rest
<1>2. CASE Workspace
  <2>1. TablesOK' /\ Onward
    BY <1>0, <1>2, WorkspaceStep
  <2>2. /\ Moves /\ UNCHANGED <<sending, file, restore, restores>>
        /\ changes' \in 0..MaxChanges /\ mail' \in Status
    BY <1>0, <1>2, WorkspaceFrame
  <2>3. SnapInv' /\ FileInv'
    BY <1>0, <2>1, <2>2, Outdated DEF TablesOK, Onward
  <2>4. RestoreInv'
    BY <1>0, <2>1, <2>2, RestoreStays
  <2> QED
    BY <1>0, <1>a, <2>1, <2>2, <2>3, <2>4 DEF Rest
<1>3. CASE ClaimEvent \/ DeliverEvent
  <2>1. /\ Moves /\ UNCHANGED <<tables, file, restore, changes, restores>>
        /\ sending' \in BOOLEAN /\ mail' \in Status
    BY <1>3 DEF ClaimEvent, DeliverEvent, Status
  <2>2. TablesOK' /\ Onward
    BY <2>1, TablesStay
  <2>3. SnapInv' /\ FileInv'
    BY <1>0, <2>1, <2>2, Outdated DEF TablesOK, Onward
  <2>4. RestoreInv'
    BY <1>0, <2>1, <2>2, RestoreStays
  <2> QED
    BY <1>0, <1>a, <2>1, <2>2, <2>3, <2>4 DEF Rest
<1>4. ASSUME NEW writer \in {"api", "worker"}, BeginSnapshot(writer)
      PROVE  DatabaseInv'
  <2>1. /\ UNCHANGED <<tables, outbox, file, restore, changes, restores, mail, sending>>
        /\ file = None
        /\ snap' = [unread |-> Table, writer |-> writer, quiet |-> TRUE,
                    asOf |-> <<users, projects, tasks, mail>>]
    BY <1>4 DEF BeginSnapshot, outbox
  <2>2. /\ TablesOK' /\ Onward /\ FileInv' /\ RestoreInv'
        /\ UNCHANGED <<users, projects, tasks>>
    BY <1>0, <2>1, TablesStay, BackupStays, RestoreStays
  <2>3. /\ snap'.unread = Table /\ snap'.asOf = <<users, projects, tasks, mail>>
        /\ DOMAIN snap' = {"unread", "writer", "quiet", "asOf"}
    BY <2>1
  <2>4. HoldsRows(snap', {}, next') /\ Table \ snap'.unread = {}
    BY <2>3 DEF HoldsRows
  <2>5. HoldsWhatWas(snap', {})
    BY <1>0, <2>3 DEF HoldsWhatWas, TablesOK
  <2>6. SnapInv'
    BY <2>1, <2>2, <2>3, <2>4, <2>5 DEF SnapInv
  <2> QED
    BY <1>0, <1>a, <2>1, <2>2, <2>6 DEF Rest
<1>5. ASSUME NEW t \in Table, ReadTable(t)
      PROVE  DatabaseInv'
  <2>1. UNCHANGED <<tables, outbox, file, restore, changes, restores, mail, sending>>
    BY <1>5 DEF ReadTable, outbox
  <2>2. TablesOK' /\ Onward /\ FileInv' /\ RestoreInv' /\ SnapInv'
    BY <1>0, <1>5, <2>1, TablesStay, BackupStays, RestoreStays, ReadStep
  <2> QED
    BY <1>0, <1>a, <2>1, <2>2 DEF Rest
<1>6. CASE StoreSnapshot
  <2>1. /\ UNCHANGED <<tables, outbox, restore, changes, restores, mail, sending>>
        /\ snap # None /\ snap.unread = {} /\ file' = snap /\ snap' = None
    BY <1>6 DEF StoreSnapshot, outbox
  <2>2. TablesOK' /\ UNCHANGED next
    BY <2>1, TablesStay
  <2>3. SnapInv'
    BY <2>1 DEF SnapInv
  <2>4. /\ file = None /\ HoldsRows(snap, Table \ {}, next)
        /\ snap.quiet => HoldsWhatWas(snap, Table \ {})
    BY <1>0, <2>1 DEF SnapInv
  <2>5. Table \ {} = Table
    OBVIOUS
  <2>6. FileInv'
    BY <2>1, <2>2, <2>4, <2>5 DEF FileInv
  <2>7. RestoreInv'
    BY <1>0, <2>1, <2>4 DEF RestoreInv
  <2> QED
    BY <1>0, <1>a, <2>1, <2>2, <2>3, <2>6, <2>7 DEF Rest
<1>7. CASE ApplyFullRestore
  <2>1. TablesOK' /\ IdsGoOn
    BY <1>0, <1>7, FullRestoreKeeps
  <2>2. /\ Moves /\ UNCHANGED <<sending, file, restore, changes>>
        /\ mail' = file.mail /\ file # None /\ restore = NoRestore /\ Restores("full")
    BY <1>7 DEF ApplyFullRestore, Restores
  <2>3. SnapInv' /\ FileInv'
    BY <1>0, <2>1, <2>2, Outdated DEF TablesOK
  <2>4. RestoreInv'
    BY <2>2 DEF RestoreInv
  <2>5. mail' \in Status
    BY <1>0, <2>2 DEF FileInv, HoldsRows, Table
  <2> QED
    BY <1>0, <1>a, <1>b, <2>1, <2>2, <2>3, <2>4, <2>5 DEF Rest
<1>8. CASE RefuseFullRestore
  <2>1. /\ UNCHANGED <<tables, outbox, snap, file, restore, changes, mail, sending>>
        /\ Restores("full")
    BY <1>8 DEF RefuseFullRestore, outbox
  <2> QED
    BY <1>0, <1>a, <1>b, <2>1, TablesStay, BackupStays, RestoreStays DEF Rest
<1>9. CASE BeginProjectRestore \/ BeginUserRestore
  <2>1. PICK scope, selected, replaced :
          /\ scope \in {"projects", "users"}
          /\ BeginRestore(scope, selected, replaced)
          /\ \/ scope = "projects" /\ selected \subseteq DOMAIN file.projects
             \/ scope = "users" /\ selected \subseteq DOMAIN file.users
    BY <1>9 DEF BeginProjectRestore, BeginUserRestore
  <2>2. RestoreInv'
    BY <2>1, BeginRestoreStep
  <2>3. /\ UNCHANGED <<tables, outbox, snap, file, changes, mail, sending>> /\ Restores(scope)
    BY <2>1 DEF BeginRestore, outbox
  <2>4. TablesOK' /\ SnapInv' /\ FileInv'
    BY <2>3, TablesStay, BackupStays
  <2>5. restores' \in 0..MaxRestores
    BY <1>b, <2>1, <2>3
  <2> QED
    BY <1>0, <1>a, <2>2, <2>3, <2>4, <2>5 DEF Rest
<1>10. CASE ApplyProjectRestore \/ ApplyUserRestore
  <2>1. TablesOK' /\ IdsGoOn
    BY <1>0, <1>10, ProjectRestoreStep, UserRestoreStep
  <2>2. /\ Moves /\ UNCHANGED <<outbox, mail, sending, file, changes, restores>>
        /\ restore' = NoRestore
    BY <1>10 DEF ApplyProjectRestore, ApplyUserRestore, outbox
  <2>3. SnapInv' /\ FileInv'
    BY <1>0, <2>1, <2>2, Outdated DEF TablesOK
  <2>4. RestoreInv'
    BY <2>2 DEF RestoreInv
  <2> QED
    BY <1>0, <1>a, <2>1, <2>2, <2>3, <2>4 DEF Rest
<1>11. CASE AbortRestore
  <2>1. /\ UNCHANGED <<tables, outbox, snap, file, changes, restores, mail, sending>>
        /\ restore' = NoRestore
    BY <1>11 DEF AbortRestore, outbox
  <2>2. TablesOK' /\ SnapInv' /\ FileInv' /\ RestoreInv'
    BY <2>1, TablesStay, BackupStays DEF RestoreInv
  <2> QED
    BY <1>0, <1>a, <2>1, <2>2 DEF Rest
<1> QED
  BY <1>1, <1>2, <1>3, <1>4, <1>5, <1>6, <1>7, <1>8, <1>9, <1>10, <1>11 DEF DbNext

(* Ids, rows, unique columns and foreign keys are as the schema demands,     *)
(* whatever is changed, backed up and restored, and so is every row a backup *)
(* holds (the tables of schema.prisma).                                      *)
THEOREM DatabaseIsSound == DbSpec => []DbTypeOK
<1>1. DatabaseInv => DbTypeOK
  BY DEF DatabaseInv
<1> QED
  BY <1>1, DatabaseInit, DatabaseStep, PTL DEF DbSpec

-----------------------------------------------------------------------------
(* What restores promise.                                                    *)

(* A backup during which nothing changed is restored by a full restore, and  *)
(* then users, roles, projects, tasks and the outbox are what they were, be  *)
(* it after whatever changes and other restores (applyFullRestore).          *)
THEOREM QuietBackups == DbSpec => QuietBackupRestores
<1>1. ASSUME DatabaseInv, [DbNext]_dbVars, FullRestoreStep, file.quiet
      PROVE  <<Comparable(file.asOf[1], file.writer), file.asOf[2], file.asOf[3], file.asOf[4]>>
                = <<users', projects', tasks', mail'>>
  <2>1. Restores("full") /\ (ApplyFullRestore \/ RefuseFullRestore)
    <3>1. restore = NoRestore /\ restore' = NoRestore /\ restores' # restores
      BY <1>1 DEF FullRestoreStep
    <3>2. ~ Workspace
      BY <1>1, <3>1, WorkspaceFrame DEF DatabaseInv, DbTypeOK
    <3>3. ~ BeginProjectRestore /\ ~ BeginUserRestore
      BY <3>1 DEF BeginProjectRestore, BeginUserRestore, BeginRestore, NoRestore
    <3>4. ApplyFullRestore \/ RefuseFullRestore
      BY <1>1, <3>1, <3>2, <3>3 DEF DbNext, dbVars, ClaimEvent, DeliverEvent, BeginSnapshot, ReadTable,
         StoreSnapshot, ApplyProjectRestore, ApplyUserRestore, AbortRestore
    <3> QED
      BY <3>4 DEF ApplyFullRestore, RefuseFullRestore
  <2> DEFINE was == file.asOf[1]
  <2>2. /\ Schema(file.asOf[1], file.asOf[2], file.asOf[3])
        /\ file.users = [u \in DOMAIN was |->
              [email |-> was[u].email, password |-> was[u].password,
               config |-> IF file.writer = "worker" THEN "default" ELSE was[u].config]]
        /\ file.roles = [u \in {v \in DOMAIN was : was[v].role # "none"} |-> was[u].role]
        /\ file.projects = file.asOf[2] /\ file.tasks = file.asOf[3] /\ file.mail = file.asOf[4]
    BY <1>1, <2>1 DEF Restores, DatabaseInv, FileInv, HoldsWhatWas, Table
  <2> HIDE DEF was
  <2>3. was = file.asOf[1]
    BY DEF was
  <2>4. DOMAIN file.users = DOMAIN was /\ DOMAIN file.roles \subseteq DOMAIN was
    BY <2>2
  <2>5. Consistent(file)
    BY <2>2, <2>3, <2>4 DEF Consistent, Schema
  <2>6. ApplyFullRestore
    BY <2>1, <2>5 DEF RefuseFullRestore
  <2>7. /\ users' = RestoredUsers(file) /\ projects' = file.projects /\ tasks' = file.tasks
        /\ mail' = file.mail
    BY <2>6 DEF ApplyFullRestore, RestoredProjects, RestoredTasks
  <2>8. ASSUME NEW u \in DOMAIN was
        PROVE  UserOf(file, u) = IF file.writer = "worker" THEN [was[u] EXCEPT !.config = "default"]
                                 ELSE was[u]
    <3>1. was[u] \in UserRow
      BY <2>2, <2>3 DEF Schema, HasRows
    <3>2. RoleIn(file, u) = was[u].role
      BY <2>2 DEF RoleIn
    <3>3. UserOf(file, u) = [email |-> was[u].email, role |-> was[u].role, password |-> was[u].password,
                             config |-> IF file.writer = "worker" THEN "default" ELSE was[u].config]
      BY <2>2, <3>2 DEF UserOf
    <3> QED
      BY <3>1, <3>3 DEF UserRow
  <2>9. RestoredUsers(file) = Comparable(was, file.writer)
    BY <2>4, <2>8 DEF RestoredUsers, Comparable
  <2> QED
    BY <2>2, <2>3, <2>7, <2>9
<1>2. DatabaseInv /\ [DbNext]_dbVars =>
        [FullRestoreStep /\ file.quiet =>
            <<Comparable(file.asOf[1], file.writer), file.asOf[2], file.asOf[3], file.asOf[4]>>
                = <<users', projects', tasks', mail'>>]_dbVars
  BY <1>1
<1> QED
  BY <1>2, DatabaseInit, DatabaseStep, PTL DEF DbSpec, QuietBackupRestores

(* A restore of projects touches only projects that were selected, by id or  *)
(* by source, and a restore of users only accounts that have or had the id   *)
(* or the e-mail of a selected user, although both decide from what they     *)
(* read before their transactions (applyProjectRestore, applyUserRestore).   *)
THEOREM PartialRestores == DbSpec => PartialRestoresSpareOthers
<1>1. ASSUME DatabaseInv, [DbNext]_dbVars, restore' = NoRestore
      PROVE  /\ restore.scope = "projects" => SparesOtherProjects
             /\ restore.scope = "users" => SparesOtherUsers
  <2>0. TablesOK
    BY <1>1 DEF DatabaseInv, DbTypeOK, TablesOK
  <2>1. SUFFICES ASSUME restore.scope \in {"projects", "users"}
                 PROVE  /\ restore.scope = "projects" => SparesOtherProjects
                        /\ restore.scope = "users" => SparesOtherUsers
    OBVIOUS
  <2>2. restore # NoRestore
    BY <2>1 DEF NoRestore
  <2>3. ApplyProjectRestore \/ ApplyUserRestore \/ AbortRestore
    <3>1. ~ Workspace
      BY <1>1, <2>2, WorkspaceFrame DEF DatabaseInv, DbTypeOK
    <3> QED
      BY <1>1, <2>2, <3>1 DEF DbNext, dbVars, ClaimEvent, DeliverEvent, BeginSnapshot, ReadTable, StoreSnapshot,
         ApplyFullRestore, RefuseFullRestore, Restores, BeginProjectRestore, BeginUserRestore, BeginRestore
  <2>4. CASE ApplyProjectRestore
    <3>1. restore.scope = "projects"
      BY <2>4 DEF ApplyProjectRestore
    <3> QED
      BY <1>1, <2>0, <2>4, <3>1, ProjectRestoreStep
  <2>5. CASE ApplyUserRestore
    <3>1. restore.scope = "users"
      BY <2>5 DEF ApplyUserRestore
    <3> QED
      BY <1>1, <2>0, <2>5, <3>1, UserRestoreStep
  <2>6. CASE AbortRestore
    <3>1. UNCHANGED <<users, projects, tasks>>
      BY <2>6 DEF AbortRestore, tables
    <3> QED
      BY <3>1 DEF SparesOtherProjects, SparesOtherUsers
  <2> QED
    BY <2>3, <2>4, <2>5, <2>6
<1>2. DatabaseInv /\ [DbNext]_dbVars =>
        [restore' = NoRestore => /\ restore.scope = "projects" => SparesOtherProjects
                                 /\ restore.scope = "users" => SparesOtherUsers]_dbVars
  BY <1>1
<1> QED
  BY <1>2, DatabaseInit, DatabaseStep, PTL DEF DbSpec, PartialRestoresSpareOthers

-----------------------------------------------------------------------------
(* What a restore does to the outbox.                                        *)

\* Of the one event: every mailing, the one that is under way and the one that
\* waits go back to its posting or to a restore that put it into the queue.
Asked == mailed + (IF sending THEN 1 ELSE 0) + (IF mail = "queued" THEN 1 ELSE 0)

MailedInv ==
    /\ mailed \in Nat /\ requeued \in Nat /\ sending \in BOOLEAN
    /\ Asked <= 1 + requeued

LEMMA AskedOnce == MailedInv /\ [DbNext]_dbVars => MailedInv'
<1> SUFFICES ASSUME MailedInv, [DbNext]_dbVars PROVE MailedInv'
  OBVIOUS
<1>1. CASE UNCHANGED outbox
  BY <1>1 DEF MailedInv, Asked, outbox
<1>2. CASE Workspace
  <2>1. UNCHANGED <<sending, mailed, requeued>>
    BY <1>2 DEF Workspace, Change, CreateAccount, UpdateAccount, UpdateUserConfig,
       DeleteAccount, CreateProject, CreateTask, MoveTask, ResetWorkspace, CreateTodo,
       PostEvent
  <2>2. mail' = mail \/ PostEvent
    BY <1>2 DEF Workspace, CreateAccount, UpdateAccount, UpdateUserConfig,
       DeleteAccount, CreateProject, CreateTask, MoveTask, ResetWorkspace, CreateTodo
  <2>3. CASE PostEvent
    BY <2>1, <2>3 DEF PostEvent, MailedInv, Asked
  <2> QED
    BY <2>1, <2>2, <2>3 DEF MailedInv, Asked
<1>3. CASE ClaimEvent
  BY <1>3 DEF ClaimEvent, MailedInv, Asked
<1>4. CASE DeliverEvent
  <2>1. /\ sending = TRUE /\ sending' = FALSE /\ mail' # "queued"
        /\ mailed' = mailed + 1 /\ requeued' = requeued
    BY <1>4 DEF DeliverEvent, MailedInv
  <2>2. Asked' = mailed + 1
    BY <2>1 DEF MailedInv, Asked
  <2>3. mailed + 1 <= Asked
    BY <2>1 DEF MailedInv, Asked
  <2>4. Asked \in Nat
    BY DEF MailedInv, Asked
  <2>5. sending' \in BOOLEAN
    BY <2>1
  <2>6. mailed' \in Nat /\ requeued' \in Nat /\ Asked' <= 1 + requeued'
    BY <2>1, <2>2, <2>3, <2>4 DEF MailedInv
  <2> QED
    BY <2>5, <2>6 DEF MailedInv
<1>5. CASE ApplyFullRestore
  BY <1>5 DEF ApplyFullRestore, MailedInv, Asked
<1>6. CASE \/ \E w \in {"api", "worker"} : BeginSnapshot(w)
           \/ \E t \in Table : ReadTable(t)
           \/ StoreSnapshot \/ RefuseFullRestore
  BY <1>1, <1>6 DEF BeginSnapshot, ReadTable, StoreSnapshot, RefuseFullRestore
<1>7. CASE BeginProjectRestore \/ BeginUserRestore
  BY <1>1, <1>7 DEF BeginProjectRestore, BeginUserRestore, BeginRestore
<1>8. CASE ApplyProjectRestore \/ ApplyUserRestore \/ AbortRestore
  BY <1>1, <1>8 DEF ApplyProjectRestore, ApplyUserRestore, AbortRestore
<1> QED
  BY <1>1, <1>2, <1>3, <1>4, <1>5, <1>6, <1>7, <1>8 DEF DbNext, dbVars

(* However restores, snapshots and deliveries cross, an event is mailed again  *)
(* only as often as a full restore has put it back into the queue after a    *)
(* worker claimed it (restoreFullBackup replaces the outbox).                *)
THEOREM MailedAgain == DbSpec => []MailedAgainOnlyByRestore
<1>1. DbInit => MailedInv
  <2> SUFFICES ASSUME DbInit PROVE MailedInv
    OBVIOUS
  <2>1. mail = "none" /\ sending = FALSE /\ mailed = 0 /\ requeued = 0
    BY DEF DbInit
  <2>2. Asked = 0
    BY <2>1 DEF Asked
  <2>3. sending \in BOOLEAN
    BY <2>1
  <2>4. mailed \in Nat /\ requeued \in Nat /\ Asked <= 1 + requeued
    BY <2>1, <2>2
  <2> QED
    BY <2>3, <2>4 DEF MailedInv
<1>2. MailedInv => MailedAgainOnlyByRestore
  BY DEF MailedInv, Asked, MailedAgainOnlyByRestore
<1> QED
  BY <1>1, <1>2, AskedOnce, PTL DEF DbSpec
=============================================================================
