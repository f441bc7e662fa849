------------------------ MODULE ImportPipeline_proofs ------------------------
(***************************************************************************)
(* What holds of every import pipeline, whatever the number of workers and *)
(* administrators, the imports and the file.                               *)
(***************************************************************************)
EXTENDS ImportPipeline, FiniteSetTheorems, WellFoundedInduction, TLAPS

(* The statuses a job can have once its rows were staged.                  *)
Staged == {"awaiting_review", "queued_commit", "committing", "completed", "failed"}
HasRows(j) == job[j].rows \in [RowNumber -> Row]

(* A job has its rows from the end of the parse until it is removed.       *)
RowsAreStaged ==
  \A j \in Job :
    /\ job[j].status \in {"awaiting_review", "queued_commit", "committing", "completed"} => HasRows(j)
    /\ job[j].status \in {"absent", "queued_parse", "parsing", "removed"} => job[j].rows = <<>>

(* A request that was checked, and one that came too late, is about a job  *)
(* that was reviewed.                                                      *)
WasReviewed(j) == job[j].status = "removed" \/ (job[j].status \in Staged /\ HasRows(j))
ChecksFit ==
  /\ \A a \in Admin : request[a] # Idle => WasReviewed(request[a].job)
  /\ \A j \in overtaken : WasReviewed(j)

(* The status of a job in the hands of a worker.                           *)
Commits(s) == s.at \in {"committing"} \cup RowStage
HolderFits(s) ==
  LET j == s.job IN
  /\ s.at = "parsing" => job[j].status \in {"parsing", "removed"}
  /\ s.at = "job_failed" => job[j].status \in {"parsing", "committing", "removed"} \/ j \in overtaken
  /\ Commits(s) => job[j].status \in {"committing", "removed"} \/ j \in overtaken
  /\ s.at \in RowStage => IF s.gone THEN job[j].status = "removed" \/ j \in overtaken
                                   ELSE job[j].status # "removed"
HoldersFit == \A w \in Worker : HolderFits(worker[w])

(* The ids a worker keeps are those of rows that exist, or were not stored.*)
CacheFits(cache, ids) == \A k \in DOMAIN cache : cache[k] \in ids \cup {Gone, None}
PlanFits(s) ==
  LET P == s.plan.project
      T == s.plan.task
      key == File[s.next].project
      cache == s.projectIdByKey
  IN /\ s.next \in RowNumber
     /\ P.id \in DOMAIN project \cup {New}
     /\ key \in DOMAIN cache => P.id = IF cache[key] = Gone THEN New ELSE cache[key]
     /\ T = None <=> File[s.next].task = None
     /\ T # None => T.id \in DOMAIN task \cup {New} /\ T.from \in DOMAIN project \cup {None}
     /\ T # None => (T.from = None <=> T.id = New)
MemoryFits(s) ==
  /\ s.at \in RowStage => /\ CacheFits(s.projectIdByKey, DOMAIN project)
                          /\ CacheFits(s.taskIdByKey, DOMAIN task)
  /\ s.at = "write" => PlanFits(s)
  /\ s.at = "row_failed" => s.next \in RowNumber
  /\ s.at = "recalculate" => s.next > Len(File) /\ s.touched # <<>>
PlansFit == \A w \in Worker : MemoryFits(worker[w])
TasksHaveProjects == \A t \in DOMAIN task : task[t].project \in DOMAIN project

(* Two workers hold one job only after a request came too late for it.      *)
OneHolder ==
  \A v, w \in Worker :
    HasJob(v) /\ HasJob(w) /\ worker[v].job = worker[w].job => v = w \/ worker[v].job \in overtaken

Base ==
  TypeOK /\ RowsAreStaged /\ ChecksFit /\ HoldersFit /\ OneHolder /\ PlansFit /\ TasksHaveProjects

(* What a job says of itself: nothing yet while it waits for its commit,   *)
(* what it made at any time, and of every row once it is completed.        *)
IsPending(row) == row.projectOutcome = "pending" /\ row.taskOutcome = "pending"
IsDone(row) == row.projectOutcome # "pending" /\ row.taskOutcome # "pending"
GroupsFit(rows) ==
  \A r, s \in RowNumber :
    /\ File[r].project = File[s].project
    /\ "failed" \notin {rows[r].projectOutcome, rows[s].projectOutcome}
    => rows[r].project = rows[s].project
JobFits(j) ==
  LET rows == job[j].rows IN
  /\ job[j].status \in {"awaiting_review", "queued_commit"} => \A r \in RowNumber : IsPending(rows[r])
  /\ job[j].status # "removed" => /\ Made(project, j) = CreatedProjects(rows)
                                  /\ Made(task, j) = CreatedTasks(rows)
  /\ job[j].status = "completed" => /\ \A r \in RowNumber : IsDone(rows[r])
                                    /\ GroupsFit(rows)
                                    /\ job[j].summary = Summary(rows)

(* While a worker commits a job: the rows it has behind it have outcomes,  *)
(* and where they did not fail the project it keeps for their key; the     *)
(* others are as they were staged.                                         *)
RowFits(row, cache, key) ==
  /\ IsDone(row)
  /\ row.projectOutcome # "failed" =>
       key \in DOMAIN cache /\ cache[key] = row.project /\ row.project \in DOMAIN project
Progress(s) ==
  \A r \in RowNumber :
    /\ r < s.next => RowFits(job[s.job].rows[r], s.projectIdByKey, File[r].project)
    /\ r >= s.next => IsPending(job[s.job].rows[r])
CommitFits(s) ==
  s.job \notin overtaken =>
    /\ s.at = "committing" /\ Exists(s.job) => \A r \in RowNumber : IsPending(job[s.job].rows[r])
    /\ s.at \in RowStage /\ ~s.gone => Progress(s)
Results ==
  /\ \A j \in Job \ overtaken : JobFits(j)
  /\ \A w \in Worker : Commits(worker[w]) => CommitFits(worker[w])

(* A total that is about to be written and is no longer right.             *)
RecalculationsFollow ==
  \A w \in Worker :
    LET p == Head(worker[w].touched) IN
    At(w, "recalculate") /\ worker[w].plan # Cardinality(TasksOf(p)) =>
      p \in exposed \/ \E v \in Worker \ {w} : p \in Owed(v)

----------------------------------------------------------------------------
(* The records of the model.                                               *)
LEMMA Rows ==
  /\ RowNumber # {} /\ RowNumber = 1 .. Len(File) /\ Len(File) \in Nat \ {0}
  /\ \A r \in RowNumber : /\ File[r].project \in Key /\ File[r].task \in Key \cup {None}
                          /\ File[r].valid \in BOOLEAN
<1>1. File \in Seq([project : Key, task : Key \cup {None}, valid : BOOLEAN])
  BY ImportAssumption
<1>2. RowNumber = 1 .. Len(File) /\ Len(File) \in Nat
  BY <1>1 DEF RowNumber
<1>3. \E r \in RowNumber : File[r].valid
  BY ImportAssumption
<1>4. \A r \in RowNumber : File[r] \in [project : Key, task : Key \cup {None}, valid : BOOLEAN]
  <2> DEFINE S == [project : Key, task : Key \cup {None}, valid : BOOLEAN]
  <2> HIDE DEF S
  <2>1. File \in Seq(S)
    BY <1>1 DEF S
  <2>2. \A r \in 1 .. Len(File) : File[r] \in S
    BY <2>1
  <2> QED BY <2>2, <1>2 DEF S
<1>5. RowNumber # {} /\ Len(File) # 0
  BY <1>2, <1>3
<1> QED BY <1>2, <1>4, <1>5

LEMMA Stages ==
  ASSUME NEW s, IsWorker(s)
  PROVE  /\ s.at \in {"idle", "no_parse", "found", "parsing", "committing", "job_failed",
                      "rows", "write", "row_failed", "recalculate"}
         /\ s.at \in {"idle", "no_parse"} => s = [at |-> s.at]
         /\ s.at = "found" => /\ s.job \in Job
                              /\ <<s.from, s.to>> \in {<<"queued_parse", "parsing">>,
                                                       <<"queued_commit", "committing">>}
         /\ s.at \in {"parsing", "committing", "job_failed"} =>
              s \in [at : {"parsing", "committing", "job_failed"}, job : Job]
         /\ s.at \in {"rows", "row_failed"} => IsCommit(s, {None})
         /\ s.at = "write" => IsCommit(s, RowPlans)
         /\ s.at = "recalculate" => IsCommit(s, Nat)
BY DEF IsWorker, IsCommit

(* What a worker in the middle of its rows remembers.                      *)
LEMMA CommitFields ==
  ASSUME NEW s, NEW plans, IsCommit(s, plans)
  PROVE  /\ s.at \in RowStage /\ s.job \in Job /\ s.next \in Nat \ {0} /\ s.touched \in Seq(Nat)
         /\ s.gone \in BOOLEAN /\ s.plan \in plans
         /\ s.actions \in [RowNumber -> [project : Action, task : Action]]
         /\ IsCache(s.projectIdByKey, Key) /\ IsCache(s.taskIdByKey, Key \X Id)
BY DEF IsCommit

LEMMA IdleIsWorker == IsWorker(Idle) /\ IsWorker([at |-> "no_parse"])
BY DEF IsWorker, Idle

LEMMA Held ==
  ASSUME TypeOK, NEW w \in Worker, HasJob(w) \/ At(w, "found")
  PROVE  worker[w].job \in Job
<1>1. IsWorker(worker[w])
  BY DEF TypeOK
<1> QED BY <1>1, Stages, CommitFields DEF HasJob, At

LEMMA Steps ==
  ASSUME TypeOK, NEW w \in Worker, NEW s, Go(w, s), IsWorker(s)
  PROVE  /\ DOMAIN worker' = Worker /\ \A v \in Worker : IsWorker(worker'[v])
         /\ worker'[w] = s /\ \A v \in Worker \ {w} : worker'[v] = worker[v]
BY DEF TypeOK, Go

LEMMA InitBase == Init => Base
<1> SUFFICES ASSUME Init PROVE Base
  OBVIOUS
<1> USE DEF Init
<1>1. TypeOK
  <2>1. NoJob("absent") \in JobState
    BY DEF NoJob, NoSummary, JobState, Status
  <2>2. IsWorker(Idle)
    BY IdleIsWorker
  <2>3. project \in Seq(ProjectRow) /\ task \in Seq(TaskRow)
    BY BeforeAssumption
  <2> QED BY <2>1, <2>2, <2>3 DEF TypeOK, RequestState
<1>2. RowsAreStaged /\ ChecksFit
  BY DEF RowsAreStaged, ChecksFit, NoJob
<1>3. HoldersFit /\ OneHolder
  BY DEF HoldersFit, HolderFits, OneHolder, Commits, RowStage, HasJob, At, Idle
<1>4. PlansFit
  BY DEF PlansFit, MemoryFits, RowStage, Idle
<1>5. TasksHaveProjects
  BY BeforeAssumption DEF TasksHaveProjects
<1> QED BY <1>1, <1>2, <1>3, <1>4, <1>5 DEF Base
----------------------------------------------------------------------------
(* The requests.                                                           *)
LEMMA Statuses == Staged \subseteq Status /\ "removed" \notin Staged
BY DEF Staged, Status

(* A step that leaves the tables as they are, and of the workers changes   *)
(* whether they know the ids of their rows.                                *)

LEMMA GoneIsWorker ==
  ASSUME NEW s, IsWorker(s), s.at \in RowStage
  PROVE  IsWorker([s EXCEPT !.gone = TRUE])
<1> DEFINE t == [s EXCEPT !.gone = TRUE]
<1>1. ASSUME NEW plans, IsCommit(s, plans) PROVE IsCommit(t, plans)
  BY <1>1 DEF IsCommit
<1>2. t.at = s.at
  BY Stages DEF IsCommit, RowStage
<1> QED BY <1>1, <1>2, Stages DEF IsWorker, RowStage

LEMMA StagingKeepsBase ==
  ASSUME Base, UNCHANGED <<project, task>>, TypeOK', RowsAreStaged', ChecksFit',
         overtaken \subseteq overtaken',
         \A w \in Worker :
           LET j == worker[w].job
           IN \/ worker'[w] = worker[w]
              \/ /\ worker[w].at \in RowStage
                 /\ worker'[w] = [worker[w] EXCEPT !.gone = TRUE]
                 /\ job'[j].status = "removed" \/ j \in overtaken',
         \A w \in Worker : HasJob(w) =>
           LET j == worker[w].job
           IN \/ job'[j].status = job[j].status
              \/ job'[j].status = "removed" /\ (worker[w].at \in RowStage => worker'[w].gone)
              \/ j \in overtaken' /\ job[j].status \in Staged /\ job'[j].status # "removed"
  PROVE  Base'
<1>1. \A w \in Worker : HasJob(w) => worker[w].job \in Job
  BY Held DEF Base
<1>2. \A w \in Worker : worker[w].at \in RowStage =>
        worker[w].gone \in BOOLEAN /\ \E plans : IsCommit(worker[w], plans)
  <2> SUFFICES ASSUME NEW w \in Worker, worker[w].at \in RowStage
      PROVE  worker[w].gone \in BOOLEAN /\ \E plans : IsCommit(worker[w], plans)
    OBVIOUS
  <2>1. IsWorker(worker[w])
    BY DEF Base, TypeOK
  <2>2. \E plans : IsCommit(worker[w], plans)
    BY <2>1, Stages DEF RowStage
  <2> QED BY <2>2, CommitFields
<1>3. \A w \in Worker :
        /\ worker'[w].at = worker[w].at /\ worker'[w].job = worker[w].job
        /\ worker[w].at \in RowStage =>
             /\ worker'[w].next = worker[w].next
             /\ worker'[w].touched = worker[w].touched /\ worker'[w].plan = worker[w].plan
             /\ worker'[w].projectIdByKey = worker[w].projectIdByKey
             /\ worker'[w].taskIdByKey = worker[w].taskIdByKey
  <2> SUFFICES ASSUME NEW w \in Worker, worker[w].at \in RowStage,
                      worker'[w] = [worker[w] EXCEPT !.gone = TRUE]
      PROVE  /\ worker'[w].at = worker[w].at /\ worker'[w].job = worker[w].job
             /\ worker'[w].next = worker[w].next
             /\ worker'[w].touched = worker[w].touched /\ worker'[w].plan = worker[w].plan
             /\ worker'[w].projectIdByKey = worker[w].projectIdByKey
             /\ worker'[w].taskIdByKey = worker[w].taskIdByKey
    OBVIOUS
  <2>1. PICK plans : IsCommit(worker[w], plans)
    BY <1>2
  <2> QED BY <2>1 DEF IsCommit
<1>4. HoldersFit'
  <2> SUFFICES ASSUME NEW w \in Worker
      PROVE  LET j == worker'[w].job IN
        /\ worker'[w].at = "parsing" => job'[j].status \in {"parsing", "removed"}
        /\ worker'[w].at = "job_failed"
             => job'[j].status \in {"parsing", "committing", "removed"} \/ j \in overtaken'
        /\ Commits(worker'[w]) => job'[j].status \in {"committing", "removed"} \/ j \in overtaken'
        /\ worker'[w].at \in RowStage =>
             IF worker'[w].gone THEN job'[j].status = "removed" \/ j \in overtaken'
                               ELSE job'[j].status # "removed"
    BY DEF HoldersFit, HolderFits, Commits
  <2> DEFINE j == worker[w].job
  <2>1. HoldersFit /\ ChecksFit'
    BY DEF Base
  <2>2. CASE ~HasJob(w)
    BY <2>2, <1>3 DEF HasJob, At, Commits, RowStage
  <2>3. CASE HasJob(w)
    <3>1. worker'[w].at = worker[w].at /\ worker'[w].job = j
      BY <2>3, <1>3 DEF HasJob
    <3>2. /\ At(w, "parsing") => job[j].status \in {"parsing", "removed"}
          /\ At(w, "job_failed") => job[j].status \in {"parsing", "committing", "removed"} \/ j \in overtaken
          /\ Commits(worker[w]) => job[j].status \in {"committing", "removed"} \/ j \in overtaken
          /\ worker[w].at \in RowStage =>
               IF worker[w].gone THEN job[j].status = "removed" \/ j \in overtaken
                                 ELSE job[j].status # "removed"
      BY <2>1 DEF HoldersFit, HolderFits, At
    <3>3. \/ job'[j].status = job[j].status
          \/ job'[j].status = "removed" /\ (worker[w].at \in RowStage => worker'[w].gone)
          \/ j \in overtaken' /\ job[j].status \in Staged /\ job'[j].status # "removed"
      BY <2>3
    <3>4. \/ worker'[w] = worker[w]
          \/ worker[w].at \in RowStage /\ (job'[j].status = "removed" \/ j \in overtaken')
      OBVIOUS
    <3>5. worker[w].at \in RowStage => worker[w].gone \in BOOLEAN
      BY <1>2
    <3>6. Commits(worker[w]) => j \in overtaken' \/ job'[j].status \in {"committing", "removed"}
      BY <3>2, <3>3
    <3>7. At(w, "parsing") => job'[j].status \in {"parsing", "removed"}
      <4>1. job[j].status \notin Staged \/ job[j].status = "removed" \/ ~At(w, "parsing")
        BY <3>2 DEF Staged
      <4> QED BY <4>1, <3>2, <3>3, Statuses
    <3>8. At(w, "job_failed") => job'[j].status \in {"parsing", "committing", "removed"} \/ j \in overtaken'
      BY <3>2, <3>3
    <3>9. worker[w].at \in RowStage =>
            IF worker'[w].gone THEN job'[j].status = "removed" \/ j \in overtaken'
                               ELSE job'[j].status # "removed"
      <4> SUFFICES ASSUME worker[w].at \in RowStage
          PROVE  IF worker'[w].gone THEN job'[j].status = "removed" \/ j \in overtaken'
                                    ELSE job'[j].status # "removed"
        OBVIOUS
      <4>1. CASE worker'[w] # worker[w]
        <5>1. PICK plans : IsCommit(worker[w], plans)
          BY <1>2
        <5>2. worker'[w].gone = TRUE
          BY <4>1, <5>1 DEF IsCommit
        <5> QED BY <5>2, <3>4, <4>1
      <4>2. CASE worker'[w] = worker[w] /\ worker[w].gone
        BY <4>2, <3>2, <3>3
      <4>3. CASE worker'[w] = worker[w] /\ ~worker[w].gone
        BY <4>3, <3>2, <3>3
      <4> QED BY <4>1, <4>2, <4>3
    <3> QED BY <3>1, <3>6, <3>7, <3>8, <3>9 DEF At, Commits
  <2> QED BY <2>2, <2>3
<1>5. OneHolder'
  BY <1>3 DEF Base, OneHolder, HasJob
<1>6. PlansFit'
  <2>1. PlansFit
    BY DEF Base
  <2> SUFFICES ASSUME NEW w \in Worker
      PROVE  MemoryFits(worker[w])'
    BY DEF PlansFit
  <2>2. worker'[w].at = "write" => PlanFits(worker[w])'
    BY <2>1, <1>3 DEF PlansFit, MemoryFits, PlanFits, RowStage
  <2> QED BY <2>1, <2>2, <1>3 DEF PlansFit, MemoryFits, RowStage
<1>7. TasksHaveProjects'
  BY DEF Base, TasksHaveProjects
<1> QED BY <1>4, <1>5, <1>6, <1>7 DEF Base

LEMMA RowTypes ==
  /\ FreshRow \in Row
  /\ \A row \in Row : Reset(row) \in Row
  /\ \A row \in Row, o \in Outcome : [row EXCEPT !.projectOutcome = o, !.taskOutcome = o] \in Row
  /\ \A row \in Row, d \in Action : /\ [row EXCEPT !.projectAction = d] \in Row
                                    /\ [row EXCEPT !.taskAction = d] \in Row
  /\ \A status \in Status : NoJob(status) \in JobState
  /\ \A status \in Status : NoJob(status).rows = <<>> /\ NoJob(status).status = status
  /\ <<>> \notin [RowNumber -> Row]
<1>1. FreshRow \in Row
  BY DEF FreshRow, Row, Action, Outcome, Id
<1>2. \A row \in Row : Reset(row) \in Row
  BY DEF FreshRow, Reset, Row, Outcome, Id
<1>3. \A row \in Row, o \in Outcome : [row EXCEPT !.projectOutcome = o, !.taskOutcome = o] \in Row
  BY DEF Row
<1>4. \A row \in Row, d \in Action : /\ [row EXCEPT !.projectAction = d] \in Row
                                      /\ [row EXCEPT !.taskAction = d] \in Row
  BY DEF Row
<1>5. NoSummary \in [rows : [Reported -> Nat], projects : Nat, tasks : Nat]
  BY DEF NoSummary
<1>6. \A status \in Status :
        NoJob(status) \in JobState /\ NoJob(status).rows = <<>> /\ NoJob(status).status = status
  BY <1>5 DEF NoJob, JobState
<1>7. <<>> \notin [RowNumber -> Row]
  BY Rows
<1> QED BY <1>1, <1>2, <1>3, <1>4, <1>6, <1>7

LEMMA JobFields ==
  ASSUME TypeOK, NEW j \in Job
  PROVE  /\ job[j] \in JobState /\ job[j].status \in Status
         /\ job[j].rows \in {<<>>} \cup [RowNumber -> Row]
         /\ job[j].summary \in [rows : [Reported -> Nat], projects : Nat, tasks : Nat]
BY DEF TypeOK, JobState

LEMMA ChecksAreTyped ==
  ASSUME TypeOK, NEW a \in Admin, request[a] # Idle
  PROVE  /\ request[a].job \in Job
         /\ request[a].at \in {"project", "task"} =>
              request[a].rows \in SUBSET RowNumber /\ request[a].action \in Action
BY DEF TypeOK, RequestState, Idle

(* Jobs change one at a time.                                              *)
LEMMA OneJob ==
  ASSUME TypeOK, RowsAreStaged, NEW j \in Job, NEW s \in JobState, job' = [job EXCEPT ![j] = s],
         s.status \in {"awaiting_review", "queued_commit", "committing", "completed"}
           => s.rows \in [RowNumber -> Row],
         s.status \in {"absent", "queued_parse", "parsing", "removed"} => s.rows = <<>>
  PROVE  /\ job' \in [Job -> JobState] /\ RowsAreStaged'
         /\ job'[j] = s /\ \A i \in Job \ {j} : job'[i] = job[i]
BY DEF TypeOK, RowsAreStaged, HasRows

LEMMA UploadKeepsBase ==
  ASSUME Base, NEW j \in Job, Upload(j)
  PROVE  Base'
<1>1. TypeOK' /\ RowsAreStaged' /\ job'[j].status = "queued_parse" /\ \A i \in Job \ {j} : job'[i] = job[i]
  <2>1. NoJob("queued_parse") \in JobState
    BY RowTypes DEF Status
  <2> QED BY <2>1, OneJob, RowTypes DEF Base, Upload, TypeOK, NoJob, History
<1>2. ChecksFit'
  BY <1>1, ChecksAreTyped DEF Base, ChecksFit, WasReviewed, Upload, History, Staged, HasRows, TypeOK
<1>3. \A w \in Worker : HasJob(w) => worker[w].job # j
  BY ZenonT(40) DEF Base, HoldersFit, HolderFits, HasJob, ChecksFit, WasReviewed, Staged, Upload, Commits, RowStage, At, TypeOK, IsWorker, IsCommit
<1>4. \A w \in Worker : HasJob(w) => worker[w].job \in Job
  BY Held DEF Base
<1> QED BY <1>1, <1>2, <1>3, <1>4, StagingKeepsBase DEF Upload, History

LEMMA RemoveKeepsBase ==
  ASSUME Base, NEW j \in Job, RemoveImport(j)
  PROVE  Base'
<1> USE DEF RemoveImport, History
<1>1. /\ job' \in [Job -> JobState] /\ RowsAreStaged'
      /\ job'[j].status = "removed" /\ \A i \in Job \ {j} : job'[i] = job[i]
  <2>1. NoJob("removed") \in JobState
    BY RowTypes DEF Status
  <2> QED BY <2>1, OneJob, RowTypes DEF Base, NoJob
<1>2. /\ DOMAIN worker' = Worker
      /\ \A w \in Worker :
           /\ worker[w].at \in RowStage /\ worker[w].job = j => worker'[w] = [worker[w] EXCEPT !.gone = TRUE]
           /\ ~(worker[w].at \in RowStage /\ worker[w].job = j) => worker'[w] = worker[w]
  BY DEF RowsReplaced
<1>3. \A w \in Worker : IsWorker(worker'[w])
  BY <1>2, GoneIsWorker DEF Base, TypeOK
<1>4. TypeOK'
  BY <1>1, <1>2, <1>3 DEF Base, TypeOK
<1>5. ChecksFit'
  BY <1>1, ChecksAreTyped DEF Base, ChecksFit, WasReviewed, HasRows, TypeOK
<1>6. \A w \in Worker : HasJob(w) => worker[w].job \in Job
  BY Held DEF Base
<1>7. \A w \in Worker : worker[w].at \in RowStage /\ worker[w].job = j => worker'[w].gone
  <2> SUFFICES ASSUME NEW w \in Worker, worker[w].at \in RowStage, worker[w].job = j
      PROVE  worker'[w].gone
    OBVIOUS
  <2>1. \E plans : IsCommit(worker[w], plans)
    BY Stages DEF Base, TypeOK, RowStage
  <2> QED BY <2>1, <1>2 DEF IsCommit
<1>8. \A w \in Worker : HasJob(w) =>
        LET i == worker[w].job
        IN \/ job'[i].status = job[i].status
           \/ job'[i].status = "removed" /\ (worker[w].at \in RowStage => worker'[w].gone)
           \/ i \in overtaken' /\ job[i].status \in Staged /\ job'[i].status # "removed"
  BY <1>1, <1>6, <1>7
<1>9. \A w \in Worker :
        LET i == worker[w].job
        IN \/ worker'[w] = worker[w]
           \/ /\ worker[w].at \in RowStage
              /\ worker'[w] = [worker[w] EXCEPT !.gone = TRUE]
              /\ job'[i].status = "removed" \/ i \in overtaken'
  BY <1>1, <1>2
<1> QED BY <1>1, <1>4, <1>5, <1>8, <1>9, StagingKeepsBase

(* The checks of the requests.                                             *)
LEMMA CheckKeepsBase ==
  ASSUME Base, NEW a \in Admin, NEW j \in Job, NEW what \in RequestState, what.job = j, what # Idle,
         CheckStaged(a, j, what)
  PROVE  Base'
<1> USE DEF CheckStaged, History, Tables
<1>1. TypeOK' /\ RowsAreStaged'
  BY DEF Base, TypeOK, RowsAreStaged, HasRows
<1>2. ChecksFit'
  BY DEF Base, TypeOK, ChecksFit, WasReviewed, RowsAreStaged, HasRows, Staged
<1> QED BY <1>1, <1>2, StagingKeepsBase

LEMMA BeginsKeepBase ==
  ASSUME Base, NEW a \in Admin, NEW j \in Job,
         \/ BeginMapping(a, j) \/ BeginCommit(a, j)
         \/ BeginProjectDecision(a, j) \/ BeginTaskDecision(a, j)
  PROVE  Base'
<1>1. CASE BeginMapping(a, j)
  BY <1>1, CheckKeepsBase DEF BeginMapping, RequestState, Idle
<1>2. CASE BeginCommit(a, j)
  BY <1>2, CheckKeepsBase DEF BeginCommit, RequestState, Idle
<1>3. \A r \in DOMAIN job[j].rows : ProjectGroup(r) \subseteq RowNumber /\ TaskGroup(r) \subseteq RowNumber
  BY DEF ProjectGroup, TaskGroup
<1>4. CASE BeginProjectDecision(a, j)
  <2>1. PICK r \in DOMAIN job[j].rows, action \in Actions :
          CheckStaged(a, j, [at |-> "project", job |-> j, rows |-> ProjectGroup(r), action |-> action])
    BY <1>4 DEF BeginProjectDecision
  <2> DEFINE what == [at |-> "project", job |-> j, rows |-> ProjectGroup(r), action |-> action]
  <2>2. what \in RequestState /\ what.job = j /\ what # Idle
    BY <1>3 DEF RequestState, Idle, Action
  <2> QED BY <2>1, <2>2, CheckKeepsBase
<1>5. CASE BeginTaskDecision(a, j)
  <2>1. PICK r \in DOMAIN job[j].rows, action \in Actions :
          CheckStaged(a, j, [at |-> "task", job |-> j, rows |-> TaskGroup(r), action |-> action])
    BY <1>5 DEF BeginTaskDecision
  <2> DEFINE what == [at |-> "task", job |-> j, rows |-> TaskGroup(r), action |-> action]
  <2>2. what \in RequestState /\ what.job = j /\ what # Idle
    BY <1>3 DEF RequestState, Idle, Action
  <2> QED BY <2>1, <2>2, CheckKeepsBase
<1> QED BY <1>1, <1>2, <1>4, <1>5

LEMMA TooLateKeepsBase ==
  ASSUME Base, NEW a \in Admin, RequestTooLate(a)
  PROVE  Base'
<1> USE DEF RequestTooLate, History, Tables
<1>1. TypeOK' /\ RowsAreStaged'
  BY DEF Base, TypeOK, RowsAreStaged, HasRows, RequestState
<1>2. ChecksFit'
  BY DEF Base, TypeOK, ChecksFit, WasReviewed, HasRows
<1> QED BY <1>1, <1>2, StagingKeepsBase

(* What a checked request finds, and what it leaves.                       *)
LEMMA CheckedJob ==
  ASSUME Base, NEW a \in Admin, NEW op, op # "idle", Checked(a, op)
  PROVE  LET j == request[a].job IN
         /\ request[a] # Idle /\ j \in Job
         /\ job[j].status \in Staged /\ job[j].status # "removed"
         /\ job[j] \in JobState /\ job[j].rows \in [RowNumber -> Row]
<1>1. request[a] # Idle
  BY DEF Checked, Idle
<1> QED BY <1>1, ChecksAreTyped, JobFields
        DEF Base, Checked, Exists, ChecksFit, WasReviewed, HasRows

(* The jobs a request answers keep rows; the workers may lose theirs.      *)
LEMMA AnswerKeepsBase ==
  ASSUME Base, NEW a \in Admin, request[a] # Idle, Answer(a),
         request[a].job \in Job, job[request[a].job].status \in Staged,
         NEW s \in JobState, job' = [job EXCEPT ![request[a].job] = s],
         s.status \in {job[request[a].job].status, "queued_commit"},
         s.rows \in [RowNumber -> Row],
         UNCHANGED worker \/ RowsReplaced(request[a].job),
         s.status = job[request[a].job].status \/ UNCHANGED worker,
         job[request[a].job].status \in {"awaiting_review"} \/ request[a].job \in overtaken'
  PROVE  Base'
<1> DEFINE j == request[a].job
<1> USE DEF Answer
<1>1. /\ job' \in [Job -> JobState] /\ RowsAreStaged' /\ job'[j] = s
      /\ \A i \in Job \ {j} : job'[i] = job[i]
  BY OneJob, Statuses DEF Base, Staged
<1>2. \A w \in Worker : worker[w].at \in RowStage => worker[w].job \in Job
  BY Held DEF Base, HasJob, RowStage
<1>3. /\ DOMAIN worker' = Worker
      /\ \A w \in Worker :
           \/ worker'[w] = worker[w]
           \/ worker[w].at \in RowStage /\ worker[w].job = j /\ worker'[w] = [worker[w] EXCEPT !.gone = TRUE]
  BY DEF RowsReplaced, Base, TypeOK
<1>4. \A w \in Worker : IsWorker(worker'[w])
  BY <1>3, GoneIsWorker DEF Base, TypeOK
<1>5. TypeOK'
  BY <1>1, <1>3, <1>4 DEF Base, TypeOK, RequestState
<1>6. ChecksFit'
  <2>1. \A i \in Job : i = j => WasReviewed(i)'
    BY <1>1, Statuses DEF WasReviewed, HasRows, Staged
  <2>2. \A i \in Job : WasReviewed(i) => WasReviewed(i)'
    BY <1>1, <2>1 DEF WasReviewed, HasRows
  <2>3. \A b \in Admin : request'[b] # Idle => request'[b] = request[b]
    BY DEF Base, TypeOK
  <2>4. overtaken' \subseteq overtaken \cup {j} /\ overtaken \subseteq Job
    BY DEF Base, TypeOK
  <2> QED BY <2>1, <2>2, <2>3, <2>4, ChecksAreTyped DEF Base, ChecksFit
<1>7. \A w \in Worker : HasJob(w) => worker[w].job \in Job
  BY Held DEF Base
<1>8. \A w \in Worker : Commits(worker[w]) \/ At(w, "job_failed") => job[worker[w].job].status # "awaiting_review"
                                                            \/ worker[w].job \in overtaken
  BY DEF Base, HoldersFit, HolderFits, At
<1>9. \A w \in Worker : At(w, "parsing") => job[worker[w].job].status \notin Staged
  BY DEF Base, HoldersFit, HolderFits, At, Staged
<1>10. \A w \in Worker :
         LET i == worker[w].job
         IN \/ worker'[w] = worker[w]
            \/ /\ worker[w].at \in RowStage
               /\ worker'[w] = [worker[w] EXCEPT !.gone = TRUE]
               /\ job'[i].status = "removed" \/ i \in overtaken'
  BY <1>3, <1>8 DEF Commits
<1>11. \A w \in Worker : HasJob(w) =>
         LET i == worker[w].job
         IN \/ job'[i].status = job[i].status
            \/ job'[i].status = "removed" /\ (worker[w].at \in RowStage => worker'[w].gone)
            \/ i \in overtaken' /\ job[i].status \in Staged /\ job'[i].status # "removed"
  <2> SUFFICES ASSUME NEW w \in Worker, HasJob(w), worker[w].job = j
      PROVE  \/ job'[j].status = job[j].status
             \/ j \in overtaken' /\ job[j].status \in Staged /\ job'[j].status # "removed"
    BY <1>1, <1>7
  <2>1. IsWorker(worker[w])
    BY DEF Base, TypeOK
  <2>2. At(w, "parsing") \/ Commits(worker[w]) \/ At(w, "job_failed")
    BY <2>1, Stages DEF HasJob, Commits, At, RowStage
  <2>3. s.status # "removed"
    BY Statuses
  <2> QED BY <2>2, <2>3, <1>1, <1>8, <1>9
<1> QED BY <1>1, <1>5, <1>6, <1>10, <1>11, StagingKeepsBase

LEMMA UpdateMappingKeepsBase ==
  ASSUME Base, NEW a \in Admin, UpdateMapping(a)
  PROVE  Base'
<1> DEFINE j == request[a].job
           s == [job[j] EXCEPT !.rows = [r \in RowNumber |-> FreshRow]]
<1>1. /\ request[a] # Idle /\ j \in Job /\ job[j].status \in Staged /\ job[j] \in JobState
  BY CheckedJob DEF UpdateMapping
<1>2. s \in JobState /\ s.status = job[j].status /\ s.rows \in [RowNumber -> Row]
  BY <1>1, RowTypes DEF JobState
<1>3. job' = [job EXCEPT ![j] = s]
  BY <1>1 DEF UpdateMapping
<1>4. RowsReplaced(j) /\ Answer(a)
  BY DEF UpdateMapping
<1>5. job[j].status \in {"awaiting_review"} \/ j \in overtaken'
  BY <1>4 DEF Answer
<1> HIDE DEF s
<1> QED BY <1>1, <1>2, <1>3, <1>4, <1>5, AnswerKeepsBase

(* Decisions change the actions of rows and nothing else.                  *)
SameResult(row, x) ==
  /\ row.projectOutcome = x.projectOutcome /\ row.taskOutcome = x.taskOutcome
  /\ row.project = x.project /\ row.task = x.task
LEMMA DecisionsWritten ==
  ASSUME Base, NEW a \in Admin, UpdateDecisions(a)
  PROVE  LET j == request[a].job IN
         /\ Answer(a) /\ UNCHANGED worker
         /\ request[a] # Idle /\ j \in Job /\ job[j].status \in Staged /\ job[j] \in JobState
         /\ job[j].rows \in [RowNumber -> Row]
         /\ \E rows \in [RowNumber -> Row] :
              /\ job' = [job EXCEPT ![j].rows = rows]
              /\ \A r \in RowNumber : SameResult(rows[r], job[j].rows[r])
<1> DEFINE j == request[a].job
           R == request[a].rows
           d == request[a].action
<1>1. /\ Checked(a, "project") \/ Checked(a, "task")
      /\ Answer(a) /\ UNCHANGED worker
  BY DEF UpdateDecisions
<1>2. /\ request[a] # Idle /\ j \in Job /\ job[j].status \in Staged /\ job[j] \in JobState
      /\ job[j].rows \in [RowNumber -> Row]
  BY <1>1, CheckedJob
<1>3. d \in Action
  BY <1>1, <1>2, ChecksAreTyped DEF Base, Checked
<1>4. \A r \in RowNumber : /\ SameResult([job[j].rows[r] EXCEPT !.projectAction = d], job[j].rows[r])
                          /\ SameResult([job[j].rows[r] EXCEPT !.taskAction = d], job[j].rows[r])
                          /\ SameResult(job[j].rows[r], job[j].rows[r])
  BY <1>2 DEF SameResult, Row
<1>5. \E rows \in [RowNumber -> Row] : /\ job' = [job EXCEPT ![j].rows = rows]
                                       /\ \A r \in RowNumber : SameResult(rows[r], job[j].rows[r])
  <2>1. CASE Checked(a, "project")
    <3> DEFINE rows == [r \in RowNumber |-> IF r \in R THEN [job[j].rows[r] EXCEPT !.projectAction = d]
                                                       ELSE job[j].rows[r]]
    <3>1. rows \in [RowNumber -> Row]
      BY <1>2, <1>3, RowTypes
    <3>2. job' = [job EXCEPT ![j].rows = rows]
      BY <2>1, <1>2 DEF UpdateDecisions, Checked, Base, TypeOK
    <3>3. \A r \in RowNumber : SameResult(rows[r], job[j].rows[r])
      BY <1>4
    <3> QED BY <3>1, <3>2, <3>3
  <2>2. CASE Checked(a, "task")
    <3> DEFINE rows == [r \in RowNumber |-> IF r \in R THEN [job[j].rows[r] EXCEPT !.taskAction = d]
                                                       ELSE job[j].rows[r]]
    <3>1. rows \in [RowNumber -> Row]
      BY <1>2, <1>3, RowTypes
    <3>2. job' = [job EXCEPT ![j].rows = rows]
      BY <2>2, <1>2 DEF UpdateDecisions, Checked, Base, TypeOK
    <3>3. \A r \in RowNumber : SameResult(rows[r], job[j].rows[r])
      BY <1>4
    <3> QED BY <3>1, <3>2, <3>3
  <2> QED BY <1>1, <2>1, <2>2
<1> QED BY <1>1, <1>2, <1>5

LEMMA UpdateDecisionsKeepsBase ==
  ASSUME Base, NEW a \in Admin, UpdateDecisions(a)
  PROVE  Base'
<1> DEFINE j == request[a].job
<1>1. /\ Answer(a) /\ UNCHANGED worker
      /\ request[a] # Idle /\ j \in Job /\ job[j].status \in Staged /\ job[j] \in JobState
      /\ job[j].rows \in [RowNumber -> Row]
  BY DecisionsWritten
<1>2. PICK rows \in [RowNumber -> Row] : job' = [job EXCEPT ![j].rows = rows]
  BY DecisionsWritten
<1>3. job[j].status \in {"awaiting_review"} \/ j \in overtaken'
  BY <1>1 DEF Answer
<1> DEFINE s == [job[j] EXCEPT !.rows = rows]
<1>4. s \in JobState /\ s.status = job[j].status /\ s.rows \in [RowNumber -> Row]
  BY <1>1 DEF JobState
<1>5. job' = [job EXCEPT ![j] = s]
  BY <1>2
<1> HIDE DEF s
<1> QED BY <1>1, <1>3, <1>4, <1>5, AnswerKeepsBase

LEMMA QueueCommitKeepsBase ==
  ASSUME Base, NEW a \in Admin, QueueCommit(a)
  PROVE  Base'
<1> DEFINE j == request[a].job
           s == [status |-> "queued_commit", summary |-> NoSummary,
                 rows |-> [r \in DOMAIN job[j].rows |-> Reset(job[j].rows[r])]]
<1>1. /\ request[a] # Idle /\ j \in Job /\ job[j].status \in Staged /\ job[j] \in JobState
      /\ job[j].rows \in [RowNumber -> Row]
  BY CheckedJob DEF QueueCommit
<1>2. s \in JobState /\ s.status = "queued_commit" /\ s.rows \in [RowNumber -> Row]
  BY <1>1, RowTypes, Zenon DEF JobState, NoSummary, Status
<1>3. job' = [job EXCEPT ![j] = s]
  BY <1>1 DEF QueueCommit, Base, TypeOK
<1>4. Answer(a) /\ UNCHANGED worker
  BY DEF QueueCommit
<1>5. job[j].status \in {"awaiting_review"} \/ j \in overtaken'
  BY <1>4 DEF Answer
<1> HIDE DEF s
<1> QED BY <1>1, <1>2, <1>3, <1>4, <1>5, AnswerKeepsBase
----------------------------------------------------------------------------
(* The workers.  A step of one worker keeps the base if its own next state *)
(* fits, and if it takes no job out of the hands of another.               *)
LEMMA WorkerKeepsBase ==
  ASSUME Base, NEW w \in Worker, NEW s, Go(w, s), IsWorker(s), UNCHANGED <<request, overtaken>>,
         RowsAreStaged',
         job' \in [Job -> JobState], project' \in Seq(ProjectRow), task' \in Seq(TaskRow),
         exposed' \subseteq Nat, crashed' \subseteq Job, TasksHaveProjects',
         DOMAIN project \subseteq DOMAIN project', DOMAIN task \subseteq DOMAIN task',
         \A i \in Job : WasReviewed(i) => WasReviewed(i)',
         \A i \in Job : job'[i].status # job[i].status =>
           /\ job[i].status # "removed" /\ job'[i].status # "removed"
           /\ \A v \in Worker \ {w} : HasJob(v) /\ worker[v].job = i => i \in overtaken,
         HasJob(w)' => \A v \in Worker \ {w} :
           HasJob(v) /\ worker[v].job = s.job => s.job \in overtaken,
         HolderFits(worker[w])', MemoryFits(worker[w])'
  PROVE  Base'
<1>1. /\ DOMAIN worker' = Worker /\ \A v \in Worker : IsWorker(worker'[v])
      /\ worker'[w] = s /\ \A v \in Worker \ {w} : worker'[v] = worker[v]
  BY Steps DEF Base
<1>2. TypeOK'
  BY <1>1 DEF Base, TypeOK
<1>3. ChecksFit'
  BY ChecksAreTyped DEF Base, ChecksFit, TypeOK
<1>4. \A v \in Worker : HasJob(v) => worker[v].job \in Job
  BY Held DEF Base
<1>5. HoldersFit'
  <2> SUFFICES ASSUME NEW v \in Worker \ {w}
      PROVE  HolderFits(worker[v])'
    BY DEF HoldersFit
  <2> DEFINE i == worker[v].job
  <2>1. HolderFits(worker[v]) /\ worker'[v] = worker[v] /\ overtaken' = overtaken
    BY <1>1 DEF Base, HoldersFit
  <2>2. CASE ~HasJob(v)
    <3>1. worker[v].at \in {"idle", "no_parse", "found"}
      BY <2>2 DEF HasJob
    <3> QED BY <2>1, <3>1 DEF HolderFits, Commits, RowStage
  <2>3. CASE HasJob(v) /\ job'[i].status = job[i].status
    BY <2>1, <2>3 DEF HolderFits, Commits
  <2>4. CASE HasJob(v) /\ job'[i].status # job[i].status
    <3>1. i \in Job /\ i \in overtaken /\ job[i].status # "removed" /\ job'[i].status # "removed"
      BY <2>4, <1>4
    <3>2. WasReviewed(i)
      BY <3>1 DEF Base, ChecksFit
    <3>3. worker[v].at # "parsing"
      BY <2>1, <3>1, <3>2 DEF HolderFits, WasReviewed, Staged
    <3>4. IsWorker(worker[v])
      BY DEF Base, TypeOK
    <3>5. worker[v].at \in RowStage => worker[v].gone \in BOOLEAN
      BY <3>4, Stages, CommitFields DEF RowStage
    <3> QED BY <2>1, <3>1, <3>3, <3>5 DEF HolderFits, Commits
  <2> QED BY <2>2, <2>3, <2>4
<1>6. OneHolder'
  BY <1>1 DEF Base, OneHolder, HasJob
<1>7. PlansFit'
  <2> SUFFICES ASSUME NEW v \in Worker \ {w}
      PROVE  MemoryFits(worker[v])'
    BY DEF PlansFit
  <2>1. MemoryFits(worker[v]) /\ worker'[v] = worker[v]
    BY <1>1 DEF Base, PlansFit
  <2>2. worker[v].at = "write" => PlanFits(worker[v])'
    BY <2>1 DEF MemoryFits, PlanFits
  <2> QED BY <2>1, <2>2 DEF MemoryFits, CacheFits
<1> QED BY <1>2, <1>3, <1>5, <1>6, <1>7 DEF Base

(* The oldest of some jobs is one of them.                                 *)
LEMMA OldestIsOne ==
  ASSUME NEW S \in SUBSET Job, S # {}
  PROVE  Min(S) \in S
<1>1. \E x \in S : \A y \in S : ~(<<y, x>> \in OpToRel(<, Nat))
  BY NatLessThanWellFounded, WFMin, ImportAssumption, Zenon
<1>2. \E x \in S : \A y \in S : ~ (y < x)
  BY <1>1, ImportAssumption, Zenon DEF OpToRel
<1>3. \E x \in S : \A y \in S : x <= y
  BY <1>2, ImportAssumption
<1> QED BY <1>3 DEF Min

LEMMA LooksKeepBase ==
  ASSUME Base, NEW w \in Worker, FindParseJob(w) \/ FindCommitJob(w)
  PROVE  Base'
<1> USE DEF Quiet, Tables, History
<1>1. PICK s : /\ Go(w, s) /\ Quiet /\ UNCHANGED Tables
               /\ \/ s \in [at : {"idle", "no_parse"}]
                  \/ s \in [at : {"found"}, job : Job, from : {"queued_parse"}, to : {"parsing"}]
                  \/ s \in [at : {"found"}, job : Job, from : {"queued_commit"}, to : {"committing"}]
  <2>1. \A status : Queued(status) # {} => Min(Queued(status)) \in Job
    <3> SUFFICES ASSUME NEW status, Queued(status) # {}
        PROVE  Min(Queued(status)) \in Job
      OBVIOUS
    <3>1. Queued(status) \subseteq Job
      BY DEF Queued
    <3> QED BY <3>1, OldestIsOne
  <2> QED BY <2>1 DEF FindParseJob, FindCommitJob, LookFor
<1>2. IsWorker(s) /\ s.at \in {"idle", "no_parse", "found"}
  BY <1>1 DEF IsWorker
<1>3. worker'[w] = s
  BY <1>1, <1>2, Steps DEF Base
<1>4. HolderFits(worker[w])' /\ MemoryFits(worker[w])'
  BY <1>2, <1>3 DEF HolderFits, MemoryFits, Commits, RowStage
<1>5. ~HasJob(w)'
  BY <1>2, <1>3 DEF HasJob
<1>6. RowsAreStaged' /\ TasksHaveProjects' /\ \A i \in Job : WasReviewed(i) => WasReviewed(i)'
  BY <1>1 DEF Base, RowsAreStaged, TasksHaveProjects, WasReviewed, HasRows
<1> QED BY <1>1, <1>2, <1>4, <1>5, <1>6, WorkerKeepsBase DEF Base, TypeOK

LEMMA ClaimKeepsBase ==
  ASSUME Base, NEW w \in Worker, ClaimJob(w)
  PROVE  Base'
<1> USE DEF Quiet, History, ClaimJob
<1> DEFINE j == worker[w].job
           idle == [at |-> IF worker[w].to = "parsing" THEN "no_parse" ELSE "idle"]
           held == [at |-> worker[w].to, job |-> j]
<1>1. /\ j \in Job
      /\ <<worker[w].from, worker[w].to>> \in {<<"queued_parse", "parsing">>, <<"queued_commit", "committing">>}
  BY Stages DEF Base, TypeOK, At
<1>2. CASE job[j].status = worker[w].from
  <2> DEFINE s == [job[j] EXCEPT !.status = worker[w].to]
  <2>1. s \in JobState /\ s.status = worker[w].to /\ s.rows = job[j].rows
    BY <1>1, JobFields DEF JobState, Status, Base
  <2>2. job' = [job EXCEPT ![j] = s] /\ Go(w, held)
    BY <1>2
  <2>3. /\ s.status \in {"awaiting_review", "queued_commit", "committing", "completed"}
             => s.rows \in [RowNumber -> Row]
        /\ s.status \in {"absent", "queued_parse", "parsing", "removed"} => s.rows = <<>>
    BY <1>1, <1>2, <2>1 DEF Base, RowsAreStaged, HasRows
  <2> HIDE DEF s
  <2>4. /\ job' \in [Job -> JobState] /\ RowsAreStaged'
        /\ job'[j] = s /\ \A i \in Job \ {j} : job'[i] = job[i]
    BY <1>1, <2>1, <2>2, <2>3, OneJob DEF Base
  <2>5. IsWorker(held) /\ held.at \in {"parsing", "committing"} /\ held.job = j
    BY <1>1 DEF IsWorker
  <2>6. worker'[w] = held
    BY <2>2, <2>5, Steps DEF Base
  <2>7. \A i \in Job : WasReviewed(i) => WasReviewed(i)'
    BY <1>1, <1>2, <2>1, <2>4 DEF WasReviewed, HasRows, Staged
  <2>8. \A v \in Worker : HasJob(v) /\ worker[v].job = j => j \in overtaken
    <3> SUFFICES ASSUME NEW v \in Worker, HasJob(v), worker[v].job = j
        PROVE  j \in overtaken
      OBVIOUS
    <3>1. IsWorker(worker[v]) /\ HolderFits(worker[v])
      BY DEF Base, TypeOK, HoldersFit
    <3> QED BY <3>1, <1>1, <1>2, Stages DEF HolderFits, HasJob, Commits, RowStage
  <2>9. HolderFits(worker[w])' /\ MemoryFits(worker[w])'
    BY <1>1, <2>1, <2>4, <2>5, <2>6 DEF HolderFits, MemoryFits, Commits, RowStage
  <2>10. \A i \in Job : job'[i].status # job[i].status =>
           /\ job[i].status # "removed" /\ job'[i].status # "removed"
           /\ \A v \in Worker \ {w} : HasJob(v) /\ worker[v].job = i => i \in overtaken
    BY <1>1, <1>2, <2>1, <2>4, <2>8
  <2>11. TasksHaveProjects'
    BY DEF Base, TasksHaveProjects
  <2> HIDE DEF held
  <2> QED BY <2>2, <2>4, <2>5, <2>7, <2>8, <2>9, <2>10, <2>11, WorkerKeepsBase, ZenonT(40) DEF Base, TypeOK
<1>3. CASE job[j].status # worker[w].from
  <2>1. Go(w, idle) /\ UNCHANGED job
    BY <1>3
  <2>2. IsWorker(idle) /\ idle.at \in {"idle", "no_parse"}
    BY DEF IsWorker
  <2>3. worker'[w] = idle
    BY <2>1, <2>2, Steps DEF Base
  <2>4. HolderFits(worker[w])' /\ MemoryFits(worker[w])' /\ ~HasJob(w)'
    BY <2>2, <2>3 DEF HolderFits, MemoryFits, Commits, RowStage, HasJob
  <2>5. RowsAreStaged' /\ TasksHaveProjects' /\ \A i \in Job : WasReviewed(i) => WasReviewed(i)'
    BY <2>1 DEF Base, RowsAreStaged, TasksHaveProjects, WasReviewed, HasRows
  <2> QED BY <2>1, <2>2, <2>4, <2>5, WorkerKeepsBase DEF Base, TypeOK
<1> QED BY <1>2, <1>3

(* A worker lays a job down: it is settled by then, or it stays as it is.  *)
LEMMA LayingDownKeepsBase ==
  ASSUME Base, NEW w \in Worker, HasJob(w), Go(w, Idle), UNCHANGED <<request, overtaken, project, task>>,
         exposed' \subseteq Nat, crashed' \subseteq Job,
         \/ UNCHANGED job
         \/ \E s \in JobState :
              /\ job' = [job EXCEPT ![worker[w].job] = s]
              /\ Exists(worker[w].job)
              /\ s.status \in {"awaiting_review", "completed", "failed"}
              /\ s.rows \in [RowNumber -> Row] \/ (s.status = "failed" /\ s.rows = job[worker[w].job].rows)
  PROVE  Base'
<1> DEFINE j == worker[w].job
<1>1. j \in Job
  BY Held DEF Base
<1>2. worker'[w] = Idle
  BY IdleIsWorker, Steps DEF Base
<1>3. HolderFits(worker[w])' /\ MemoryFits(worker[w])' /\ ~HasJob(w)'
  BY <1>2 DEF HolderFits, MemoryFits, Commits, RowStage, HasJob, Idle
<1>4. TasksHaveProjects'
  BY DEF Base, TasksHaveProjects
<1>5. CASE UNCHANGED job
  <2>1. RowsAreStaged' /\ \A i \in Job : WasReviewed(i) => WasReviewed(i)'
    BY <1>5 DEF Base, RowsAreStaged, WasReviewed, HasRows
  <2> QED BY <1>3, <1>4, <1>5, <2>1, IdleIsWorker, WorkerKeepsBase DEF Base, TypeOK
<1>6. ASSUME NEW s \in JobState, job' = [job EXCEPT ![j] = s], Exists(j),
             s.status \in {"awaiting_review", "completed", "failed"},
             s.rows \in [RowNumber -> Row] \/ (s.status = "failed" /\ s.rows = job[j].rows)
      PROVE Base'
  <2>1. /\ job' \in [Job -> JobState] /\ RowsAreStaged'
        /\ job'[j] = s /\ \A i \in Job \ {j} : job'[i] = job[i]
    BY <1>1, <1>6, OneJob DEF Base
  <2>2. \A i \in Job : WasReviewed(i) => WasReviewed(i)'
    BY <1>1, <1>6, <2>1 DEF WasReviewed, HasRows, Staged, Exists
  <2>3. \A v \in Worker \ {w} : HasJob(v) /\ worker[v].job = j => j \in overtaken
    BY DEF Base, OneHolder
  <2>4. \A i \in Job : job'[i].status # job[i].status =>
          /\ job[i].status # "removed" /\ job'[i].status # "removed"
          /\ \A v \in Worker \ {w} : HasJob(v) /\ worker[v].job = i => i \in overtaken
    BY <1>1, <1>6, <2>1, <2>3 DEF Exists
  <2> QED BY <1>3, <1>4, <2>1, <2>2, <2>4, IdleIsWorker, WorkerKeepsBase DEF Base, TypeOK
<1> QED BY <1>5, <1>6

LEMMA RowsAreFinite ==
  \A R \in SUBSET RowNumber : IsFiniteSet(R) /\ Cardinality(R) \in Nat
<1>1. IsFiniteSet(RowNumber)
  BY Rows, FS_Interval
<1> QED BY <1>1, FS_Subset, FS_CardinalityType

LEMMA SummaryIsTyped ==
  ASSUME NEW rows \in [RowNumber -> Row]
  PROVE  Summary(rows) \in [rows : [Reported -> Nat], projects : Nat, tasks : Nat]
<1>1. \A o \in Reported : Cardinality({r \in DOMAIN rows : RowOutcome(rows[r]) = o}) \in Nat
  BY RowsAreFinite
<1>2. Cardinality(CreatedProjects(rows)) \in Nat
  <2> DEFINE R == {r \in DOMAIN rows : rows[r].projectOutcome = "created"}
             f == [r \in R |-> rows[r].project]
  <2>1. f \in Surjection(R, CreatedProjects(rows))
    BY DEF CreatedProjects, Surjection
  <2>2. IsFiniteSet(R)
    BY RowsAreFinite
  <2> HIDE DEF R, f
  <2> QED BY <2>1, <2>2, FS_Surjection, FS_CardinalityType
<1>3. Cardinality(CreatedTasks(rows)) \in Nat
  <2> DEFINE R == {r \in DOMAIN rows : rows[r].taskOutcome = "created"}
             f == [r \in R |-> rows[r].task]
  <2>1. f \in Surjection(R, CreatedTasks(rows))
    BY DEF CreatedTasks, Surjection
  <2>2. IsFiniteSet(R)
    BY RowsAreFinite
  <2> HIDE DEF R, f
  <2> QED BY <2>1, <2>2, FS_Surjection, FS_CardinalityType
<1> QED BY <1>1, <1>2, <1>3 DEF Summary

LEMMA ParseKeepsBase ==
  ASSUME Base, NEW w \in Worker, ParseJob(w)
  PROVE  Base'
<1> DEFINE j == worker[w].job
           s == [NoJob("awaiting_review") EXCEPT !.rows = [r \in RowNumber |-> FreshRow]]
<1>1. s \in JobState /\ s.status = "awaiting_review" /\ s.rows \in [RowNumber -> Row]
  BY RowTypes DEF NoJob, NoSummary, JobState, Status
<1>2. HasJob(w)
  BY DEF ParseJob, HasJob, At
<1> HIDE DEF s
<1>3. UNCHANGED job \/ (job' = [job EXCEPT ![j] = s] /\ Exists(j))
  BY DEF ParseJob, s
<1>4. Go(w, Idle) /\ UNCHANGED <<request, overtaken, project, task, exposed, crashed>>
  BY DEF ParseJob, Quiet, History
<1> QED BY <1>1, <1>2, <1>3, <1>4, LayingDownKeepsBase DEF Base, TypeOK

LEMMA CompleteKeepsBase ==
  ASSUME Base, NEW w \in Worker, CompleteJob(w)
  PROVE  Base'
<1> DEFINE j == worker[w].job
           s == [job[j] EXCEPT !.status = "completed", !.summary = Summary(job[j].rows)]
<1>1. HasJob(w) /\ j \in Job
  <2>1. HasJob(w)
    BY DEF CompleteJob, HasJob, At
  <2> QED BY <2>1, Held DEF Base
<1>2. Exists(j) => s \in JobState /\ s.status = "completed" /\ s.rows \in [RowNumber -> Row]
  <2> SUFFICES ASSUME Exists(j)
      PROVE  s \in JobState /\ s.status = "completed" /\ s.rows \in [RowNumber -> Row]
    OBVIOUS
  <2>1. job[j].status = "committing" \/ j \in overtaken
    BY DEF CompleteJob, At, Base, HoldersFit, HolderFits, Commits, RowStage, Exists
  <2>2. job[j].rows \in [RowNumber -> Row]
    BY <1>1, <2>1 DEF Base, RowsAreStaged, ChecksFit, WasReviewed, HasRows, Exists
  <2>3. job[j] \in JobState
    BY <1>1, JobFields DEF Base
  <2> QED BY <2>2, <2>3, SummaryIsTyped DEF JobState, Status
<1>3. UNCHANGED job \/ (job' = [job EXCEPT ![j] = s] /\ Exists(j))
  BY <1>1 DEF CompleteJob, Base, TypeOK
<1>4. Go(w, Idle) /\ UNCHANGED <<request, overtaken, project, task, exposed, crashed>>
  BY DEF CompleteJob, Quiet, History
<1> HIDE DEF s
<1> QED BY <1>1, <1>2, <1>3, <1>4, LayingDownKeepsBase DEF Base, TypeOK

LEMMA FailKeepsBase ==
  ASSUME Base, NEW w \in Worker, FailJob(w)
  PROVE  Base'
<1> DEFINE j == worker[w].job
           s == [job[j] EXCEPT !.status = "failed"]
<1>1. HasJob(w) /\ j \in Job
  <2>1. HasJob(w)
    BY DEF FailJob, HasJob, At
  <2> QED BY <2>1, Held DEF Base
<1>2. s \in JobState /\ s.status = "failed" /\ s.rows = job[j].rows
  <2>1. job[j] \in JobState
    BY <1>1, JobFields DEF Base
  <2> QED BY <2>1 DEF JobState, Status
<1>3. UNCHANGED job \/ (job' = [job EXCEPT ![j] = s] /\ Exists(j))
  BY <1>1 DEF FailJob, Base, TypeOK
<1>4. Go(w, Idle) /\ UNCHANGED <<request, overtaken, project, task, exposed, crashed>>
  BY DEF FailJob, Quiet, History
<1> HIDE DEF s
<1> QED BY <1>1, <1>2, <1>3, <1>4, LayingDownKeepsBase DEF Base, TypeOK

LEMMA OwedIsTyped ==
  ASSUME TypeOK, NEW w \in Worker
  PROVE  Owed(w) \subseteq Nat
<1>1. CASE worker[w].at \in RowStage
  <2>1. worker[w].touched \in Seq(Nat)
    BY <1>1, Stages, CommitFields DEF TypeOK, RowStage
  <2> QED BY <1>1, <2>1 DEF Owed, ToSet
<1>2. CASE worker[w].at \notin RowStage
  BY <1>2 DEF Owed
<1> QED BY <1>1, <1>2

LEMMA CrashKeepsBase ==
  ASSUME Base, NEW w \in Worker, Crash(w)
  PROVE  Base'
<1> USE DEF Crash, Tables
<1>1. Owed(w) \subseteq Nat
  BY OwedIsTyped DEF Base
<1>2. worker[w].job \in Job
  BY Stages, CommitFields DEF Base, TypeOK
<1>3. exposed' \subseteq Nat /\ crashed' \subseteq Job
  BY <1>1, <1>2 DEF Base, TypeOK
<1>4. CASE HasJob(w)
  BY <1>3, <1>4, LayingDownKeepsBase
<1>5. CASE ~HasJob(w)
  <2>1. worker'[w] = Idle
    BY IdleIsWorker, Steps DEF Base
  <2>2. HolderFits(worker[w])' /\ MemoryFits(worker[w])' /\ ~HasJob(w)'
    BY <2>1 DEF HolderFits, MemoryFits, Commits, RowStage, HasJob, Idle
  <2>3. RowsAreStaged' /\ TasksHaveProjects' /\ \A i \in Job : WasReviewed(i) => WasReviewed(i)'
    BY DEF Base, RowsAreStaged, TasksHaveProjects, WasReviewed, HasRows
  <2> QED BY <1>3, <2>2, <2>3, IdleIsWorker, WorkerKeepsBase DEF Base, TypeOK
<1> QED BY <1>4, <1>5

(* Steps of a commit that leave the tables alone but for a row's outcome.  *)
LEMMA CallFailsKeepsBase ==
  ASSUME Base, NEW w \in Worker, CallFails(w)
  PROVE  Base'
<1> USE DEF CallFails, Tables
<1> DEFINE s == [at |-> "job_failed", job |-> worker[w].job]
<1>1. HasJob(w) /\ worker[w].job \in Job
  <2>1. HasJob(w)
    BY DEF HasJob
  <2> QED BY <2>1, Held DEF Base
<1>2. IsWorker(s) /\ s.at = "job_failed" /\ s.job = worker[w].job
  BY <1>1 DEF IsWorker
<1>3. worker'[w] = s
  BY <1>2, Steps DEF Base
<1>4. exposed' \subseteq Nat
  BY OwedIsTyped DEF Base, TypeOK
<1>5. HolderFits(worker[w])' /\ MemoryFits(worker[w])'
  <2>1. HolderFits(worker[w])
    BY DEF Base, HoldersFit
  <2> QED BY <1>2, <1>3, <2>1 DEF HolderFits, MemoryFits, Commits, RowStage
<1>6. RowsAreStaged' /\ TasksHaveProjects' /\ \A i \in Job : WasReviewed(i) => WasReviewed(i)'
  BY DEF Base, RowsAreStaged, TasksHaveProjects, WasReviewed, HasRows
<1>7. \A v \in Worker \ {w} : HasJob(v) /\ worker[v].job = s.job => s.job \in overtaken
  BY <1>1 DEF Base, OneHolder
<1>8. Go(w, s)
  OBVIOUS
<1> HIDE DEF s
<1> QED BY <1>2, <1>4, <1>5, <1>6, <1>7, <1>8, WorkerKeepsBase DEF Base, TypeOK

(* A step inside a commit keeps the job in the worker's hands.             *)
LEMMA CommitKeepsBase ==
  ASSUME Base, NEW w \in Worker, HasJob(w), Commits(worker[w]),
         NEW s, Go(w, s), IsWorker(s), s.at \in RowStage, s.job = worker[w].job,
         worker[w].at \in RowStage => s.gone = worker[w].gone,
         worker[w].at = "committing" => s.gone = FALSE /\ Exists(worker[w].job),
         UNCHANGED <<request, overtaken, crashed>>, exposed' \subseteq Nat,
         \/ UNCHANGED job
         \/ \E rows \in [RowNumber -> Row] :
              Exists(worker[w].job) /\ job' = [job EXCEPT ![worker[w].job].rows = rows],
         project' \in Seq(ProjectRow), task' \in Seq(TaskRow), TasksHaveProjects',
         DOMAIN project \subseteq DOMAIN project', DOMAIN task \subseteq DOMAIN task',
         MemoryFits(worker[w])'
  PROVE  Base'
<1> DEFINE j == worker[w].job
<1>1. j \in Job
  BY Held DEF Base
<1>2. worker'[w] = s
  BY Steps DEF Base
<1>3. \A v \in Worker \ {w} : HasJob(v) /\ worker[v].job = j => j \in overtaken
  BY DEF Base, OneHolder
<1>4. HolderFits(worker[w])
  BY DEF Base, HoldersFit
<1>5. job[j].status \in {"committing", "removed"} \/ j \in overtaken
  BY <1>4 DEF HolderFits
<1>6. /\ job' \in [Job -> JobState] /\ RowsAreStaged'
      /\ \A i \in Job : WasReviewed(i) => WasReviewed(i)'
      /\ \A i \in Job : job'[i].status = job[i].status
  <2>1. CASE UNCHANGED job
    BY <2>1 DEF Base, TypeOK, RowsAreStaged, WasReviewed, HasRows
  <2>2. ASSUME NEW rows \in [RowNumber -> Row], Exists(j), job' = [job EXCEPT ![j].rows = rows]
        PROVE <1>6!:
    <3> DEFINE t == [job[j] EXCEPT !.rows = rows]
    <3>1. t \in JobState /\ t.status = job[j].status /\ t.rows = rows
      BY <1>1, JobFields DEF Base, JobState
    <3>2. job[j].status \notin {"absent", "queued_parse", "parsing", "removed"}
      BY <1>5, <2>2 DEF Base, ChecksFit, WasReviewed, Staged, Exists
    <3>3. job' = [job EXCEPT ![j] = t]
      BY <2>2
    <3> HIDE DEF t
    <3>4. /\ job' \in [Job -> JobState] /\ RowsAreStaged'
          /\ job'[j] = t /\ \A i \in Job \ {j} : job'[i] = job[i]
      BY <1>1, <3>1, <3>2, <3>3, OneJob DEF Base
    <3> QED BY <3>1, <3>4, <2>2 DEF WasReviewed, HasRows
  <2> QED BY <2>1, <2>2
<1>7. HolderFits(worker[w])'
  <2>1. CASE worker[w].at \in RowStage
    BY <2>1, <1>1, <1>2, <1>4, <1>6 DEF HolderFits, Commits, RowStage
  <2>2. CASE worker[w].at = "committing"
    BY <2>2, <1>1, <1>2, <1>4, <1>6 DEF HolderFits, Commits, RowStage, Exists
  <2> QED BY <2>1, <2>2 DEF Commits
<1> QED BY <1>3, <1>6, <1>7, WorkerKeepsBase DEF Base, TypeOK

LEMMA FreshCommit ==
  ASSUME NEW j \in Job, NEW actions \in [RowNumber -> [project : Action, task : Action]]
  PROVE  IsCommit([at |-> "rows", job |-> j, next |-> 1, touched |-> <<>>, gone |-> FALSE,
                   actions |-> actions, projectIdByKey |-> NoIds, taskIdByKey |-> NoIds,
                   plan |-> None], {None})
<1>1. NoIds \in [{} -> Id] /\ DOMAIN NoIds = {}
  BY DEF NoIds
<1>2. IsCache(NoIds, Key) /\ IsCache(NoIds, Key \X Id)
  BY <1>1 DEF IsCache
<1> QED BY <1>2 DEF IsCommit, RowStage

LEMMA BeginRowsKeepsBase ==
  ASSUME Base, NEW w \in Worker, BeginRows(w)
  PROVE  Base'
<1> USE DEF BeginRows, Quiet, Tables, History
<1> DEFINE j == worker[w].job
           s == [at |-> "rows", job |-> j, next |-> 1, touched |-> <<>>, gone |-> FALSE,
                 actions |-> [r \in RowNumber |-> [project |-> job[j].rows[r].projectAction,
                                                   task |-> job[j].rows[r].taskAction]],
                 projectIdByKey |-> NoIds, taskIdByKey |-> NoIds, plan |-> None]
<1>1. HasJob(w) /\ j \in Job /\ Commits(worker[w])
  <2>1. HasJob(w)
    BY DEF HasJob, At
  <2> QED BY <2>1, Held DEF Base, Commits, At
<1>2. CASE ~Exists(j)
  <2>1. Go(w, Idle)
    BY <1>2
  <2> QED BY <1>1, <2>1, LayingDownKeepsBase DEF Base, TypeOK
<1>3. CASE Exists(j)
  <2>1. Go(w, s)
    BY <1>3
  <2>2. job[j].rows \in [RowNumber -> Row]
    <3>1. job[j].status = "committing" \/ j \in overtaken
      BY <1>3 DEF At, Base, HoldersFit, HolderFits, Commits, Exists
    <3> QED BY <1>1, <1>3, <3>1 DEF Base, RowsAreStaged, ChecksFit, WasReviewed, HasRows, Exists
  <2>3. NoIds \in [{} -> Id] /\ DOMAIN NoIds = {}
    BY DEF NoIds
  <2>4. IsCommit(s, {None})
    <3>1. [r \in RowNumber |-> [project |-> job[j].rows[r].projectAction,
                                task |-> job[j].rows[r].taskAction]]
            \in [RowNumber -> [project : Action, task : Action]]
      BY <2>2, Zenon DEF Row
    <3> QED BY <1>1, <3>1, FreshCommit, ZenonT(60)
  <2>5. /\ IsWorker(s) /\ s.at = "rows" /\ s.job = j /\ s.gone = FALSE
        /\ s.projectIdByKey = NoIds /\ s.taskIdByKey = NoIds
    BY <2>4, Zenon DEF IsWorker
  <2> HIDE DEF s
  <2>6. worker'[w] = s
    BY <2>1, <2>5, Steps DEF Base
  <2>7. MemoryFits(worker[w])'
    BY <2>3, <2>5, <2>6 DEF MemoryFits, CacheFits, RowStage
  <2>8. TasksHaveProjects' /\ worker[w].at = "committing"
    BY DEF Base, TasksHaveProjects, At
  <2> QED BY <1>1, <1>3, <2>1, <2>5, <2>7, <2>8, CommitKeepsBase DEF RowStage, Base, TypeOK
<1> QED BY <1>2, <1>3

LEMMA MarkRowKeepsBase ==
  ASSUME Base, NEW w \in Worker, MarkRowFailed(w)
  PROVE  Base'
<1> USE DEF MarkRowFailed, Quiet, History
<1> DEFINE j == worker[w].job
           r == worker[w].next
           s == [worker[w] EXCEPT !.at = "rows", !.next = r + 1]
<1>1. IsCommit(worker[w], {None}) /\ worker[w].at = "row_failed"
  BY Stages DEF Base, TypeOK, At
<1>2. HasJob(w) /\ Commits(worker[w]) /\ j \in Job /\ r \in Nat \ {0} /\ worker[w].gone \in BOOLEAN
  BY <1>1, CommitFields DEF HasJob, Commits, RowStage
<1>3. IsCommit(s, {None}) /\ s.at = "rows" /\ s.job = j /\ s.gone = worker[w].gone /\ s.plan = None
      /\ s.projectIdByKey = worker[w].projectIdByKey /\ s.taskIdByKey = worker[w].taskIdByKey
  <2>1. r + 1 \in Nat \ {0}
    BY <1>2
  <2> HIDE DEF r
  <2> QED BY <1>1, <1>2, <2>1 DEF IsCommit, RowStage
<1>4. IsWorker(s)
  BY <1>3 DEF IsWorker
<1>5. Go(w, s) /\ UNCHANGED <<request, overtaken, crashed, exposed, project, task>>
  OBVIOUS
<1> HIDE DEF s
<1>6. worker'[w] = s
  BY <1>4, <1>5, Steps DEF Base
<1>7. MemoryFits(worker[w]) /\ HolderFits(worker[w])
  BY DEF Base, PlansFit, HoldersFit
<1>8. MemoryFits(worker[w])'
  BY <1>1, <1>3, <1>5, <1>6, <1>7 DEF MemoryFits, CacheFits, RowStage
<1>9. \/ UNCHANGED job
      \/ \E rows \in [RowNumber -> Row] : Exists(j) /\ job' = [job EXCEPT ![j].rows = rows]
  <2>1. CASE worker[w].gone
    BY <2>1
  <2>2. CASE ~worker[w].gone
    <3>1. Exists(j)
      BY <1>1, <1>2, <1>7, <2>2 DEF HolderFits, Commits, RowStage, Exists, Base, ChecksFit, WasReviewed, Staged
    <3>2. job[j].rows \in [RowNumber -> Row]
      BY <1>1, <1>2, <1>7, <3>1 DEF HolderFits, Commits, RowStage, Exists, Base, RowsAreStaged, ChecksFit, WasReviewed, HasRows
    <3> DEFINE row == [job[j].rows[r] EXCEPT !.projectOutcome = "failed", !.taskOutcome = "failed"]
               rows == [job[j].rows EXCEPT ![r] = row]
    <3>3. rows \in [RowNumber -> Row]
      <4>1. r \in RowNumber
        BY <1>1, <1>7 DEF MemoryFits
      <4> QED BY <3>2, <4>1, RowTypes, Zenon DEF Outcome
    <3>4. job' = [job EXCEPT ![j].rows = rows]
      BY <1>2, <2>2 DEF Base, TypeOK
    <3> QED BY <3>1, <3>3, <3>4
  <2> QED BY <1>2, <2>1, <2>2
<1>10. TasksHaveProjects'
  BY DEF Base, TasksHaveProjects
<1> QED BY <1>1, <1>2, <1>3, <1>4, <1>5, <1>8, <1>9, <1>10, CommitKeepsBase, Zenon DEF RowStage, Base, TypeOK

(* The tables.                                                             *)
LEMMA RowOf ==
  ASSUME NEW S, NEW table \in Seq(S), NEW k \in DOMAIN table
  PROVE  table[k] \in S
OBVIOUS

LEMMA ChangedRow ==
  ASSUME NEW S, NEW table \in Seq(S), NEW i, NEW x, i \in DOMAIN table => x \in S
  PROVE  /\ [table EXCEPT ![i] = x] \in Seq(S)
         /\ DOMAIN [table EXCEPT ![i] = x] = DOMAIN table
         /\ \A k \in DOMAIN table : [table EXCEPT ![i] = x][k] = IF k = i THEN x ELSE table[k]
<1>1. table \in [1 .. Len(table) -> S] /\ Len(table) \in Nat /\ DOMAIN table = 1 .. Len(table)
  OBVIOUS
<1>2. [table EXCEPT ![i] = x] \in [1 .. Len(table) -> S]
  BY <1>1
<1>3. \A n \in Nat : \A f \in [1 .. n -> S] : f \in Seq(S)
  OBVIOUS
<1> QED BY <1>1, <1>2, <1>3

LEMMA NewRow ==
  ASSUME NEW S, NEW table \in Seq(S), NEW x \in S
  PROVE  /\ Append(table, x) \in Seq(S)
         /\ DOMAIN Append(table, x) = DOMAIN table \cup {Len(table) + 1}
         /\ Len(table) + 1 \in Nat \ {0} /\ Len(table) + 1 \notin DOMAIN table
         /\ Append(table, x)[Len(table) + 1] = x
         /\ \A k \in DOMAIN table : Append(table, x)[k] = table[k]
OBVIOUS

LEMMA TaskCounts ==
  ASSUME TypeOK, NEW p
  PROVE  Cardinality(TasksOf(p)) \in Nat
<1>1. DOMAIN task = 1 .. Len(task) /\ Len(task) \in Nat
  BY DEF TypeOK
<1>2. IsFiniteSet(DOMAIN task)
  BY <1>1, FS_Interval
<1> QED BY <1>2, FS_Subset, FS_CardinalityType DEF TasksOf

LEMMA ReadProjectKeepsBase ==
  ASSUME Base, NEW w \in Worker, ReadProject(w)
  PROVE  Base'
<1> USE DEF ReadProject, Quiet, History, Tables
<1> DEFINE n == Cardinality(TasksOf(Head(worker[w].touched)))
           s == [worker[w] EXCEPT !.at = "recalculate", !.plan = n]
<1>1. IsCommit(worker[w], {None}) /\ worker[w].at = "rows"
  BY Stages DEF Base, TypeOK, At
<1>2. HasJob(w) /\ Commits(worker[w]) /\ n \in Nat
  BY <1>1, TaskCounts DEF HasJob, Commits, RowStage, Base
<1>3. Go(w, s) /\ worker[w].next > Len(File) /\ worker[w].touched # <<>>
  OBVIOUS
<1> HIDE DEF n
<1>4. IsCommit(s, Nat) /\ s.at = "recalculate" /\ s.job = worker[w].job /\ s.gone = worker[w].gone
      /\ s.projectIdByKey = worker[w].projectIdByKey /\ s.taskIdByKey = worker[w].taskIdByKey
      /\ s.next = worker[w].next /\ s.touched = worker[w].touched
  BY <1>1, <1>2 DEF IsCommit, RowStage
<1>5. IsWorker(s)
  BY <1>4 DEF IsWorker
<1> HIDE DEF s
<1>6. worker'[w] = s
  BY <1>3, <1>5, Steps DEF Base
<1>7. MemoryFits(worker[w])
  BY DEF Base, PlansFit
<1>8. MemoryFits(worker[w])'
  BY <1>1, <1>3, <1>4, <1>6, <1>7 DEF MemoryFits, CacheFits, RowStage
<1>9. TasksHaveProjects'
  BY DEF Base, TasksHaveProjects
<1> QED BY <1>1, <1>2, <1>3, <1>4, <1>5, <1>8, <1>9, CommitKeepsBase DEF RowStage, Base, TypeOK

LEMMA WriteProjectKeepsBase ==
  ASSUME Base, NEW w \in Worker, WriteProject(w)
  PROVE  Base'
<1> USE DEF WriteProject
<1> DEFINE p == Head(worker[w].touched)
           n == worker[w].plan
           s == [worker[w] EXCEPT !.at = "rows", !.plan = None, !.touched = Tail(@)]
           row == [project[p] EXCEPT !.total = n]
<1>1. IsCommit(worker[w], Nat) /\ worker[w].at = "recalculate"
  BY Stages DEF Base, TypeOK, At
<1>2. MemoryFits(worker[w])
  BY DEF Base, PlansFit
<1>3. /\ HasJob(w) /\ Commits(worker[w]) /\ n \in Nat
      /\ worker[w].touched \in Seq(Nat) /\ worker[w].touched # <<>>
  BY <1>1, <1>2, CommitFields DEF HasJob, Commits, RowStage, MemoryFits
<1>4. p \in Nat /\ Tail(worker[w].touched) \in Seq(Nat)
  BY <1>3
<1>5. Go(w, s)
  OBVIOUS
<1>6. /\ IsCommit(s, {None}) /\ s.at = "rows" /\ s.job = worker[w].job /\ s.gone = worker[w].gone
      /\ s.projectIdByKey = worker[w].projectIdByKey /\ s.taskIdByKey = worker[w].taskIdByKey
  BY <1>1, <1>4 DEF IsCommit, RowStage
<1>7. IsWorker(s)
  BY <1>6 DEF IsWorker
<1> HIDE DEF s
<1>8. worker'[w] = s
  BY <1>5, <1>7, Steps DEF Base
<1>9. project' \in Seq(ProjectRow) /\ DOMAIN project' = DOMAIN project
  <2>1. project' = [project EXCEPT ![p] = row]
    OBVIOUS
  <2>2. project \in Seq(ProjectRow)
    BY DEF Base, TypeOK
  <2>3. p \in DOMAIN project => project[p] \in ProjectRow
    BY <2>2
  <2>4. p \in DOMAIN project => row \in ProjectRow
    BY <1>3, <2>3 DEF ProjectRow
  <2> HIDE DEF row, p
  <2>5. [project EXCEPT ![p] = row] \in Seq(ProjectRow) /\ DOMAIN [project EXCEPT ![p] = row] = DOMAIN project
    BY <2>2, <2>4, ChangedRow, Zenon
  <2> QED BY <2>1, <2>5, Zenon
<1>10. MemoryFits(worker[w])'
  BY <1>1, <1>2, <1>6, <1>8, <1>9 DEF MemoryFits, CacheFits, RowStage
<1>11. TasksHaveProjects'
  BY <1>9 DEF Base, TasksHaveProjects
<1>12. exposed' \subseteq Nat
  BY <1>4 DEF Base, TypeOK
<1> QED BY <1>1, <1>3, <1>5, <1>6, <1>7, <1>9, <1>10, <1>11, <1>12, CommitKeepsBase DEF RowStage, Base, TypeOK

(* What a row's transaction plans from the rows it finds.                  *)
LEMMA PlanIsTyped ==
  ASSUME NEW key, NEW found, NEW cached \in BOOLEAN, NEW action,
         NEW plan, plan = Plan(key, found, cached, action)
  PROVE  /\ plan.external \in BOOLEAN /\ plan.ignore \in BOOLEAN
         /\ plan = [id |-> plan.id, external |-> plan.external, ignore |-> plan.ignore]
         /\ plan.id \in found \cup {New}
BY DEF Plan

LEMMA FoundIsTyped ==
  ASSUME NEW cache, NEW ids, CacheFits(cache, ids), NEW key, NEW matches \in SUBSET ids
  PROVE  /\ Found(cache, key, matches) \subseteq ids \cup {None}
         /\ key \in DOMAIN cache =>
              Found(cache, key, matches) = IF cache[key] = Gone THEN {} ELSE {cache[key]}
BY DEF Found, CacheFits

LEMMA ProjectPlanFits ==
  ASSUME Base, NEW w \in Worker, At(w, "rows"), worker[w].next \in RowNumber,
         ProjectPlan(w, worker[w].next) # None
  PROVE  LET p == ProjectPlan(w, worker[w].next)
             key == File[worker[w].next].project
             cache == worker[w].projectIdByKey
         IN /\ p \in ProjectPlans
            /\ p.id \in DOMAIN project \cup {New}
            /\ key \in DOMAIN cache => p.id = IF cache[key] = Gone THEN New ELSE cache[key]
<1> DEFINE r == worker[w].next
           p == ProjectPlan(w, r)
           key == File[r].project
           cache == worker[w].projectIdByKey
           matches == MatchingProjects(key)
           found == Found(cache, key, matches)
<1>1. CacheFits(cache, DOMAIN project)
  BY DEF Base, PlansFit, MemoryFits, RowStage, At
<1>2. matches \in SUBSET DOMAIN project
  BY DEF MatchingProjects
<1>3. /\ found \subseteq DOMAIN project \cup {None}
      /\ key \in DOMAIN cache => found = IF cache[key] = Gone THEN {} ELSE {cache[key]}
  BY <1>1, <1>2, FoundIsTyped
<1> DEFINE action == worker[w].actions[r].project
<1>4. p = Plan(key, found, key \in DOMAIN cache, action)
  BY DEF ProjectPlan
<1>5. DOMAIN project \subseteq Nat
  BY DEF Base, TypeOK
<1> HIDE DEF found, key, cache, p, action
<1>6. /\ p.external \in BOOLEAN /\ p.ignore \in BOOLEAN
      /\ p = [id |-> p.id, external |-> p.external, ignore |-> p.ignore]
      /\ p.id \in found \cup {New}
      /\ key \in DOMAIN cache /\ found = {} => p.id = New
      /\ \A x : key \in DOMAIN cache /\ found = {x} => p.id = x
  BY <1>4 DEF Plan
<1>7. p.id \in DOMAIN project \cup {New}
  BY <1>3, <1>6 DEF New
<1>8. key \in DOMAIN cache => p.id = IF cache[key] = Gone THEN New ELSE cache[key]
  BY <1>3, <1>6
<1>9. p.id \in Id
  BY <1>5, <1>7 DEF Id, New
<1>10. p \in ProjectPlans
  BY <1>6, <1>9 DEF ProjectPlans
<1> QED BY <1>7, <1>8, <1>10 DEF p, key, cache

LEMMA TaskPlanFits ==
  ASSUME Base, NEW w \in Worker, At(w, "rows"), worker[w].next \in RowNumber, NEW p,
         TaskPlan(w, worker[w].next, p) # None
  PROVE  LET t == TaskPlan(w, worker[w].next, p)
         IN /\ t \in TaskPlans /\ t # None
            /\ t.id \in DOMAIN task \cup {New} /\ t.from \in DOMAIN project \cup {None}
            /\ t.from = None <=> t.id = New
<1> DEFINE r == worker[w].next
           t == TaskPlan(w, r, p)
           key == File[r].task
           cache == worker[w].taskIdByKey
           matches == MatchingTasks(key, p)
           found == Found(cache, TaskKey(key, p), matches)
           cached == TaskKey(key, p) \in DOMAIN cache
           action == worker[w].actions[r].task
           plan == Plan(key, found, cached, action)
<1>1. CacheFits(cache, DOMAIN task)
  BY DEF Base, PlansFit, MemoryFits, RowStage, At
<1>2. matches \in SUBSET DOMAIN task
  BY DEF MatchingTasks
<1>3. found \subseteq DOMAIN task \cup {None}
  BY <1>1, <1>2, FoundIsTyped
<1>4. t = [id |-> plan.id, external |-> plan.external, ignore |-> plan.ignore,
           from |-> IF plan.id = New THEN None ELSE task[plan.id].project]
  BY Zenon DEF TaskPlan
<1>5. DOMAIN task \subseteq Nat /\ DOMAIN project \subseteq Nat
  BY DEF Base, TypeOK
<1>6. cached \in BOOLEAN
  OBVIOUS
<1> HIDE DEF found, key, cache, cached, action
<1>7. /\ plan.external \in BOOLEAN /\ plan.ignore \in BOOLEAN
      /\ plan.id \in found \cup {New}
  BY <1>6, PlanIsTyped, Zenon
<1> HIDE DEF plan, t
<1>8. plan.id \in DOMAIN task \cup {New}
  BY <1>3, <1>7 DEF New
<1>9. plan.id # New => task[plan.id].project \in DOMAIN project
  BY <1>8 DEF Base, TasksHaveProjects
<1>10. None \notin DOMAIN project
  BY <1>5, ImportAssumption
<1>11. t \in TaskPlans /\ t.id = plan.id
       /\ t.from = IF plan.id = New THEN None ELSE task[plan.id].project
  BY <1>4, <1>5, <1>7, <1>8, <1>9 DEF TaskPlans, Id, New
<1>12. t # None
  BY DEF t
<1> QED BY <1>8, <1>9, <1>10, <1>11, <1>12 DEF t

LEMMA RememberFits ==
  ASSUME NEW cache, NEW keys, IsCache(cache, keys), NEW ids, CacheFits(cache, ids),
         NEW more, ids \subseteq more, NEW key \in keys, NEW id \in Id, id \in more \cup {Gone, None}
  PROVE  /\ IsCache(Remember(cache, key, id), keys) /\ CacheFits(Remember(cache, key, id), more)
         /\ DOMAIN Remember(cache, key, id) = DOMAIN cache \cup {key}
         /\ \A x \in DOMAIN cache \cup {key} :
              Remember(cache, key, id)[x] = IF x = key THEN id ELSE cache[x]
BY DEF IsCache, CacheFits, Remember

(* A row of a commit, read: it is planned, or it fails.                    *)
LEMMA RowRead ==
  ASSUME Base, NEW w \in Worker, ReadRow(w)
  PROVE  LET r == worker[w].next
             p == ProjectPlan(w, r)
             key == File[r].project
         IN /\ worker[w].at = "rows" /\ r \in RowNumber /\ UNCHANGED <<Tables, request, History>>
            /\ \/ Go(w, [worker[w] EXCEPT !.at = "row_failed"])
               \/ /\ p # None /\ p \in ProjectPlans
                  /\ Go(w, [worker[w] EXCEPT !.at = "row_failed",
                              !.projectIdByKey = Remember(worker[w].projectIdByKey, key, p.id)])
               \/ \E t \in TaskPlans \cup {None} :
                    /\ p # None /\ p \in ProjectPlans
                    /\ Go(w, [worker[w] EXCEPT !.at = "write", !.plan = [project |-> p, task |-> t]])
                    /\ t = None <=> File[r].task = None
                    /\ t # None => /\ t.id \in DOMAIN task \cup {New}
                                   /\ t.from \in DOMAIN project \cup {None}
                                   /\ t.from = None <=> t.id = New
<1> DEFINE r == worker[w].next
           p == ProjectPlan(w, r)
           t == TaskPlan(w, r, p.id)
           key == File[r].project
<1>1. /\ worker[w].at = "rows" /\ r \in RowNumber /\ UNCHANGED <<Tables, request, History>>
      /\ IsCommit(worker[w], {None})
  <2>1. worker[w].at = "rows" /\ r \in RowNumber /\ UNCHANGED <<Tables, request, History>>
    BY DEF ReadRow, Quiet, At
  <2> QED BY <2>1, Stages DEF Base, TypeOK
<1>2. Go(w, IF ~File[r].valid \/ p = None THEN [worker[w] EXCEPT !.at = "row_failed"]
              ELSE IF File[r].task = None
                   THEN [worker[w] EXCEPT !.at = "write", !.plan = [project |-> p, task |-> None]]
              ELSE IF t = None
                   THEN [worker[w] EXCEPT !.at = "row_failed",
                           !.projectIdByKey = Remember(@, File[r].project, p.id)]
              ELSE [worker[w] EXCEPT !.at = "write", !.plan = [project |-> p, task |-> t]])
  BY DEF ReadRow
<1>3. p # None => p \in ProjectPlans
  BY <1>1, ProjectPlanFits DEF At
<1>4. t # None => /\ t \in TaskPlans
                  /\ t.id \in DOMAIN task \cup {New} /\ t.from \in DOMAIN project \cup {None}
                  /\ t.from = None <=> t.id = New
  BY <1>1, TaskPlanFits DEF At
<1> HIDE DEF p, t
<1>6. CASE ~File[r].valid \/ p = None
  BY <1>1, <1>2, <1>6 DEF p
<1>7. CASE File[r].valid /\ p # None /\ File[r].task = None
  <2>1. Go(w, [worker[w] EXCEPT !.at = "write", !.plan = [project |-> p, task |-> None]])
    BY <1>2, <1>7, Zenon
  <2> QED BY <1>1, <1>3, <1>7, <2>1 DEF p
<1>8. CASE File[r].valid /\ p # None /\ File[r].task # None /\ t = None
  <2>1. Go(w, [worker[w] EXCEPT !.at = "row_failed",
                 !.projectIdByKey = Remember(worker[w].projectIdByKey, key, p.id)])
    BY <1>1, <1>2, <1>8
  <2> QED BY <1>1, <1>3, <1>8, <2>1 DEF p
<1>9. CASE File[r].valid /\ p # None /\ File[r].task # None /\ t # None
  <2>1. Go(w, [worker[w] EXCEPT !.at = "write", !.plan = [project |-> p, task |-> t]])
    BY <1>2, <1>9, Zenon
  <2> QED BY <1>1, <1>3, <1>4, <1>9, <2>1 DEF p
<1> QED BY <1>6, <1>7, <1>8, <1>9, Rows, Zenon

LEMMA ReadRowKeepsBase ==
  ASSUME Base, NEW w \in Worker, ReadRow(w)
  PROVE  Base'
<1> DEFINE r == worker[w].next
           p == ProjectPlan(w, r)
           key == File[r].project
<1>1. /\ worker[w].at = "rows" /\ r \in RowNumber /\ UNCHANGED <<job, project, task, request, exposed, crashed, overtaken>>
  BY RowRead, Zenon DEF Tables, History
<1>2. IsCommit(worker[w], {None}) /\ MemoryFits(worker[w])
  BY <1>1, Stages DEF Base, TypeOK, PlansFit
<1>3. /\ IsCache(worker[w].projectIdByKey, Key)
      /\ CacheFits(worker[w].projectIdByKey, DOMAIN project) /\ CacheFits(worker[w].taskIdByKey, DOMAIN task)
  BY <1>1, <1>2, CommitFields DEF MemoryFits, RowStage
<1>4. HasJob(w) /\ Commits(worker[w])
  BY <1>1 DEF HasJob, Commits, RowStage
<1>5. ASSUME NEW s, Go(w, s), IsWorker(s), s.at \in RowStage, s.job = worker[w].job,
             s.gone = worker[w].gone, MemoryFits(s)
      PROVE  Base'
  <2>1. worker'[w] = s
    BY <1>5, Steps DEF Base
  <2>2. MemoryFits(worker[w])'
    BY <1>1, <1>5, <2>1 DEF MemoryFits, PlanFits
  <2>3. TasksHaveProjects'
    BY <1>1 DEF Base, TasksHaveProjects
  <2> QED BY <1>1, <1>4, <1>5, <2>2, <2>3, CommitKeepsBase DEF Base, TypeOK
<1>6. CASE Go(w, [worker[w] EXCEPT !.at = "row_failed"])
  <2> DEFINE s == [worker[w] EXCEPT !.at = "row_failed"]
  <2>1. /\ IsCommit(s, {None}) /\ s.at = "row_failed" /\ s.job = worker[w].job /\ s.gone = worker[w].gone
        /\ s.next = r /\ s.projectIdByKey = worker[w].projectIdByKey /\ s.taskIdByKey = worker[w].taskIdByKey
    BY <1>2 DEF IsCommit, RowStage
  <2>2. Go(w, s)
    BY <1>6
  <2> HIDE DEF s
  <2>3. IsWorker(s) /\ MemoryFits(s)
    BY <1>1, <1>3, <2>1 DEF IsWorker, MemoryFits
  <2> QED BY <1>5, <2>1, <2>2, <2>3 DEF RowStage
<1>7. CASE /\ p # None /\ p \in ProjectPlans
           /\ Go(w, [worker[w] EXCEPT !.at = "row_failed",
                       !.projectIdByKey = Remember(worker[w].projectIdByKey, key, p.id)])
  <2> DEFINE c == Remember(worker[w].projectIdByKey, key, p.id)
             s == [worker[w] EXCEPT !.at = "row_failed", !.projectIdByKey = c]
  <2>1. p.id \in Id /\ key \in Key /\ p.id \in DOMAIN project \cup {Gone, None}
    BY <1>1, <1>7, Rows, ProjectPlanFits DEF ProjectPlans, At, New
  <2>2. IsCache(c, Key) /\ CacheFits(c, DOMAIN project)
    <3> DEFINE id == p.id
               cache == worker[w].projectIdByKey
               ids == DOMAIN project
    <3>1. IsCache(cache, Key) /\ CacheFits(cache, ids) /\ id \in Id /\ id \in ids \cup {Gone, None}
      BY <1>3, <2>1
    <3> HIDE DEF id, cache, ids, key
    <3>2. IsCache(Remember(cache, key, id), Key) /\ CacheFits(Remember(cache, key, id), ids)
      BY <2>1, <3>1, RememberFits
    <3> QED BY <3>2 DEF id, cache, ids
  <2>3. Go(w, s)
    BY <1>7
  <2> HIDE DEF c
  <2>4. /\ IsCommit(s, {None}) /\ s.at = "row_failed" /\ s.job = worker[w].job /\ s.gone = worker[w].gone
        /\ s.next = r /\ s.projectIdByKey = c /\ s.taskIdByKey = worker[w].taskIdByKey
    BY <1>2, <2>2 DEF IsCommit, RowStage
  <2> HIDE DEF s
  <2>5. IsWorker(s) /\ MemoryFits(s)
    BY <1>1, <1>3, <2>2, <2>4 DEF IsWorker, MemoryFits
  <2> QED BY <1>5, <2>3, <2>4, <2>5 DEF RowStage
<1>8. ASSUME NEW t \in TaskPlans \cup {None}, p # None, p \in ProjectPlans,
             Go(w, [worker[w] EXCEPT !.at = "write", !.plan = [project |-> p, task |-> t]]),
             t = None <=> File[r].task = None,
             t # None => /\ t.id \in DOMAIN task \cup {New} /\ t.from \in DOMAIN project \cup {None}
                         /\ t.from = None <=> t.id = New
      PROVE  Base'
  <2> DEFINE plan == [project |-> p, task |-> t]
             s == [worker[w] EXCEPT !.at = "write", !.plan = plan]
  <2>1. plan \in RowPlans /\ plan.project = p /\ plan.task = t
    BY <1>8 DEF RowPlans
  <2>2. /\ p.id \in DOMAIN project \cup {New}
        /\ key \in DOMAIN worker[w].projectIdByKey
             => p.id = IF worker[w].projectIdByKey[key] = Gone THEN New ELSE worker[w].projectIdByKey[key]
    BY <1>1, <1>8, ProjectPlanFits DEF At
  <2>3. Go(w, s)
    BY <1>8
  <2> HIDE DEF plan, p
  <2>4. /\ IsCommit(s, RowPlans) /\ s.at = "write" /\ s.job = worker[w].job /\ s.gone = worker[w].gone
        /\ s.next = r /\ s.projectIdByKey = worker[w].projectIdByKey /\ s.taskIdByKey = worker[w].taskIdByKey
        /\ s.plan = plan
    BY <1>2, <2>1 DEF IsCommit, RowStage
  <2> HIDE DEF s
  <2>5. PlanFits(s)
    BY <1>1, <1>8, <2>1, <2>2, <2>4 DEF PlanFits
  <2>6. IsWorker(s) /\ MemoryFits(s)
    BY <1>1, <1>3, <2>4, <2>5 DEF IsWorker, MemoryFits
  <2> QED BY <1>5, <2>3, <2>4, <2>6 DEF RowStage
<1> QED BY <1>6, <1>7, <1>8, RowRead, Zenon

(* What a planned row does.                                                *)
LEMMA EffectIs ==
  ASSUME Base, NEW w \in Worker, At(w, "write"), NEW differs
  PROVE  LET e == Effect(w, differs)
             P == worker[w].plan.project
             T == worker[w].plan.task
         IN /\ e.projectOutcome \in {"created", "updated", "skipped"}
            /\ e.taskOutcome \in {"created", "updated", "skipped"}
            /\ (e.projectOutcome = "created") <=> P.id = New
            /\ e.project = IF P.id = New THEN Len(project) + 1 ELSE P.id
            /\ (e.taskOutcome = "created") <=> (T # None /\ T.id = New)
            /\ e.taskOutcome = "updated" => T # None /\ T.id # New
            /\ e.task = IF T = None THEN None ELSE IF T.id = New THEN Len(task) + 1 ELSE T.id
            /\ e.from = IF e.taskOutcome = "updated" /\ T.from # e.project THEN T.from ELSE None
BY DEF Effect, OutcomeOf, PreviousProject

(* A row that is undone leaves at most the ids it was about to make in     *)
(* the memory of the worker.                                               *)
LEMMA RowRolledBack ==
  ASSUME NEW w \in Worker, RollBackRow(w)
  PROVE  \E differs \in Differences, cachedProject \in BOOLEAN, cachedTask \in BOOLEAN :
           LET r == worker[w].next
               plan == worker[w].plan
               e == Effect(w, differs)
               idOf(outcome, id) == IF outcome = "created" THEN Gone ELSE id
               home == idOf(e.projectOutcome, e.project)
           IN /\ At(w, "write") /\ (cachedTask => plan.task # None)
              /\ Quiet /\ UNCHANGED Tables
              /\ Go(w, [worker[w] EXCEPT !.at = "row_failed", !.plan = None,
                      !.projectIdByKey =
                         IF cachedProject THEN Remember(@, File[r].project, home) ELSE @,
                      !.taskIdByKey =
                         IF cachedTask
                         THEN Remember(@, TaskKey(File[r].task, home), idOf(e.taskOutcome, e.task))
                         ELSE @])
BY ZenonT(60) DEF RollBackRow

LEMMA RollBackGoesOn ==
  ASSUME NEW w \in Worker, RollBackRow(w)
  PROVE  \E pids, tids : Go(w, [worker[w] EXCEPT !.at = "row_failed", !.plan = None,
                                   !.projectIdByKey = pids, !.taskIdByKey = tids])
<1> PICK differs \in Differences, cachedProject \in BOOLEAN, cachedTask \in BOOLEAN :
      LET r == worker[w].next
          e == Effect(w, differs)
          idOf(outcome, id) == IF outcome = "created" THEN Gone ELSE id
          home == idOf(e.projectOutcome, e.project)
      IN Go(w, [worker[w] EXCEPT !.at = "row_failed", !.plan = None,
                  !.projectIdByKey =
                     IF cachedProject THEN Remember(@, File[r].project, home) ELSE @,
                  !.taskIdByKey =
                     IF cachedTask
                     THEN Remember(@, TaskKey(File[r].task, home), idOf(e.taskOutcome, e.task))
                     ELSE @])
  BY RowRolledBack, Zenon
<1> QED OBVIOUS

LEMMA RollBackKeepsBase ==
  ASSUME Base, NEW w \in Worker, RollBackRow(w)
  PROVE  Base'
<1> DEFINE r == worker[w].next
           plan == worker[w].plan
           pids == worker[w].projectIdByKey
           tids == worker[w].taskIdByKey
<1>1. PICK differs \in Differences, cachedProject \in BOOLEAN, cachedTask \in BOOLEAN :
        LET e == Effect(w, differs)
            idOf(outcome, id) == IF outcome = "created" THEN Gone ELSE id
            home == idOf(e.projectOutcome, e.project)
        IN /\ At(w, "write") /\ (cachedTask => plan.task # None)
           /\ Quiet /\ UNCHANGED Tables
           /\ Go(w, [worker[w] EXCEPT !.at = "row_failed", !.plan = None,
                   !.projectIdByKey =
                      IF cachedProject THEN Remember(@, File[r].project, home) ELSE @,
                   !.taskIdByKey =
                      IF cachedTask
                      THEN Remember(@, TaskKey(File[r].task, home), idOf(e.taskOutcome, e.task))
                      ELSE @])
  BY RowRolledBack, Zenon
<1> DEFINE e == Effect(w, differs)
           home == IF e.projectOutcome = "created" THEN Gone ELSE e.project
           it == IF e.taskOutcome = "created" THEN Gone ELSE e.task
           c == IF cachedProject THEN Remember(pids, File[r].project, home) ELSE pids
           d == IF cachedTask THEN Remember(tids, TaskKey(File[r].task, home), it) ELSE tids
           s == [worker[w] EXCEPT !.at = "row_failed", !.plan = None,
                                  !.projectIdByKey = c, !.taskIdByKey = d]
<1>2. IsCommit(worker[w], RowPlans) /\ MemoryFits(worker[w]) /\ worker[w].at = "write" /\ PlanFits(worker[w])
  BY <1>1, Stages DEF Base, TypeOK, PlansFit, At, MemoryFits
<1>3. /\ IsCache(pids, Key) /\ CacheFits(pids, DOMAIN project)
      /\ IsCache(tids, Key \X Id) /\ CacheFits(tids, DOMAIN task)
      /\ plan \in RowPlans /\ r \in RowNumber
  BY <1>2, CommitFields DEF MemoryFits, RowStage, PlanFits
<1>4. DOMAIN project \subseteq Nat /\ DOMAIN task \subseteq Nat
  BY DEF Base, TypeOK
<1>5. /\ home \in DOMAIN project \cup {Gone, None} /\ home \in Id
      /\ cachedTask => it \in DOMAIN task \cup {Gone, None} /\ it \in Id
  BY <1>1, <1>2, <1>4, EffectIs DEF PlanFits, Id, Gone, New
<1>6. File[r].project \in Key /\ (cachedTask => TaskKey(File[r].task, home) \in Key \X Id)
  BY <1>1, <1>2, <1>3, <1>5, Rows DEF TaskKey, PlanFits, Id
<1>7. worker[w].projectIdByKey = pids /\ worker[w].taskIdByKey = tids /\ Go(w, s)
  BY <1>1
<1> HIDE DEF home, it, pids, tids, e
<1> DEFINE K == File[r].project
           L == TaskKey(File[r].task, home)
           ps == DOMAIN project
           ts == DOMAIN task
           taskKeys == Key \X Id
<1> HIDE DEF K, L, ps, ts, taskKeys
<1>8. IsCache(c, Key) /\ CacheFits(c, DOMAIN project)
  <2>1. IsCache(pids, Key) /\ CacheFits(pids, ps) /\ K \in Key /\ home \in Id /\ home \in ps \cup {Gone, None}
    BY <1>3, <1>5, <1>6 DEF K, ps
  <2>2. IsCache(Remember(pids, K, home), Key) /\ CacheFits(Remember(pids, K, home), ps)
    BY <2>1, RememberFits
  <2> QED BY <2>1, <2>2 DEF K, ps
<1>9. IsCache(d, Key \X Id) /\ CacheFits(d, DOMAIN task)
  <2>1. IsCache(tids, taskKeys) /\ CacheFits(tids, ts)
    BY <1>3 DEF ts, taskKeys
  <2>2. CASE cachedTask
    <3>1. L \in taskKeys /\ it \in Id /\ it \in ts \cup {Gone, None}
      BY <1>5, <1>6, <2>2 DEF L, ts, taskKeys
    <3>2. IsCache(Remember(tids, L, it), taskKeys) /\ CacheFits(Remember(tids, L, it), ts)
      BY <2>1, <3>1, RememberFits
    <3> QED BY <2>2, <3>2 DEF L, ts, taskKeys
  <2>3. CASE ~cachedTask
    BY <2>1, <2>3 DEF ts, taskKeys
  <2> QED BY <2>2, <2>3
<1> HIDE DEF c, d
<1>10. /\ IsCommit(s, {None}) /\ s.at = "row_failed" /\ s.job = worker[w].job /\ s.gone = worker[w].gone
       /\ s.next = r /\ s.projectIdByKey = c /\ s.taskIdByKey = d
  BY <1>2, <1>8, <1>9 DEF IsCommit, RowStage
<1> HIDE DEF s
<1>11. IsWorker(s) /\ MemoryFits(s)
  BY <1>3, <1>8, <1>9, <1>10 DEF IsWorker, MemoryFits
<1>12. worker'[w] = s
  BY <1>7, <1>11, Steps DEF Base
<1>13. UNCHANGED <<job, project, task, request, exposed, crashed, overtaken>>
  BY <1>1 DEF Quiet, History, Tables
<1>14. MemoryFits(worker[w])' /\ TasksHaveProjects'
  BY <1>11, <1>12, <1>13 DEF MemoryFits, PlanFits, Base, TasksHaveProjects
<1>15. HasJob(w) /\ Commits(worker[w])
  BY <1>2 DEF HasJob, Commits, RowStage
<1> QED BY <1>2, <1>7, <1>10, <1>11, <1>13, <1>14, <1>15, CommitKeepsBase DEF Base, TypeOK, RowStage

(* A row's project and task after its transaction.                         *)
LEMMA ProjectWritten ==
  ASSUME Base, NEW w \in Worker, At(w, "write"), NEW outcome, NEW id,
         LET P == worker[w].plan.project IN
         /\ (outcome = "created") <=> P.id = New
         /\ id = IF P.id = New THEN Len(project) + 1 ELSE P.id,
         project' =
            CASE outcome = "created" ->
                   Append(project, [key |-> File[worker[w].next].project,
                                    external |-> worker[w].plan.project.external,
                                    total |-> 0, by |-> worker[w].job])
              [] outcome = "updated" ->
                   [project EXCEPT ![id].external = @ \/ worker[w].plan.project.external]
              [] OTHER -> project
  PROVE  /\ project' \in Seq(ProjectRow)
         /\ DOMAIN project' = DOMAIN project \cup {id} /\ id \in Nat \ {0}
         /\ \A k \in DOMAIN project : project'[k].by = project[k].by /\ project'[k].total = project[k].total
         /\ outcome = "created" =>
              id \notin DOMAIN project /\ project'[id].by = worker[w].job /\ project'[id].total = 0
         /\ outcome # "created" => id \in DOMAIN project
<1> DEFINE P == worker[w].plan.project
           j == worker[w].job
           K == File[worker[w].next].project
<1>1. IsCommit(worker[w], RowPlans) /\ PlanFits(worker[w])
  BY Stages DEF Base, TypeOK, PlansFit, At, MemoryFits
<1>2. j \in Job /\ P \in ProjectPlans /\ worker[w].next \in RowNumber /\ P.id \in DOMAIN project \cup {New}
  <2>1. worker[w].job \in Job /\ worker[w].plan \in RowPlans
    BY <1>1, CommitFields
  <2> QED BY <1>1, <2>1 DEF RowPlans, PlanFits
<1>3. project \in Seq(ProjectRow) /\ DOMAIN project = 1 .. Len(project) /\ Len(project) \in Nat
  BY DEF Base, TypeOK
<1>4. K \in Key /\ P.external \in BOOLEAN
  BY <1>2, Rows DEF ProjectPlans
<1>5. None \notin DOMAIN project
  BY ONLY <1>3, ImportAssumption
<1> HIDE DEF P, j, K
<1>6. CASE outcome = "created"
  <2> DEFINE row == [key |-> K, external |-> P.external, total |-> 0, by |-> j]
  <2>1. row \in ProjectRow /\ row.by = j /\ row.total = 0
    BY <1>2, <1>4 DEF ProjectRow
  <2>2. project' = Append(project, row)
    BY <1>6 DEF K, P, j
  <2>3. id = Len(project) + 1
    BY <1>6 DEF P
  <2> HIDE DEF row
  <2>4. /\ project' \in Seq(ProjectRow) /\ DOMAIN project' = DOMAIN project \cup {id}
        /\ id \in Nat \ {0} /\ id \notin DOMAIN project /\ project'[id] = row
        /\ \A k \in DOMAIN project : project'[k] = project[k]
    <3>1. /\ Append(project, row) \in Seq(ProjectRow)
          /\ DOMAIN Append(project, row) = DOMAIN project \cup {Len(project) + 1}
          /\ Len(project) + 1 \in Nat \ {0} /\ Len(project) + 1 \notin DOMAIN project
          /\ Append(project, row)[Len(project) + 1] = row
          /\ \A k \in DOMAIN project : Append(project, row)[k] = project[k]
      <4>1. Append(project, row) \in Seq(ProjectRow)
        BY ONLY <1>3, <2>1, NewRow
      <4>2. DOMAIN Append(project, row) = DOMAIN project \cup {Len(project) + 1}
        BY ONLY <1>3, <2>1, NewRow
      <4>3. Len(project) + 1 \in Nat \ {0} /\ Len(project) + 1 \notin DOMAIN project
        BY ONLY <1>3
      <4>4. Append(project, row)[Len(project) + 1] = row
        BY ONLY <1>3, <2>1, NewRow
      <4>5. \A k \in DOMAIN project : Append(project, row)[k] = project[k]
        BY ONLY <1>3, <2>1, NewRow
      <4> QED BY <4>1, <4>2, <4>3, <4>4, <4>5
    <3> QED BY <2>2, <2>3, <3>1, Zenon
  <2> QED BY <1>6, <2>1, <2>4 DEF j
<1>7. CASE outcome # "created"
  <2>1. id = P.id /\ id \in DOMAIN project /\ id \in Nat \ {0}
    <3>1. P.id # New /\ id = P.id
      BY <1>7, Zenon DEF P
    <3> QED BY ONLY <1>2, <1>3, <3>1
  <2>2. project[id] \in ProjectRow
    BY <1>3, <2>1, RowOf, Zenon
  <2> DEFINE external == project[id].external \/ P.external
             row == [project[id] EXCEPT !.external = external]
  <2>3. external \in BOOLEAN
    OBVIOUS
  <2> HIDE DEF external
  <2>4. row \in ProjectRow /\ row.by = project[id].by /\ row.total = project[id].total
    BY <2>2, <2>3, Zenon DEF ProjectRow
  <2>5. outcome = "updated" => project' = [project EXCEPT ![id] = row]
    <3>1. outcome = "updated" =>
            project' = [project EXCEPT ![id].external = project[id].external \/ P.external]
      BY <1>7, <2>1 DEF P
    <3> QED BY <3>1, Zenon DEF external
  <2>6. outcome # "updated" => project' = project
    BY <1>7
  <2> HIDE DEF row
  <2>7. /\ project' \in Seq(ProjectRow) /\ DOMAIN project' = DOMAIN project
        /\ \A k \in DOMAIN project : project'[k].by = project[k].by /\ project'[k].total = project[k].total
    <3>1. CASE outcome = "updated"
      <4>1. /\ [project EXCEPT ![id] = row] \in Seq(ProjectRow)
            /\ DOMAIN [project EXCEPT ![id] = row] = DOMAIN project
            /\ \A k \in DOMAIN project : [project EXCEPT ![id] = row][k] = IF k = id THEN row ELSE project[k]
        BY <1>3, <2>4, ChangedRow, Zenon
      <4> QED BY <2>4, <2>5, <3>1, <4>1, Zenon
    <3>2. CASE outcome # "updated"
      BY <1>3, <2>6, <3>2, Zenon
    <3> QED BY <3>1, <3>2, Zenon
  <2> QED BY <1>7, <2>1, <2>7
<1> QED BY <1>6, <1>7, Zenon

(* What a committed row has done, part by part.                            *)
Stored == {"created", "updated", "skipped"}
RowAfter(row, e) ==
  [projectAction |-> row.projectAction, taskAction |-> row.taskAction,
   projectOutcome |-> e.projectOutcome, taskOutcome |-> e.taskOutcome,
   project |-> e.project, task |-> e.task]
WorkerAfter(s, e) ==
  [s EXCEPT !.at = "rows", !.next = s.next + 1, !.plan = None,
            !.projectIdByKey = Remember(s.projectIdByKey, File[s.next].project, e.project),
            !.taskIdByKey = IF s.plan.task = None THEN s.taskIdByKey
                            ELSE Remember(s.taskIdByKey, TaskKey(File[s.next].task, e.project), e.task),
            !.touched = AddNew(AddNew(s.touched, e.project), e.from)]
RowDone(w, e) ==
  LET j == worker[w].job
      r == worker[w].next
      P == worker[w].plan.project
      T == worker[w].plan.task
      rows == job[j].rows
  IN /\ IsCommit(worker[w], RowPlans) /\ worker[w].at = "write" /\ PlanFits(worker[w])
     /\ ~worker[w].gone /\ j \in Job /\ r \in RowNumber /\ Exists(j) /\ rows \in [RowNumber -> Row]
     /\ e.projectOutcome \in Stored /\ e.taskOutcome \in Stored
     /\ (e.projectOutcome = "created") <=> P.id = New
     /\ P.id # New => e.project = P.id
     /\ e.project \in Nat \ {0} /\ e.task \in (Nat \ {0}) \cup {None}
     /\ T = None => e.task = None /\ e.taskOutcome = "skipped"
     /\ e.from = IF e.taskOutcome = "updated" /\ T.from # e.project THEN T.from ELSE None
     /\ e.taskOutcome = "updated" => T.from \in Nat
     /\ job' = [job EXCEPT ![j].rows = [rows EXCEPT ![r] = RowAfter(rows[r], e)]]
     /\ Go(w, WorkerAfter(worker[w], e))
     /\ UNCHANGED <<request, crashed, overtaken>>
     /\ exposed' = exposed \cup {p \in IF e.taskOutcome = "updated" THEN {task[e.task].project} ELSE {} :
                                   p \notin {e.project, T.from}}
ProjectsAfter(w, e) ==
  /\ project' \in Seq(ProjectRow) /\ DOMAIN project' = DOMAIN project \cup {e.project}
  /\ \A k \in DOMAIN project : project'[k].by = project[k].by /\ project'[k].total = project[k].total
  /\ e.projectOutcome = "created" => /\ e.project \notin DOMAIN project
                                     /\ project'[e.project].by = worker[w].job
                                     /\ project'[e.project].total = 0
  /\ e.projectOutcome # "created" => e.project \in DOMAIN project
TasksAfter(w, e) ==
  /\ task' \in Seq(TaskRow) /\ DOMAIN task' = DOMAIN task \cup ({e.task} \ {None})
  /\ \A k \in DOMAIN task :
       /\ task'[k].by = task[k].by
       /\ ~(e.taskOutcome = "updated" /\ k = e.task) => task'[k].project = task[k].project
  /\ e.taskOutcome \in {"created", "updated"} =>
       e.task \in DOMAIN task' /\ task'[e.task].project = e.project
  /\ e.taskOutcome = "created" => e.task \notin DOMAIN task /\ task'[e.task].by = worker[w].job
  /\ e.taskOutcome # "created" => e.task \in DOMAIN task \cup {None}
  /\ e.taskOutcome = "updated" => e.task \in DOMAIN task

LEMMA TaskWritten ==
  ASSUME Base, NEW w \in Worker, At(w, "write"), NEW e, e.project \in Nat,
         LET T == worker[w].plan.task IN
         /\ (e.taskOutcome = "created") <=> (T # None /\ T.id = New)
         /\ e.taskOutcome = "updated" => T # None /\ T.id # New
         /\ e.task = IF T = None THEN None ELSE IF T.id = New THEN Len(task) + 1 ELSE T.id,
         task' =
            CASE e.taskOutcome = "created" ->
                   Append(task, [key |-> File[worker[w].next].task,
                                 external |-> worker[w].plan.task.external,
                                 project |-> e.project, by |-> worker[w].job])
              [] e.taskOutcome = "updated" ->
                   [task EXCEPT ![e.task] = Moved(@, e.project, worker[w].plan.task)]
              [] OTHER -> task
  PROVE  TasksAfter(w, e)
<1> DEFINE outcome == e.taskOutcome
           id == e.task
           home == e.project
<1> DEFINE T == worker[w].plan.task
           j == worker[w].job
           L == File[worker[w].next].task
<1>1. IsCommit(worker[w], RowPlans) /\ PlanFits(worker[w])
  BY Stages DEF Base, TypeOK, PlansFit, At, MemoryFits
<1>2. /\ j \in Job /\ T \in TaskPlans \cup {None} /\ worker[w].next \in RowNumber
      /\ T # None => T.id \in DOMAIN task \cup {New} /\ L # None
  <2>1. worker[w].job \in Job /\ worker[w].plan \in RowPlans
    BY <1>1, CommitFields
  <2> QED BY <1>1, <2>1 DEF RowPlans, PlanFits
<1>3. task \in Seq(TaskRow) /\ DOMAIN task = 1 .. Len(task) /\ Len(task) \in Nat
  BY DEF Base, TypeOK
<1>4. T # None => L \in Key /\ T.external \in BOOLEAN
  BY <1>2, Rows DEF TaskPlans
<1>5. None \notin DOMAIN task /\ None \notin Nat
  BY <1>3, ImportAssumption
<1> HIDE DEF T, j, L
<1>6. ASSUME outcome = "created"
      PROVE  /\ task' \in Seq(TaskRow)
             /\ DOMAIN task' = DOMAIN task \cup ({id} \ {None})
             /\ \A k \in DOMAIN task :
                  /\ task'[k].by = task[k].by
                  /\ ~(outcome = "updated" /\ k = id) => task'[k].project = task[k].project
             /\ outcome \in {"created", "updated"} => id \in Nat \ {0} /\ task'[id].project = home
             /\ outcome = "created" => id \notin DOMAIN task /\ task'[id].by = worker[w].job
             /\ outcome # "created" => id \in DOMAIN task \cup {None}
             /\ outcome = "updated" => id \in DOMAIN task
  <2> DEFINE row == [key |-> L, external |-> T.external, project |-> home, by |-> j]
  <2>1. row \in TaskRow /\ row.by = j /\ row.project = home
    BY <1>2, <1>4, <1>6 DEF TaskRow, T
  <2>2. task' = Append(task, row)
    BY <1>6 DEF L, T, j
  <2>3. id = Len(task) + 1
    BY <1>6 DEF T
  <2> HIDE DEF row
  <2>4. Append(task, row) \in Seq(TaskRow)
    BY <1>3, <2>1, NewRow
  <2>5. DOMAIN Append(task, row) = DOMAIN task \cup {Len(task) + 1}
    BY <1>3, <2>1, NewRow
  <2>6. Len(task) + 1 \in Nat \ {0} /\ Len(task) + 1 \notin DOMAIN task
    BY <1>3
  <2>7. Append(task, row)[Len(task) + 1] = row
    BY <1>3, <2>1, NewRow
  <2>8. \A k \in DOMAIN task : Append(task, row)[k] = task[k]
    BY <1>3, <2>1, NewRow
  <2> QED BY <1>5, <1>6, <2>1, <2>2, <2>3, <2>4, <2>5, <2>6, <2>7, <2>8 DEF j
<1>7. ASSUME outcome = "updated"
      PROVE  /\ task' \in Seq(TaskRow)
             /\ DOMAIN task' = DOMAIN task \cup ({id} \ {None})
             /\ \A k \in DOMAIN task :
                  /\ task'[k].by = task[k].by
                  /\ ~(outcome = "updated" /\ k = id) => task'[k].project = task[k].project
             /\ outcome \in {"created", "updated"} => id \in Nat \ {0} /\ task'[id].project = home
             /\ outcome = "created" => id \notin DOMAIN task /\ task'[id].by = worker[w].job
             /\ outcome # "created" => id \in DOMAIN task \cup {None}
             /\ outcome = "updated" => id \in DOMAIN task
  <2>1. T # None /\ id = T.id /\ id \in DOMAIN task /\ id \in Nat \ {0}
    BY <1>2, <1>3, <1>7 DEF T
  <2>2. task[id] \in TaskRow
    BY <1>3, <2>1, RowOf, Zenon
  <2> DEFINE row == Moved(task[id], home, T)
  <2>4. task' = [task EXCEPT ![id] = row]
    BY <1>7 DEF T
  <2>5. row \in TaskRow /\ row.by = task[id].by /\ row.project = home
    <3> DEFINE external == task[id].external \/ T.external
    <3>1. external \in BOOLEAN
      OBVIOUS
    <3> HIDE DEF external
    <3>2. row = [task[id] EXCEPT !.project = home, !.external = external]
      BY DEF Moved, external
    <3> QED BY <2>2, <3>1, <3>2, Zenon DEF TaskRow
  <2> HIDE DEF row
  <2>6. /\ [task EXCEPT ![id] = row] \in Seq(TaskRow)
        /\ DOMAIN [task EXCEPT ![id] = row] = DOMAIN task
        /\ \A k \in DOMAIN task : [task EXCEPT ![id] = row][k] = IF k = id THEN row ELSE task[k]
    BY <1>3, <2>5, ChangedRow, Zenon
  <2> QED BY <1>7, <2>1, <2>4, <2>5, <2>6
<1>8. ASSUME outcome \notin {"created", "updated"}
      PROVE  /\ task' \in Seq(TaskRow)
             /\ DOMAIN task' = DOMAIN task \cup ({id} \ {None})
             /\ \A k \in DOMAIN task :
                  /\ task'[k].by = task[k].by
                  /\ ~(outcome = "updated" /\ k = id) => task'[k].project = task[k].project
             /\ outcome \in {"created", "updated"} => id \in Nat \ {0} /\ task'[id].project = home
             /\ outcome = "created" => id \notin DOMAIN task /\ task'[id].by = worker[w].job
             /\ outcome # "created" => id \in DOMAIN task \cup {None}
             /\ outcome = "updated" => id \in DOMAIN task
  <2>1. task' = task
    BY <1>8
  <2>2. id \in DOMAIN task \cup {None}
    BY <1>2, <1>8 DEF T
  <2> QED BY <1>3, <1>8, <2>1, <2>2, Zenon
<1>9. /\ task' \in Seq(TaskRow)
      /\ DOMAIN task' = DOMAIN task \cup ({id} \ {None})
      /\ \A k \in DOMAIN task :
           /\ task'[k].by = task[k].by
           /\ ~(outcome = "updated" /\ k = id) => task'[k].project = task[k].project
      /\ outcome \in {"created", "updated"} => id \in Nat \ {0} /\ task'[id].project = home
      /\ outcome = "created" => id \notin DOMAIN task /\ task'[id].by = worker[w].job
      /\ outcome # "created" => id \in DOMAIN task \cup {None}
      /\ outcome = "updated" => id \in DOMAIN task
  BY <1>6, <1>7, <1>8, Zenon
<1> QED BY <1>5, <1>9, Zenon DEF TasksAfter

LEMMA RowCommitted ==
  ASSUME Base, NEW w \in Worker, CommitRow(w)
  PROVE  \E e : RowDone(w, e) /\ ProjectsAfter(w, e) /\ TasksAfter(w, e)
<1> DEFINE j == worker[w].job
           r == worker[w].next
           plan == worker[w].plan
           K == File[r].project
           L == File[r].task
           rows == job[j].rows
<1>1. PICK differs \in Differences : CommitRow(w)!(differs)
  BY Zenon DEF CommitRow
<1> DEFINE e == Effect(w, differs)
<1>2. /\ At(w, "write") /\ ~worker[w].gone
      /\ project' =
            CASE e.projectOutcome = "created" ->
                   Append(project, [key |-> K, external |-> plan.project.external,
                                    total |-> 0, by |-> j])
              [] e.projectOutcome = "updated" ->
                   [project EXCEPT ![e.project].external = @ \/ plan.project.external]
              [] OTHER -> project
      /\ task' =
            CASE e.taskOutcome = "created" ->
                   Append(task, [key |-> L, external |-> plan.task.external,
                                 project |-> e.project, by |-> j])
              [] e.taskOutcome = "updated" ->
                   [task EXCEPT ![e.task] = Moved(@, e.project, plan.task)]
              [] OTHER -> task
  BY <1>1
<1>3. /\ job' = [job EXCEPT ![j].rows[r] = RowAfter(@, e)]
      /\ UNCHANGED <<request, crashed, overtaken>>
      /\ exposed' = exposed \cup {p \in IF e.taskOutcome = "updated" THEN {task[e.task].project} ELSE {} :
                                    p \notin {e.project, plan.task.from}}
  BY <1>1 DEF RowAfter
<1>4. Go(w, WorkerAfter(worker[w], e))
  BY <1>1 DEF WorkerAfter
<1>5. /\ e.projectOutcome \in Stored /\ e.taskOutcome \in Stored
      /\ (e.projectOutcome = "created") <=> plan.project.id = New
      /\ e.project = IF plan.project.id = New THEN Len(project) + 1 ELSE plan.project.id
      /\ (e.taskOutcome = "created") <=> (plan.task # None /\ plan.task.id = New)
      /\ e.taskOutcome = "updated" => plan.task # None /\ plan.task.id # New
      /\ e.task = IF plan.task = None THEN None
                  ELSE IF plan.task.id = New THEN Len(task) + 1 ELSE plan.task.id
      /\ e.from = IF e.taskOutcome = "updated" /\ plan.task.from # e.project THEN plan.task.from ELSE None
  BY <1>2, EffectIs DEF Stored
<1> HIDE DEF e
<1>6. ProjectsAfter(w, e) /\ e.project \in Nat \ {0}
  BY <1>2, <1>5, ProjectWritten, Zenon DEF ProjectsAfter
<1>7. TasksAfter(w, e)
  BY <1>2, <1>5, <1>6, TaskWritten, Zenon
<1>8. IsCommit(worker[w], RowPlans) /\ worker[w].at = "write" /\ PlanFits(worker[w])
  BY <1>2, Stages DEF Base, TypeOK, PlansFit, At, MemoryFits
<1>9. j \in Job /\ r \in RowNumber
  BY <1>8, CommitFields DEF PlanFits
<1>10. HolderFits(worker[w])
  BY DEF Base, HoldersFit
<1>11. Exists(j)
  BY <1>2, <1>8, <1>10 DEF HolderFits, Commits, RowStage, Exists, Base, ChecksFit, WasReviewed, Staged
<1>12. rows \in [RowNumber -> Row]
  BY <1>8, <1>9, <1>10, <1>11 DEF HolderFits, Commits, RowStage, Exists, Base, RowsAreStaged, ChecksFit, WasReviewed, HasRows
<1>13. job' = [job EXCEPT ![j].rows = [rows EXCEPT ![r] = RowAfter(rows[r], e)]]
  BY <1>3
<1>14. /\ e.task \in (Nat \ {0}) \cup {None}
       /\ e.taskOutcome = "updated" => plan.task.from \in Nat
  <2>1. DOMAIN project \subseteq Nat /\ DOMAIN task = 1 .. Len(task) /\ Len(task) \in Nat
    BY DEF Base, TypeOK
  <2> QED BY <1>5, <1>8, <2>1 DEF PlanFits, New
<1>15. /\ plan.project.id # New => e.project = plan.project.id
       /\ plan.task = None => e.task = None /\ e.taskOutcome = "skipped"
  BY <1>5 DEF Stored
<1>16. RowDone(w, e)
  BY <1>2, <1>3, <1>4, <1>5, <1>6, <1>8, <1>9, <1>11, <1>12, <1>13, <1>14, <1>15, Zenon DEF RowDone
<1> QED BY <1>6, <1>7, <1>16

LEMMA AddNewAdds ==
  ASSUME NEW s \in Seq(Nat), NEW x \in Nat \cup {None}
  PROVE  AddNew(s, x) \in Seq(Nat) /\ ToSet(AddNew(s, x)) = ToSet(s) \cup ({x} \ {None})
<1>1. CASE x = None
  BY <1>1 DEF AddNew
<1>2. CASE x # None /\ Contains(s, x)
  BY <1>2 DEF AddNew, Contains, ToSet
<1>3. CASE x # None /\ ~Contains(s, x)
  <2>1. AddNew(s, x) = Append(s, x)
    BY <1>3 DEF AddNew
  <2>2. /\ Append(s, x) \in Seq(Nat) /\ DOMAIN s = 1 .. Len(s) /\ Len(s) \in Nat
        /\ DOMAIN Append(s, x) = 1 .. Len(s) + 1 /\ Append(s, x)[Len(s) + 1] = x
        /\ \A i \in 1 .. Len(s) : Append(s, x)[i] = s[i]
    BY <1>3
  <2>3. ToSet(Append(s, x)) = ToSet(s) \cup {x}
    BY <2>2 DEF ToSet
  <2> QED BY <1>3, <2>1, <2>2, <2>3
<1> QED BY <1>1, <1>2, <1>3

(* The worker goes on with what it has learnt.                             *)
LEMMA WorkerGoesOn ==
  ASSUME Base, NEW w \in Worker, NEW e, RowDone(w, e), ProjectsAfter(w, e), TasksAfter(w, e)
  PROVE  LET s == WorkerAfter(worker[w], e) IN
         /\ IsWorker(s) /\ s.at = "rows" /\ s.job = worker[w].job /\ s.gone = worker[w].gone
         /\ s.next = worker[w].next + 1
         /\ s.projectIdByKey = Remember(worker[w].projectIdByKey, File[worker[w].next].project, e.project)
         /\ CacheFits(s.projectIdByKey, DOMAIN project') /\ CacheFits(s.taskIdByKey, DOMAIN task')
         /\ ToSet(s.touched) = ToSet(worker[w].touched) \cup ({e.project, e.from} \ {None})
         /\ worker'[w] = s
<1> DEFINE r == worker[w].next
           T == worker[w].plan.task
           K == File[r].project
           L == TaskKey(File[r].task, e.project)
           pids == worker[w].projectIdByKey
           tids == worker[w].taskIdByKey
           ps == DOMAIN project
           ts == DOMAIN task
           keys == Key \X Id
           c == Remember(pids, K, e.project)
           d == IF T = None THEN tids ELSE Remember(tids, L, e.task)
           q == AddNew(AddNew(worker[w].touched, e.project), e.from)
           s == WorkerAfter(worker[w], e)
<1>1. IsCommit(worker[w], RowPlans) /\ MemoryFits(worker[w]) /\ r \in RowNumber /\ worker[w].at = "write"
  BY DEF RowDone, Base, PlansFit
<1>2. /\ IsCache(pids, Key) /\ IsCache(tids, keys) /\ CacheFits(pids, ps) /\ CacheFits(tids, ts)
      /\ r \in Nat \ {0} /\ worker[w].touched \in Seq(Nat)
  BY <1>1, CommitFields DEF MemoryFits, RowStage
<1>3. /\ K \in Key /\ e.project \in Nat /\ e.from \in Nat \cup {None} /\ e.task \in Id /\ e.project \in Id
      /\ T # None => L \in keys
  BY <1>1, Rows DEF RowDone, Id, TaskKey, PlanFits
<1>4. /\ DOMAIN project' = ps \cup {e.project}
      /\ DOMAIN task' = ts \cup ({e.task} \ {None})
  BY DEF ProjectsAfter, TasksAfter
<1>5. /\ q \in Seq(Nat)
      /\ ToSet(q) = ToSet(worker[w].touched) \cup ({e.project, e.from} \ {None})
  <2>1. None \notin Nat
    BY ImportAssumption
  <2>2. /\ AddNew(worker[w].touched, e.project) \in Seq(Nat)
        /\ ToSet(AddNew(worker[w].touched, e.project)) = ToSet(worker[w].touched) \cup ({e.project} \ {None})
    BY <1>2, <1>3, AddNewAdds
  <2>3. /\ q \in Seq(Nat)
        /\ ToSet(q) = ToSet(AddNew(worker[w].touched, e.project)) \cup ({e.from} \ {None})
    BY <1>3, <2>2, AddNewAdds
  <2> QED BY <2>2, <2>3
<1> DEFINE more == DOMAIN project'
           moreTasks == DOMAIN task'
           id == e.project
           it == e.task
<1>6. IsCache(c, Key) /\ CacheFits(c, more)
  <2>1. ps \subseteq more /\ id \in more \cup {Gone, None} /\ id \in Id
    BY <1>3, <1>4
  <2> HIDE DEF more, id, ps, K, pids
  <2>2. IsCache(Remember(pids, K, id), Key) /\ CacheFits(Remember(pids, K, id), more)
    BY <1>2, <1>3, <2>1, RememberFits
  <2> QED BY <2>2 DEF id
<1>7. IsCache(d, keys) /\ CacheFits(d, moreTasks)
  <2>1. ts \subseteq moreTasks /\ it \in moreTasks \cup {Gone, None} /\ it \in Id
    BY <1>3, <1>4
  <2>2. CASE T # None
    <3> HIDE DEF moreTasks, it, ts, L, tids, keys
    <3>1. IsCache(Remember(tids, L, it), keys) /\ CacheFits(Remember(tids, L, it), moreTasks)
      BY <1>2, <1>3, <2>1, <2>2, RememberFits
    <3> QED BY <2>2, <3>1 DEF it
  <2>3. CASE T = None
    BY <1>2, <2>1, <2>3 DEF CacheFits
  <2> QED BY <2>2, <2>3
<1>8. s = [worker[w] EXCEPT !.at = "rows", !.next = r + 1, !.plan = None,
                            !.projectIdByKey = c, !.taskIdByKey = d, !.touched = q]
  BY DEF WorkerAfter
<1> HIDE DEF c, d, q, s
<1>9. /\ IsCommit(s, {None}) /\ s.at = "rows" /\ s.job = worker[w].job /\ s.gone = worker[w].gone
      /\ s.next = r + 1 /\ s.projectIdByKey = c /\ s.taskIdByKey = d /\ s.touched = q
  <2>1. r + 1 \in Nat \ {0}
    BY <1>2
  <2> DEFINE n == r + 1
  <2> HIDE DEF n
  <2>2. s = [worker[w] EXCEPT !.at = "rows", !.next = n, !.plan = None,
                              !.projectIdByKey = c, !.taskIdByKey = d, !.touched = q]
        /\ n \in Nat \ {0}
    BY <1>8, <2>1 DEF n
  <2>3. /\ IsCommit(s, {None}) /\ s.at = "rows" /\ s.job = worker[w].job /\ s.gone = worker[w].gone
        /\ s.next = n /\ s.projectIdByKey = c /\ s.taskIdByKey = d /\ s.touched = q
    BY <1>1, <1>5, <1>6, <1>7, <2>2 DEF IsCommit, RowStage
  <2> QED BY <2>3 DEF n
<1>10. IsWorker(s)
  BY <1>9 DEF IsWorker
<1>11. worker'[w] = s
  BY <1>10, Steps DEF Base, RowDone, s
<1> QED BY <1>5, <1>6, <1>7, <1>9, <1>10, <1>11 DEF s, c

LEMMA CommitRowKeepsBase ==
  ASSUME Base, NEW w \in Worker, CommitRow(w)
  PROVE  Base'
<1>1. PICK e : RowDone(w, e) /\ ProjectsAfter(w, e) /\ TasksAfter(w, e)
  BY RowCommitted
<1> DEFINE j == worker[w].job
           r == worker[w].next
           rows == job[j].rows
           s == WorkerAfter(worker[w], e)
<1>2. /\ IsWorker(s) /\ s.at = "rows" /\ s.job = j /\ s.gone = worker[w].gone
      /\ CacheFits(s.projectIdByKey, DOMAIN project') /\ CacheFits(s.taskIdByKey, DOMAIN task')
      /\ worker'[w] = s
  BY <1>1, WorkerGoesOn
<1>3. /\ Go(w, s) /\ worker[w].at = "write" /\ j \in Job /\ r \in RowNumber /\ Exists(j)
      /\ rows \in [RowNumber -> Row] /\ UNCHANGED <<request, crashed, overtaken>>
  BY <1>1 DEF RowDone
<1>4. HasJob(w) /\ Commits(worker[w])
  BY <1>3 DEF HasJob, Commits, RowStage
<1>5. PICK after \in [RowNumber -> Row] : job' = [job EXCEPT ![j].rows = after]
  <2> DEFINE after == [rows EXCEPT ![r] = RowAfter(rows[r], e)]
  <2>1. RowAfter(rows[r], e) \in Row
    <3>1. rows[r] \in Row
      BY <1>3
    <3>2. e.projectOutcome \in Outcome /\ e.taskOutcome \in Outcome /\ e.project \in Id /\ e.task \in Id
      BY <1>1 DEF RowDone, Outcome, Stored, Id
    <3> QED BY <3>1, <3>2 DEF RowAfter, Row
  <2>2. after \in [RowNumber -> Row]
    BY <1>3, <2>1
  <2>3. job' = [job EXCEPT ![j].rows = after]
    BY <1>1 DEF RowDone
  <2> QED BY <2>2, <2>3
<1>6. DOMAIN project \subseteq DOMAIN project' /\ DOMAIN task \subseteq DOMAIN task'
      /\ project' \in Seq(ProjectRow) /\ task' \in Seq(TaskRow)
  BY <1>1 DEF ProjectsAfter, TasksAfter
<1>7. TasksHaveProjects'
  <2> SUFFICES ASSUME NEW t \in DOMAIN task'
      PROVE  task'[t].project \in DOMAIN project'
    BY DEF TasksHaveProjects
  <2>1. CASE t \in DOMAIN task /\ task'[t].project = task[t].project
    BY <1>6, <2>1 DEF Base, TasksHaveProjects
  <2>2. CASE e.taskOutcome \in {"created", "updated"} /\ t = e.task
    BY <1>1, <2>2 DEF TasksAfter, ProjectsAfter
  <2> QED BY <1>1, <2>1, <2>2 DEF TasksAfter
<1>8. exposed' \subseteq Nat
  <2>1. e.taskOutcome = "updated" => task[e.task].project \in DOMAIN project
    BY <1>1 DEF TasksAfter, Base, TasksHaveProjects
  <2>2. DOMAIN project \subseteq Nat /\ exposed \subseteq Nat
    BY DEF Base, TypeOK
  <2> QED BY <1>1, <2>1, <2>2 DEF RowDone
<1> HIDE DEF s
<1>9. MemoryFits(worker[w])'
  BY <1>2 DEF MemoryFits
<1> QED BY <1>2, <1>3, <1>4, <1>5, <1>6, <1>7, <1>8, <1>9, CommitKeepsBase DEF RowStage

LEMMA BaseStep ==
  ASSUME Base, [Next]_vars
  PROVE  Base'
<1>1. ASSUME NEW w \in Worker, Loop(w) PROVE Base'
  BY <1>1, LooksKeepBase, ClaimKeepsBase, ParseKeepsBase, BeginRowsKeepsBase, ReadRowKeepsBase,
     CommitRowKeepsBase, RollBackKeepsBase, MarkRowKeepsBase, ReadProjectKeepsBase,
     WriteProjectKeepsBase, CompleteKeepsBase, FailKeepsBase DEF Loop
<1>2. ASSUME NEW a \in Admin, Requests(a) PROVE Base'
  BY <1>2, BeginsKeepBase, TooLateKeepsBase, UpdateMappingKeepsBase, UpdateDecisionsKeepsBase,
     QueueCommitKeepsBase DEF Requests
<1>3. CASE UNCHANGED vars
  BY <1>3 DEF vars, Base, TypeOK, RowsAreStaged, HasRows, ChecksFit, WasReviewed, HoldersFit, HolderFits,
     Commits, OneHolder, HasJob, PlansFit, MemoryFits, PlanFits, TasksHaveProjects
<1> QED BY <1>1, <1>2, <1>3, CallFailsKeepsBase, CrashKeepsBase, UploadKeepsBase, RemoveKeepsBase DEF Next

(* Every variable has its type in every state: the records of the jobs and *)
(* their rows, the tables, what the workers hold in memory and what the    *)
(* requests carry.                                                         *)
THEOREM TypeCorrect == Spec => []TypeOK
<1>1. Base => TypeOK
  BY DEF Base
<1> QED BY <1>1, InitBase, BaseStep, PTL DEF Spec
----------------------------------------------------------------------------
(* Settled jobs.                                                           *)
LEMMA OvertakenGrows ==
  ASSUME [Next]_vars
  PROVE  overtaken \subseteq overtaken'
<1>1. ASSUME NEW w \in Worker, Loop(w) \/ CallFails(w) \/ Crash(w) PROVE overtaken' = overtaken
  <2>1. CASE \/ FindParseJob(w) \/ FindCommitJob(w) \/ ClaimJob(w) \/ ParseJob(w) \/ BeginRows(w)
             \/ ReadRow(w) \/ RollBackRow(w) \/ MarkRowFailed(w) \/ ReadProject(w) \/ CompleteJob(w)
             \/ FailJob(w)
    BY <2>1, Zenon DEF FindParseJob, FindCommitJob, LookFor, ClaimJob, ParseJob, BeginRows, ReadRow, RollBackRow,
                MarkRowFailed, ReadProject, CompleteJob, FailJob, Quiet, History
  <2>2. CASE CommitRow(w) \/ WriteProject(w) \/ CallFails(w) \/ Crash(w)
    BY <2>2, Zenon DEF CommitRow, WriteProject, CallFails, Crash
  <2> QED BY <1>1, <2>1, <2>2 DEF Loop
<1>2. ASSUME NEW a \in Admin, Requests(a) PROVE overtaken \subseteq overtaken'
  BY <1>2, Zenon DEF Requests, BeginMapping, BeginCommit, BeginProjectDecision, BeginTaskDecision, CheckStaged,
              RequestTooLate, UpdateMapping, UpdateDecisions, QueueCommit, Answer, History
<1>3. ASSUME NEW i \in Job, Upload(i) \/ RemoveImport(i) PROVE overtaken' = overtaken
  BY <1>3 DEF Upload, RemoveImport, History
<1>4. CASE UNCHANGED vars
  BY <1>4 DEF vars
<1> QED BY <1>1, <1>2, <1>3, <1>4 DEF Next

LEMMA SettledStep ==
  ASSUME Base, [Next]_vars, NEW j \in Job, j \notin overtaken', job[j].status \in {"completed", "failed"}
  PROVE  job'[j] = job[j] \/ job'[j].status = "removed"
<1>1. j \notin overtaken
  BY OvertakenGrows
<1>2. job \in [Job -> JobState]
  BY DEF Base, TypeOK
<1>3. ASSUME NEW w \in Worker, HolderFits(worker[w]),
             worker[w].at \in {"parsing", "job_failed"} \/ Commits(worker[w])
      PROVE  worker[w].job # j
  BY <1>1, <1>3 DEF HolderFits
<1>4. \A w \in Worker : HolderFits(worker[w])
  BY DEF Base, HoldersFit
<1>5. ASSUME NEW w \in Worker, Loop(w) \/ CallFails(w) \/ Crash(w) PROVE job'[j] = job[j]
  <2>1. CASE \/ FindParseJob(w) \/ FindCommitJob(w) \/ BeginRows(w) \/ ReadRow(w) \/ RollBackRow(w)
             \/ ReadProject(w) \/ WriteProject(w) \/ CallFails(w) \/ Crash(w)
    BY <2>1, Zenon DEF FindParseJob, FindCommitJob, LookFor, BeginRows, ReadRow, RollBackRow, ReadProject,
                WriteProject, CallFails, Crash, Tables
  <2>2. CASE ClaimJob(w)
    <3>1. worker[w].from \in {"queued_parse", "queued_commit"}
      BY <2>2, Stages DEF ClaimJob, At, Base, TypeOK
    <3> QED BY <1>2, <2>2, <3>1 DEF ClaimJob
  <2>3. CASE ParseJob(w)
    BY <1>2, <1>3, <1>4, <2>3 DEF ParseJob, At
  <2>4. CASE CommitRow(w)
    <3>1. PICK e : RowDone(w, e)
      BY <2>4, RowCommitted
    <3>2. worker[w].job # j
      BY <1>3, <1>4, <3>1 DEF RowDone, Commits, RowStage
    <3> QED BY <1>2, <3>1, <3>2 DEF RowDone
  <2>5. CASE MarkRowFailed(w)
    BY <1>2, <1>3, <1>4, <2>5 DEF MarkRowFailed, At, Commits, RowStage
  <2>6. CASE CompleteJob(w)
    BY <1>2, <1>3, <1>4, <2>6 DEF CompleteJob, At, Commits, RowStage
  <2>7. CASE FailJob(w)
    BY <1>2, <1>3, <1>4, <2>7 DEF FailJob, At
  <2> QED BY <1>5, <2>1, <2>2, <2>3, <2>4, <2>5, <2>6, <2>7 DEF Loop
<1>6. ASSUME NEW a \in Admin, Requests(a) PROVE job'[j] = job[j]
  <2>1. CASE \/ RequestTooLate(a)
             \/ \E i \in Job : \/ BeginMapping(a, i) \/ BeginCommit(a, i)
                               \/ BeginProjectDecision(a, i) \/ BeginTaskDecision(a, i)
    BY <2>1 DEF RequestTooLate, BeginMapping, BeginCommit, BeginProjectDecision, BeginTaskDecision,
                CheckStaged, Tables
  <2>2. Answer(a) => request[a].job # j
    BY DEF Answer
  <2>3. CASE UpdateMapping(a)
    BY <1>2, <2>2, <2>3 DEF UpdateMapping
  <2>4. CASE UpdateDecisions(a)
    BY <1>2, <2>2, <2>4 DEF UpdateDecisions
  <2>5. CASE QueueCommit(a)
    BY <1>2, <2>2, <2>5 DEF QueueCommit
  <2> QED BY <1>6, <2>1, <2>3, <2>4, <2>5 DEF Requests
<1>7. ASSUME NEW i \in Job, Upload(i) PROVE job'[j] = job[j]
  BY <1>2, <1>7 DEF Upload
<1>8. ASSUME NEW i \in Job, RemoveImport(i) PROVE job'[j] = job[j] \/ job'[j].status = "removed"
  BY <1>2, <1>8 DEF RemoveImport, NoJob
<1>9. CASE UNCHANGED vars
  BY <1>9 DEF vars
<1> QED BY <1>5, <1>6, <1>7, <1>8, <1>9 DEF Next

(* What a settled import reports stays as it is until it is removed: no    *)
(* worker imports it a second time, whatever the number of workers.        *)
THEOREM SettledStays == Spec => SettledJobsStay
<1>1. Base /\ [Next]_vars =>
        [\A j \in Job \ overtaken' : job[j].status \in {"completed", "failed"} =>
           job'[j] = job[j] \/ job'[j].status = "removed"]_vars
  BY SettledStep
<1> QED BY <1>1, InitBase, BaseStep, PTL DEF Spec, SettledJobsStay

----------------------------------------------------------------------------
(* The jobs in the workers' hands.                                         *)
LEMMA OthersStay ==
  ASSUME TypeOK, NEW w \in Worker, Loop(w) \/ CallFails(w) \/ Crash(w), NEW v \in Worker \ {w}
  PROVE  worker'[v] = worker[v]
<1>1. \A s : Go(w, s) => worker'[v] = worker[v]
  BY DEF Go, TypeOK
<1>2. CASE \/ FindParseJob(w) \/ FindCommitJob(w) \/ ClaimJob(w) \/ ParseJob(w) \/ BeginRows(w)
           \/ ReadRow(w) \/ RollBackRow(w) \/ MarkRowFailed(w) \/ ReadProject(w) \/ CompleteJob(w)
           \/ FailJob(w)
  <2>1. \E s : Go(w, s)
    BY <1>2, ZenonT(60) DEF FindParseJob, FindCommitJob, LookFor, ClaimJob, ParseJob, BeginRows, ReadRow, RollBackRow,
                MarkRowFailed, ReadProject, CompleteJob, FailJob
  <2> QED BY <1>1, <2>1
<1>3. CASE CommitRow(w) \/ WriteProject(w) \/ CallFails(w) \/ Crash(w)
  <2>1. \E s : Go(w, s)
    BY <1>3, Zenon DEF CommitRow, WriteProject, CallFails, Crash
  <2> QED BY <1>1, <2>1
<1> QED BY <1>2, <1>3 DEF Loop

(* A worker lets go of a job that is settled or removed, or it dies.       *)
LEMMA HandsStep ==
  ASSUME Base, NEW w \in Worker, Loop(w) \/ CallFails(w) \/ Crash(w), HasJob(w)
  PROVE  \/ HasJob(w)' /\ worker'[w].job = worker[w].job
         \/ job'[worker[w].job].status \notin {"parsing", "committing"}
         \/ worker[w].job \in crashed'
<1> DEFINE j == worker[w].job
<1>1. /\ DOMAIN worker = Worker /\ IsWorker(worker[w]) /\ job \in [Job -> JobState] /\ j \in Job
  BY Held DEF Base, TypeOK
<1>2. \A s : Go(w, s) => worker'[w] = s
  BY <1>1 DEF Go
<1>3. \A i \in Job : ~Exists(i) => job[i].status \notin {"parsing", "committing"}
  BY DEF Exists
<1>4. CASE FindParseJob(w) \/ FindCommitJob(w) \/ ClaimJob(w)
  BY <1>4 DEF FindParseJob, FindCommitJob, ClaimJob, HasJob, At
<1>5. CASE ParseJob(w) \/ CompleteJob(w) \/ FailJob(w)
  <2>1. CASE ~Exists(j)
    BY <1>1, <1>3, <1>5, <2>1 DEF ParseJob, CompleteJob, FailJob
  <2>2. CASE Exists(j)
    <3>1. \E s \in {"awaiting_review", "completed", "failed"} : job'[j].status = s
      <4>1. CASE ParseJob(w)
        BY <1>1, <2>2, <4>1 DEF ParseJob, NoJob
      <4>2. CASE CompleteJob(w)
        BY <1>1, <2>2, <4>2, JobFields DEF CompleteJob, JobState
      <4>3. CASE FailJob(w)
        BY <1>1, <2>2, <4>3, JobFields DEF FailJob, JobState
      <4> QED BY <1>5, <4>1, <4>2, <4>3
    <3> QED BY <3>1
  <2> QED BY <2>1, <2>2
<1>6. CASE BeginRows(w)
  BY <1>1, <1>2, <1>3, <1>6 DEF BeginRows, HasJob, Tables
<1>7. CASE ReadRow(w)
  <2>1. worker[w].at = "rows"
    BY <1>7 DEF ReadRow, At
  <2>2. IsCommit(worker[w], {None})
    BY <1>1, <2>1, Stages
  <2>3. \/ Go(w, [worker[w] EXCEPT !.at = "row_failed"])
        \/ \E ids : Go(w, [worker[w] EXCEPT !.at = "row_failed", !.projectIdByKey = ids])
        \/ \E plan : Go(w, [worker[w] EXCEPT !.at = "write", !.plan = plan])
    BY <1>7, RowRead, Zenon
  <2> QED BY <1>2, <2>2, <2>3, Zenon DEF IsCommit, HasJob
<1>8. CASE CommitRow(w)
  BY <1>8, RowCommitted, WorkerGoesOn DEF HasJob
<1>9. CASE RollBackRow(w)
  <2>1. IsCommit(worker[w], RowPlans)
    BY <1>1, <1>9, Stages DEF RollBackRow, At
  <2>2. \E pids, tids : Go(w, [worker[w] EXCEPT !.at = "row_failed", !.plan = None,
                                  !.projectIdByKey = pids, !.taskIdByKey = tids])
    BY <1>9, RollBackGoesOn, Zenon
  <2> QED BY <1>2, <2>1, <2>2 DEF IsCommit, HasJob
<1>10. CASE MarkRowFailed(w)
  <2>1. IsCommit(worker[w], {None})
    BY <1>1, <1>10, Stages DEF MarkRowFailed, At
  <2> QED BY <1>2, <1>10, <2>1 DEF MarkRowFailed, IsCommit, HasJob
<1>11. CASE ReadProject(w) \/ WriteProject(w)
  <2>1. IsCommit(worker[w], {None}) \/ IsCommit(worker[w], Nat)
    BY <1>1, <1>11, Stages DEF ReadProject, WriteProject, At
  <2>2. \/ \E plan : Go(w, [worker[w] EXCEPT !.at = "recalculate", !.plan = plan])
        \/ \E touched : Go(w, [worker[w] EXCEPT !.at = "rows", !.plan = None, !.touched = touched])
    BY <1>11 DEF ReadProject, WriteProject
  <2> QED BY <1>2, <2>1, <2>2, ZenonT(40) DEF IsCommit, HasJob
<1>12. CASE CallFails(w)
  BY <1>2, <1>12 DEF CallFails, HasJob
<1>13. CASE Crash(w)
  BY <1>13 DEF Crash
<1> QED BY <1>4, <1>5, <1>6, <1>7, <1>8, <1>9, <1>10, <1>11, <1>12, <1>13 DEF Loop

(* Only a claim takes a job up.                                            *)
LEMMA OnlyClaims ==
  ASSUME Base, [Next]_vars, NEW j \in Job, job'[j].status \in {"parsing", "committing"}
  PROVE  \/ job[j].status \in {"parsing", "committing"}
         \/ \E w \in Worker : ClaimJob(w) /\ HasJob(w)' /\ worker'[w].job = j
<1>1. job \in [Job -> JobState] /\ DOMAIN worker = Worker
  BY DEF Base, TypeOK
<1>2. ASSUME NEW w \in Worker, ClaimJob(w), job[j].status \notin {"parsing", "committing"}
      PROVE HasJob(w)' /\ worker'[w].job = j
  <2>1. worker[w].job = j /\ job[j].status = worker[w].from /\ worker[w].job \in Job
    <3>1. job' # job
      BY <1>2
    <3>2. job[worker[w].job].status = worker[w].from /\ job' = [job EXCEPT ![worker[w].job].status = worker[w].to]
      BY <1>2, <3>1 DEF ClaimJob
    <3>3. worker[w].job \in Job
      BY <1>2, Held DEF ClaimJob, Base
    <3> QED BY <1>1, <1>2, <3>2, <3>3
  <2>2. worker[w].to \in {"parsing", "committing"}
    BY <1>2, Stages DEF ClaimJob, At, Base, TypeOK
  <2>3. worker'[w] = [at |-> worker[w].to, job |-> j]
    BY <1>1, <1>2, <2>1 DEF ClaimJob, Go
  <2> QED BY <2>2, <2>3 DEF HasJob
<1>3. ASSUME NEW w \in Worker, Loop(w) \/ CallFails(w) \/ Crash(w), ~ClaimJob(w)
      PROVE job[j].status \in {"parsing", "committing"}
  <2>1. CASE \/ FindParseJob(w) \/ FindCommitJob(w) \/ BeginRows(w) \/ ReadRow(w) \/ RollBackRow(w)
             \/ ReadProject(w) \/ WriteProject(w) \/ CallFails(w) \/ Crash(w)
    BY <2>1, Zenon DEF FindParseJob, FindCommitJob, LookFor, BeginRows, ReadRow, RollBackRow, ReadProject,
                WriteProject, CallFails, Crash, Tables
  <2>2. CASE ParseJob(w)
    BY <1>1, <2>2 DEF ParseJob, NoJob
  <2>3. CASE CompleteJob(w)
    BY <1>1, <2>3 DEF CompleteJob
  <2>4. CASE FailJob(w)
    BY <1>1, <2>4 DEF FailJob
  <2>5. CASE CommitRow(w)
    <3>1. PICK e : RowDone(w, e)
      BY <2>5, RowCommitted
    <3> QED BY <1>1, <3>1 DEF RowDone
  <2>6. CASE MarkRowFailed(w)
    BY <1>1, <2>6 DEF MarkRowFailed
  <2> QED BY <1>3, <2>1, <2>2, <2>3, <2>4, <2>5, <2>6 DEF Loop
<1>4. ASSUME NEW a \in Admin, Requests(a) PROVE job[j].status \in {"parsing", "committing"}
  <2>1. CASE \/ RequestTooLate(a)
             \/ \E i \in Job : \/ BeginMapping(a, i) \/ BeginCommit(a, i)
                               \/ BeginProjectDecision(a, i) \/ BeginTaskDecision(a, i)
    BY <2>1 DEF RequestTooLate, BeginMapping, BeginCommit, BeginProjectDecision, BeginTaskDecision,
                CheckStaged, Tables
  <2>2. CASE UpdateMapping(a)
    BY <1>1, <2>2 DEF UpdateMapping
  <2>3. CASE UpdateDecisions(a)
    <3>1. PICK rows : job' = [job EXCEPT ![request[a].job].rows = rows]
      BY <2>3, DecisionsWritten
    <3> QED BY <1>1, <3>1
  <2>4. CASE QueueCommit(a)
    BY <1>1, <2>4 DEF QueueCommit
  <2> QED BY <1>4, <2>1, <2>2, <2>3, <2>4 DEF Requests
<1>5. ASSUME NEW i \in Job, Upload(i) \/ RemoveImport(i) PROVE job[j].status \in {"parsing", "committing"}
  BY <1>1, <1>5 DEF Upload, RemoveImport, NoJob
<1>6. CASE UNCHANGED vars
  BY <1>6 DEF vars
<1> QED BY <1>2, <1>3, <1>4, <1>5, <1>6 DEF Next

LEMMA TakenStep ==
  ASSUME Base, TakenJobsAreHeld, [Next]_vars
  PROVE  TakenJobsAreHeld'
<1> SUFFICES ASSUME NEW j \in Job, job'[j].status \in {"parsing", "committing"}
    PROVE  j \in crashed' \/ \E w \in Worker : HasJob(w)' /\ worker'[w].job = j
  BY DEF TakenJobsAreHeld
<1>1. CASE job[j].status \notin {"parsing", "committing"}
  BY <1>1, OnlyClaims
<1>2. CASE j \in crashed
  <2>1. ASSUME NEW w \in Worker, Loop(w) \/ CallFails(w) \/ Crash(w) PROVE crashed \subseteq crashed'
    <3>1. CASE \/ FindParseJob(w) \/ FindCommitJob(w) \/ ClaimJob(w) \/ ParseJob(w) \/ BeginRows(w)
               \/ ReadRow(w) \/ RollBackRow(w) \/ MarkRowFailed(w) \/ ReadProject(w) \/ CompleteJob(w)
               \/ FailJob(w)
      BY <3>1, Zenon DEF FindParseJob, FindCommitJob, LookFor, ClaimJob, ParseJob, BeginRows, ReadRow, RollBackRow,
                  MarkRowFailed, ReadProject, CompleteJob, FailJob, Quiet, History
    <3>2. CASE CommitRow(w) \/ WriteProject(w) \/ CallFails(w) \/ Crash(w)
      BY <3>2, Zenon DEF CommitRow, WriteProject, CallFails, Crash
    <3> QED BY <2>1, <3>1, <3>2 DEF Loop
  <2>2. \A a \in Admin : Requests(a) => crashed' = crashed
    BY ZenonT(60) DEF Requests, BeginMapping, BeginCommit, BeginProjectDecision, BeginTaskDecision, CheckStaged,
           RequestTooLate, UpdateMapping, UpdateDecisions, QueueCommit, Answer, History
  <2> QED BY <1>2, <2>1, <2>2 DEF Next, Upload, RemoveImport, History, vars
<1>3. ASSUME NEW v \in Worker, HasJob(v), worker[v].job = j
      PROVE j \in crashed' \/ (HasJob(v)' /\ worker'[v].job = j)
  <2>1. ASSUME NEW w \in Worker, Loop(w) \/ CallFails(w) \/ Crash(w)
        PROVE j \in crashed' \/ (HasJob(v)' /\ worker'[v].job = j)
    <3>1. CASE v = w
      BY <1>3, <2>1, <3>1, HandsStep
    <3>2. CASE v # w
      <4>1. worker'[v] = worker[v]
        BY <2>1, <3>2, OthersStay DEF Base
      <4> QED BY <1>3, <4>1 DEF HasJob
    <3> QED BY <3>1, <3>2
  <2>2. ASSUME UNCHANGED worker PROVE HasJob(v)' /\ worker'[v].job = j
    BY <1>3, <2>2 DEF HasJob
  <2>3. ASSUME NEW i, RowsReplaced(i) PROVE HasJob(v)' /\ worker'[v].job = j
    <3>1. IsWorker(worker[v])
      BY DEF Base, TypeOK
    <3>2. worker[v].at \in RowStage => \E plans : IsCommit(worker[v], plans)
      BY <3>1, Stages DEF RowStage
    <3> QED BY <1>3, <2>3, <3>2 DEF RowsReplaced, HasJob, IsCommit
  <2>4. ASSUME NEW a \in Admin, Requests(a) PROVE UNCHANGED worker \/ \E i : RowsReplaced(i)
    BY <2>4, Zenon DEF Requests, BeginMapping, BeginCommit, BeginProjectDecision, BeginTaskDecision, CheckStaged,
                RequestTooLate, UpdateMapping, UpdateDecisions, QueueCommit
  <2> QED BY <2>1, <2>2, <2>3, <2>4 DEF Next, Upload, RemoveImport, vars
<1> QED BY <1>1, <1>2, <1>3 DEF TakenJobsAreHeld

(* An import that a worker has taken up stays in its hands until it is     *)
(* settled or removed, whatever fails, unless the worker dies: no claim    *)
(* takes it up again.                                                      *)
THEOREM TakenAreHeld == Spec => []TakenJobsAreHeld
<1>1. Init => TakenJobsAreHeld
  BY DEF Init, TakenJobsAreHeld, NoJob
<1> QED BY <1>1, InitBase, BaseStep, TakenStep, PTL DEF Spec
----------------------------------------------------------------------------
(* The rollups.                                                            *)
Rollups == RollupsFollow /\ RecalculationsFollow

LEMMA HeadAndTail ==
  ASSUME NEW s \in Seq(Nat), s # <<>>
  PROVE  /\ Head(s) \in ToSet(s) /\ Head(s) \in Nat /\ Tail(s) \in Seq(Nat)
         /\ ToSet(s) \ {Head(s)} \subseteq ToSet(Tail(s)) /\ ToSet(Tail(s)) \subseteq ToSet(s)
<1>1. Head(s) = s[1] /\ 1 \in DOMAIN s /\ Tail(s) \in Seq(Nat)
  OBVIOUS
<1>2. ASSUME NEW i \in DOMAIN s, s[i] # s[1] PROVE s[i] \in ToSet(Tail(s))
  <2>1. i - 1 \in DOMAIN Tail(s) /\ Tail(s)[i - 1] = s[i]
    BY <1>2
  <2> QED BY <2>1 DEF ToSet
<1>3. ASSUME NEW i \in DOMAIN Tail(s) PROVE Tail(s)[i] \in ToSet(s)
  <2>1. i + 1 \in DOMAIN s /\ Tail(s)[i] = s[i + 1]
    BY <1>3
  <2> QED BY <2>1 DEF ToSet
<1> QED BY <1>1, <1>2, <1>3 DEF ToSet

(* A step that leaves the tables alone, and what the workers owe.          *)
LEMMA RollupsKept ==
  ASSUME Rollups, UNCHANGED <<project, task>>, exposed \subseteq exposed',
         \A v \in Worker : Owed(v) \subseteq Owed(v)' \cup exposed',
         \A v \in Worker : worker'[v].at = "recalculate" =>
           \/ /\ worker[v].at = "recalculate" /\ worker'[v].plan = worker[v].plan
              /\ worker'[v].touched = worker[v].touched
           \/ worker'[v].plan = Cardinality(TasksOf(Head(worker'[v].touched)))
  PROVE  Rollups'
<1>1. \A p : TasksOf(p)' = TasksOf(p)
  BY DEF TasksOf
<1>2. RollupsFollow'
  BY <1>1 DEF Rollups, RollupsFollow
<1>3. RecalculationsFollow'
  <2> SUFFICES ASSUME NEW v \in Worker, NEW p, p = Head(worker'[v].touched), worker'[v].at = "recalculate",
                      worker'[v].plan # Cardinality(TasksOf(p)')
      PROVE  p \in exposed' \/ \E u \in Worker \ {v} : p \in Owed(u)'
    BY DEF RecalculationsFollow, At, TasksOf
  <2>1. /\ worker[v].at = "recalculate" /\ worker'[v].plan = worker[v].plan
        /\ worker'[v].touched = worker[v].touched
    BY <1>1
  <2>2. p \in exposed \/ \E u \in Worker \ {v} : p \in Owed(u)
    BY <1>1, <2>1 DEF Rollups, RecalculationsFollow, At
  <2> QED BY <2>2
<1> QED BY <1>2, <1>3 DEF Rollups

(* A step of one worker that leaves the tables alone.                      *)
LEMMA WorkerKeepsRollups ==
  ASSUME Base, Rollups, NEW w \in Worker, Loop(w) \/ CallFails(w) \/ Crash(w),
         UNCHANGED <<project, task>>, exposed \subseteq exposed',
         Owed(w) \subseteq Owed(w)' \cup exposed',
         worker'[w].at = "recalculate" =>
           worker'[w].plan = Cardinality(TasksOf(Head(worker'[w].touched)))
  PROVE  Rollups'
<1>1. ASSUME NEW v \in Worker \ {w} PROVE worker'[v] = worker[v] /\ Owed(v)' = Owed(v)
  BY OthersStay DEF Base, Owed
<1> QED BY <1>1, RollupsKept

LEMMA ReadProjectKeepsRollups ==
  ASSUME Base, Rollups, NEW w \in Worker, ReadProject(w)
  PROVE  Rollups'
<1>1. /\ worker[w].at = "rows" /\ IsCommit(worker[w], {None}) /\ DOMAIN worker = Worker
      /\ UNCHANGED <<project, task, exposed>>
  <2>1. IsWorker(worker[w]) /\ worker[w].at = "rows" /\ DOMAIN worker = Worker
    BY DEF ReadProject, At, Base, TypeOK
  <2>2. UNCHANGED <<project, task, exposed>>
    BY DEF ReadProject, Tables, Quiet, History
  <2> QED BY <2>1, <2>2, Stages
<1>2. /\ worker'[w].at = "recalculate" /\ worker'[w].touched = worker[w].touched
      /\ worker'[w].plan = Cardinality(TasksOf(Head(worker[w].touched)))
  BY <1>1 DEF ReadProject, Go, IsCommit
<1>3. Owed(w)' = Owed(w)
  BY <1>1, <1>2 DEF Owed, RowStage
<1> QED BY <1>1, <1>2, <1>3, WorkerKeepsRollups DEF Loop

LEMMA WriteProjectKeepsRollups ==
  ASSUME Base, Rollups, NEW w \in Worker, WriteProject(w)
  PROVE  Rollups'
<1> DEFINE p == Head(worker[w].touched)
           n == worker[w].plan
<1>1. /\ worker[w].at = "recalculate" /\ IsCommit(worker[w], Nat) /\ DOMAIN worker = Worker
      /\ UNCHANGED task /\ project \in Seq(ProjectRow) /\ worker[w].touched \in Seq(Nat) \ {<<>>}
      /\ MemoryFits(worker[w])
  <2>1. /\ worker[w].at = "recalculate" /\ UNCHANGED task /\ IsWorker(worker[w]) /\ MemoryFits(worker[w])
        /\ DOMAIN worker = Worker /\ project \in Seq(ProjectRow)
    BY DEF WriteProject, At, Base, TypeOK, PlansFit
  <2>2. IsCommit(worker[w], Nat)
    BY <2>1, Stages
  <2>3. worker[w].touched \in Seq(Nat) \ {<<>>}
    BY <2>1, <2>2 DEF MemoryFits, IsCommit
  <2> QED BY <2>1, <2>2, <2>3
<1>2. worker'[w].at = "rows" /\ worker'[w].touched = Tail(worker[w].touched)
  BY <1>1 DEF WriteProject, Go, IsCommit
<1>3. ToSet(worker[w].touched) \ {p} \subseteq Owed(w)' /\ p \in Nat
  BY <1>1, <1>2, HeadAndTail DEF Owed, RowStage
<1>4. \A v \in Worker \ {w} : worker'[v] = worker[v] /\ Owed(v)' = Owed(v)
  BY OthersStay DEF Base, Loop, Owed
<1>5. \A q : q # p /\ (\E v \in Worker : q \in Owed(v)) => \E v \in Worker : q \in Owed(v)'
  BY <1>1, <1>3, <1>4 DEF Owed, RowStage
<1>6. /\ DOMAIN project' = DOMAIN project
      /\ \A q \in DOMAIN project : project'[q].total = IF q = p THEN n ELSE project[q].total
  BY <1>1 DEF WriteProject, ProjectRow
<1>7. \A q : TasksOf(q)' = TasksOf(q)
  BY <1>1 DEF TasksOf
<1>8. \/ p \in exposed' /\ exposed \subseteq exposed'
      \/ /\ Recalculating(p) = {w} /\ exposed \ {p} \subseteq exposed'
         /\ n # Cardinality(TasksOf(p)) => exposed \subseteq exposed'
  BY DEF WriteProject
<1>9. n # Cardinality(TasksOf(p)) => p \in exposed' \/ \E v \in Worker : p \in Owed(v)'
  <2>1. n # Cardinality(TasksOf(p)) => p \in exposed \/ \E v \in Worker \ {w} : p \in Owed(v)
    BY <1>1 DEF Rollups, RecalculationsFollow, At
  <2> QED BY <1>4, <1>8, <2>1
<1>10. RollupsFollow'
  <2> SUFFICES ASSUME NEW q \in DOMAIN project, project'[q].total # Cardinality(TasksOf(q))
      PROVE  q \in exposed' \/ \E v \in Worker : q \in Owed(v)'
    BY <1>6, <1>7 DEF RollupsFollow
  <2>1. CASE q = p
    BY <1>6, <1>9, <2>1
  <2>2. CASE q # p
    <3>1. q \in exposed \/ \E v \in Worker : q \in Owed(v)
      BY <1>6, <2>2 DEF Rollups, RollupsFollow
    <3> QED BY <1>5, <1>8, <2>2, <3>1
  <2> QED BY <2>1, <2>2
<1>11. RecalculationsFollow'
  <2> SUFFICES ASSUME NEW v \in Worker, NEW q, q = Head(worker'[v].touched), worker'[v].at = "recalculate",
                      worker'[v].plan # Cardinality(TasksOf(q)')
      PROVE  q \in exposed' \/ \E u \in Worker \ {v} : q \in Owed(u)'
    BY DEF RecalculationsFollow, At, TasksOf
  <2>1. v # w /\ worker'[v] = worker[v]
    BY <1>2, <1>4
  <2>2. q \in exposed \/ \E u \in Worker \ {v} : q \in Owed(u)
    BY <1>7, <2>1 DEF Rollups, RecalculationsFollow, At
  <2>3. q = p => p \in exposed'
    BY <1>8, <2>1 DEF Recalculating, At
  <2>4. q # p => q \in exposed' \/ \E u \in Worker \ {v} : q \in Owed(u)'
    BY <1>1, <1>3, <1>4, <1>8, <2>1, <2>2, Zenon DEF Owed, RowStage
  <2> QED BY <2>3, <2>4
<1> QED BY <1>10, <1>11 DEF Rollups

LEMMA CommitRowKeepsRollups ==
  ASSUME Base, Rollups, NEW w \in Worker, CommitRow(w)
  PROVE  Rollups'
<1>1. PICK e : RowDone(w, e) /\ ProjectsAfter(w, e) /\ TasksAfter(w, e)
  BY RowCommitted
<1>2. /\ worker'[w].at = "rows" /\ worker[w].at = "write"
      /\ ToSet(worker'[w].touched) = ToSet(worker[w].touched) \cup ({e.project, e.from} \ {None})
  BY <1>1, WorkerGoesOn, Zenon DEF RowDone
<1>3. Owed(w)' = Owed(w) \cup ({e.project, e.from} \ {None})
  BY <1>2 DEF Owed, RowStage
<1>4. \A v \in Worker \ {w} : worker'[v] = worker[v] /\ Owed(v)' = Owed(v)
  BY OthersStay DEF Base, Loop, Owed
<1>5. exposed \subseteq exposed'
  BY <1>1 DEF RowDone
<1>6. ASSUME NEW p \in Nat, p \notin {e.project, e.from}, p \notin exposed'
      PROVE  TasksOf(p)' = TasksOf(p)
  <2>1. e.taskOutcome = "updated" => task[e.task].project # p
    BY <1>1, <1>6 DEF RowDone
  <2>2. /\ DOMAIN task' = DOMAIN task \cup ({e.task} \ {None})
        /\ \A k \in DOMAIN task : ~(e.taskOutcome = "updated" /\ k = e.task) => task'[k].project = task[k].project
        /\ e.taskOutcome \in {"created", "updated"} => task'[e.task].project = e.project
        /\ e.taskOutcome # "created" => e.task \in DOMAIN task \cup {None}
    BY <1>1 DEF TasksAfter
  <2>3. ASSUME NEW k \in DOMAIN task PROVE task'[k].project = p <=> task[k].project = p
    BY <1>1, <1>6, <2>1, <2>2, <2>3
  <2>4. ASSUME NEW k \in DOMAIN task', k \notin DOMAIN task PROVE task'[k].project # p
    BY <1>1, <1>6, <2>2, <2>4 DEF RowDone, Stored
  <2> QED BY <2>2, <2>3, <2>4 DEF TasksOf
<1>7. None \notin Nat
  BY ImportAssumption
<1>8. RollupsFollow'
  <2> SUFFICES ASSUME NEW p \in DOMAIN project', project'[p].total # Cardinality(TasksOf(p)'), p \notin exposed'
      PROVE  \E v \in Worker : p \in Owed(v)'
    BY DEF RollupsFollow
  <2>1. p \in Nat
    BY <1>1 DEF ProjectsAfter
  <2>2. CASE p \in {e.project, e.from}
    BY <1>3, <1>7, <2>1, <2>2
  <2>3. CASE p \notin {e.project, e.from}
    <3>1. p \in DOMAIN project /\ project'[p].total = project[p].total
      BY <1>1, <2>3 DEF ProjectsAfter
    <3>2. \E v \in Worker : p \in Owed(v)
      BY <1>5, <1>6, <2>1, <2>3, <3>1 DEF Rollups, RollupsFollow
    <3> QED BY <1>3, <1>4, <3>2
  <2> QED BY <2>2, <2>3
<1>9. RecalculationsFollow'
  <2> SUFFICES ASSUME NEW v \in Worker, NEW p, p = Head(worker'[v].touched), worker'[v].at = "recalculate",
                      worker'[v].plan # Cardinality(TasksOf(p)'), p \notin exposed'
      PROVE  \E u \in Worker \ {v} : p \in Owed(u)'
    BY DEF RecalculationsFollow, At, TasksOf
  <2>1. v # w /\ worker'[v] = worker[v]
    BY <1>2, <1>4
  <2>2. p \in Nat
    <3>1. IsWorker(worker[v]) /\ MemoryFits(worker[v])
      BY DEF Base, TypeOK, PlansFit
    <3>2. worker[v].touched \in Seq(Nat) \ {<<>>}
      BY <2>1, <3>1, Stages DEF MemoryFits, IsCommit
    <3> QED BY <2>1, <3>2, HeadAndTail
  <2>3. CASE p \in {e.project, e.from}
    BY <1>3, <1>7, <2>1, <2>2, <2>3
  <2>4. CASE p \notin {e.project, e.from}
    <3>1. \E u \in Worker \ {v} : p \in Owed(u)
      BY <1>5, <1>6, <2>1, <2>2, <2>4 DEF Rollups, RecalculationsFollow, At
    <3> QED BY <1>3, <1>4, <3>1
  <2> QED BY <2>3, <2>4
<1> QED BY <1>8, <1>9 DEF Rollups

(* The other steps of a worker leave the tables alone; one that stops a    *)
(* commit exposes what it owed.                                            *)
LEMMA WorkerStepKeepsRollups ==
  ASSUME Base, Rollups, NEW w \in Worker, Loop(w) \/ CallFails(w) \/ Crash(w)
  PROVE  Rollups'
<1>1. /\ DOMAIN worker = Worker /\ IsWorker(worker[w])
      /\ \A s : Go(w, s) => worker'[w] = s
  BY DEF Base, TypeOK, Go
<1>2. ASSUME UNCHANGED <<project, task, exposed>>, worker'[w].at # "recalculate",
             Owed(w) = {} \/ (worker'[w].at \in RowStage /\ worker'[w].touched = worker[w].touched)
      PROVE  Rollups'
  <2>1. Owed(w) \subseteq Owed(w)'
    BY <1>2 DEF Owed
  <2> QED BY <1>2, <2>1, WorkerKeepsRollups
<1>3. worker[w].at \notin RowStage \/ worker[w].touched = <<>> => Owed(w) = {}
  BY DEF Owed, ToSet
<1>4. CASE FindParseJob(w) \/ FindCommitJob(w)
  <2>1. UNCHANGED <<project, task, exposed>> /\ worker[w].at \in {"idle", "no_parse"}
    BY <1>4 DEF FindParseJob, FindCommitJob, LookFor, Tables, Quiet, History, At
  <2>2. worker'[w].at \in {"no_parse", "idle", "found"}
    BY <1>1, <1>4 DEF FindParseJob, FindCommitJob, LookFor
  <2> QED BY <1>2, <1>3, <2>1, <2>2 DEF RowStage
<1>5. CASE ClaimJob(w)
  <2>1. UNCHANGED <<project, task, exposed>> /\ worker[w].at = "found"
    BY <1>5 DEF ClaimJob, Quiet, History, At
  <2>2. worker'[w].at \in {"no_parse", "idle", "parsing", "committing"}
    BY <1>1, <1>5, Stages, <2>1 DEF ClaimJob
  <2> QED BY <1>2, <1>3, <2>1, <2>2 DEF RowStage
<1>6. CASE ParseJob(w) \/ CompleteJob(w) \/ FailJob(w)
  <2>1. UNCHANGED <<project, task, exposed>> /\ worker'[w] = Idle
    BY <1>1, <1>6 DEF ParseJob, CompleteJob, FailJob, Quiet, History
  <2>2. worker[w].at \in {"parsing", "job_failed"} \/ worker[w].touched = <<>>
    BY <1>6 DEF ParseJob, CompleteJob, FailJob, At
  <2> QED BY <1>2, <1>3, <2>1, <2>2 DEF RowStage, Idle
<1>7. CASE BeginRows(w)
  <2>1. UNCHANGED <<project, task, exposed>> /\ worker[w].at = "committing"
    BY <1>7 DEF BeginRows, Tables, Quiet, History, At
  <2>2. worker'[w].at \in {"idle", "rows"}
    BY <1>1, <1>7 DEF BeginRows, Idle
  <2> QED BY <1>2, <1>3, <2>1, <2>2 DEF RowStage
<1>8. CASE ReadRow(w)
  <2>1. UNCHANGED <<project, task, exposed>> /\ worker[w].at = "rows"
    BY <1>8, RowRead, Zenon DEF Tables, History
  <2>2. IsCommit(worker[w], {None})
    BY <1>1, <2>1, Stages
  <2>3. \/ Go(w, [worker[w] EXCEPT !.at = "row_failed"])
        \/ \E ids : Go(w, [worker[w] EXCEPT !.at = "row_failed", !.projectIdByKey = ids])
        \/ \E plan : Go(w, [worker[w] EXCEPT !.at = "write", !.plan = plan])
    BY <1>8, RowRead, Zenon
  <2>4. worker'[w].at \in {"row_failed", "write"} /\ worker'[w].touched = worker[w].touched
    BY <1>1, <2>2, <2>3 DEF IsCommit
  <2> QED BY <1>2, <2>1, <2>4 DEF RowStage
<1>9. CASE RollBackRow(w)
  <2>1. UNCHANGED <<project, task, exposed>> /\ worker[w].at = "write"
    BY <1>9 DEF RollBackRow, Tables, Quiet, History, At
  <2>2. IsCommit(worker[w], RowPlans)
    BY <1>1, <2>1, Stages
  <2>3. \E pids, tids : Go(w, [worker[w] EXCEPT !.at = "row_failed", !.plan = None,
                                  !.projectIdByKey = pids, !.taskIdByKey = tids])
    BY <1>9, RollBackGoesOn, Zenon
  <2>4. worker'[w].at = "row_failed" /\ worker'[w].touched = worker[w].touched
    BY <1>1, <2>2, <2>3 DEF IsCommit
  <2> QED BY <1>2, <2>1, <2>4 DEF RowStage
<1>10. CASE MarkRowFailed(w)
  <2>1. UNCHANGED <<project, task, exposed>> /\ worker[w].at = "row_failed"
    BY <1>10 DEF MarkRowFailed, Quiet, History, At
  <2>2. IsCommit(worker[w], {None})
    BY <1>1, <2>1, Stages
  <2>3. worker'[w].at = "rows" /\ worker'[w].touched = worker[w].touched
    BY <1>1, <1>10, <2>2 DEF MarkRowFailed, IsCommit
  <2> QED BY <1>2, <2>1, <2>3 DEF RowStage
<1>11. CASE CallFails(w) \/ Crash(w)
  <2>1. UNCHANGED <<project, task>> /\ exposed' = exposed \cup Owed(w)
    BY <1>11 DEF CallFails, Crash, Tables
  <2>2. worker'[w].at \in {"job_failed", "idle"}
    BY <1>1, <1>11 DEF CallFails, Crash, Idle
  <2> QED BY <1>11, <2>1, <2>2, WorkerKeepsRollups
<1> QED BY <1>4, <1>5, <1>6, <1>7, <1>8, <1>9, <1>10, <1>11, ReadProjectKeepsRollups,
           WriteProjectKeepsRollups, CommitRowKeepsRollups DEF Loop

LEMMA RollupsStep ==
  ASSUME Base, Rollups, [Next]_vars
  PROVE  Rollups'
<1>1. ASSUME UNCHANGED <<project, task, exposed>>, UNCHANGED worker \/ \E j : RowsReplaced(j)
      PROVE  Rollups'
  <2>1. ASSUME NEW v \in Worker
        PROVE  worker'[v].at = worker[v].at /\ worker[v].at \in RowStage =>
                 worker'[v].plan = worker[v].plan /\ worker'[v].touched = worker[v].touched
    <3>1. IsWorker(worker[v])
      BY DEF Base, TypeOK
    <3>2. worker[v].at \in RowStage => \E plans : IsCommit(worker[v], plans)
      BY <3>1, Stages DEF RowStage
    <3>3. CASE UNCHANGED worker
      BY <3>3
    <3>4. ASSUME NEW j, RowsReplaced(j)
          PROVE  \/ worker'[v] = worker[v]
                 \/ worker[v].at \in RowStage /\ worker'[v] = [worker[v] EXCEPT !.gone = TRUE]
      BY <3>4 DEF RowsReplaced
    <3> QED BY <1>1, <3>2, <3>3, <3>4 DEF IsCommit
  <2>2. \A v \in Worker : worker'[v].at = worker[v].at
    <3>1. ASSUME NEW v \in Worker, NEW j, RowsReplaced(j) PROVE worker'[v].at = worker[v].at
      <4>1. IsWorker(worker[v])
        BY DEF Base, TypeOK
      <4>2. worker[v].at \in RowStage => \E plans : IsCommit(worker[v], plans)
        BY <4>1, Stages DEF RowStage
      <4> QED BY <3>1, <4>2 DEF RowsReplaced, IsCommit
    <3> QED BY <1>1, <3>1
  <2>3. \A v \in Worker : Owed(v)' = Owed(v)
    BY <2>1, <2>2 DEF Owed
  <2> QED BY <1>1, <2>1, <2>2, <2>3, RollupsKept DEF RowStage
<1>2. ASSUME NEW a \in Admin, Requests(a)
      PROVE  UNCHANGED <<project, task, exposed>> /\ (UNCHANGED worker \/ \E j : RowsReplaced(j))
  BY <1>2, Zenon DEF Requests, BeginMapping, BeginCommit, BeginProjectDecision, BeginTaskDecision, CheckStaged,
              RequestTooLate, UpdateMapping, UpdateDecisions, QueueCommit, Answer, History, Tables
<1>3. ASSUME NEW i \in Job, Upload(i) \/ RemoveImport(i)
      PROVE  UNCHANGED <<project, task, exposed>> /\ (UNCHANGED worker \/ \E j : RowsReplaced(j))
  BY <1>3 DEF Upload, RemoveImport, History
<1>4. CASE UNCHANGED vars
  BY <1>1, <1>4 DEF vars
<1> QED BY <1>1, <1>2, <1>3, <1>4, WorkerStepKeepsRollups DEF Next

LEMMA InitRollups == Init => Rollups
<1> SUFFICES ASSUME Init PROVE Rollups
  OBVIOUS
<1>1. \A p \in DOMAIN project : project[p].total = Cardinality(TasksOf(p))
  BY BeforeAssumption DEF Init, TasksOf
<1>2. \A w \in Worker : worker[w].at = "idle"
  BY DEF Init, Idle
<1> QED BY <1>1, <1>2 DEF Rollups, RollupsFollow, RecalculationsFollow, At

(* A project's total follows its tasks as soon as nobody owes it a         *)
(* recalculation, whatever the number of workers and of imports that       *)
(* overlap, unless two recalculations met or a commit was cut off.         *)
THEOREM RollupsAreFollowed == Spec => []RollupsFollow
<1>1. Rollups => RollupsFollow
  BY DEF Rollups
<1> QED BY <1>1, InitBase, BaseStep, InitRollups, RollupsStep, PTL DEF Spec
----------------------------------------------------------------------------
(* What the rows of an import say it did.                                  *)
LEMMA PendingMadeNothing ==
  ASSUME NEW rows, DOMAIN rows \subseteq RowNumber, \A r \in DOMAIN rows : IsPending(rows[r])
  PROVE  CreatedProjects(rows) = {} /\ CreatedTasks(rows) = {}
BY DEF CreatedProjects, CreatedTasks, IsPending

LEMMA FreshIsPending ==
  /\ IsPending(FreshRow) /\ \A row : IsPending(Reset(row))
BY DEF IsPending, FreshRow, Reset

(* What one worker does to the job it holds.                               *)
LEMMA WorkerKeepsResults ==
  ASSUME Base, Results, NEW w \in Worker, Loop(w) \/ CallFails(w) \/ Crash(w), UNCHANGED overtaken,
         NEW j, \A i \in Job \ {j} : /\ job'[i] = job[i]
                                     /\ Made(project', i) = Made(project, i)
                                     /\ Made(task', i) = Made(task, i),
         DOMAIN project \subseteq DOMAIN project',
         j \in Job \ overtaken => JobFits(j)',
         \A v \in Worker \ {w} : Commits(worker[v]) /\ worker[v].job = j => j \in overtaken,
         Commits(worker'[w]) => CommitFits(worker[w])'
  PROVE  Results'
<1>1. ASSUME NEW i \in Job \ overtaken PROVE JobFits(i)'
  <2>1. JobFits(i)
    BY DEF Results
  <2> QED BY <2>1 DEF JobFits
<1>2. ASSUME NEW v \in Worker, Commits(worker'[v]) PROVE CommitFits(worker[v])'
  <2>1. CASE v = w
    BY <1>2, <2>1
  <2>2. CASE v # w
    <3>1. worker'[v] = worker[v]
      BY <2>2, OthersStay DEF Base
    <3>2. Commits(worker[v]) /\ CommitFits(worker[v])
      BY <1>2, <3>1 DEF Results
    <3>3. worker[v].job \in Job
      BY <3>2, Held DEF Base, HasJob, Commits, RowStage
    <3>4. worker[v].job \notin overtaken => job'[worker[v].job] = job[worker[v].job]
      BY <2>2, <3>2, <3>3
    <3>5. DOMAIN project \subseteq DOMAIN project' /\ UNCHANGED overtaken
      BY Zenon
    <3> QED BY ONLY <3>1, <3>2, <3>4, <3>5 DEF CommitFits, Progress, RowFits, Exists
  <2> QED BY <2>1, <2>2
<1> QED BY <1>1, <1>2 DEF Results

(* Steps that leave the rows alone.                                        *)
LEMMA LookingKeepsResults ==
  ASSUME Base, Results, NEW w \in Worker, Loop(w) \/ CallFails(w) \/ Crash(w), UNCHANGED <<job, overtaken>>,
         \A i \in Job : Made(project', i) = Made(project, i) /\ Made(task', i) = Made(task, i),
         DOMAIN project \subseteq DOMAIN project',
         Commits(worker'[w]) => CommitFits(worker[w])'
  PROVE  Results'
<1>1. None \notin Job
  BY ImportAssumption
<1>2. \A v \in Worker : Commits(worker[v]) => worker[v].job # None
  BY <1>1, Held DEF Base, HasJob, Commits, RowStage
<1> QED BY <1>1, <1>2, WorkerKeepsResults

(* A worker goes on with its rows: what it keeps for a key stays.          *)
KeepsIds(cache, more) ==
  \A k \in DOMAIN cache : cache[k] \in DOMAIN project => k \in DOMAIN more /\ more[k] = cache[k]
LEMMA GoingOnKeepsResults ==
  ASSUME Base, Results, NEW w \in Worker, Loop(w), UNCHANGED <<job, overtaken>>,
         \A i \in Job : Made(project', i) = Made(project, i) /\ Made(task', i) = Made(task, i),
         DOMAIN project \subseteq DOMAIN project',
         worker[w].at \in RowStage, worker'[w].at \in RowStage, worker'[w].job = worker[w].job,
         worker'[w].next = worker[w].next, worker'[w].gone = worker[w].gone,
         KeepsIds(worker[w].projectIdByKey, worker'[w].projectIdByKey)
  PROVE  Results'
<1>1. CommitFits(worker[w])
  BY DEF Results, Commits
<1>2. CommitFits(worker[w])'
  BY <1>1 DEF CommitFits, Progress, RowFits, KeepsIds, RowStage
<1> QED BY <1>2, LookingKeepsResults

LEMMA NoRowIsGone == Base => Gone \notin DOMAIN project /\ None \notin DOMAIN project
BY ImportAssumption DEF Base, TypeOK, Gone

LEMMA IdsAreKept ==
  ASSUME Base, NEW w \in Worker, worker[w].at \in RowStage,
         LET cache == worker[w].projectIdByKey
             key == File[worker[w].next].project
         IN worker'[w].projectIdByKey = cache \/
            \E id : /\ worker'[w].projectIdByKey = Remember(cache, key, id)
                    /\ key \in DOMAIN cache => cache[key] = id \/ cache[key] \in {Gone, None}
  PROVE  KeepsIds(worker[w].projectIdByKey, worker'[w].projectIdByKey)
<1>1. Gone \notin DOMAIN project /\ None \notin DOMAIN project
  BY NoRowIsGone, Zenon
<1> DEFINE cache == worker[w].projectIdByKey
           key == File[worker[w].next].project
<1>2. CASE worker'[w].projectIdByKey = cache
  BY <1>2, Zenon DEF KeepsIds
<1>3. CASE \E id : /\ worker'[w].projectIdByKey = Remember(cache, key, id)
                   /\ key \in DOMAIN cache => cache[key] = id \/ cache[key] \in {Gone, None}
  <2> PICK id : /\ worker'[w].projectIdByKey = Remember(cache, key, id)
                /\ key \in DOMAIN cache => cache[key] = id \/ cache[key] \in {Gone, None}
    BY <1>3, ZenonT(60)
  <2> HIDE DEF cache, key
  <2>1. \A k \in DOMAIN cache : k \in DOMAIN Remember(cache, key, id)
          /\ Remember(cache, key, id)[k] = IF k = key THEN id ELSE cache[k]
    BY DEF Remember
  <2> QED BY <1>1, <2>1 DEF KeepsIds, cache
<1> QED BY <1>2, <1>3, Zenon

LEMMA ReadRowKeepsResults ==
  ASSUME Base, Results, NEW w \in Worker, ReadRow(w)
  PROVE  Results'
<1> DEFINE r == worker[w].next
           p == ProjectPlan(w, r)
           key == File[r].project
           cache == worker[w].projectIdByKey
<1>1. /\ worker[w].at = "rows" /\ r \in RowNumber /\ UNCHANGED <<job, project, task, overtaken>>
      /\ \/ Go(w, [worker[w] EXCEPT !.at = "row_failed"])
         \/ p # None /\ Go(w, [worker[w] EXCEPT !.at = "row_failed",
                                 !.projectIdByKey = Remember(cache, key, p.id)])
         \/ \E plan : Go(w, [worker[w] EXCEPT !.at = "write", !.plan = plan])
  BY RowRead, Zenon DEF Tables, History
<1>2. IsCommit(worker[w], {None}) /\ DOMAIN worker = Worker
  BY <1>1, Stages, Zenon DEF Base, TypeOK
<1>3. p # None => (key \in DOMAIN cache => p.id = IF cache[key] = Gone THEN New ELSE cache[key])
  BY <1>1, ProjectPlanFits, Zenon DEF At
<1> HIDE DEF p, key
<1>4. /\ worker'[w].at \in {"row_failed", "write"} /\ worker'[w].job = worker[w].job
      /\ worker'[w].next = r /\ worker'[w].gone = worker[w].gone
      /\ worker'[w].projectIdByKey = cache \/ (p # None /\ worker'[w].projectIdByKey = Remember(cache, key, p.id))
  <2>1. CASE Go(w, [worker[w] EXCEPT !.at = "row_failed"])
    BY <1>2, <2>1 DEF IsCommit, Go
  <2>2. CASE p # None /\ Go(w, [worker[w] EXCEPT !.at = "row_failed",
                                  !.projectIdByKey = Remember(cache, key, p.id)])
    BY <1>2, <2>2 DEF IsCommit, Go
  <2>3. ASSUME NEW plan, Go(w, [worker[w] EXCEPT !.at = "write", !.plan = plan])
        PROVE  /\ worker'[w].at = "write" /\ worker'[w].job = worker[w].job
               /\ worker'[w].next = r /\ worker'[w].gone = worker[w].gone
               /\ worker'[w].projectIdByKey = cache
    BY <1>2, <2>3 DEF IsCommit, Go
  <2> QED BY <1>1, <2>1, <2>2, <2>3
<1>5. KeepsIds(cache, worker'[w].projectIdByKey)
  BY <1>1, <1>3, <1>4, IdsAreKept, Zenon DEF key, RowStage
<1> QED BY <1>1, <1>4, <1>5, GoingOnKeepsResults, Zenon DEF Loop, RowStage

LEMMA RollBackKeepsResults ==
  ASSUME Base, Results, NEW w \in Worker, RollBackRow(w)
  PROVE  Results'
<1> DEFINE r == worker[w].next
           key == File[r].project
           cache == worker[w].projectIdByKey
<1>1. worker[w].at = "write" /\ UNCHANGED <<job, project, task, overtaken>>
  BY DEF RollBackRow, At, Tables, Quiet, History
<1>2. IsCommit(worker[w], RowPlans) /\ DOMAIN worker = Worker /\ PlanFits(worker[w])
  BY <1>1, Stages DEF Base, TypeOK, PlansFit, MemoryFits
<1>3. PICK differs \in Differences, cachedProject \in BOOLEAN :
        LET e == Effect(w, differs)
            home == IF e.projectOutcome = "created" THEN Gone ELSE e.project
        IN \E tids : Go(w, [worker[w] EXCEPT !.at = "row_failed", !.plan = None,
                              !.projectIdByKey = IF cachedProject THEN Remember(cache, key, home) ELSE cache,
                              !.taskIdByKey = tids])
  BY RowRolledBack, ZenonT(60)
<1> DEFINE e == Effect(w, differs)
           home == IF e.projectOutcome = "created" THEN Gone ELSE e.project
<1>4. key \in DOMAIN cache => cache[key] = home \/ cache[key] \in {Gone, None}
  <2>1. /\ (e.projectOutcome = "created") <=> worker[w].plan.project.id = New
        /\ worker[w].plan.project.id # New => e.project = worker[w].plan.project.id
    BY <1>1, EffectIs DEF At
  <2> HIDE DEF e
  <2>2. key \in DOMAIN cache => worker[w].plan.project.id = IF cache[key] = Gone THEN New ELSE cache[key]
    BY <1>2 DEF PlanFits
  <2> QED BY <2>1, <2>2 DEF New
<1> HIDE DEF home, key
<1>5. /\ worker'[w].at = "row_failed" /\ worker'[w].job = worker[w].job
      /\ worker'[w].next = r /\ worker'[w].gone = worker[w].gone
      /\ worker'[w].projectIdByKey \in {cache, Remember(cache, key, home)}
  BY <1>2, <1>3 DEF IsCommit, Go, home, key
<1>6. KeepsIds(cache, worker'[w].projectIdByKey)
  BY <1>1, <1>4, <1>5, IdsAreKept DEF key, RowStage
<1> QED BY <1>1, <1>5, <1>6, GoingOnKeepsResults DEF Loop, RowStage

LEMMA RecalculationKeepsResults ==
  ASSUME Base, Results, NEW w \in Worker, ReadProject(w) \/ WriteProject(w)
  PROVE  Results'
<1>1. /\ worker[w].at \in {"rows", "recalculate"} /\ UNCHANGED <<job, task, overtaken>> /\ DOMAIN worker = Worker
      /\ \E plans : IsCommit(worker[w], plans)
  <2>1. worker[w].at \in {"rows", "recalculate"} /\ UNCHANGED <<job, task, overtaken>>
    BY DEF ReadProject, WriteProject, At, Tables, Quiet, History
  <2> QED BY <2>1, Stages DEF Base, TypeOK
<1>2. \/ \E plan : Go(w, [worker[w] EXCEPT !.at = "recalculate", !.plan = plan])
      \/ \E touched : Go(w, [worker[w] EXCEPT !.at = "rows", !.plan = None, !.touched = touched])
  BY Zenon DEF ReadProject, WriteProject
<1>3. /\ worker'[w].at \in RowStage /\ worker'[w].job = worker[w].job
      /\ worker'[w].next = worker[w].next /\ worker'[w].gone = worker[w].gone
      /\ worker'[w].projectIdByKey = worker[w].projectIdByKey
  <2>1. \A s : Go(w, s) => worker'[w] = s
    BY <1>1 DEF Go
  <2>2. PICK plans : IsCommit(worker[w], plans)
    BY <1>1
  <2>3. CASE \E plan : Go(w, [worker[w] EXCEPT !.at = "recalculate", !.plan = plan])
    <3>1. PICK plan : worker'[w] = [worker[w] EXCEPT !.at = "recalculate", !.plan = plan]
      BY <2>1, <2>3
    <3> QED BY <2>2, <3>1 DEF IsCommit, RowStage
  <2>4. CASE \E touched : Go(w, [worker[w] EXCEPT !.at = "rows", !.plan = None, !.touched = touched])
    <3>1. PICK touched : worker'[w] = [worker[w] EXCEPT !.at = "rows", !.plan = None, !.touched = touched]
      BY <2>1, <2>4
    <3> QED BY <2>2, <3>1 DEF IsCommit, RowStage
  <2> QED BY <1>2, <2>3, <2>4
<1>4. DOMAIN project' = DOMAIN project /\ \A p \in DOMAIN project : project'[p].by = project[p].by
  <2>1. project \in Seq(ProjectRow)
    BY DEF Base, TypeOK
  <2>2. \A p \in DOMAIN project : project[p] \in ProjectRow
    BY <2>1
  <2>3. CASE ReadProject(w)
    BY <2>3 DEF ReadProject, Tables
  <2>4. CASE WriteProject(w)
    BY <2>2, <2>4 DEF WriteProject, ProjectRow
  <2> QED BY <2>3, <2>4
<1>5. \A i : Made(project', i) = Made(project, i) /\ Made(task', i) = Made(task, i)
  BY <1>1, <1>4 DEF Made
<1>6. KeepsIds(worker[w].projectIdByKey, worker'[w].projectIdByKey)
  BY <1>3 DEF KeepsIds
<1> QED BY <1>1, <1>3, <1>4, <1>5, <1>6, GoingOnKeepsResults DEF Loop, RowStage

LEMMA LooksKeepResults ==
  ASSUME Base, Results, NEW w \in Worker, FindParseJob(w) \/ FindCommitJob(w) \/ CallFails(w) \/ Crash(w)
  PROVE  Results'
<1>1. UNCHANGED <<job, project, task, overtaken>> /\ DOMAIN worker = Worker
  BY DEF FindParseJob, FindCommitJob, LookFor, CallFails, Crash, Tables, Quiet, History, Base, TypeOK
<1>2. worker'[w].at \in {"no_parse", "idle", "found", "job_failed"}
  <2>1. CASE FindParseJob(w) \/ FindCommitJob(w)
    BY <1>1, <2>1 DEF FindParseJob, FindCommitJob, LookFor, Go
  <2>2. CASE CallFails(w) \/ Crash(w)
    BY <1>1, <2>2 DEF CallFails, Crash, Go, Idle
  <2> QED BY <2>1, <2>2
<1> QED BY <1>1, <1>2, LookingKeepsResults DEF Loop, Commits, RowStage

LEMMA BeginRowsKeepsResults ==
  ASSUME Base, Results, NEW w \in Worker, BeginRows(w)
  PROVE  Results'
<1>1. UNCHANGED <<job, project, task, overtaken>> /\ DOMAIN worker = Worker /\ worker[w].at = "committing"
  BY DEF BeginRows, Tables, Quiet, History, Base, TypeOK, At
<1>2. CommitFits(worker[w])
  BY <1>1 DEF Results, Commits
<1>3. \/ worker'[w].at = "idle"
      \/ /\ worker'[w].at = "rows" /\ worker'[w].job = worker[w].job /\ worker'[w].next = 1
         /\ Exists(worker[w].job)
  BY <1>1 DEF BeginRows, Go, Idle
<1>4. \A r \in RowNumber : ~(r < 1)
  BY Rows
<1>5. Commits(worker'[w]) => CommitFits(worker[w])'
  BY <1>1, <1>2, <1>3, <1>4 DEF CommitFits, Progress, Commits, RowStage
<1> QED BY <1>1, <1>5, LookingKeepsResults DEF Loop

LEMMA ClaimKeepsResults ==
  ASSUME Base, Results, NEW w \in Worker, ClaimJob(w)
  PROVE  Results'
<1> PICK j : j = worker[w].job
  OBVIOUS
<1>1. /\ UNCHANGED <<project, task, overtaken>> /\ DOMAIN worker = Worker /\ j \in Job
      /\ worker[w].at = "found" /\ job \in [Job -> JobState]
  BY Held DEF ClaimJob, Quiet, History, Base, TypeOK, At
<1>2. <<worker[w].from, worker[w].to>> \in {<<"queued_parse", "parsing">>, <<"queued_commit", "committing">>}
  BY <1>1, Stages DEF Base, TypeOK
<1>3. CASE job[j].status = worker[w].from
  <2>1. /\ job' = [job EXCEPT ![j].status = worker[w].to]
        /\ worker'[w] = [at |-> worker[w].to, job |-> j]
    BY <1>1, <1>3 DEF ClaimJob, Go
  <2>2. /\ job'[j].status = worker[w].to /\ job'[j].rows = job[j].rows
        /\ \A i \in Job \ {j} : job'[i] = job[i]
    BY <1>1, <2>1, JobFields DEF JobState, Base
  <2>3. \A v \in Worker \ {w} : Commits(worker[v]) /\ worker[v].job = j => j \in overtaken
    BY <1>2, <1>3 DEF Base, HoldersFit, HolderFits
  <2>4. j \in Job \ overtaken => JobFits(j)
    BY DEF Results
  <2>5. j \in Job \ overtaken => JobFits(j)'
    BY <1>1, <1>2, <1>3, <2>2, <2>4 DEF JobFits
  <2>6. Commits(worker'[w]) => CommitFits(worker[w])'
    BY <1>1, <1>2, <1>3, <2>1, <2>2, <2>4 DEF JobFits, CommitFits, Commits, RowStage
  <2> QED BY <1>1, <2>2, <2>3, <2>5, <2>6, WorkerKeepsResults DEF Loop
<1>4. CASE job[j].status # worker[w].from
  <2>1. UNCHANGED job /\ worker'[w].at \in {"no_parse", "idle"}
    BY <1>1, <1>4 DEF ClaimJob, Go
  <2> QED BY <1>1, <2>1, LookingKeepsResults DEF Loop, Commits, RowStage
<1> QED BY <1>3, <1>4

LEMMA ParseKeepsResults ==
  ASSUME Base, Results, NEW w \in Worker, ParseJob(w)
  PROVE  Results'
<1> PICK j : j = worker[w].job
  OBVIOUS
<1> DEFINE rows == [r \in RowNumber |-> FreshRow]
<1>1. /\ UNCHANGED <<project, task, overtaken>> /\ DOMAIN worker = Worker /\ HasJob(w)
      /\ worker[w].at = "parsing" /\ job \in [Job -> JobState] /\ worker'[w] = Idle
  BY DEF ParseJob, Quiet, History, Base, TypeOK, At, HasJob, Go
<1>2. j \in Job /\ (job[j].status = "parsing" \/ ~Exists(j))
  BY <1>1, Held DEF Base, HoldersFit, HolderFits, Exists
<1>3. CASE ~Exists(j)
  <2>1. UNCHANGED job
    BY <1>3 DEF ParseJob
  <2> QED BY <1>1, <2>1, LookingKeepsResults DEF Loop, Idle, Commits, RowStage
<1>4. CASE Exists(j)
  <2>1. /\ job'[j].status = "awaiting_review" /\ job'[j].rows = rows /\ job[j].rows = <<>>
        /\ \A i \in Job \ {j} : job'[i] = job[i]
    BY <1>1, <1>2, <1>4 DEF ParseJob, NoJob, Base, RowsAreStaged
  <2>2. CreatedProjects(rows) = {} /\ CreatedTasks(rows) = {}
    BY FreshIsPending, PendingMadeNothing
  <2>3. CreatedProjects(<<>>) = {} /\ CreatedTasks(<<>>) = {}
    BY PendingMadeNothing
  <2>4. j \in Job \ overtaken => JobFits(j)'
    <3> SUFFICES ASSUME j \in Job \ overtaken PROVE JobFits(j)'
      OBVIOUS
    <3>1. Made(project, j) = {} /\ Made(task, j) = {}
      BY <1>2, <1>4, <2>1, <2>3 DEF Results, JobFits, Exists
    <3>2. Made(project', j) = {} /\ Made(task', j) = {}
      BY <1>1, <3>1
    <3>3. \A r \in RowNumber : IsPending(rows[r])
      BY FreshIsPending
    <3> HIDE DEF rows
    <3> QED BY <2>1, <2>2, <3>2, <3>3 DEF JobFits
  <2>5. \A v \in Worker \ {w} : Commits(worker[v]) /\ worker[v].job = j => j \in overtaken
    BY <1>2, <1>4 DEF Base, HoldersFit, HolderFits, Exists
  <2>6. \A i \in Job \ {j} : Made(project', i) = Made(project, i) /\ Made(task', i) = Made(task, i)
    BY <1>1
  <2> QED BY <1>1, <2>1, <2>4, <2>5, <2>6, WorkerKeepsResults DEF Loop, Idle, Commits, RowStage
<1> QED BY <1>3, <1>4

(* A job in a worker's hands: nobody else has it, or a request came too    *)
(* late for it.                                                            *)
LEMMA HeldAlone ==
  ASSUME Base, NEW w \in Worker, HasJob(w), NEW v \in Worker \ {w}, Commits(worker[v]),
         worker[v].job = worker[w].job
  PROVE  worker[w].job \in overtaken
BY DEF Base, OneHolder, HasJob, Commits, RowStage

LEMMA LayingDownKeepsResults ==
  ASSUME Base, Results, NEW w \in Worker, CompleteJob(w) \/ FailJob(w)
  PROVE  Results'
<1> PICK j : j = worker[w].job
  OBVIOUS
<1>1. /\ UNCHANGED <<project, task, overtaken>> /\ DOMAIN worker = Worker /\ HasJob(w)
      /\ worker[w].at \in {"rows", "job_failed"} /\ job \in [Job -> JobState] /\ worker'[w] = Idle
  BY DEF CompleteJob, FailJob, Quiet, History, Base, TypeOK, At, HasJob, Go
<1>2. j \in Job /\ job[j] \in JobState
  BY <1>1, Held DEF Base
<1>3. CASE ~Exists(j)
  <2>1. UNCHANGED job
    BY <1>3 DEF CompleteJob, FailJob
  <2> QED BY <1>1, <2>1, LookingKeepsResults DEF Loop, Idle, Commits, RowStage
<1>4. CASE Exists(j)
  <2>1. /\ job'[j].rows = job[j].rows /\ job'[j].status \in {"completed", "failed"}
        /\ job'[j].status = "completed" => CompleteJob(w) /\ job'[j].summary = Summary(job[j].rows)
        /\ \A i \in Job \ {j} : job'[i] = job[i]
    <3>1. CASE CompleteJob(w)
      BY <1>1, <1>2, <1>4, <3>1 DEF CompleteJob, JobState
    <3>2. CASE FailJob(w)
      BY <1>1, <1>2, <1>4, <3>2 DEF FailJob, JobState
    <3> QED BY <3>1, <3>2
  <2>2. ASSUME j \in Job \ overtaken, CompleteJob(w)
        PROVE  (\A r \in RowNumber : IsDone(job[j].rows[r])) /\ GroupsFit(job[j].rows)
    <3>1. worker[w].at = "rows" /\ worker[w].next > Len(File) /\ IsCommit(worker[w], {None})
      BY <2>2, Stages DEF CompleteJob, At, Base, TypeOK
    <3>2. ~worker[w].gone
      BY <1>4, <2>2, <3>1 DEF Base, HoldersFit, HolderFits, RowStage, Exists, IsCommit
    <3>3. Progress(worker[w])
      BY <2>2, <3>1, <3>2 DEF Results, CommitFits, Commits, RowStage
    <3>4. \A r \in RowNumber : r < worker[w].next
      BY <3>1, Rows DEF IsCommit
    <3>5. \A r \in RowNumber : RowFits(job[j].rows[r], worker[w].projectIdByKey, File[r].project)
      BY <3>3, <3>4 DEF Progress
    <3> QED BY <3>5 DEF RowFits, GroupsFit
  <2>3. j \in Job \ overtaken => JobFits(j)
    BY DEF Results
  <2>4. j \in Job \ overtaken => JobFits(j)'
    <3> SUFFICES ASSUME j \in Job \ overtaken PROVE JobFits(j)'
      OBVIOUS
    <3>1. Made(project', j) = Made(project, j) /\ Made(task', j) = Made(task, j)
      BY <1>1
    <3>2. Made(project, j) = CreatedProjects(job[j].rows) /\ Made(task, j) = CreatedTasks(job[j].rows)
      BY <1>4, <2>3 DEF JobFits, Exists
    <3>3. GroupsFit(job[j].rows)' = GroupsFit(job'[j].rows)
      BY DEF GroupsFit
    <3> QED BY <2>1, <2>2, <3>1, <3>2 DEF JobFits
  <2>5. \A v \in Worker \ {w} : Commits(worker[v]) /\ worker[v].job = j => j \in overtaken
    BY <1>1, HeldAlone
  <2>6. \A i \in Job \ {j} : Made(project', i) = Made(project, i) /\ Made(task', i) = Made(task, i)
    BY <1>1
  <2> QED BY <1>1, <2>1, <2>4, <2>5, <2>6, WorkerKeepsResults DEF Loop, Idle, Commits, RowStage
<1> QED BY <1>3, <1>4

(* One row of a commit gets its outcome.                                   *)
LEMMA OutcomeKeepsResults ==
  ASSUME Base, Results, NEW w \in Worker, Loop(w), NEW s, worker'[w] = s, UNCHANGED overtaken,
         worker[w].at \in RowStage, worker[w].next \in RowNumber, ~worker[w].gone,
         s.at = "rows", s.job = worker[w].job, s.next = worker[w].next + 1, s.gone = worker[w].gone,
         NEW row,
         job' = [job EXCEPT ![worker[w].job].rows[worker[w].next] = row],
         DOMAIN project \subseteq DOMAIN project',
         \A i \in Job \ {worker[w].job} : /\ Made(project', i) = Made(project, i)
                                          /\ Made(task', i) = Made(task, i),
         Made(project', worker[w].job) = Made(project, worker[w].job) \cup
            (IF row.projectOutcome = "created" THEN {row.project} ELSE {}),
         Made(task', worker[w].job) = Made(task, worker[w].job) \cup
            (IF row.taskOutcome = "created" THEN {row.task} ELSE {}),
         KeepsIds(worker[w].projectIdByKey, s.projectIdByKey),
         NEW key, key = File[worker[w].next].project, RowFits(row, s.projectIdByKey, key)'
  PROVE  Results'
<1> PICK j, r : j = worker[w].job /\ r = worker[w].next
  OBVIOUS
<1>0. j = worker[w].job /\ r = worker[w].next
  OBVIOUS
<1>1. HasJob(w) /\ j \in Job /\ job \in [Job -> JobState]
  BY Held DEF HasJob, RowStage, Base, TypeOK
<1>2. job[j].status # "removed" /\ (j \notin overtaken => job[j].status = "committing")
  BY DEF Base, HoldersFit, HolderFits, Commits
<1>3. \A v \in Worker \ {w} : Commits(worker[v]) /\ worker[v].job = j => j \in overtaken
  BY <1>1, HeldAlone
<1>4. ASSUME j \notin overtaken
      PROVE  /\ job'[j].status = job[j].status /\ job[j].rows \in [RowNumber -> Row]
             /\ job'[j].rows = [job[j].rows EXCEPT ![r] = row]
  <2>1. job[j].rows \in [RowNumber -> Row] /\ job[j] \in JobState
    BY <1>1, <1>2, <1>4 DEF Base, RowsAreStaged, HasRows
  <2> QED BY <1>1, <2>1 DEF JobState
<1>5. \A i \in Job \ {j} : job'[i] = job[i]
  BY <1>1
<1>6. j \notin overtaken => JobFits(j) /\ Progress(worker[w]) /\ IsPending(job[j].rows[r])
  <2>1. j \notin overtaken => JobFits(j) /\ Progress(worker[w])
    BY <1>1 DEF Results, CommitFits, Commits
  <2>2. r >= worker[w].next
    BY Rows
  <2> QED BY <2>1, <2>2 DEF Progress
<1>7. j \in Job \ overtaken => JobFits(j)'
  <2> SUFFICES ASSUME j \in Job \ overtaken PROVE JobFits(j)'
    OBVIOUS
  <2> DEFINE rows == job[j].rows
             more == [rows EXCEPT ![r] = row]
  <2>1. rows \in [RowNumber -> Row] /\ IsPending(rows[r]) /\ r \in RowNumber
    BY <1>4, <1>6
  <2>2. /\ CreatedProjects(more) = CreatedProjects(rows) \cup
             (IF row.projectOutcome = "created" THEN {row.project} ELSE {})
        /\ CreatedTasks(more) = CreatedTasks(rows) \cup
             (IF row.taskOutcome = "created" THEN {row.task} ELSE {})
    <3>1. DOMAIN more = RowNumber /\ DOMAIN rows = RowNumber
          /\ \A q \in RowNumber : more[q] = IF q = r THEN row ELSE rows[q]
      BY <2>1
    <3> HIDE DEF more, rows
    <3> QED BY <2>1, <3>1 DEF CreatedProjects, CreatedTasks, IsPending
  <2>3. Made(project, j) = CreatedProjects(rows) /\ Made(task, j) = CreatedTasks(rows)
    BY <1>2, <1>6 DEF JobFits
  <2>4. /\ Made(project', j) = Made(project, j) \cup
             (IF row.projectOutcome = "created" THEN {row.project} ELSE {})
        /\ Made(task', j) = Made(task, j) \cup
             (IF row.taskOutcome = "created" THEN {row.task} ELSE {})
    OBVIOUS
  <2>5. Made(project', j) = CreatedProjects(more) /\ Made(task', j) = CreatedTasks(more)
    BY <2>2, <2>3, <2>4
  <2>6. job'[j].status = "committing" /\ job'[j].rows = more
    BY <1>2, <1>4
  <2> HIDE DEF more, rows
  <2> QED BY <2>5, <2>6 DEF JobFits
<1>8. CommitFits(worker[w])'
  <2> SUFFICES ASSUME j \notin overtaken, NEW q \in RowNumber
      PROVE  LET done == job'[j].rows[q]
                 kept == s.projectIdByKey
             IN /\ q < r + 1 =>
                     /\ IsDone(done)
                     /\ done.projectOutcome # "failed" =>
                          /\ File[q].project \in DOMAIN kept
                          /\ kept[File[q].project] = done.project /\ done.project \in DOMAIN project'
                /\ q >= r + 1 => IsPending(done)
    BY DEF CommitFits, Progress, RowFits
  <2>1. job'[j].rows[q] = IF q = r THEN row ELSE job[j].rows[q]
    BY <1>4
  <2>2. q \in Nat /\ r \in Nat
    BY Rows
  <2>3. CASE q < r
    <3>1. RowFits(job[j].rows[q], worker[w].projectIdByKey, File[q].project)
      BY <1>6, <2>3 DEF Progress
    <3>2. /\ KeepsIds(worker[w].projectIdByKey, s.projectIdByKey)
          /\ DOMAIN project \subseteq DOMAIN project'
      BY Zenon
    <3> QED BY ONLY <2>1, <2>2, <2>3, <3>1, <3>2 DEF RowFits, KeepsIds
  <2>4. CASE q = r
    <3>1. RowFits(row, s.projectIdByKey, key)' /\ key = File[worker[w].next].project
      BY Zenon
    <3> QED BY ONLY <2>1, <2>2, <2>4, <3>1, <1>0 DEF RowFits
  <2>5. CASE q > r
    <3>1. IsPending(job[j].rows[q])
      <4>1. Progress(worker[w])
        BY <1>6, Zenon
      <4> QED BY ONLY <1>0, <2>2, <2>5, <4>1 DEF Progress
    <3> QED BY ONLY <2>1, <2>2, <2>5, <3>1
  <2>6. q < r \/ q = r \/ q > r
    BY <2>2
  <2> QED BY <2>3, <2>4, <2>5, <2>6, Zenon
<1> QED BY <1>3, <1>5, <1>7, <1>8, WorkerKeepsResults

LEMMA MarkRowKeepsResults ==
  ASSUME Base, Results, NEW w \in Worker, MarkRowFailed(w)
  PROVE  Results'
<1> PICK j, r, key : j = worker[w].job /\ r = worker[w].next /\ key = File[r].project
  OBVIOUS
<1> PICK s : s = [worker[w] EXCEPT !.at = "rows", !.next = r + 1]
  OBVIOUS
<1>1. IsCommit(worker[w], {None}) /\ worker[w].at = "row_failed" /\ DOMAIN worker = Worker
      /\ UNCHANGED <<project, task, overtaken>>
  BY Stages DEF MarkRowFailed, Quiet, History, Base, TypeOK, At
<1>2. /\ worker'[w] = s /\ s.at = "rows" /\ s.job = j /\ s.next = r + 1 /\ s.gone = worker[w].gone
      /\ s.projectIdByKey = worker[w].projectIdByKey
  BY <1>1 DEF MarkRowFailed, Go, IsCommit
<1>3. j \in Job /\ worker[w].gone \in BOOLEAN /\ r \in RowNumber
  BY <1>1 DEF IsCommit, Base, PlansFit, MemoryFits
<1>4. CASE worker[w].gone
  <2>1. UNCHANGED job
    BY <1>4 DEF MarkRowFailed
  <2>2. CommitFits(worker[w])'
    BY <1>2, <1>4 DEF CommitFits
  <2> QED BY <1>1, <2>1, <2>2, LookingKeepsResults DEF Loop
<1>5. CASE ~worker[w].gone
  <2> PICK row : row = [job[j].rows[r] EXCEPT !.projectOutcome = "failed", !.taskOutcome = "failed"]
    OBVIOUS
  <2>1. job[j].rows \in [RowNumber -> Row]
    <3>1. job[j].status \in {"committing"} \/ (j \in overtaken /\ job[j].status # "removed")
      BY <1>1, <1>5 DEF Base, HoldersFit, HolderFits, Commits, RowStage
    <3> QED BY <1>3, <3>1 DEF Base, RowsAreStaged, HasRows, ChecksFit, WasReviewed
  <2>2. row.projectOutcome = "failed" /\ row.taskOutcome = "failed"
    BY <1>3, <2>1 DEF Row
  <2>3. job' = [job EXCEPT ![j].rows[r] = row]
    BY <1>5 DEF MarkRowFailed, Base, TypeOK
  <2>4. RowFits(row, s.projectIdByKey, key)'
    BY <2>2 DEF RowFits, IsDone
  <2>5. KeepsIds(worker[w].projectIdByKey, s.projectIdByKey)
    BY <1>2 DEF KeepsIds
  <2>6. \A i : Made(project', i) = Made(project, i) /\ Made(task', i) = Made(task, i)
    BY <1>1
  <2>7. row.projectOutcome # "created" /\ row.taskOutcome # "created"
    BY <2>2
  <2>8. worker[w].at \in RowStage /\ Loop(w)
    BY <1>1 DEF Loop, RowStage
  <2> QED BY <1>1, <1>2, <1>3, <1>5, <2>2, <2>3, <2>4, <2>5, <2>6, <2>7, <2>8, OutcomeKeepsResults, Zenon
<1> QED BY <1>3, <1>4, <1>5

LEMMA CommitRowKeepsResults ==
  ASSUME Base, Results, NEW w \in Worker, CommitRow(w)
  PROVE  Results'
<1> PICK j, r, key : j = worker[w].job /\ r = worker[w].next /\ key = File[r].project
  OBVIOUS
<1>1. PICK e : RowDone(w, e) /\ ProjectsAfter(w, e) /\ TasksAfter(w, e)
  BY RowCommitted
<1> PICK s, row : s = WorkerAfter(worker[w], e) /\ row = RowAfter(job[j].rows[r], e)
  OBVIOUS
<1> DEFINE cache == worker[w].projectIdByKey
<1>2. /\ s.at = "rows" /\ s.job = j /\ s.gone = worker[w].gone /\ s.next = r + 1
      /\ s.projectIdByKey = Remember(cache, key, e.project) /\ worker'[w] = s
  BY <1>1, WorkerGoesOn
<1>3. /\ worker[w].at = "write" /\ r \in RowNumber /\ ~worker[w].gone /\ j \in Job /\ UNCHANGED overtaken
      /\ job[j].rows \in [RowNumber -> Row] /\ e.projectOutcome \in Stored /\ e.taskOutcome \in Stored
      /\ e.project \in Nat \ {0} /\ PlanFits(worker[w])
  BY <1>1 DEF RowDone
<1>4. /\ row.projectOutcome = e.projectOutcome /\ row.taskOutcome = e.taskOutcome
      /\ row.project = e.project /\ row.task = e.task
  BY DEF RowAfter
<1>5. job' = [job EXCEPT ![j].rows[r] = row]
  BY <1>1 DEF RowDone, Base, TypeOK
<1>6. key \in DOMAIN cache => cache[key] = e.project \/ cache[key] \in {Gone, None}
  <2>1. key \in DOMAIN cache => worker[w].plan.project.id = IF cache[key] = Gone THEN New ELSE cache[key]
    BY <1>3 DEF PlanFits
  <2>2. worker[w].plan.project.id # New => e.project = worker[w].plan.project.id
    BY <1>1 DEF RowDone
  <2> QED BY <2>1, <2>2 DEF New
<1>7. KeepsIds(cache, s.projectIdByKey)
  BY <1>2, <1>3, <1>6, IdsAreKept, Zenon DEF RowStage
<1>8. /\ DOMAIN project \subseteq DOMAIN project' /\ e.project \in DOMAIN project'
      /\ \A i : Made(project', i) = Made(project, i) \cup
           (IF e.projectOutcome = "created" /\ i = j THEN {e.project} ELSE {})
  BY <1>1 DEF ProjectsAfter, Made
<1>9. \A i : Made(task', i) = Made(task, i) \cup
        (IF e.taskOutcome = "created" /\ i = j THEN {e.task} ELSE {})
  BY <1>1 DEF TasksAfter, Made
<1>10. RowFits(row, s.projectIdByKey, key)'
  BY <1>2, <1>3, <1>4, <1>8, Zenon DEF RowFits, IsDone, Stored, Remember
<1>11. \A i \in Job \ {j} : Made(project', i) = Made(project, i) /\ Made(task', i) = Made(task, i)
  BY <1>8, <1>9, Zenon
<1>12. /\ Made(project', j) = Made(project, j) \cup
            (IF row.projectOutcome = "created" THEN {row.project} ELSE {})
       /\ Made(task', j) = Made(task, j) \cup (IF row.taskOutcome = "created" THEN {row.task} ELSE {})
  <2>1. Made(project', j) = Made(project, j) \cup
          (IF e.projectOutcome = "created" THEN {e.project} ELSE {})
    BY <1>8
  <2>2. Made(task', j) = Made(task, j) \cup (IF e.taskOutcome = "created" THEN {e.task} ELSE {})
    BY <1>9
  <2> QED BY <1>4, <2>1, <2>2, Zenon
<1>13. worker[w].at \in RowStage /\ Loop(w)
  BY <1>3 DEF Loop, RowStage
<1> QED BY <1>2, <1>3, <1>5, <1>7, <1>8, <1>10, <1>11, <1>12, <1>13, OutcomeKeepsResults, Zenon

(* The administrators.                                                     *)
LEMMA AnswerKeepsResults ==
  ASSUME Base, Results, NEW a \in Admin, request[a] # Idle, Answer(a),
         NEW j, j = request[a].job, j \in Job,
         NEW s \in JobState, job' = [job EXCEPT ![j] = s],
         s.status \in {job[j].status, "queued_commit"},
         job[j].status = "awaiting_review" /\ (\A r \in RowNumber : IsPending(job[j].rows[r]))
           => \A r \in RowNumber : IsPending(s.rows[r]),
         s.rows \in [RowNumber -> Row],
         UNCHANGED worker \/ RowsReplaced(j)
  PROVE  Results'
<1>1. /\ UNCHANGED <<project, task>> /\ overtaken \subseteq overtaken'
      /\ j \notin overtaken' => job[j].status = "awaiting_review"
      /\ job'[j] = s /\ \A i \in Job \ {j} : job'[i] = job[i]
  BY DEF Answer, Base, TypeOK
<1>2. ASSUME NEW i \in Job \ overtaken' PROVE JobFits(i)'
  <2>1. JobFits(i)
    BY <1>1 DEF Results
  <2>2. CASE i # j
    BY <1>1, <2>1, <2>2 DEF JobFits
  <2>3. CASE i = j
    <3>1. /\ job[j].status = "awaiting_review" /\ \A r \in RowNumber : IsPending(job[j].rows[r])
          /\ job[j].rows \in [RowNumber -> Row]
      BY <1>1, <2>1, <2>3 DEF JobFits, Base, RowsAreStaged, HasRows
    <3>2. \A r \in RowNumber : IsPending(s.rows[r])
      BY <3>1
    <3>3. /\ CreatedProjects(job[j].rows) = {} /\ CreatedTasks(job[j].rows) = {}
          /\ CreatedProjects(s.rows) = {} /\ CreatedTasks(s.rows) = {}
      BY <3>1, <3>2, PendingMadeNothing
    <3>4. Made(project', j) = {} /\ Made(task', j) = {}
      BY <1>1, <2>1, <2>3, <3>1, <3>3 DEF JobFits
    <3> QED BY <1>1, <2>3, <3>1, <3>2, <3>3, <3>4 DEF JobFits
  <2> QED BY <2>2, <2>3
<1>3. ASSUME NEW v \in Worker, Commits(worker'[v]) PROVE CommitFits(worker[v])'
  <2>1. \/ worker'[v] = worker[v]
        \/ /\ worker[v].at \in RowStage /\ worker[v].job = j
           /\ worker'[v] = [worker[v] EXCEPT !.gone = TRUE]
    BY DEF RowsReplaced
  <2>2. IsWorker(worker[v])
    BY DEF Base, TypeOK
  <2>3. worker[v].at \in RowStage => \E plans : IsCommit(worker[v], plans)
    BY <2>2, Stages DEF RowStage
  <2>4. CASE worker'[v] # worker[v]
    BY <2>1, <2>3, <2>4 DEF CommitFits, IsCommit, RowStage
  <2>5. CASE worker'[v] = worker[v]
    <3>1. Commits(worker[v]) /\ CommitFits(worker[v]) /\ worker[v].job \in Job
      BY <1>3, <2>5, Held DEF Results, Base, HasJob, Commits, RowStage
    <3>2. worker[v].job = j => j \in overtaken'
      BY <1>1, <3>1 DEF Base, HoldersFit, HolderFits
    <3>3. worker[v].job # j => job'[worker[v].job] = job[worker[v].job]
      BY <1>1, <3>1
    <3> QED BY <1>1, <2>5, <3>1, <3>2, <3>3 DEF CommitFits, Progress, RowFits, Exists
  <2> QED BY <2>4, <2>5
<1> QED BY <1>2, <1>3 DEF Results

LEMMA RequestsKeepResults ==
  ASSUME Base, Results, NEW a \in Admin, Requests(a)
  PROVE  Results'
<1> PICK j : j = request[a].job
  OBVIOUS
<1>1. CASE \/ RequestTooLate(a)
           \/ \E i \in Job : \/ BeginMapping(a, i) \/ BeginCommit(a, i)
                             \/ BeginProjectDecision(a, i) \/ BeginTaskDecision(a, i)
  <2>1. UNCHANGED <<job, project, task, worker, overtaken>>
    BY <1>1 DEF RequestTooLate, BeginMapping, BeginCommit, BeginProjectDecision, BeginTaskDecision,
                CheckStaged, Tables, History
  <2> QED BY <2>1 DEF Results, JobFits, CommitFits, Progress, RowFits, Commits, Exists
<1>2. CASE UpdateMapping(a)
  <2> PICK s : s = [job[j] EXCEPT !.rows = [r \in RowNumber |-> FreshRow]]
    OBVIOUS
  <2>1. /\ request[a] # Idle /\ j \in Job /\ job[j] \in JobState /\ Answer(a) /\ RowsReplaced(j)
    BY <1>2, CheckedJob DEF UpdateMapping
  <2>2. s \in JobState /\ s.status = job[j].status /\ s.rows = [r \in RowNumber |-> FreshRow]
        /\ s.rows \in [RowNumber -> Row]
    BY <2>1, RowTypes DEF JobState
  <2>3. job' = [job EXCEPT ![j] = s]
    BY <1>2, <2>1 DEF UpdateMapping
  <2>4. \A r \in RowNumber : IsPending(s.rows[r])
    BY <2>2, FreshIsPending
  <2> QED BY <2>1, <2>2, <2>3, <2>4, AnswerKeepsResults
<1>3. CASE UpdateDecisions(a)
  <2>1. /\ request[a] # Idle /\ j \in Job /\ job[j] \in JobState /\ Answer(a) /\ UNCHANGED worker
    BY <1>3, DecisionsWritten
  <2>2. PICK rows \in [RowNumber -> Row] : /\ job' = [job EXCEPT ![j].rows = rows]
                                           /\ \A r \in RowNumber : SameResult(rows[r], job[j].rows[r])
    BY <1>3, DecisionsWritten
  <2> PICK s : s = [job[j] EXCEPT !.rows = rows]
    OBVIOUS
  <2>3. /\ s \in JobState /\ s.status = job[j].status /\ s.rows = rows
        /\ s.rows \in [RowNumber -> Row]
    BY <2>1, <2>2 DEF JobState
  <2>4. job' = [job EXCEPT ![j] = s]
    BY <2>1, <2>2
  <2>5. \A r \in RowNumber : IsPending(job[j].rows[r]) => IsPending(s.rows[r])
    BY <2>2, <2>3 DEF IsPending, SameResult
  <2> QED BY <2>1, <2>3, <2>4, <2>5, AnswerKeepsResults
<1>4. CASE QueueCommit(a)
  <2> PICK s : s = [status |-> "queued_commit", summary |-> NoSummary,
                    rows |-> [r \in DOMAIN job[j].rows |-> Reset(job[j].rows[r])]]
    OBVIOUS
  <2>1. /\ request[a] # Idle /\ j \in Job /\ Answer(a) /\ UNCHANGED worker
        /\ job[j].rows \in [RowNumber -> Row]
    BY <1>4, CheckedJob DEF QueueCommit
  <2>2. s \in JobState /\ s.status = "queued_commit" /\ s.rows = [r \in RowNumber |-> Reset(job[j].rows[r])]
        /\ s.rows \in [RowNumber -> Row]
    BY <2>1, RowTypes, Zenon DEF JobState, NoSummary, Status
  <2>3. job' = [job EXCEPT ![j] = s]
    BY <1>4, <2>1 DEF QueueCommit, Base, TypeOK
  <2>4. \A r \in RowNumber : IsPending(s.rows[r])
    BY <2>2, FreshIsPending
  <2> QED BY <2>1, <2>2, <2>3, <2>4, AnswerKeepsResults
<1> QED BY <1>1, <1>2, <1>3, <1>4 DEF Requests

LEMMA UploadKeepsResults ==
  ASSUME Base, Results, NEW j \in Job, Upload(j)
  PROVE  Results'
<1>1. /\ UNCHANGED <<project, task, worker, overtaken>> /\ job[j].status = "absent" /\ job[j].rows = <<>>
      /\ job'[j].status = "queued_parse" /\ job'[j].rows = <<>>
      /\ \A i \in Job \ {j} : job'[i] = job[i]
  BY DEF Upload, History, NoJob, Base, TypeOK, RowsAreStaged
<1>2. ASSUME NEW i \in Job \ overtaken' PROVE JobFits(i)'
  <2>1. JobFits(i)
    BY <1>1 DEF Results
  <2> QED BY <1>1, <2>1 DEF JobFits
<1>3. ASSUME NEW v \in Worker, Commits(worker'[v]) PROVE CommitFits(worker[v])'
  <2>1. Commits(worker[v]) /\ CommitFits(worker[v]) /\ worker[v].job \in Job
    BY <1>1, <1>3, Held DEF Results, Base, HasJob, Commits, RowStage
  <2>2. worker[v].job \notin overtaken => worker[v].job # j
    BY <1>1, <2>1 DEF Base, HoldersFit, HolderFits
  <2> QED BY <1>1, <2>1, <2>2 DEF CommitFits, Progress, RowFits, Exists
<1> QED BY <1>2, <1>3 DEF Results

LEMMA RemoveKeepsResults ==
  ASSUME Base, Results, NEW j \in Job, RemoveImport(j)
  PROVE  Results'
<1>1. /\ UNCHANGED <<project, task, overtaken>> /\ RowsReplaced(j) /\ job'[j].status = "removed"
      /\ \A i \in Job \ {j} : job'[i] = job[i]
  BY DEF RemoveImport, History, NoJob, Base, TypeOK
<1>2. ASSUME NEW i \in Job \ overtaken' PROVE JobFits(i)'
  <2>1. JobFits(i)
    BY <1>1 DEF Results
  <2> QED BY <1>1, <2>1 DEF JobFits
<1>3. ASSUME NEW v \in Worker, Commits(worker'[v]) PROVE CommitFits(worker[v])'
  <2>1. worker'[v] = IF worker[v].at \in RowStage /\ worker[v].job = j
                     THEN [worker[v] EXCEPT !.gone = TRUE] ELSE worker[v]
    BY <1>1 DEF RowsReplaced
  <2>2. IsWorker(worker[v])
    BY DEF Base, TypeOK
  <2>3. worker[v].at \in RowStage => \E plans : IsCommit(worker[v], plans)
    BY <2>2, Stages DEF RowStage
  <2>4. CASE worker[v].at \in RowStage /\ worker[v].job = j
    BY <2>1, <2>3, <2>4 DEF CommitFits, IsCommit, RowStage
  <2>5. CASE ~(worker[v].at \in RowStage /\ worker[v].job = j)
    <3>1. worker'[v] = worker[v] /\ Commits(worker[v]) /\ CommitFits(worker[v]) /\ worker[v].job \in Job
      BY <1>3, <2>1, <2>5, Held DEF Results, Base, HasJob, Commits, RowStage
    <3>2. worker[v].job = j => ~Exists(j)'
      BY <1>1 DEF Exists
    <3>3. worker[v].job # j => job'[worker[v].job] = job[worker[v].job]
      BY <1>1, <3>1
    <3> QED BY <1>1, <2>5, <3>1, <3>2, <3>3 DEF CommitFits, Progress, RowFits, Exists
  <2> QED BY <2>4, <2>5
<1> QED BY <1>2, <1>3 DEF Results

LEMMA ResultsStep ==
  ASSUME Base, Results, [Next]_vars
  PROVE  Results'
<1>1. ASSUME NEW w \in Worker, Loop(w) PROVE Results'
  BY <1>1, LooksKeepResults, ClaimKeepsResults, ParseKeepsResults, BeginRowsKeepsResults,
     ReadRowKeepsResults, CommitRowKeepsResults, RollBackKeepsResults, MarkRowKeepsResults,
     RecalculationKeepsResults, LayingDownKeepsResults DEF Loop
<1>2. CASE UNCHANGED vars
  BY <1>2 DEF vars, Results, JobFits, CommitFits, Progress, RowFits, Commits, Exists
<1> QED BY <1>1, <1>2, LooksKeepResults, RequestsKeepResults, UploadKeepsResults, RemoveKeepsResults DEF Next

LEMMA InitResults == Init => Results
<1> SUFFICES ASSUME Init PROVE Results
  OBVIOUS
<1>1. ASSUME NEW j \in Job PROVE Made(project, j) = {} /\ Made(task, j) = {}
  BY BeforeAssumption, ImportAssumption DEF Init, Made
<1>2. CreatedProjects(<<>>) = {} /\ CreatedTasks(<<>>) = {}
  BY PendingMadeNothing
<1>3. \A j \in Job : job[j].status = "absent" /\ job[j].rows = <<>>
  BY DEF Init, NoJob
<1>4. \A w \in Worker : worker[w].at = "idle"
  BY DEF Init, Idle
<1> QED BY <1>1, <1>2, <1>3, <1>4 DEF Results, JobFits, Commits, RowStage

(* The rows of one imported project that did not fail are in one project   *)
(* of the workspace, whatever the file, the decisions and what fails while *)
(* they are committed.                                                     *)
THEOREM GroupsKeptTogether == Spec => []GroupsStayTogether
<1>1. Results => GroupsStayTogether
  BY DEF Results, JobFits, GroupsFit, GroupsStayTogether, Reviewed, Completed
<1> QED BY <1>1, InitBase, BaseStep, InitResults, ResultsStep, PTL DEF Spec

LEMMA Disjoint ==
  ASSUME NEW S, NEW T, IsFiniteSet(S), IsFiniteSet(T), S \cap T = {}
  PROVE  /\ IsFiniteSet(S \cup T) /\ Cardinality(S \cup T) = Cardinality(S) + Cardinality(T)
         /\ Cardinality(S) \in Nat /\ Cardinality(T) \in Nat
<1>1. Cardinality(S) \in Nat /\ Cardinality(T) \in Nat
  BY FS_CardinalityType
<1>2. Cardinality(S \cap T) = 0
  BY FS_EmptySet
<1>3. IsFiniteSet(S \cup T) /\ Cardinality(S \cup T) = Cardinality(S) + Cardinality(T) - Cardinality(S \cap T)
  BY FS_Union
<1> QED BY <1>1, <1>2, <1>3

(* Every row that is done has one of the outcomes a summary counts.        *)
LEMMA OutcomesAddUp ==
  ASSUME NEW rows \in [RowNumber -> Row], \A r \in RowNumber : IsDone(rows[r])
  PROVE  /\ \A r \in RowNumber : RowOutcome(rows[r]) \in Reported
         /\ LET n == Summary(rows).rows
            IN n["created"] + n["updated"] + n["skipped"] + n["failed"] = Len(File)
<1> DEFINE C == {r \in DOMAIN rows : RowOutcome(rows[r]) = "created"}
           U == {r \in DOMAIN rows : RowOutcome(rows[r]) = "updated"}
           S == {r \in DOMAIN rows : RowOutcome(rows[r]) = "skipped"}
           F == {r \in DOMAIN rows : RowOutcome(rows[r]) = "failed"}
<1>1. \A r \in RowNumber : RowOutcome(rows[r]) \in Reported
  <2> SUFFICES ASSUME NEW r \in RowNumber PROVE RowOutcome(rows[r]) \in Reported
    OBVIOUS
  <2>1. IsDone(rows[r])
    OBVIOUS
  <2> QED BY <2>1 DEF RowOutcome, IsDone, Reported
<1>2. IsFiniteSet(C) /\ IsFiniteSet(U) /\ IsFiniteSet(S) /\ IsFiniteSet(F)
  BY RowsAreFinite
<1>3. RowNumber = (C \cup U) \cup (S \cup F)
  BY <1>1 DEF Reported
<1>4. C \cap U = {} /\ S \cap F = {} /\ (C \cup U) \cap (S \cup F) = {}
  OBVIOUS
<1>5. Cardinality(RowNumber) = Len(File)
  <2>1. Len(File) \in Nat \ {0} /\ RowNumber = 1 .. Len(File)
    BY Rows
  <2>2. Cardinality(1 .. Len(File)) = IF 1 > Len(File) THEN 0 ELSE Len(File) - 1 + 1
    BY <2>1, FS_Interval
  <2> QED BY <2>1, <2>2
<1>6. /\ Summary(rows).rows["created"] = Cardinality(C) /\ Summary(rows).rows["updated"] = Cardinality(U)
      /\ Summary(rows).rows["skipped"] = Cardinality(S) /\ Summary(rows).rows["failed"] = Cardinality(F)
  BY DEF Summary, Reported
<1> HIDE DEF C, U, S, F
<1>7. /\ IsFiniteSet(C \cup U) /\ Cardinality(C \cup U) = Cardinality(C) + Cardinality(U)
      /\ Cardinality(C) \in Nat /\ Cardinality(U) \in Nat
  BY <1>2, <1>4, Disjoint
<1>8. /\ IsFiniteSet(S \cup F) /\ Cardinality(S \cup F) = Cardinality(S) + Cardinality(F)
      /\ Cardinality(S) \in Nat /\ Cardinality(F) \in Nat
  BY <1>2, <1>4, Disjoint
<1>9. Cardinality((C \cup U) \cup (S \cup F)) = Cardinality(C \cup U) + Cardinality(S \cup F)
  BY <1>4, <1>7, <1>8, Disjoint
<1> QED BY <1>1, <1>3, <1>5, <1>6, <1>7, <1>8, <1>9

LEMMA ResultsAreEffects ==
  ASSUME Base, Results
  PROVE  ResultsMatchEffects
<1> SUFFICES ASSUME NEW j \in Reviewed
    PROVE  LET rows == job[j].rows
               s == job[j].summary
           IN /\ \A r \in RowNumber : RowOutcome(rows[r]) # "pending"
              /\ s.rows["created"] + s.rows["updated"] + s.rows["skipped"] + s.rows["failed"] = Len(File)
              /\ Made(project, j) = CreatedProjects(rows)
              /\ Made(task, j) = CreatedTasks(rows)
              /\ s.projects = Cardinality(Made(project, j)) /\ s.tasks = Cardinality(Made(task, j))
  BY DEF ResultsMatchEffects
<1> DEFINE rows == job[j].rows
<1>1. JobFits(j) /\ job[j].status = "completed" /\ rows \in [RowNumber -> Row]
  BY DEF Reviewed, Completed, Results, Base, RowsAreStaged, HasRows
<1>2. /\ \A r \in RowNumber : IsDone(rows[r])
      /\ job[j].summary = Summary(rows)
      /\ Made(project, j) = CreatedProjects(rows) /\ Made(task, j) = CreatedTasks(rows)
  BY <1>1 DEF JobFits
<1> HIDE DEF rows
<1>3. /\ \A r \in RowNumber : RowOutcome(rows[r]) \in Reported
      /\ LET n == Summary(rows).rows
         IN n["created"] + n["updated"] + n["skipped"] + n["failed"] = Len(File)
  BY <1>1, <1>2, OutcomesAddUp
<1>4. \A r \in RowNumber : RowOutcome(rows[r]) # "pending"
  BY <1>3 DEF Reported
<1>5. Summary(rows).projects = Cardinality(CreatedProjects(rows)) /\ Summary(rows).tasks = Cardinality(CreatedTasks(rows))
  BY DEF Summary
<1> QED BY <1>2, <1>3, <1>4, <1>5 DEF rows

(* What an import has written is accounted for: a completed one by its     *)
(* results, row by row and project by project, and any one by the rollups  *)
(* of the projects it touched.                                             *)
THEOREM EffectsAccountedFor == Spec => []EffectsAreAccountedFor
<1>1. Base /\ Results /\ Rollups => EffectsAreAccountedFor
  BY ResultsAreEffects DEF EffectsAreAccountedFor, Rollups
<1> QED BY <1>1, InitBase, BaseStep, InitResults, ResultsStep, InitRollups, RollupsStep, PTL DEF Spec
=============================================================================
