--------------------------- MODULE ImportPipeline ---------------------------
(***************************************************************************)
(* CSV imports: an administrator uploads a file, a worker stages its rows, *)
(* the administrator reviews them, a worker commits them row by row        *)
(* (apps/api/src/imports.service.ts, apps/worker/src/loop-import-worker.ts)*)
(*                                                                         *)
(* Jobs, rows, projects and tasks are tables of the database.  A worker    *)
(* holds, in its memory, the rows as it read them and the ids it found or  *)
(* made (projectIdByKey, taskIdByKey): those survive a row's transaction   *)
(* that is rolled back.  A request reads the job's status first and writes *)
(* later.  An import can be removed at any time, with its rows.            *)
(*                                                                         *)
(* Every job imports File.  Of a row matters which project and task it is  *)
(* about (its keys) and whether a key is a source id; whether the other    *)
(* columns differ from what is stored is left open.                        *)
(***************************************************************************)
EXTENDS Naturals, Sequences, FiniteSets, FiniteSetsExt, SequencesExt

CONSTANTS
  Worker, Admin,
  Job,            \* the imports, numbered in the order they are uploaded
  Key,            \* titles and source ids
  File,           \* the rows of the file
  External,       \* the keys that are source ids
  ProjectsBefore, TasksBefore, \* what earlier imports left
  Actions,        \* the overlap decisions administrators take
  Faults,         \* what goes wrong: "transaction", "call", "crash"
  None

RowNumber == DOMAIN File
ProjectKey == {File[r].project : r \in RowNumber}

ProjectRow == [key : Key, external : BOOLEAN, total : Nat, by : Job \cup {None}]
TaskRow == [key : Key, external : BOOLEAN, project : Nat, by : Job \cup {None}]
OneSourceId(table) ==   \* the unique key on source ids
  \A x, y \in DOMAIN table :
    table[x].external /\ table[y].external /\ table[x].key = table[y].key => x = y

ASSUME ImportAssumption ==
  /\ Job \subseteq Nat
  /\ File \in Seq([project : Key, task : Key \cup {None}, valid : BOOLEAN])
  /\ \E r \in RowNumber : File[r].valid
  /\ Actions \subseteq {"update", "add", "ignore"}
  /\ Faults \subseteq {"transaction", "call", "crash"}
  /\ None \notin Nat \cup Key

(* What earlier imports left is in order.                                  *)
ASSUME BeforeAssumption ==
  /\ ProjectsBefore \in Seq(ProjectRow) /\ OneSourceId(ProjectsBefore)
  /\ TasksBefore \in Seq(TaskRow) /\ OneSourceId(TasksBefore)
  /\ \A t \in DOMAIN TasksBefore :
       TasksBefore[t].by = None /\ TasksBefore[t].project \in DOMAIN ProjectsBefore
  /\ \A p \in DOMAIN ProjectsBefore :
       /\ ProjectsBefore[p].by = None
       /\ ProjectsBefore[p].total =
            Cardinality({t \in DOMAIN TasksBefore : TasksBefore[t].project = p})

VARIABLES
  job,             \* ImportJob with its ImportRows
  project, task,   \* what imports have made of Project and Task, by id
  worker, request,
  exposed,         \* history: projects whose last recalculation met another one or
                   \* was cut off, or that lost a task a row had read elsewhere
  crashed,         \* history: the jobs whose worker died
  overtaken        \* history: the jobs a request wrote when their review was over

vars == <<job, project, task, worker, request, exposed, crashed, overtaken>>

New == None   \* an id yet to be given
Gone == 0     \* an id of a creation that was rolled back

FreshRow ==
  [projectAction |-> "update", taskAction |-> "update", projectOutcome |-> "pending",
   taskOutcome |-> "pending", project |-> None, task |-> None]
Reset(row) ==
  [FreshRow EXCEPT !.projectAction = row.projectAction, !.taskAction = row.taskAction]
Reported == {"created", "updated", "skipped", "failed"}
NoSummary == [rows |-> [o \in Reported |-> 0], projects |-> 0, tasks |-> 0]
NoJob(status) == [status |-> status, rows |-> <<>>, summary |-> NoSummary]
Idle == [at |-> "idle"]

Init ==
  /\ job = [j \in Job |-> NoJob("absent")]
  /\ project = ProjectsBefore
  /\ task = TasksBefore
  /\ worker = [w \in Worker |-> Idle]
  /\ request = [a \in Admin |-> Idle]
  /\ exposed = {}
  /\ crashed = {}
  /\ overtaken = {}

Exists(j) == job[j].status \notin {"absent", "removed"}
At(w, stage) == worker[w].at = stage
Go(w, state) == worker' = [worker EXCEPT ![w] = state]
Tables == <<job, project, task>>
History == <<exposed, crashed, overtaken>>

(* The stages of a commit with the rows in memory.                         *)
RowStage == {"rows", "write", "row_failed", "recalculate"}

(* A worker that committed rows of j holds ids no row has any more.        *)
RowsReplaced(j) ==
  worker' = [w \in Worker |->
    IF worker[w].at \in RowStage /\ worker[w].job = j
    THEN [worker[w] EXCEPT !.gone = TRUE] ELSE worker[w]]

----------------------------------------------------------------------------
(* The administrators' requests.                                           *)
Upload(j) ==
  /\ job[j].status = "absent"
  /\ \A i \in Job : i < j => job[i].status # "absent"
  /\ job' = [job EXCEPT ![j] = NoJob("queued_parse")]
  /\ UNCHANGED <<project, task, worker, request, History>>

(* The rows cascade.                                                       *)
RemoveImport(j) ==
  /\ Exists(j)
  /\ job' = [job EXCEPT ![j] = NoJob("removed")]
  /\ RowsReplaced(j)
  /\ UNCHANGED <<project, task, request, History>>

MatchingProjects(k) ==
  {p \in DOMAIN project : project[p].key = k /\ project[p].external = (k \in External)}
MatchingTasks(k, p) ==
  {t \in DOMAIN task : /\ task[t].key = k
                       /\ task[t].external = (k \in External)
                       /\ k \in External \/ task[t].project = p}

(* What the preview shows of a row, with the projects and tasks there are. *)
PreviewTarget(j, r) ==
  LET found == MatchingProjects(File[r].project)
  IN IF Cardinality(found) # 1 \/ job[j].rows[r].projectAction = "add" THEN New
     ELSE CHOOSE p \in found : TRUE
ProjectGroup(r) == {s \in RowNumber : File[s].project = File[r].project}
TaskGroup(r) ==
  {s \in RowNumber : /\ File[s].task = File[r].task
                     /\ File[r].task \in External \/ s \in ProjectGroup(r)}
(* An ambiguous match counts against the first row of its group.           *)
PreviewValid(j, r) ==
  /\ File[r].valid
  /\ r = Min(ProjectGroup(r)) => Cardinality(MatchingProjects(File[r].project)) <= 1
  /\ r = Min(TaskGroup(r)) => Cardinality(MatchingTasks(File[r].task, PreviewTarget(j, r))) <= 1


CheckStaged(a, j, what) ==
  /\ request[a] = Idle
  /\ job[j].status = "awaiting_review"
  /\ request' = [request EXCEPT ![a] = what]
  /\ UNCHANGED <<Tables, worker, History>>

BeginMapping(a, j) == CheckStaged(a, j, [at |-> "mapping", job |-> j])
BeginCommit(a, j) ==
  /\ \E r \in DOMAIN job[j].rows : PreviewValid(j, r)
  /\ CheckStaged(a, j, [at |-> "commit", job |-> j])
BeginProjectDecision(a, j) ==
  \E r \in DOMAIN job[j].rows, action \in Actions :
    /\ \/ Cardinality(ProjectGroup(r)) > 1
       \/ Cardinality(MatchingProjects(File[r].project)) = 1
    /\ CheckStaged(a, j, [at |-> "project", job |-> j, rows |-> ProjectGroup(r), action |-> action])
BeginTaskDecision(a, j) ==
  \E r \in DOMAIN job[j].rows, action \in Actions :
    /\ File[r].task # None
    /\ \/ Cardinality(TaskGroup(r)) > 1
       \/ Cardinality(MatchingTasks(File[r].task, PreviewTarget(j, r))) = 1
    /\ CheckStaged(a, j, [at |-> "task", job |-> j, rows |-> TaskGroup(r), action |-> action])

(* A checked request writes, whatever the status of the job is by now.     *)
Checked(a, op) == request[a].at = op /\ Exists(request[a].job)
Answer(a) ==
  /\ request' = [request EXCEPT ![a] = Idle]
  /\ overtaken' = overtaken \cup {j \in {request[a].job} : job[j].status # "awaiting_review"}
  /\ UNCHANGED <<project, task, exposed, crashed>>

(* The import was removed since: the statements fail or match nothing.     *)
RequestTooLate(a) ==
  /\ request[a] # Idle /\ ~Exists(request[a].job)
  /\ request' = [request EXCEPT ![a] = Idle]
  /\ UNCHANGED <<Tables, worker, History>>

UpdateMapping(a) ==
  LET j == request[a].job IN
  /\ Checked(a, "mapping")
  /\ job' = [job EXCEPT ![j].rows = [r \in RowNumber |-> FreshRow]]
  /\ RowsReplaced(j)
  /\ Answer(a)

UpdateDecisions(a) ==
  LET j == request[a].job
      R == request[a].rows
      action == request[a].action
  IN /\ \/ /\ Checked(a, "project")
           /\ job' = [job EXCEPT ![j].rows =
                [r \in RowNumber |-> IF r \in R THEN [@[r] EXCEPT !.projectAction = action]
                                     ELSE @[r]]]
        \/ /\ Checked(a, "task")
           /\ job' = [job EXCEPT ![j].rows =
                [r \in RowNumber |-> IF r \in R THEN [@[r] EXCEPT !.taskAction = action]
                                     ELSE @[r]]]
     /\ Answer(a)
     /\ UNCHANGED worker

QueueCommit(a) ==
  LET j == request[a].job IN
  /\ Checked(a, "commit")
  /\ job' = [job EXCEPT ![j] =
       [status |-> "queued_commit", summary |-> NoSummary,
        rows |-> [r \in DOMAIN @.rows |-> Reset(@.rows[r])]]]
  /\ Answer(a)
  /\ UNCHANGED worker


----------------------------------------------------------------------------
(* A worker looks for a job to parse, then for one to commit, and claims   *)
(* the oldest unless another worker has it by then.                        *)
Queued(status) == {j \in Job : job[j].status = status}
Quiet == UNCHANGED <<request, History>>

LookFor(w, from, to, otherwise) ==
  /\ Go(w, IF Queued(from) = {} THEN [at |-> otherwise]
           ELSE [at |-> "found", job |-> Min(Queued(from)), from |-> from, to |-> to])
  /\ Quiet
  /\ UNCHANGED Tables
FindParseJob(w) == At(w, "idle") /\ LookFor(w, "queued_parse", "parsing", "no_parse")
FindCommitJob(w) == At(w, "no_parse") /\ LookFor(w, "queued_commit", "committing", "idle")

ClaimById(w) ==   \* mutant: the status is not checked again
  /\ At(w, "found")
  /\ job' = IF Exists(worker[w].job) THEN [job EXCEPT ![worker[w].job].status = worker[w].to]
            ELSE job
  /\ Go(w, [at |-> worker[w].to, job |-> worker[w].job])
  /\ Quiet
  /\ UNCHANGED <<project, task>>
ClaimJob(w) ==
  LET j == worker[w].job IN
  /\ At(w, "found")
  /\ IF job[j].status = worker[w].from
     THEN /\ job' = [job EXCEPT ![j].status = worker[w].to]
          /\ Go(w, [at |-> worker[w].to, job |-> j])
     ELSE /\ Go(w, [at |-> IF worker[w].to = "parsing" THEN "no_parse" ELSE "idle"])
          /\ UNCHANGED job
  /\ Quiet
  /\ UNCHANGED <<project, task>>

ParseJob(w) ==
  LET j == worker[w].job IN
  /\ At(w, "parsing")
  /\ job' = IF Exists(j)
            THEN [job EXCEPT ![j] = [NoJob("awaiting_review") EXCEPT !.rows =
                                       [r \in RowNumber |-> FreshRow]]]
            ELSE job
  /\ Go(w, Idle)
  /\ Quiet
  /\ UNCHANGED <<project, task>>

----------------------------------------------------------------------------
(* Committing: the rows are read once, then taken one by one.              *)
NoIds == [key \in {} |-> None]
BeginRows(w) ==
  LET j == worker[w].job IN
  /\ At(w, "committing")
  /\ Go(w, IF ~Exists(j) THEN Idle
           ELSE [at |-> "rows", job |-> j, next |-> 1, touched |-> <<>>, gone |-> FALSE,
                 actions |-> [r \in RowNumber |-> [project |-> job[j].rows[r].projectAction,
                                                   task |-> job[j].rows[r].taskAction]],
                 projectIdByKey |-> NoIds, taskIdByKey |-> NoIds, plan |-> None])
  /\ Quiet
  /\ UNCHANGED Tables

(* What upsertProject and upsertTask both decide from the rows they find:  *)
(* the row to write or a new one, and whether it carries the source id.    *)
Plan(key, found, cached, action) ==
  LET create == found = {} \/ (~cached /\ action = "add")
  IN [id |-> IF create THEN New ELSE CHOOSE x \in found : TRUE,
      external |-> key \in External /\ ~(action = "add" /\ ~cached /\ found # {}),
      ignore |-> action = "ignore"]

(* A cached id is looked up by itself: a rolled back one finds nothing.    *)
Found(cache, key, matches) ==
  IF key \in DOMAIN cache THEN {cache[key]} \ {Gone} ELSE matches
ProjectPlanAnew(w, r) ==   \* mutant: no cache
  LET found == MatchingProjects(File[r].project)
  IN IF Cardinality(found) > 1 THEN None
     ELSE Plan(File[r].project, found, FALSE, worker[w].actions[r].project)
ProjectPlan(w, r) ==
  LET key == File[r].project
      cache == worker[w].projectIdByKey
      found == Found(cache, key, MatchingProjects(key))
  IN IF Cardinality(found) > 1 THEN None
     ELSE Plan(key, found, key \in DOMAIN cache, worker[w].actions[r].project)
TaskKey(key, p) == <<key, IF key \in External THEN None ELSE p>>
TaskPlan(w, r, p) ==
  LET key == File[r].task
      cache == worker[w].taskIdByKey
      found == Found(cache, TaskKey(key, p), MatchingTasks(key, p))
      plan == Plan(key, found, TaskKey(key, p) \in DOMAIN cache, worker[w].actions[r].task)
  IN IF Cardinality(found) > 1 THEN None
     ELSE [id |-> plan.id, external |-> plan.external, ignore |-> plan.ignore,
           from |-> IF plan.id = New THEN None ELSE task[plan.id].project]

Remember(cache, key, id) == [x \in DOMAIN cache \cup {key} |-> IF x = key THEN id ELSE cache[x]]

(* The reads of a row's transaction.  Two matches without a source id are  *)
(* an error; where two tasks match, the project is cached already.         *)
ReadRow(w) ==
  LET r == worker[w].next
      p == ProjectPlan(w, r)
      t == TaskPlan(w, r, p.id)
  IN /\ At(w, "rows") /\ r \in RowNumber
     /\ Go(w, IF ~File[r].valid \/ p = None THEN [worker[w] EXCEPT !.at = "row_failed"]
              ELSE IF File[r].task = None
                   THEN [worker[w] EXCEPT !.at = "write", !.plan = [project |-> p, task |-> None]]
              ELSE IF t = None
                   THEN [worker[w] EXCEPT !.at = "row_failed",
                           !.projectIdByKey = Remember(@, File[r].project, p.id)]
              ELSE [worker[w] EXCEPT !.at = "write", !.plan = [project |-> p, task |-> t]])
     /\ Quiet
     /\ UNCHANGED Tables

(* The unique key on source ids.                                           *)
Taken(table, key, plan) ==
  plan.external /\ \E x \in DOMAIN table \ {plan.id} : table[x].key = key /\ table[x].external
OutcomeOf(plan, differs) ==
  CASE plan.id = New -> "created"
    [] plan.id # New /\ ~plan.ignore /\ differs -> "updated"
    [] OTHER -> "skipped"
LacksSourceId(table, plan) == plan.id # New /\ plan.external /\ ~table[plan.id].external

NoPreviousProject(plan) == None   \* mutant: only the new project is recalculated
PreviousProject(plan) == plan.from

(* What the row would do, given the columns that differ.                   *)
Effect(w, differs) ==
  LET r == worker[w].next
      P == worker[w].plan.project
      T == worker[w].plan.task
      projectOutcome == OutcomeOf(P, differs.project \/ LacksSourceId(project, P))
      p == IF P.id = New THEN Len(project) + 1 ELSE P.id
      moves == T # None /\ T.id # New /\ T.from # p
      taskOutcome ==
        IF T = None THEN "skipped"
        ELSE OutcomeOf(T, differs.task \/ moves \/ LacksSourceId(task, T))
  IN [projectOutcome |-> projectOutcome, taskOutcome |-> taskOutcome, project |-> p,
      task |-> IF T = None THEN None ELSE IF T.id = New THEN Len(task) + 1 ELSE T.id,
      from |-> IF taskOutcome = "updated" /\ moves THEN PreviousProject(T) ELSE None,
      projectTaken |-> projectOutcome # "skipped" /\ Taken(project, File[r].project, P),
      taskTaken |-> T # None /\ taskOutcome # "skipped" /\ Taken(task, File[r].task, T)]

AddNew(s, x) == IF x = None \/ Contains(s, x) THEN s ELSE Append(s, x)
Differences == [project : BOOLEAN, task : BOOLEAN]

Moved(row, home, plan) == [row EXCEPT !.project = home, !.external = @ \/ plan.external]

(* The writes of a row's transaction and its commit.                       *)
CommitRow(w) ==
  \E differs \in Differences :
    LET r == worker[w].next
        j == worker[w].job
        e == Effect(w, differs)
        plan == worker[w].plan
        K == File[r].project
        L == File[r].task
        leaves == IF e.taskOutcome = "updated" THEN {task[e.task].project} ELSE {}
    IN /\ At(w, "write")
       /\ ~e.projectTaken /\ ~e.taskTaken /\ ~worker[w].gone
       /\ project' =
            CASE e.projectOutcome = "created" ->
                   Append(project, [key |-> K, external |-> plan.project.external,
                                    total |-> 0, by |-> j])
              [] e.projectOutcome = "updated" ->
                   [project EXCEPT ![e.project].external = @ \/ plan.project.external]
              [] OTHER -> project
       /\ task' =
            CASE e.taskOutcome = "created" ->
                   Append(task, [key |-> L, external |-> plan.task.external,
                                 project |-> e.project, by |-> j])
              [] e.taskOutcome = "updated" ->
                   [task EXCEPT ![e.task] = Moved(@, e.project, plan.task)]
              [] OTHER -> task
       /\ job' = [job EXCEPT ![j].rows[r] =
            [projectAction |-> @.projectAction, taskAction |-> @.taskAction,
             projectOutcome |-> e.projectOutcome, taskOutcome |-> e.taskOutcome,
             project |-> e.project, task |-> e.task]]
       /\ Go(w, [worker[w] EXCEPT !.at = "rows", !.next = r + 1, !.plan = None,
                   !.projectIdByKey = Remember(@, K, e.project),
                   !.taskIdByKey = IF plan.task = None THEN @
                                   ELSE Remember(@, TaskKey(L, e.project), e.task),
                   !.touched = AddNew(AddNew(@, e.project), e.from)])
       /\ exposed' = exposed \cup {p \in leaves : p \notin {e.project, plan.task.from}}
       /\ UNCHANGED <<request, crashed, overtaken>>

(* A statement fails: a source id is taken, the row was removed or staged  *)
(* anew, or the database says so.  Nothing is stored, but the ids that     *)
(* were cached on the way stay cached.                                     *)
RollBackRow(w) ==
  \E differs \in Differences, cachedProject, cachedTask \in BOOLEAN :
    LET r == worker[w].next
        e == Effect(w, differs)
        plan == worker[w].plan
        idOf(outcome, id) == IF outcome = "created" THEN Gone ELSE id
        home == idOf(e.projectOutcome, e.project)
    IN /\ At(w, "write")
       /\ \/ e.projectTaken /\ ~cachedProject /\ ~cachedTask
          \/ ~e.projectTaken /\ e.taskTaken /\ cachedProject /\ ~cachedTask
          \/ /\ ~e.projectTaken /\ ~e.taskTaken /\ worker[w].gone
             /\ cachedProject /\ cachedTask = (plan.task # None)
          \/ /\ "transaction" \in Faults
             /\ cachedProject => ~e.projectTaken
             /\ cachedTask => cachedProject /\ ~e.taskTaken /\ plan.task # None
       /\ Go(w, [worker[w] EXCEPT !.at = "row_failed", !.plan = None,
                   !.projectIdByKey =
                      IF cachedProject THEN Remember(@, File[r].project, home) ELSE @,
                   !.taskIdByKey =
                      IF cachedTask
                      THEN Remember(@, TaskKey(File[r].task, home), idOf(e.taskOutcome, e.task))
                      ELSE @])
       /\ Quiet
       /\ UNCHANGED Tables

MarkRowFailed(w) ==
  LET r == worker[w].next
      j == worker[w].job
  IN /\ At(w, "row_failed")
     /\ job' = IF worker[w].gone THEN job
               ELSE [job EXCEPT ![j].rows[r] =
                       [@ EXCEPT !.projectOutcome = "failed", !.taskOutcome = "failed"]]
     /\ Go(w, [worker[w] EXCEPT !.at = "rows", !.next = r + 1])
     /\ Quiet
     /\ UNCHANGED <<project, task>>

(* recalculateProjects: one project after the other, read and then written.*)
TasksOf(p) == {t \in DOMAIN task : task[t].project = p}
ReadProject(w) ==
  /\ At(w, "rows") /\ worker[w].next > Len(File) /\ worker[w].touched # <<>>
  /\ Go(w, [worker[w] EXCEPT !.at = "recalculate",
              !.plan = Cardinality(TasksOf(Head(worker[w].touched)))])
  /\ Quiet
  /\ UNCHANGED Tables
Recalculating(p) ==
  {w \in Worker : At(w, "recalculate") /\ Head(worker[w].touched) = p}
WriteProject(w) ==
  LET p == Head(worker[w].touched) IN
  /\ At(w, "recalculate")
  /\ project' = [project EXCEPT ![p].total = worker[w].plan]
  /\ Go(w, [worker[w] EXCEPT !.at = "rows", !.plan = None, !.touched = Tail(@)])
  /\ exposed' = IF Recalculating(p) # {w} THEN exposed \cup {p}
                ELSE exposed \ {q \in {p} : worker[w].plan = Cardinality(TasksOf(p))}
  /\ UNCHANGED <<job, task, request, crashed, overtaken>>

RowOutcome(row) ==   \* deriveRowOutcome
  LET both == {row.projectOutcome, row.taskOutcome} IN
  CASE "pending" \in both -> "pending"
    [] "failed" \in both -> "failed"
    [] "created" \in both -> "created"
    [] both \cap {"created", "updated"} = {"updated"} -> "updated"
    [] OTHER -> "skipped"
CreatedProjects(rows) == {rows[r].project : r \in {r \in DOMAIN rows : rows[r].projectOutcome = "created"}}
CreatedTasks(rows) == {rows[r].task : r \in {r \in DOMAIN rows : rows[r].taskOutcome = "created"}}
Summary(rows) ==
  [rows |-> [o \in Reported |->
               Cardinality({r \in DOMAIN rows : RowOutcome(rows[r]) = o})],
   projects |-> Cardinality(CreatedProjects(rows)),
   tasks |-> Cardinality(CreatedTasks(rows))]
CompleteJob(w) ==
  LET j == worker[w].job IN
  /\ At(w, "rows") /\ worker[w].next > Len(File) /\ worker[w].touched = <<>>
  /\ job' = IF Exists(j)
            THEN [job EXCEPT ![j].status = "completed", ![j].summary = Summary(job[j].rows)]
            ELSE job
  /\ Go(w, Idle)
  /\ Quiet
  /\ UNCHANGED <<project, task>>

----------------------------------------------------------------------------
(* Failures.                                                               *)
Owed(w) == IF worker[w].at \in RowStage THEN ToSet(worker[w].touched) ELSE {}

(* A query outside the rows' transactions fails, or the file cannot be     *)
(* read: the job fails, without the recalculation.                         *)
CallFails(w) ==
  /\ "call" \in Faults
  /\ worker[w].at \in {"parsing", "committing", "row_failed", "rows", "recalculate"}
  /\ At(w, "rows") => worker[w].next > Len(File)
  /\ Go(w, [at |-> "job_failed", job |-> worker[w].job])
  /\ exposed' = exposed \cup Owed(w)
  /\ UNCHANGED <<Tables, request, crashed, overtaken>>
FailQuietly(w) ==   \* mutant: the failure is only logged
  /\ At(w, "job_failed")
  /\ Go(w, Idle)
  /\ Quiet
  /\ UNCHANGED Tables
FailJob(w) ==
  LET j == worker[w].job IN
  /\ At(w, "job_failed")
  /\ job' = IF Exists(j) THEN [job EXCEPT ![j].status = "failed"] ELSE job
  /\ Go(w, Idle)
  /\ Quiet
  /\ UNCHANGED <<project, task>>

(* The process dies and is started again: once per job, a bound.           *)
Crash(w) ==
  /\ "crash" \in Faults
  /\ worker[w].at \notin {"idle", "no_parse"}
  /\ worker[w].job \notin crashed
  /\ Go(w, Idle)
  /\ exposed' = exposed \cup Owed(w)
  /\ crashed' = crashed \cup {worker[w].job}
  /\ UNCHANGED <<Tables, request, overtaken>>

----------------------------------------------------------------------------
Loop(w) ==
  \/ FindParseJob(w) \/ FindCommitJob(w) \/ ClaimJob(w) \/ ParseJob(w)
  \/ BeginRows(w) \/ ReadRow(w) \/ CommitRow(w) \/ RollBackRow(w) \/ MarkRowFailed(w)
  \/ ReadProject(w) \/ WriteProject(w) \/ CompleteJob(w) \/ FailJob(w)
Requests(a) ==
  \/ \E j \in Job : \/ BeginMapping(a, j) \/ BeginCommit(a, j)
                    \/ BeginProjectDecision(a, j) \/ BeginTaskDecision(a, j)
  \/ RequestTooLate(a) \/ UpdateMapping(a) \/ UpdateDecisions(a) \/ QueueCommit(a)
Next ==
  \/ \E w \in Worker : Loop(w) \/ CallFails(w) \/ Crash(w)
  \/ \E a \in Admin : Requests(a)
  \/ \E j \in Job : Upload(j) \/ RemoveImport(j)
Spec == Init /\ [][Next]_vars
(* The workers' loops run on: they wait at most a poll interval.           *)
FairSpec == Spec /\ \A w \in Worker : WF_vars(Loop(w))

----------------------------------------------------------------------------
Outcome == {"pending", "created", "updated", "skipped", "failed"}
Status == {"absent", "queued_parse", "parsing", "awaiting_review", "queued_commit",
           "committing", "completed", "failed", "removed"}

Action == Actions \cup {"update"}
Id == Nat \cup {None}
Row == [projectAction : Action, taskAction : Action, projectOutcome : Outcome,
        taskOutcome : Outcome, project : Id, task : Id]
JobState == [status : Status, rows : {<<>>} \cup [RowNumber -> Row],
             summary : [rows : [Reported -> Nat], projects : Nat, tasks : Nat]]
RequestState ==
  {Idle} \cup [at : {"mapping", "commit"}, job : Job]
         \cup [at : {"project", "task"}, job : Job, rows : SUBSET RowNumber, action : Action]

ProjectPlans == [id : Id, external : BOOLEAN, ignore : BOOLEAN]
TaskPlans == [id : Id, external : BOOLEAN, ignore : BOOLEAN, from : Id]
RowPlans == [project : ProjectPlans, task : TaskPlans \cup {None}]
IsCache(cache, keys) == DOMAIN cache \subseteq keys /\ cache \in [DOMAIN cache -> Id]
IsCommit(state, plans) ==
  /\ state \in [at : RowStage, job : Job, next : Nat \ {0}, touched : Seq(Nat), gone : BOOLEAN,
                actions : [RowNumber -> [project : Action, task : Action]],
                projectIdByKey : {state.projectIdByKey}, taskIdByKey : {state.taskIdByKey},
                plan : plans]
  /\ IsCache(state.projectIdByKey, Key)
  /\ IsCache(state.taskIdByKey, Key \X Id)
IsWorker(state) ==
  \/ state \in [at : {"idle", "no_parse"}]
  \/ state \in [at : {"found"}, job : Job, from : {"queued_parse"}, to : {"parsing"}]
  \/ state \in [at : {"found"}, job : Job, from : {"queued_commit"}, to : {"committing"}]
  \/ state \in [at : {"parsing", "committing", "job_failed"}, job : Job]
  \/ state.at \in {"rows", "row_failed"} /\ IsCommit(state, {None})
  \/ state.at = "write" /\ IsCommit(state, RowPlans)
  \/ state.at = "recalculate" /\ IsCommit(state, Nat)

TypeOK ==
  /\ job \in [Job -> JobState]
  /\ project \in Seq(ProjectRow)
  /\ task \in Seq(TaskRow)
  /\ DOMAIN worker = Worker /\ \A w \in Worker : IsWorker(worker[w])
  /\ request \in [Admin -> RequestState]
  /\ exposed \subseteq Nat /\ crashed \subseteq Job /\ overtaken \subseteq Job

Completed == {j \in Job : job[j].status = "completed"}

(* queueLoopImportCommit and the two updates check the status and write    *)
(* later: a second administrator's request that was checked during the     *)
(* review may write after it.  Jobs that met one are not spoken of.        *)
Reviewed == Completed \ overtaken

(* The rows of one imported project that did not fail are in one project   *)
(* of the workspace.                                                       *)
GroupsStayTogether ==
  \A j \in Reviewed, r, s \in RowNumber :
    /\ File[r].project = File[s].project
    /\ "failed" \notin {job[j].rows[r].projectOutcome, job[j].rows[s].projectOutcome}
    => job[j].rows[r].project = job[j].rows[s].project

(* A completed import accounts for every row and for every project and     *)
(* task it made, and for nothing else.                                     *)
Made(table, j) == {x \in DOMAIN table : table[x].by = j}
ResultsMatchEffects ==
  \A j \in Reviewed :
    LET rows == job[j].rows
        s == job[j].summary
    IN /\ \A r \in RowNumber : RowOutcome(rows[r]) # "pending"
       /\ s.rows["created"] + s.rows["updated"] + s.rows["skipped"] + s.rows["failed"] = Len(File)
       /\ Made(project, j) = CreatedProjects(rows)
       /\ Made(task, j) = CreatedTasks(rows)
       /\ s.projects = Cardinality(Made(project, j)) /\ s.tasks = Cardinality(Made(task, j))

(* A project's total is behind its tasks only while a worker still owes    *)
(* the recalculation, unless two recalculations met or the commit was cut  *)
(* off: also for the project a task was moved away from, and for an import *)
(* that was removed meanwhile.                                             *)
RollupsFollow ==
  \A p \in DOMAIN project :
    project[p].total # Cardinality(TasksOf(p)) =>
      p \in exposed \/ \E w \in Worker : p \in Owed(w)

(* What an import has written is accounted for, in its results and in the  *)
(* rollups of the projects it touched.                                     *)
EffectsAreAccountedFor == ResultsMatchEffects /\ RollupsFollow

(* A queued import comes to a result, or is removed, unless its worker     *)
(* died.                                                                   *)
Pending(j) == job[j].status \in {"queued_parse", "parsing", "queued_commit", "committing"}
EveryJobIsSettled == \A j \in Job : Pending(j) ~> ~Pending(j) \/ j \in crashed

(* What a settled import reports stays as it is until it is removed: no    *)
(* worker imports it a second time.                                        *)
SettledJobsStay ==
  [][\A j \in Job \ overtaken' : job[j].status \in {"completed", "failed"} =>
       job'[j] = job[j] \/ job'[j].status = "removed"]_vars

(* An import that a worker has taken up stays in its hands until it is     *)
(* settled or removed, whatever fails, unless the worker dies: no claim    *)
(* takes it up again.                                                      *)
HasJob(w) == worker[w].at \notin {"idle", "no_parse", "found"}
TakenJobsAreHeld ==
  \A j \in Job : job[j].status \in {"parsing", "committing"} =>
    j \in crashed \/ \E w \in Worker : HasJob(w) /\ worker[w].job = j

(* The valid rows of one imported project, split from one cell, end up in  *)
(* one project (docs/IMPORT_EXPORT.md:73), whatever decision was taken.    *)
SplitRowsStayGrouped ==
  \A j \in Completed, r, s \in RowNumber :
    File[r].valid /\ File[s].valid /\ File[r].project = File[s].project
    => job[j].rows[r].project = job[j].rows[s].project
=============================================================================
