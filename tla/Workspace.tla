----------------------------- MODULE Workspace -----------------------------
(***************************************************************************)
(* Projects and their tasks as the API's services change them (apps/api/   *)
(* src/projects.service.ts and tasks.service.ts), several requests at a    *)
(* time on one PostgreSQL database at its default level, read committed.   *)
(*                                                                         *)
(* A request first reads what it is about, outside any transaction (seen). *)
(* Its transaction then writes rows, recalculates the rollups of the       *)
(* projects it touched, archives an emptied "Unassigned" project and       *)
(* commits.  What a transaction has written is in own until it commits:    *)
(* invisible to the others, and locked, so that another writer of the row  *)
(* waits.  Every statement sees what is committed and what its own         *)
(* transaction wrote.                                                      *)
(*                                                                         *)
(* Titles matter only as far as the code compares them with "Unassigned";  *)
(* notes, priorities, dates and people not at all, sortOrder is left out.  *)
(***************************************************************************)
EXTENDS ProjectRollup

CONSTANTS
  Session,       \* concurrent requests, with their database connections
  Project, Task, \* ids: bounds on the rows ever created
  Statuses,      \* the task statuses requests use
  Titles,        \* the project titles they use
  Operations,    \* the requests that are made
  None

ASSUME WorkspaceAssumption ==
  /\ {"not_started", "in_progress", "done"} \subseteq Statuses
  /\ Statuses \subseteq TaskStatus
  /\ Project \cap Task = {} /\ IsFiniteSet(Task)
  /\ None \notin Project \cup Task \cup TaskStatus

VARIABLES
  project, task, \* the committed tables
  own,           \* rows each open transaction has written
  request,       \* what each session is doing
  overlapped     \* history: whether two requests were ever running at a time

vars == <<project, task, own, request, overlapped>>

(* The title of the project that collects converted projects, the same in  *)
(* another case, and any other.                                            *)
Title == {"Unassigned", "unassigned", "other"}
ASSUME TitlesAssumption == Titles \subseteq Title
RowState == {"absent", "active", "archived"}

ProjectRow == [state : RowState, title : Title, manual : Statuses \cup {None},
               derived : Statuses, display : Statuses, total : 0..Cardinality(Task)]
TaskRow == [state : RowState, project : Project \cup {None},
            status : Statuses, completed : BOOLEAN]

Or(optional, default) == IF optional = None THEN default ELSE optional

NewProject(title, manual) ==
  [state |-> "active", title |-> title, manual |-> manual, derived |-> "not_started",
   display |-> Or(manual, "not_started"), total |-> 0]
NewTask(p, status) ==
  [state |-> "active", project |-> p, status |-> status, completed |-> status = "done"]
NoProject == [NewProject("other", None) EXCEPT !.state = "absent"]
NoTask == [NewTask(None, "not_started") EXCEPT !.state = "absent"]

(* The rows a statement writes, by id; f and the rows of g it leaves alone.*)
Row(id, row) == [x \in {id} |-> row]
Over(f, g) == [x \in DOMAIN f \cup DOMAIN g |-> IF x \in DOMAIN f THEN f[x] ELSE g[x]]

Idle == [stage |-> "idle"]

Init ==
  /\ project = [p \in Project |-> NoProject]
  /\ task = [t \in Task |-> NoTask]
  /\ own = [s \in Session |-> <<>>]
  /\ request = [s \in Session |-> Idle]
  /\ overlapped = FALSE

----------------------------------------------------------------------------
(* What a statement of session s sees.                                     *)
TaskSeenBy(s, t) == IF t \in DOMAIN own[s] THEN own[s][t] ELSE task[t]
ProjectSeenBy(s, p) == IF p \in DOMAIN own[s] THEN own[s][p] ELSE project[p]
ActiveTasks(s, p) ==
  {t \in Task : TaskSeenBy(s, t).state = "active" /\ TaskSeenBy(s, t).project = p}

Unlocked(s, id) == \A other \in Session \ {s} : id \notin DOMAIN own[other]
FreshTask == {t \in Task : task[t].state = "absent" /\ \A s \in Session : t \notin DOMAIN own[s]}
FreshProject ==
  {p \in Project : project[p].state = "absent" /\ \A s \in Session : p \notin DOMAIN own[s]}

(* A request arrives and has read what it is about.  It is alone if no     *)
(* other request is running, from its first read to its commit.            *)
Begin(s, what) ==
  LET alone == \A other \in Session \ {s} : request[other] = Idle IN
  /\ request[s] = Idle
  /\ what.op \in Operations
  /\ request' = [other \in Session |->
       IF other = s THEN [stage |-> "begun", alone |-> alone, asks |-> what]
       ELSE IF request[other] = Idle THEN Idle
       ELSE [request[other] EXCEPT !.alone = FALSE]]
  /\ overlapped' = (overlapped \/ ~ alone)
  /\ UNCHANGED <<project, task, own>>

Begun(s, op) == request[s].stage = "begun" /\ request[s].asks.op = op

(* The writes of a transaction, once their rows are free; then it has      *)
(* projects to recalculate and projects to clean up.                       *)
Write(s, rows, recalc, cleanup) ==
  /\ \A id \in DOMAIN rows : Unlocked(s, id)
  /\ own' = [own EXCEPT ![s] = rows]
  /\ request' = [request EXCEPT ![s] =
       [stage |-> "written", alone |-> @.alone, recalc |-> recalc, cleanup |-> cleanup,
        touched |-> recalc, rollup |-> None]]
  /\ UNCHANGED <<project, task, overlapped>>

----------------------------------------------------------------------------
(* Requests about tasks.  Active(T): findMany with archivedAt null finds   *)
(* all of them.                                                            *)
Active(T) == T # {} /\ \A t \in T : task[t].state = "active"
RowsOf(T) == [t \in T |-> task[t]]

BeginCreateTask(s) ==
  \E p \in Project, status \in Statuses :
    /\ project[p].state = "active"       \* requireActiveProject
    /\ Begin(s, [op |-> "createTask", project |-> p, status |-> status])
CreateTask(s) ==
  LET r == request[s].asks IN
  /\ Begun(s, "createTask")
  /\ \E t \in FreshTask : Write(s, Row(t, NewTask(r.project, r.status)), {r.project}, {})

(* deleteTask and bulkArchiveTasks.                                        *)
BeginArchiveTasks(s) ==
  \E T \in SUBSET Task : Active(T) /\ Begin(s, [op |-> "archiveTasks", tasks |-> T])
ArchiveTasks(s) ==
  LET T == request[s].asks.tasks
      homes == {task[t].project : t \in T}
  IN /\ Begun(s, "archiveTasks")
     /\ Write(s, [t \in T |-> [task[t] EXCEPT !.state = "archived"]], homes, homes)

BeginCopyTasks(s) ==
  \E T \in SUBSET Task, p \in Project :
    /\ project[p].state = "active"
    /\ Active(T)
    /\ Begin(s, [op |-> "copyTasks", project |-> p, seen |-> RowsOf(T)])
CopyTasks(s) ==
  LET r == request[s].asks IN
  /\ Begun(s, "copyTasks")
  /\ \E source \in [FreshTask -> DOMAIN r.seen \cup {None}] :
       /\ \A t \in DOMAIN r.seen : Cardinality({c \in FreshTask : source[c] = t}) = 1
       /\ LET copies == {c \in FreshTask : source[c] # None} IN
          Write(s, [c \in copies |-> NewTask(r.project, r.seen[source[c]].status)], {r.project}, {})

(* bulkUpdateTasks writes the columns that differ from what it has read    *)
(* (buildBulkTaskUpdate), on the tasks where some column does; columns     *)
(* other than the status, with or without one, may differ on any of them.  *)
BeginUpdateTasks(s) ==
  \E T \in SUBSET Task, status \in Statuses \cup {None} :
    /\ Active(T)
    /\ Begin(s, [op |-> "bulkUpdateTasks", seen |-> RowsOf(T), status |-> status])
UpdateTasks(s) ==
  LET r == request[s].asks
      done == r.status = "done"
      newStatus(t) == r.status \notin {None, r.seen[t].status}
      newCompletion(t) == r.status # None /\ r.seen[t].completed # done
      patched(t) == [task[t] EXCEPT
        !.status = IF newStatus(t) THEN r.status ELSE @,
        !.completed = IF newCompletion(t) THEN done ELSE @]
  IN /\ Begun(s, "bulkUpdateTasks")
     /\ \E T \in SUBSET DOMAIN r.seen :
          /\ {t \in DOMAIN r.seen : newStatus(t) \/ newCompletion(t)} \subseteq T
          /\ Write(s, [t \in T |-> patched(t)], {task[t].project : t \in T}, {})

(* updateTask writes every column back, those not asked for as read.       *)
BeginUpdateTask(s) ==
  \E t \in Task, p \in Project \cup {None}, status \in Statuses \cup {None} :
    /\ task[t].state = "active"
    /\ p \notin {None, task[t].project} => project[p].state = "active"
    /\ Begin(s, [op |-> "updateTask", task |-> t, seen |-> task[t],
                 project |-> Or(p, task[t].project), status |-> Or(status, task[t].status)])
UpdateTask(s) ==
  LET r == request[s].asks
      moved == r.project # r.seen.project
  IN /\ Begun(s, "updateTask")
     /\ Write(s, Row(r.task, [task[r.task] EXCEPT !.project = r.project, !.status = r.status,
                                                  !.completed = (r.status = "done")]),
              {r.seen.project, r.project}, IF moved THEN {r.seen.project} ELSE {})

(* A project made from a task is displayed with the task's status.         *)
ToProjectManualStatus(status) == IF status = "not_started" THEN None ELSE status

BeginConvertTask(s) ==
  \E t \in Task, status \in Statuses \cup {None}, title \in Titles :
    /\ task[t].state = "active"
    /\ Begin(s, [op |-> "convertTaskToProject", task |-> t, home |-> task[t].project,
                 status |-> Or(status, task[t].status), title |-> title])
ConvertTask(s) ==
  LET r == request[s].asks IN
  /\ Begun(s, "convertTaskToProject")
  /\ \E p \in FreshProject :
       Write(s, Over(Row(p, NewProject(r.title, ToProjectManualStatus(r.status))),
                     Row(r.task, [task[r.task] EXCEPT !.state = "archived", !.status = r.status,
                                                      !.completed = (r.status = "done")])),
             {r.home}, {r.home})

----------------------------------------------------------------------------
(* Requests about projects.                                                *)
BeginCreateProject(s) ==
  \E title \in Titles : Begin(s, [op |-> "createProject", title |-> title])
CreateProject(s) ==
  /\ Begun(s, "createProject")
  /\ \E p \in FreshProject : Write(s, Row(p, NewProject(request[s].asks.title, None)), {}, {})

(* updateProject with manualStatus set, cleared (None) or not in the input *)
(* (given is FALSE).  Only an override that was there when read is         *)
(* recalculated on clearing.                                               *)
BeginUpdateProject(s) ==
  \E p \in Project, given \in BOOLEAN, manual \in Statuses \cup {None}, title \in Titles :
    /\ project[p].state = "active"
    /\ ~ given => manual = None
    /\ Begin(s, [op |-> "updateProject", project |-> p, seen |-> project[p],
                 given |-> given, manual |-> manual, title |-> title])
UpdateProject(s) ==
  LET r == request[s].asks
      clearing == r.given /\ r.manual = None /\ r.seen.manual # None
      row == [project[r.project] EXCEPT !.title = r.title]
      overridden == [row EXCEPT !.manual = r.manual]
  IN /\ Begun(s, "updateProject")
     /\ Write(s, Row(r.project, IF ~ r.given THEN row
                                ELSE IF clearing THEN overridden
                                ELSE [overridden EXCEPT !.display = Or(r.manual, r.seen.derived)]),
              IF clearing THEN {r.project} ELSE {}, {})

(* convertProjectToTask checks the persisted counter as read, and refuses  *)
(* a title, kept or given, that is "Unassigned" in any case; in its        *)
(* transaction it finds or creates the "Unassigned" project.               *)
BeginConvertProject(s) ==
  \E p \in Project, manual \in Statuses \cup {None} :
    /\ project[p].state = "active"
    /\ project[p].total = 0
    /\ Begin(s, [op |-> "convertProjectToTask", project |-> p, manual |-> manual,
                 display |-> Or(manual, project[p].derived)])
ConvertProject(s) ==
  LET r == request[s].asks
      homes == {p \in Project \ {r.project} :
                  project[p].state = "active" /\ project[p].title # "other"}
      archived == [project[r.project] EXCEPT
        !.state = "archived", !.title = "other", !.manual = r.manual, !.display = r.display]
      rows(p, t) == Over(Row(r.project, archived), Row(t, NewTask(p, r.display)))
  IN /\ Begun(s, "convertProjectToTask")
     /\ \E t \in FreshTask :
          \/ \E p \in homes : Write(s, rows(p, t), {p}, {})
          \/ /\ homes = {}
             /\ \E p \in FreshProject :
                  Write(s, Over(Row(p, NewProject("Unassigned", None)), rows(p, t)), {p}, {})

BeginDeleteProject(s) ==
  \E p \in Project :
    /\ project[p].state = "active"
    /\ Begin(s, [op |-> "deleteProject", project |-> p])
DeleteProject(s) ==
  LET p == request[s].asks.project IN
  /\ Begun(s, "deleteProject")
  /\ Write(s, Over(Row(p, [project[p] EXCEPT !.state = "archived"]),
                   [t \in ActiveTasks(s, p) |-> [task[t] EXCEPT !.state = "archived"]]),
           {}, {})

----------------------------------------------------------------------------
(* recalculateProject: read the project and its active tasks ...           *)
ReadCommittedTasks(s) ==   \* mutant: reads outside the transaction
  LET r == request[s] IN
  /\ r.stage = "written" /\ r.rollup = None
  /\ \E p \in r.recalc :
       LET T == {t \in Task : task[t].state = "active" /\ task[t].project = p}
           derived == DerivedStatus(T, [t \in T |-> task[t].status])
       IN request' = [request EXCEPT ![s].rollup =
            [project |-> p, derived |-> derived, total |-> Cardinality(T),
             display |-> Or(ProjectSeenBy(s, p).manual, derived)]]
  /\ UNCHANGED <<project, task, own, overlapped>>
ReadTasks(s) ==
  LET r == request[s] IN
  /\ r.stage = "written" /\ r.rollup = None
  /\ \E p \in r.recalc :
       LET T == ActiveTasks(s, p)
           derived == DerivedStatus(T, [t \in T |-> TaskSeenBy(s, t).status])
       IN request' = [request EXCEPT ![s].rollup =
            [project |-> p, derived |-> derived, total |-> Cardinality(T),
             display |-> Or(ProjectSeenBy(s, p).manual, derived)]]
  /\ UNCHANGED <<project, task, own, overlapped>>

(* ... and write the result, once the row is free.                         *)
WriteRollup(s) ==
  LET r == request[s]
      p == r.rollup.project
  IN /\ r.stage = "written" /\ r.rollup # None
     /\ Unlocked(s, p)
     /\ own' = [own EXCEPT ![s] =
          Over(Row(p, [ProjectSeenBy(s, p) EXCEPT
                         !.derived = r.rollup.derived, !.display = r.rollup.display,
                         !.total = r.rollup.total]), @)]
     /\ request' = [request EXCEPT ![s].rollup = None, ![s].recalc = @ \ {p}]
     /\ UNCHANGED <<project, task, overlapped>>

(* cleanupEmptyUnassignedProject.                                          *)
Cleanup(s) ==
  LET r == request[s] IN
  /\ r.stage = "written" /\ r.recalc = {}
  /\ \E p \in r.cleanup :
       LET row == ProjectSeenBy(s, p)
           empty == row.state = "active" /\ row.title = "Unassigned" /\ ActiveTasks(s, p) = {}
       IN /\ own' = IF empty THEN [own EXCEPT ![s] = Over(Row(p, [row EXCEPT !.state = "archived"]), @)]
                    ELSE own
          /\ request' = [request EXCEPT ![s].cleanup = @ \ {p}]
  /\ UNCHANGED <<project, task, overlapped>>

Done(s) ==
  /\ own' = [own EXCEPT ![s] = <<>>]
  /\ request' = [request EXCEPT ![s] = Idle]
  /\ UNCHANGED overlapped

Commit(s) ==
  /\ request[s].stage = "written"
  /\ request[s].recalc = {} /\ request[s].cleanup = {}
  /\ project' = [p \in Project |-> ProjectSeenBy(s, p)]
  /\ task' = [t \in Task |-> TaskSeenBy(s, t)]
  /\ Done(s)

(* The request fails: a transaction timeout, a deadlock the database       *)
(* breaks, an error.                                                       *)
Rollback(s) ==
  /\ request[s] # Idle
  /\ Done(s)
  /\ UNCHANGED <<project, task>>

----------------------------------------------------------------------------
TaskRequest(s) ==
  \/ BeginCreateTask(s) \/ CreateTask(s)
  \/ BeginArchiveTasks(s) \/ ArchiveTasks(s)
  \/ BeginCopyTasks(s) \/ CopyTasks(s)
  \/ BeginUpdateTasks(s) \/ UpdateTasks(s)
  \/ BeginUpdateTask(s) \/ UpdateTask(s)
  \/ BeginConvertTask(s) \/ ConvertTask(s)

ProjectRequest(s) ==
  \/ BeginCreateProject(s) \/ CreateProject(s)
  \/ BeginUpdateProject(s) \/ UpdateProject(s)
  \/ BeginConvertProject(s) \/ ConvertProject(s)
  \/ BeginDeleteProject(s) \/ DeleteProject(s)

Next == \E s \in Session :
  \/ TaskRequest(s) \/ ProjectRequest(s)
  \/ ReadTasks(s) \/ WriteRollup(s) \/ Cleanup(s) \/ Commit(s) \/ Rollback(s)

Spec == Init /\ [][Next]_vars

----------------------------------------------------------------------------
TypeOK ==
  /\ project \in [Project -> ProjectRow]
  /\ task \in [Task -> TaskRow]
  /\ overlapped \in BOOLEAN
  /\ DOMAIN own = Session /\ DOMAIN request = Session
  /\ \A s \in Session :
       /\ DOMAIN own[s] \subseteq Project \cup Task
       /\ \A p \in Project \cap DOMAIN own[s] : own[s][p] \in ProjectRow
       /\ \A t \in Task \cap DOMAIN own[s] : own[s][t] \in TaskRow

TasksOf(p) == {t \in Task : task[t].state = "active" /\ task[t].project = p}
StatusOf(T) == [t \in T |-> task[t].status]

RollupCurrent(p) ==
  /\ project[p].derived = DerivedStatus(TasksOf(p), StatusOf(TasksOf(p)))
  /\ project[p].total = Cardinality(TasksOf(p))
  /\ project[p].display = Or(project[p].manual, project[p].derived)

(* The persisted status and counter of an active project are those of its  *)
(* active tasks, and the displayed status is the override if there is one. *)
RollupIsCurrent ==
  \A p \in Project : project[p].state = "active" => RollupCurrent(p)

(* No active task is hidden in an archived project.                        *)
ActiveTasksAreVisible ==
  \A t \in Task : task[t].state = "active" => project[task[t].project].state = "active"

(* completedAt is set exactly on the tasks that are done, although every   *)
(* request writes the two columns from what it read earlier.               *)
CompletedMatchesDone ==
  \A t \in Task : task[t].completed <=> task[t].status = "done"

(* After any sequence of requests, one at a time and failing ones included, *)
(* the three hold together.                                                *)
SequencesStayConsistent ==
  ~ overlapped => RollupIsCurrent /\ ActiveTasksAreVisible /\ CompletedMatchesDone

(* With no request running, the persisted rollups are right.  The code     *)
(* does not provide this for concurrent requests: two transactions that    *)
(* create a task each do not see the other's, and the second to write the  *)
(* project row overwrites what the first one counted.                      *)
SettledRollupIsCurrent ==
  (\A s \in Session : request[s] = Idle) => RollupIsCurrent

(* A rollup that requests running at the same time left wrong does not     *)
(* stay wrong: the next request that recalculates it, running alone,       *)
(* leaves it right.                                                        *)
SoloRequestsRepairRollups ==
  [][\A s \in Session : Commit(s) /\ request[s].alone =>
       \A p \in request[s].touched : RollupCurrent(p)']_vars

(* A project is archived with no active task left in it; where conversion  *)
(* is what archives projects, "existing task lists are never dropped       *)
(* silently".  The code checks a counter it read before its transaction,   *)
(* so a task created in between is dropped.                                *)
ArchivingDropsNoTasks ==
  [][\A p \in Project :
       project[p].state = "active" /\ project'[p].state = "archived" => TasksOf(p)' = {}]_vars

(* An archived task or project never comes back: a request that read it    *)
(* before it was archived and writes it afterwards leaves it archived.     *)
ArchivedIsFinal ==
  [][/\ \A t \in Task : task[t].state = "archived" => task'[t].state = "archived"
     /\ \A p \in Project : project[p].state = "archived" => project'[p].state = "archived"]_vars

=============================================================================
