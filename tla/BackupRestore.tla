--------------------------- MODULE BackupRestore ---------------------------
(***************************************************************************)
(* A backup of the database and the three ways to restore it.  A snapshot  *)
(* reads one table after the other, while people and the notification      *)
(* worker go on; a restore of projects or of users decides from what it    *)
(* reads before its transaction.  Other requests wait for the rows that a  *)
(* transaction has locked, so each transaction is one step.                *)
(***************************************************************************)
EXTENDS Naturals, FiniteSets, Functions, SequencesExt

CONSTANTS
    Email,
    Source,        \* identities of imported projects and tasks
    Nil,           \* NULL
    MaxId,         \* ids of users, of projects, of tasks
    FirstUsers, FirstProjects, FirstTasks,
    MaxChanges, MaxRestores,
    Scopes         \* the restores that are asked for

Id == 1..MaxId

\* A user's row names its password and its personal settings; a project's and
\* a task's its content: the id it was first made with.
UserRow    == [email: Email, role: {"admin", "viewer", "none"}, password: Id,
               config: {"default", "chosen"}]
ProjectRow == [content: Id, source: Source \cup {Nil}, owner: Id \cup {Nil}]
TaskRow    == [content: Id, source: Source \cup {Nil}, project: Id]

\* Columns, unique columns and foreign keys of the schema.
HasRows(table, Row)  == DOMAIN table \subseteq Id /\ table \in [DOMAIN table -> Row]
EmailsDiffer(table)  == \A u, v \in DOMAIN table : table[u].email = table[v].email => u = v
SourcesDiffer(table) ==
    \A x, y \in DOMAIN table : table[x].source = table[y].source /\ table[x].source # Nil => x = y
RefersTo(accounts, ps, ts) ==
    /\ \A p \in DOMAIN ps : ps[p].owner \in accounts \cup {Nil}
    /\ \A t \in DOMAIN ts : ts[t].project \in DOMAIN ps

Schema(us, ps, ts) ==
    /\ HasRows(us, UserRow) /\ HasRows(ps, ProjectRow) /\ HasRows(ts, TaskRow)
    /\ EmailsDiffer(us) /\ SourcesDiffer(ps) /\ SourcesDiffer(ts)
    /\ RefersTo(DOMAIN us, ps, ts)

ASSUME DatabaseAssumption ==
    /\ Nil \notin Source \cup Id
    /\ MaxId \in Nat /\ MaxChanges \in Nat /\ MaxRestores \in Nat
    /\ Scopes \subseteq {"full", "projects", "users"}
    /\ Schema(FirstUsers, FirstProjects, FirstTasks)
    /\ \A table \in {FirstUsers, FirstProjects, FirstTasks} :
          DOMAIN table = 1..Cardinality(DOMAIN table)

VARIABLES
    users,      \* User and RoleAssignment: id -> row
    projects,   \* Project
    tasks,      \* Task
    next,       \* the next id of each
    todos,      \* the users with personal to-dos, which no backup holds
    mail,       \* the status of the one event in the outbox
    sending,    \* the worker has claimed it
    snap,       \* the snapshot that is being read
    file,       \* the stored backup
    restore,    \* the restore in flight
    changes, restores,
    mailed,     \* history: how often the event was mailed
    requeued    \* history: how often a restore put a claimed event back

tables == <<users, projects, tasks, todos, next>>
outbox == <<mail, sending, mailed, requeued>>
dbVars == <<tables, outbox, snap, file, restore, changes, restores>>

Table == {"users", "roles", "projects", "tasks", "mail"}
None      == [unread |-> {}]
NoRestore == [scope |-> "none"]

Status == {"none", "queued", "processing", "sent"}

DbTypeOK ==
    /\ Schema(users, projects, tasks)
    /\ todos \subseteq DOMAIN users
    /\ next \in [{"users", "projects", "tasks"} -> 1..(MaxId + 1)]
    /\ mail \in Status /\ sending \in BOOLEAN
    /\ changes \in 0..MaxChanges /\ restores \in 0..MaxRestores

DbInit ==
    /\ users = FirstUsers /\ projects = FirstProjects /\ tasks = FirstTasks
    /\ next = [users |-> Cardinality(DOMAIN users) + 1,
               projects |-> Cardinality(DOMAIN projects) + 1,
               tasks |-> Cardinality(DOMAIN tasks) + 1]
    /\ todos = {} /\ mail = "none" /\ sending = FALSE
    /\ snap = None /\ file = None /\ restore = NoRestore
    /\ changes = 0 /\ restores = 0 /\ mailed = 0 /\ requeued = 0

-----------------------------------------------------------------------------
(* People at work.  A change tells the snapshot being read that the        *)
(* database has moved under it.                                            *)

Without(table, gone) == Restrict(table, DOMAIN table \ gone)
With(table, id, row) == [x \in DOMAIN table \cup {id} |-> IF x = id THEN row ELSE table[x]]

\* The rows a deletion takes with it, and those it clears a reference of.
TasksOf(table, p)  == {t \in DOMAIN table : table[t].project = p}
Disowned(table, u) == [p \in DOMAIN table |->
    IF table[p].owner = u THEN [table[p] EXCEPT !.owner = Nil] ELSE table[p]]

Moves == snap' = IF snap = None THEN None ELSE [snap EXCEPT !.quiet = FALSE]

Change ==
    /\ changes < MaxChanges /\ changes' = changes + 1
    /\ Moves
    /\ UNCHANGED <<sending, mailed, requeued, file, restore, restores>>

\* The accounts are not left without an administrator.
Administered(table) == \E u \in DOMAIN table : table[u].role = "admin"

Takes(table) == next[table] <= MaxId /\ next' = [next EXCEPT ![table] = @ + 1]

CreateAccount(e) ==
    /\ Change /\ Takes("users")
    /\ \A u \in DOMAIN users : users[u].email # e
    /\ users' = With(users, next.users, [email |-> e, role |-> "viewer",
                                          password |-> next.users, config |-> "default"])
    /\ UNCHANGED <<projects, tasks, todos, mail>>

UpdateAccount(u, e, r) ==
    /\ Change
    /\ \A v \in DOMAIN users \ {u} : users[v].email # e
    /\ users' = [users EXCEPT ![u].email = e, ![u].role = r]
    /\ Administered(users')
    /\ UNCHANGED <<projects, tasks, todos, next, mail>>

\* userConfigJson and the retention of personal to-dos.
UpdateUserConfig(u) ==
    /\ Change
    /\ users[u].config = "default"
    /\ users' = [users EXCEPT ![u].config = "chosen"]
    /\ UNCHANGED <<projects, tasks, todos, next, mail>>

DeleteAccount(u) ==
    /\ Change
    /\ users' = Without(users, {u}) /\ Administered(users')
    /\ projects' = Disowned(projects, u)
    /\ todos' = todos \ {u}
    /\ UNCHANGED <<tasks, next, mail>>

CreateProject(s, owner) ==
    /\ Change /\ Takes("projects")
    /\ s # Nil => \A p \in DOMAIN projects : projects[p].source # s
    /\ projects' = With(projects, next.projects,
                        [content |-> next.projects, source |-> s, owner |-> owner])
    /\ UNCHANGED <<users, tasks, todos, mail>>

CreateTask(p) ==
    /\ Change /\ Takes("tasks")
    /\ tasks' = With(tasks, next.tasks,
                     [content |-> next.tasks, source |-> Nil, project |-> p])
    /\ UNCHANGED <<users, projects, todos, mail>>

MoveTask(t, p) ==
    /\ Change
    /\ tasks' = [tasks EXCEPT ![t].project = p]
    /\ UNCHANGED <<users, projects, todos, next, mail>>

\* The workspace is cleared, and no examples are made.
ResetWorkspace ==
    /\ Change
    /\ projects' = Without(projects, DOMAIN projects)
    /\ tasks' = Without(tasks, DOMAIN tasks)
    /\ UNCHANGED <<users, todos, next, mail>>

CreateTodo(u) ==
    /\ Change
    /\ todos' = todos \cup {u}
    /\ UNCHANGED <<users, projects, tasks, next, mail>>

\* The one event there is; those posted later are others.
PostEvent ==
    /\ Change
    /\ mailed = 0 /\ ~sending
    /\ mail = "none" /\ mail' = "queued"
    /\ UNCHANGED tables

Workspace ==
    \/ \E e \in Email : CreateAccount(e)
    \/ \E u \in DOMAIN users, e \in Email, r \in {"admin", "viewer"} : UpdateAccount(u, e, r)
    \/ \E u \in DOMAIN users : UpdateUserConfig(u) \/ DeleteAccount(u)
    \/ \E s \in Source \cup {Nil}, u \in DOMAIN users \cup {Nil} : CreateProject(s, u)
    \/ \E p \in DOMAIN projects : CreateTask(p)
    \/ \E t \in DOMAIN tasks, p \in DOMAIN projects : MoveTask(t, p)
    \/ ResetWorkspace
    \/ \E u \in DOMAIN users : CreateTodo(u)
    \/ PostEvent

\* mutant: an event is claimed whatever became of it since the worker saw it.
ClaimAnyEvent ==
    /\ mail # "none" /\ ~sending
    /\ mail' = "processing" /\ sending' = TRUE
    /\ Moves
    /\ UNCHANGED <<tables, mailed, requeued, file, restore, changes, restores>>

\* The worker claims the event, and writes the outcome after the delivery; the
\* row may have been replaced, or be gone.
ClaimEvent ==
    /\ mail = "queued" /\ ~sending
    /\ mail' = "processing" /\ sending' = TRUE
    /\ Moves
    /\ UNCHANGED <<tables, mailed, requeued, file, restore, changes, restores>>

DeliverEvent ==
    /\ sending /\ sending' = FALSE
    /\ mail' = IF mail = "none" THEN "none" ELSE "sent"
    /\ mailed' = mailed + 1
    /\ Moves
    /\ UNCHANGED <<tables, requeued, file, restore, changes, restores>>

-----------------------------------------------------------------------------
(* Taking a snapshot.                                                      *)

\* buildSnapshot of the API and writeBackupFile of the worker: every table is
\* read by a query of its own.
BeginSnapshot(writer) ==
    /\ snap = None /\ file = None
    /\ snap' = [unread |-> Table, writer |-> writer, quiet |-> TRUE,
                asOf |-> <<users, projects, tasks, mail>>]
    /\ UNCHANGED <<tables, outbox, file, restore, changes, restores>>

\* The worker leaves the personal settings out.
ConfigIn(writer, u) == IF writer = "worker" THEN "default" ELSE users[u].config

\* What of a table goes into the snapshot.
Rows(table) ==
    CASE table = "users"    -> [u \in DOMAIN users |->
                                   [email |-> users[u].email, password |-> users[u].password,
                                    config |-> ConfigIn(snap.writer, u)]]
      [] table = "roles"    -> [u \in {v \in DOMAIN users : users[v].role # "none"} |-> users[u].role]
      [] table = "projects" -> projects
      [] table = "tasks"    -> tasks
      [] table = "mail"     -> mail

ReadTable(table) ==
    /\ snap # None /\ table \in snap.unread
    /\ snap' = [x \in DOMAIN snap \cup {table} |->
                    CASE x = table    -> Rows(table)
                      [] x = "unread" -> snap.unread \ {table}
                      [] OTHER        -> snap[x]]
    /\ UNCHANGED <<tables, outbox, file, restore, changes, restores>>

StoreSnapshot ==
    /\ snap # None /\ snap.unread = {}
    /\ file' = snap /\ snap' = None
    /\ UNCHANGED <<tables, outbox, restore, changes, restores>>

-----------------------------------------------------------------------------
(* Restoring everything, in one transaction.                               *)

Restores(scope) ==
    /\ scope \in Scopes /\ file # None /\ restore = NoRestore
    /\ Administered(users)
    /\ restores < MaxRestores /\ restores' = restores + 1

\* Deleted first and made again in this order; a row that refers to one that
\* the backup does not hold ends the transaction.
Consistent(f) ==
    /\ DOMAIN f.roles \subseteq DOMAIN f.users
    /\ RefersTo(DOMAIN f.users, f.projects, f.tasks)

RoleIn(f, u) == IF u \in DOMAIN f.roles THEN f.roles[u] ELSE "none"

\* The account that the rows of the two tables make.
UserOf(f, u) == [email |-> f.users[u].email, role |-> RoleIn(f, u),
                 password |-> f.users[u].password, config |-> f.users[u].config]

\* mutant: accounts that the backup does not hold stay.
RestoredOverUsers(f) == [u \in DOMAIN f.users \cup DOMAIN users |->
    IF u \in DOMAIN f.users
    THEN UserOf(f, u) ELSE users[u]]

RestoredUsers(f) == [u \in DOMAIN f.users |-> UserOf(f, u)]

RestoredProjects(f) == f.projects
RestoredTasks(f)    == f.tasks

\* The to-dos go with the users.
ApplyFullRestore ==
    /\ Restores("full")
    /\ Consistent(file)
    /\ users' = RestoredUsers(file)
    /\ projects' = RestoredProjects(file)
    /\ tasks' = RestoredTasks(file)
    /\ todos' = {}
    /\ mail' = file.mail
    /\ requeued' = IF file.mail = "queued" /\ (sending \/ mailed > 0) THEN requeued + 1 ELSE requeued
    /\ Moves
    /\ UNCHANGED <<next, sending, mailed, file, restore, changes>>

RefuseFullRestore ==
    /\ Restores("full")
    /\ ~Consistent(file)
    /\ UNCHANGED <<tables, outbox, snap, file, restore, changes>>

-----------------------------------------------------------------------------
(* Restoring projects with their tasks.                                    *)

\* The selection, the conflicts to replace (all or none of them), and what is
\* read before the transaction.
BeginRestore(scope, selected, replaced) ==
    /\ Restores(scope)
    /\ selected # {} /\ replaced \subseteq selected
    /\ restore' = [scope |-> scope, selected |-> selected, replaced |-> replaced,
              users |-> users, projects |-> projects]
    /\ UNCHANGED <<tables, outbox, snap, file, changes>>

BeginProjectRestore ==
    /\ file # None
    /\ \E P \in SUBSET DOMAIN file.projects : \E R \in {P, {}} : BeginRestore("projects", P, R)

BeginUserRestore ==
    /\ file # None
    /\ \E U \in SUBSET DOMAIN file.users : \E R \in {U, {}} : BeginRestore("users", U, R)

Pick(S) == IF S = {} THEN Nil ELSE CHOOSE x \in S : TRUE

\* mutant: two rows without a source have the same one.
MatchAnySource(p) ==
    LET same == {q \in DOMAIN restore.projects : restore.projects[q].source = file.projects[p].source}
    IN  IF same # {} THEN Pick(same) ELSE IF p \in DOMAIN restore.projects THEN p ELSE Nil

\* matchExistingProject: by its source, else by its id.
MatchExistingProject(p) ==
    LET source == file.projects[p].source
        same   == {q \in DOMAIN restore.projects : source # Nil /\ restore.projects[q].source = source}
    IN  IF same # {} THEN Pick(same)
        ELSE IF p \in DOMAIN restore.projects THEN p ELSE Nil

\* resolveRestoreUserId: by its id, else by the e-mail it has in the backup.
ResolveRestoreUserId(u) ==
    IF u = Nil \/ u \in DOMAIN restore.users THEN u
    ELSE IF u \notin DOMAIN file.users THEN Nil
    ELSE Pick({v \in DOMAIN restore.users : restore.users[v].email = file.users[u].email})

\* The project a restored one takes the place of, unless it is to be skipped.
Replaced(p) == MatchExistingProject(p)
Skipped(p)  == Replaced(p) # Nil /\ p \notin restore.replaced

\* One project of the loop: s is the transaction so far.
RestoreProject(s, p) ==
    LET old   == Replaced(p)
        row   == file.projects[p]
        left  == Without(s.projects, {old})
        kept  == Without(s.tasks, TasksOf(s.tasks, old))
        new   == s.next.projects
        mine  == TasksOf(file.tasks, p)
        place == [t \in mine |-> s.next.tasks + Cardinality({u \in mine : u < t})]
        made  == [t \in {place[u] : u \in mine} |->
                     [file.tasks[CHOOSE u \in mine : place[u] = t] EXCEPT !.project = new]]
        owner == ResolveRestoreUserId(row.owner)
        ends  == With(left, new, [row EXCEPT !.owner = owner])
        all   == [t \in DOMAIN kept \cup DOMAIN made |-> IF t \in DOMAIN made THEN made[t] ELSE kept[t]]
    IN  IF ~s.ok \/ Skipped(p) THEN s
        ELSE [ok       |-> /\ old # Nil => old \in DOMAIN s.projects
                           /\ owner \in DOMAIN users \cup {Nil}
                           /\ SourcesDiffer(ends) /\ SourcesDiffer(all),
              projects |-> ends, tasks |-> all,
              next     |-> [s.next EXCEPT !.projects = @ + 1, !.tasks = @ + Cardinality(mine)]]

\* In the order of the backup, which is that of their creation.
ProjectsRestored(order) ==
    LET after[n \in 0..Len(order)] ==
            IF n = 0 THEN [ok |-> TRUE, projects |-> projects, tasks |-> tasks, next |-> next]
            ELSE RestoreProject(after[n - 1], order[n])
    IN  after[Len(order)]

ApplyProjectRestore ==
    /\ restore.scope = "projects"
    /\ \E order \in SetToSeqs(restore.selected) : LET s == ProjectsRestored(order) IN
          /\ s.ok /\ s.next.projects <= MaxId + 1 /\ s.next.tasks <= MaxId + 1
          /\ projects' = s.projects /\ tasks' = s.tasks /\ next' = s.next
    /\ restore' = NoRestore
    /\ Moves
    /\ UNCHANGED <<users, todos, outbox, file, changes, restores>>

-----------------------------------------------------------------------------
(* Restoring users with their roles.                                       *)

\* By the e-mail, else by the id.
MatchExistingUser(u) ==
    LET same == {v \in DOMAIN restore.users : restore.users[v].email = file.users[u].email}
    IN  IF same # {} THEN Pick(same) ELSE IF u \in DOMAIN restore.users THEN u ELSE Nil

SkippedUser(u) == MatchExistingUser(u) # Nil /\ u \notin restore.replaced

\* An account that is there keeps its id, and its role when the backup has none.
RestoreUser(s, u) ==
    LET old  == MatchExistingUser(u)
        id   == IF old = Nil THEN u ELSE old
        role == IF u \notin DOMAIN file.roles /\ old # Nil /\ old \in DOMAIN s.users
                THEN s.users[old].role ELSE RoleIn(file, u)
        ends == With(s.users, id, [UserOf(file, u) EXCEPT !.role = role])
    IN  IF ~s.ok \/ SkippedUser(u) THEN s
        ELSE [ok    |-> (old # Nil <=> id \in DOMAIN s.users) /\ EmailsDiffer(ends),
              users |-> ends]

UsersRestored(order) ==
    LET after[n \in 0..Len(order)] ==
            IF n = 0 THEN [ok |-> TRUE, users |-> users] ELSE RestoreUser(after[n - 1], order[n])
    IN  after[Len(order)]

ApplyUserRestore ==
    /\ restore.scope = "users"
    /\ \E order \in SetToSeqs(restore.selected) : LET s == UsersRestored(order) IN
          /\ s.ok
          /\ users' = s.users
    /\ restore' = NoRestore
    /\ Moves
    /\ UNCHANGED <<projects, tasks, todos, next, outbox, file, changes, restores>>

\* The database refuses a row, and the transaction ends.
AbortRestore ==
    /\ \/ /\ restore.scope = "projects"
          /\ \E order \in SetToSeqs(restore.selected) : ~ProjectsRestored(order).ok
       \/ /\ restore.scope = "users"
          /\ \E order \in SetToSeqs(restore.selected) : ~UsersRestored(order).ok
    /\ restore' = NoRestore
    /\ UNCHANGED <<tables, outbox, snap, file, changes, restores>>

-----------------------------------------------------------------------------
DbNext ==
    \/ Workspace
    \/ ClaimEvent \/ DeliverEvent
    \/ (\E writer \in {"api", "worker"} : BeginSnapshot(writer)) \/ (\E t \in Table : ReadTable(t)) \/ StoreSnapshot
    \/ ApplyFullRestore \/ RefuseFullRestore
    \/ BeginProjectRestore \/ BeginUserRestore
    \/ ApplyProjectRestore \/ ApplyUserRestore \/ AbortRestore

DbSpec == DbInit /\ [][DbNext]_dbVars

-----------------------------------------------------------------------------
(* Properties.                                                             *)

FullRestoreStep == restore = NoRestore /\ restore' = NoRestore /\ restores' # restores

\* Whose personal settings are as they were is not asked of the worker.
Comparable(table, writer) ==
    [u \in DOMAIN table |-> IF writer = "worker" THEN [table[u] EXCEPT !.config = "default"]
                            ELSE table[u]]

\* A backup during which nothing changed is restored, and then the users with
\* their roles, the projects, the tasks and the outbox are what they were, be
\* it after whatever changes and other restores.
QuietBackupRestores ==
    [][FullRestoreStep /\ file.quiet =>
        <<Comparable(file.asOf[1], file.writer), file.asOf[2], file.asOf[3], file.asOf[4]>>
            = <<users', projects', tasks', mail'>>]_dbVars

\* CHANGELOG.md: "server-backed user configuration with browser sync, reset
\* support, backup/restore coverage, and personal to-do retention preferences".
\* A full restore gives the personal settings back.
SettingsAreRestored ==
    [][FullRestoreStep /\ file.quiet =>
        \A u \in DOMAIN users' : users'[u].config = file.asOf[1][u].config]_dbVars

\* A restore of projects touches no other: one that is deleted is a selected
\* one, by its id or by its source, whatever came and went since the
\* restore read the projects; every other keeps its row and its tasks.
SparesOtherProjects ==
    \A q \in DOMAIN projects :
        \/ /\ q \in DOMAIN projects' /\ projects'[q] = projects[q]
           /\ TasksOf(tasks', q) = TasksOf(tasks, q)
        \/ \E p \in restore.replaced :
              p = q \/ projects[q].source \in {file.projects[p].source} \ {Nil}

\* A restore of users deletes no account, with which its ownership and its
\* to-dos would go, and changes only accounts that have the id or the e-mail
\* of a selected user, or had it when the restore read the accounts.
SparesOtherUsers ==
    \A v \in DOMAIN users :
        /\ v \in DOMAIN users'
        /\ users'[v] # users[v] =>
              \E u \in restore.replaced :
                  \/ u = v
                  \/ file.users[u].email \in {users[v].email, restore.users[v].email}

\* A partial restore leaves alone what was not selected.
PartialRestoresSpareOthers ==
    [][restore' = NoRestore => /\ restore.scope = "projects" => SparesOtherProjects
                               /\ restore.scope = "users" => SparesOtherUsers]_dbVars

\* An event is mailed a second time only when a full restore has put it back
\* into the queue after a worker claimed it.
MailedAgainOnlyByRestore == mailed <= 1 + requeued

\* docs/BACKUPS.md: "Restores selected users and role assignments without
\* replacing projects or tasks".  Every selected user is there afterwards,
\* under the e-mail and with the password of the backup.
SelectedUsersAreRestored ==
    [][restore.scope = "users" /\ restore' = NoRestore /\ users' # users =>
        \A u \in restore.replaced : \E v \in DOMAIN users' :
            /\ users'[v].email = file.users[u].email
            /\ users'[v].password = file.users[u].password]_dbVars
=============================================================================
