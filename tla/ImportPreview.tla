--------------------------- MODULE ImportPreview ---------------------------
(***************************************************************************)
(* What the preview of a CSV import shows, and what the commit then does.  *)
(* The API prepares the staged rows with the accounts there are, looks for *)
(* the projects and tasks they overlap, and lets the administrator decide  *)
(* (packages/schemas, apps/api/src/imports.service.ts); later a worker     *)
(* prepares the same rows again and looks again, row by row, with rules of *)
(* its own (apps/worker/src/loop-import-worker.ts).  Races between workers *)
(* and failing statements are the matter of ImportPipeline; here one file  *)
(* is imported by one worker, once or several times in a row, and others   *)
(* can only create accounts and clear the workspace.                       *)
(*                                                                         *)
(* Titles, people and source ids are values; due dates, which count in the *)
(* keys like the titles do, are left out, and all the other columns of a   *)
(* row are one text.                                                       *)
(***************************************************************************)
EXTENDS Integers, Sequences, FiniteSets, FiniteSetsExt, SequencesExt, Functions

CONSTANTS
    Fold,        \* titles, each with the title all those equal but for case stand for
    Importer,    \* the administrator
    Mailable,    \* people whose e-mail address the file names
    Defaults,    \* people the reset of the workspace gives an account
    Files,       \* sequences of raw rows, one of which is imported
    Tables,      \* what there may be before: records of projects and tasks
    Known,       \* sets of people with an account
    Mappings,    \* sets of fields
    Actions,
    MaxImports,  \* bound on the imports
    MaxChanges,  \* bound on new mappings, decisions and what others do, together
    None

Title == DOMAIN Fold
Required == {"project", "task"}
Fields == Required \cup {"owner", "pid", "tid", "who", "text"}

ASSUME PreviewAssumption ==
    /\ None \notin Title
    /\ Mappings \subseteq SUBSET Fields
    /\ Actions \subseteq {"update", "add", "ignore"}
    /\ MaxImports \in Nat /\ MaxChanges \in Nat

VARIABLES
    file,        \* the file
    users,       \* people with an account
    projects, tasks,   \* the rows with sourceSystem loop, by id
    nextId,
    stage,       \* ImportJob.status, and where the worker is
    mapping, rows,     \* the job's mapping, its rows and their decisions
    worker,      \* what the worker knows: next row, accounts, ids by key
    results,     \* the rows' outcomes
    imports, changes,
    shown,       \* history: the preview the commit was ordered with
    before,      \* history: the tables at that moment
    quiet,       \* history: nobody has interfered since
    previous     \* history: the mapping of the import before this one, if that took
                 \* no decisions and nobody has interfered since

jobVars == <<file, stage, mapping, rows, worker, results>>
tables  == <<projects, tasks, nextId>>
counts  == <<imports, changes>>
history == <<shown, before, quiet, previous>>
vars    == <<jobVars, users, tables, counts, history>>

Nobody == [x \in {} |-> None]
NoWork == [next |-> 0, users |-> {}, projectIdByKey |-> Nobody, taskIdByKey |-> Nobody]

Init ==
    /\ file \in Files
    /\ users \in Known
    /\ \E t \in Tables :
        /\ projects = t.projects /\ tasks = t.tasks
        /\ nextId = 1 + Max({0} \cup DOMAIN t.projects \cup DOMAIN t.tasks)
    /\ stage = "queued_parse" /\ mapping = {} /\ rows = <<>>
    /\ worker = NoWork /\ results = <<>>
    /\ imports = 1 /\ changes = 0
    /\ shown = <<>> /\ before = None /\ quiet = TRUE /\ previous = None

-----------------------------------------------------------------------------
(* A row, as both sides prepare it.                                        *)

Cell(raw, field) == IF field \in mapping THEN raw[field] ELSE None
Cells(raw, field) == IF field \in mapping THEN raw[field] ELSE <<>>

\* splitChecklistTaskTitles: a line is a task, without the source id of the cell.
Expanded(raw, fields) ==
    IF "task" \notin fields \/ Len(raw.task) <= 1 THEN <<raw>>
    ELSE [i \in DOMAIN raw.task |->
            [raw EXCEPT !.task = <<@[i]>>, !.tid = IF "tid" \in fields THEN None ELSE @]]

Staged(fields) ==
    LET expanded == FlattenSeq([i \in DOMAIN file |-> Expanded(file[i], fields)])
    IN  [r \in DOMAIN expanded |->
            [raw |-> expanded[r], projectAction |-> "update", taskAction |-> "update"]]

\* Who is meant: the importer, where the account is not known.
Resolve(person, known) == IF person \in known THEN person ELSE Importer

\* errors: a field or a title is missing, or a date, priority or status is not
\* one.  Only the first of several owners counts; an unknown assignee blocks
\* the commit.
Prepare(raw, known) ==
    LET owners == Cells(raw, "owner")
        task   == Cells(raw, "task")
        who    == Cell(raw, "who")
        text   == IF "text" \in mapping /\ raw.text # "invalid" THEN raw.text ELSE None
    IN  [errors  |-> \/ ~(Required \subseteq mapping)
                     \/ "project" \in mapping /\ raw.project = None
                     \/ "text" \in mapping /\ raw.text = "invalid",
         missing |-> {p \in ToSet(owners) : Len(owners) > 1 /\ p \notin known}
                        \cup ({who} \ (known \cup {None})),
         blocked |-> who \notin known \cup {None},
         project |-> [source |-> Cell(raw, "pid"), title |-> Cell(raw, "project"), text |-> text,
                      owner |-> IF owners = <<>> THEN None ELSE Resolve(owners[1], known)],
         task    |-> [source |-> Cell(raw, "tid"), text |-> text,
                      title |-> IF task = <<>> THEN None ELSE task[1],
                      who |-> IF who = None THEN Importer ELSE Resolve(who, known)]]

Folded(title) == IF title = None THEN None ELSE Fold[title]
ProjectKey(p) == IF p.source # None THEN <<"external", p.source>>
                 ELSE <<"natural", Folded(p.title), p.owner>>
TaskKey(home, t) == IF t.source # None THEN <<"external", t.source>>
                    ELSE <<"natural", home, Folded(t.title), t.who>>

-----------------------------------------------------------------------------
(* The preview, and the matches the commit goes by.                         *)

Prepared(r) == Prepare(rows[r].raw, users)
WithTask == {r \in DOMAIN rows : Prepared(r).task.title # None}

Active(table) == {x \in DOMAIN table : ~table[x].archived}

PreviewProjects(p) ==
    {x \in Active(projects) :
        IF p.source # None THEN projects[x].source = p.source
        ELSE Folded(projects[x].title) = Folded(p.title) /\ projects[x].owner = p.owner}

PreviewTasks(home, t) ==
    {x \in Active(tasks) :
        IF t.source # None THEN tasks[x].source = t.source
        ELSE /\ tasks[x].project = home
             /\ Folded(tasks[x].title) = Folded(t.title) /\ tasks[x].who = t.who}

\* findUnique takes archived rows, too; titles are compared as they are.
ExistingProjects(p) ==
    IF p.source # None THEN {x \in DOMAIN projects : projects[x].source = p.source}
    ELSE {x \in Active(projects) : /\ projects[x].source = None
                                   /\ projects[x].title = p.title /\ projects[x].owner = p.owner}

ExistingTasks(home, t) ==
    IF t.source # None THEN {x \in DOMAIN tasks : tasks[x].source = t.source}
    ELSE {x \in Active(tasks) : /\ tasks[x].source = None /\ tasks[x].project = home
                                /\ tasks[x].title = t.title /\ tasks[x].who = t.who}

\* The overlap of the first row of a group holds for all its rows.  Projects
\* the import makes have negative numbers.
Overlap(found, table, wanted, action) ==
    IF Cardinality(found) # 1 THEN None
    ELSE LET x == CHOOSE x \in found : TRUE
             w == [wanted EXCEPT !.source = IF @ = None THEN table[x].source ELSE @]
         IN  [existing |-> x, action |-> action,
              changed |-> \E field \in DOMAIN w : w[field] # table[x][field]]

Target(overlap, first) ==
    IF overlap = None \/ overlap.action = "add" THEN -first ELSE overlap.existing

FirstOfProject(r) == Min({s \in DOMAIN rows : ProjectKey(Prepared(s).project) = ProjectKey(Prepared(r).project)})

ProjectOverlap(r) ==
    LET first == FirstOfProject(r)
        p     == Prepared(first).project
    IN  Overlap(PreviewProjects(p), projects, p, rows[first].projectAction)

Home(r) == Target(ProjectOverlap(r), FirstOfProject(r))

FirstOfTask(r) ==
    Min({s \in WithTask : TaskKey(Home(s), Prepared(s).task) = TaskKey(Home(r), Prepared(r).task)})

TaskOverlap(r) ==
    LET first == FirstOfTask(r)
        t     == Prepared(first).task
    IN  Overlap(PreviewTasks(Home(first), t), tasks, t @@ [project |-> Home(first)],
                rows[first].taskAction)

\* An ambiguous match is an error of the first row only.
PreviewErrors(r) ==
    LET p == Prepared(r)
    IN  \/ p.errors
        \/ r = FirstOfProject(r) /\ Cardinality(PreviewProjects(p.project)) > 1
        \/ r \in WithTask /\ r = FirstOfTask(r) /\ Cardinality(PreviewTasks(Home(r), p.task)) > 1

Preview ==
    [r \in DOMAIN rows |->
        [valid   |-> ~PreviewErrors(r),
         project |-> ProjectOverlap(r), home |-> Home(r),
         task    |-> IF r \in WithTask THEN TaskOverlap(r) ELSE None]]

-----------------------------------------------------------------------------
(* The review.                                                             *)

\* Parsing, with the mapping the headers suggest, or another mapping.
StageRows ==
    /\ \/ stage = "queued_parse" /\ UNCHANGED changes
       \/ stage = "awaiting_review" /\ changes < MaxChanges /\ changes' = changes + 1
    /\ mapping' \in Mappings \ {mapping}
    /\ rows' = Staged(mapping')
    /\ stage' = "awaiting_review"
    /\ UNCHANGED <<file, worker, results, users, tables, imports, history>>

ProjectRows(r) == {s \in DOMAIN rows : ProjectKey(Prepared(s).project) = ProjectKey(Prepared(r).project)}
TaskRows(r) ==
    LET key(s) == TaskKey(ProjectKey(Prepared(s).project), Prepared(s).task)
    IN  {s \in DOMAIN rows : key(s) = key(r)}

\* A decision is one for the whole group of a row.
UpdateDecisions ==
    /\ stage = "awaiting_review"
    /\ changes < MaxChanges /\ changes' = changes + 1
    /\ \E r \in DOMAIN rows, action \in Actions :
        \/ /\ ProjectOverlap(r) # None \/ Cardinality(ProjectRows(r)) > 1
           /\ rows' = [s \in DOMAIN rows |->
                IF s \in ProjectRows(r) THEN [rows[s] EXCEPT !.projectAction = action] ELSE rows[s]]
        \/ /\ (r \in WithTask /\ TaskOverlap(r) # None) \/ Cardinality(TaskRows(r)) > 1
           /\ rows' = [s \in DOMAIN rows |->
                IF s \in TaskRows(r) THEN [rows[s] EXCEPT !.taskAction = action] ELSE rows[s]]
    /\ UNCHANGED <<file, stage, mapping, worker, results, users, tables, imports, history>>

\* Missing people with an address are given accounts from the preview.
CreateMissingUsers ==
    /\ stage = "awaiting_review"
    /\ LET missing == UNION {Prepared(r).missing : r \in DOMAIN rows} \cap Mailable
       IN  missing # {} /\ users' = users \cup missing
    /\ previous' = None
    /\ UNCHANGED <<jobVars, tables, counts, shown, before, quiet>>

\* What the administrator sees, and whether the row finds the same by itself
\* under the rules of the commit.
Shown ==
    [r \in DOMAIN rows |->
        Preview[r] @@
            [alike |-> /\ ExistingProjects(Prepared(r).project)
                            = PreviewProjects(Prepared(FirstOfProject(r)).project)
                       /\ r \in WithTask =>
                            ExistingTasks(Home(r), Prepared(r).task)
                                = PreviewTasks(Home(r), Prepared(FirstOfTask(r)).task)]]

QueueCommit ==
    /\ stage = "awaiting_review" /\ rows # <<>>
    /\ Required \subseteq mapping
    /\ \E r \in DOMAIN rows : ~PreviewErrors(r)
    /\ \A r \in DOMAIN rows : ~Prepared(r).blocked
    /\ stage' = "queued_commit" /\ results' = [r \in DOMAIN rows |-> None]
    /\ shown' = Shown /\ quiet' = TRUE /\ before' = [projects |-> projects, tasks |-> tasks]
    /\ UNCHANGED <<file, mapping, rows, worker, users, tables, counts, previous>>

-----------------------------------------------------------------------------
(* The commit.                                                             *)

BeginRows ==
    /\ stage = "queued_commit"
    /\ stage' = "committing"
    /\ worker' = [NoWork EXCEPT !.next = 1, !.users = users]
    /\ UNCHANGED <<file, mapping, rows, results, users, tables, counts, history>>

\* mutant: what a decision leaves unchanged is updated.
Heedless(create, action, same) ==
    IF create THEN "created" ELSE IF same THEN "skipped" ELSE "updated"

Outcome(create, action, same) ==
    IF create THEN "created"
    ELSE IF action = "ignore" \/ same THEN "skipped" ELSE "updated"

\* mutant: a created row is not given its source id.
NoSource(copy, wanted) == None

\* A copy of an existing row does not take the source id along.
SourceOf(copy, wanted) == IF copy THEN None ELSE wanted.source

\* upsertProject and upsertTask: the id and the row to write, the outcome, and
\* whether it fails for two matches or for a source id that is taken.
Upsert(table, found, cached, action, wanted, fresh) ==
    LET old     == CHOOSE x \in found : TRUE
        apart   == action = "add" /\ ~cached
        create  == found = {} \/ apart
        source  == SourceOf(apart /\ found # {}, wanted)
        row     == IF create THEN [wanted EXCEPT !.source = source] @@ [archived |-> FALSE]
                   ELSE [wanted EXCEPT !.source = IF source = None THEN table[old].source ELSE source]
                            @@ table[old]
        outcome == Outcome(create, action, ~create /\ row = table[old])
        id      == IF create THEN fresh ELSE old
    IN  IF \/ Cardinality(found) > 1
           \/ /\ outcome # "skipped" /\ row.source # None
              /\ \E x \in DOMAIN table \ {id} : table[x].source = row.source
        THEN [outcome |-> "failed", id |-> None]
        ELSE [outcome |-> outcome, id |-> id, row |-> row]

Written(table, u) ==
    IF u.outcome = "skipped" THEN table
    ELSE [x \in DOMAIN table \cup {u.id} |-> IF x = u.id THEN u.row ELSE table[x]]

Remember(cache, key, id) == [k \in DOMAIN cache \cup {key} |-> IF k = key THEN id ELSE cache[k]]

\* mutant: a row does not know what the rows before it were matched with.
FoundAnew(cache, key, table, existing) == existing

Found(cache, key, table, existing) ==
    IF key \in DOMAIN cache THEN {cache[key]} \cap DOMAIN table ELSE existing

\* A row: all of it or nothing, but for the ids that are remembered.
ProcessRow ==
    LET r  == worker.next
        p  == Prepare(rows[r].raw, worker.users)
        pk == ProjectKey(p.project)
        P  == Upsert(projects, Found(worker.projectIdByKey, pk, projects, ExistingProjects(p.project)),
                     pk \in DOMAIN worker.projectIdByKey, rows[r].projectAction, p.project, nextId)
        t  == p.task @@ [project |-> P.id]
        tk == TaskKey(P.id, p.task)
        T  == Upsert(tasks, Found(worker.taskIdByKey, tk, tasks, ExistingTasks(P.id, p.task)),
                     tk \in DOMAIN worker.taskIdByKey, rows[r].taskAction, t, nextId + 1)
        has == p.task.title # None
    IN  /\ stage = "committing" /\ r \in DOMAIN rows
        /\ nextId' = nextId + 2
        /\ IF p.errors \/ P.outcome = "failed"
           THEN /\ results' = [results EXCEPT ![r] = [project |-> "failed", task |-> "failed"]]
                /\ worker' = [worker EXCEPT !.next = r + 1]
                /\ UNCHANGED <<projects, tasks>>
           ELSE IF has /\ T.outcome = "failed"
           THEN /\ results' = [results EXCEPT ![r] = [project |-> "failed", task |-> "failed"]]
                /\ worker' = [worker EXCEPT !.next = r + 1,
                                            !.projectIdByKey = Remember(@, pk, P.id)]
                /\ UNCHANGED <<projects, tasks>>
           ELSE /\ results' = [results EXCEPT ![r] =
                        [project |-> P.outcome, projectId |-> P.id,
                         task |-> IF has THEN T.outcome ELSE "skipped",
                         taskId |-> IF has THEN T.id ELSE None]]
                /\ worker' = [worker EXCEPT !.next = r + 1,
                                !.projectIdByKey = Remember(@, pk, P.id),
                                !.taskIdByKey = IF has THEN Remember(@, tk, T.id) ELSE @]
                /\ projects' = Written(projects, P)
                /\ tasks' = IF has THEN Written(tasks, T) ELSE tasks
    /\ UNCHANGED <<file, stage, mapping, rows, users, counts, history>>

CompleteJob ==
    /\ stage = "committing" /\ worker.next \notin DOMAIN rows
    /\ stage' = "completed" /\ worker' = NoWork
    /\ UNCHANGED <<file, mapping, rows, results, users, tables, counts, history>>

-----------------------------------------------------------------------------
(* The others, and the same file once more.                                *)

Disturb ==
    /\ changes < MaxChanges /\ changes' = changes + 1
    /\ quiet' = FALSE /\ previous' = None

CreateAccount ==
    /\ Disturb
    /\ \E p \in Mailable \ users : users' = users \cup {p}
    /\ UNCHANGED <<jobVars, tables, imports, shown, before>>

\* The examples have no source system; they may bring the default accounts.
ResetWorkspace ==
    /\ Disturb
    /\ projects' = Nobody /\ tasks' = Nobody
    /\ users' \in {users, users \cup Defaults}
    /\ UNCHANGED <<jobVars, nextId, imports, shown, before>>

Undecided == \A r \in DOMAIN rows : rows[r].projectAction = "update" /\ rows[r].taskAction = "update"

ImportAgain ==
    /\ stage = "completed" /\ imports < MaxImports /\ imports' = imports + 1
    /\ stage' = "queued_parse" /\ mapping' = {} /\ rows' = <<>> /\ results' = <<>>
    /\ previous' = IF quiet /\ Undecided THEN mapping ELSE None
    /\ UNCHANGED <<file, worker, users, tables, changes, shown, before, quiet>>

Next ==
    \/ StageRows \/ UpdateDecisions \/ CreateMissingUsers \/ QueueCommit
    \/ BeginRows \/ ProcessRow \/ CompleteJob
    \/ CreateAccount \/ ResetWorkspace \/ ImportAgain

Spec == Init /\ [][Next]_vars

-----------------------------------------------------------------------------
(* Properties.                                                             *)

TypeOK ==
    /\ stage \in {"queued_parse", "awaiting_review", "queued_commit", "committing", "completed"}
    /\ mapping \in Mappings \cup {{}}
    /\ \A r \in DOMAIN rows : {rows[r].projectAction, rows[r].taskAction} \subseteq {"update", "add", "ignore"}
    /\ \A t \in DOMAIN tasks : tasks[t].project \in DOMAIN projects
    /\ DOMAIN projects \cup DOMAIN tasks \subseteq 1..nextId

\* The commit that was ordered has come to its end undisturbed.
Done == stage = "completed" /\ quiet

Imported    == {r \in DOMAIN rows : results[r].project # "failed"}
Together(r) == {s \in DOMAIN rows : shown[s].home = shown[r].home}
SameTask(r) == {s \in DOMAIN rows : rows[s].raw.tid # None /\ rows[s].raw.tid = rows[r].raw.tid}
Alike(S)    == \A s \in S : shown[s].alike

Fits(overlap, old, id) ==
    IF overlap = None \/ overlap.action = "add" THEN id \notin DOMAIN old
    ELSE id = overlap.existing

\* What the preview shows of a valid row is what the commit does: the row goes
\* to the project and the task it was shown to overlap, or to new ones, and
\* rows of one imported project go to one project.  That is so where the two
\* sides match alike; they do not for titles that differ in case only, for
\* projects that have a source id the row does not give, and for archived ones.
PreviewIsExact ==
    Done => \A r \in Imported : shown[r].valid /\ Alike(Together(r)) =>
        /\ Fits(shown[r].project, before.projects, results[r].projectId)
        /\ results[r].taskId # None => Fits(shown[r].task, before.tasks, results[r].taskId)
        /\ \A s \in Imported \cap Together(r) : results[s].projectId = results[r].projectId

\* Rows that are shown as valid, with all that belong to them, do not fail
\* (ImportPanel.tsx: "Commit valid rows"), unless a copy of something that has
\* a source id is to be added.
AddsSourceId(r) ==
    \/ rows[r].projectAction = "add" /\ rows[r].raw.pid # None
    \/ rows[r].taskAction = "add" /\ rows[r].raw.tid # None

ValidRowsAreImported ==
    Done => \A r \in DOMAIN rows :
        (\A s \in Together(r) \cup SameTask(r) :
            shown[s].alike /\ shown[s].valid /\ ~AddsSourceId(s)) => r \in Imported

\* The preview can be relied on.
PreviewHolds == PreviewIsExact /\ ValidRowsAreImported

\* A project is changed only if the preview has shown it to be overlapped by a
\* row that updates it: never one that is to be used as it is, or copied.
ChangesWereShown ==
    Done /\ Alike(DOMAIN rows) =>
        \A x \in DOMAIN before.projects :
            projects[x] # before.projects[x] =>
                \E r \in DOMAIN rows : /\ shown[r].project # None
                                      /\ shown[r].project.existing = x
                                      /\ shown[r].project.action = "update"

\* The same file imported again with the same mapping and without decisions
\* finds everything it has made the first time, if it writes a project's title
\* in one way.
OneWay ==
    \A r, s \in DOMAIN rows :
        Folded(rows[r].raw.project) = Folded(rows[s].raw.project)
            => rows[r].raw.project = rows[s].raw.project

ReimportCreatesNothing ==
    Done /\ previous = mapping /\ Undecided /\ OneWay =>
        \A r \in DOMAIN rows : "created" \notin {results[r].project, results[r].task}

\* docs/IMPORT_EXPORT.md: a project overlap can be decided by "Use existing
\* project unchanged".
IgnoredProjectsAreUsed ==
    Done => \A r \in Imported :
        shown[r].project # None /\ shown[r].project.action = "ignore"
            => results[r].projectId = shown[r].project.existing
=============================================================================
