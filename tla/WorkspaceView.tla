--------------------------- MODULE WorkspaceView ---------------------------
(***************************************************************************)
(* What one user sees of the workspace (apps/web/src/App.tsx): filters,    *)
(* groups, sorting, search, which projects are open, which tasks are       *)
(* selected for a bulk action, and the saved views that bring a layout     *)
(* back.  The page renders its state; after a render in which something    *)
(* changed, effects run that may change it again, until nothing does.      *)
(* Requests are answered some time after they were sent, and the page      *)
(* shows the rows of the last response.                                    *)
(***************************************************************************)
EXTENDS Naturals, FiniteSets, SequencesExt

Rollup == INSTANCE ProjectRollup

CONSTANTS
    Project, Task,      \* ids, in the order in which they are given out
    User, Term,         \* accounts; what is searched for
    View,               \* saved views: a bound on their number
    Nil,
    Owner, Assignee,    \* of projects and of tasks: a user or Nil
    Priority,           \* of projects
    ProjectHits,           \* Term -> projects whose texts contain it
    TaskHits,           \* Term -> tasks whose texts contain it
    Unassigned,         \* the project that collects converted projects
    Tables,             \* what the server may hold at first
    Groupings, Sortings, StatusFilters, AssigneeFilters,   \* choices of the user
    Activities,         \* sets of what may go on
    Others,             \* what colleagues may ask for
    MaxActs             \* bounds on how much happens, for each of them

\* Rows: home of a task (Nil: archived, or not made), the places of projects
\* with the last updated first (0: archived, or not made), done tasks, tasks
\* with changes the user has not viewed, accounts, and how many tasks and
\* projects were ever made.
Table == [home : [Task -> Project \cup {Nil}], places : [Project -> Nat], done : SUBSET Task,
          unviewed : SUBSET Task, users : SUBSET User, tasks : Nat, made : Nat]

ASSUME ConstantsAssumption ==
    /\ Tables \subseteq Table
    /\ IsFiniteSet(Project) /\ Project = 1..Cardinality(Project)
    /\ IsFiniteSet(Task) /\ Task = 1..Cardinality(Task)
    /\ Owner \in [Project -> User \cup {Nil}] /\ Assignee \in [Task -> User \cup {Nil}]
    /\ Priority \in [Project -> {"high", "medium", "low"}]
    /\ ProjectHits \in [Term -> SUBSET Project] /\ TaskHits \in [Term -> SUBSET Task]
    /\ \A ids \in {Project, Task, User, Term, View} : Nil \notin ids
    /\ Groupings \subseteq {"none", "owner", "priority", "progress", "status"}
    /\ "owner" \in Groupings
    /\ Sortings \subseteq Seq({"title", "priority", "progress"})
    /\ MaxActs \in [Activities -> Nat]

VARIABLES
    server,     \* the rows that GET /workspace returns
    views,      \* the user's saved views
    page,       \* the state of the page, with the rows of the last response
    due,        \* the render that is due, with its effects, since the last
                \* time nothing was: 1, 2, ..., or 0 for none
    asked,      \* the request that is not answered, or Nil
    acts, activities,
    revealed,   \* history: the search match scrolled to last
    dropped,    \* history: whether the match found last was forgotten
    strayed,    \* history: selected tasks that a view, a response or a
                \* conversion left behind
    pictures,   \* history: what a view looked like when it was saved
    applied     \* history: the view that was chosen with nothing done since

bounds  == <<acts, activities>>
history == <<revealed, dropped, strayed, pictures, applied>>
vars    == <<server, views, page, due, asked, bounds, history>>

-----------------------------------------------------------------------------
(* What follows from the rows.                                             *)

TasksOf(d, P) == {t \in Task : d.home[t] \in P}
Live(d) == {p \in Project : d.places[p] > 0}
Place(s, x) == CHOOSE i \in DOMAIN s : s[i] = x

StatusOf(d, p) ==
    Rollup!DerivedStatus(TasksOf(d, {p}),
        [t \in TasksOf(d, {p}) |-> IF t \in d.done THEN "done" ELSE "not_started"])
Percent(d, p) ==
    LET total == Cardinality(TasksOf(d, {p}))
        done == Cardinality(TasksOf(d, {p}) \cap d.done)
    IN  IF total = 0 THEN 0 ELSE (200 * done + total) \div (2 * total)

StatusOrder == <<"not_started", "in_progress", "demo", "review", "done", "blocked",
                 "on_hold", "canceled">>
PriorityOrder == <<"high", "medium", "low">>

Known(d, user) == IF user \in d.users THEN user ELSE Nil
Unviewed(d, p) == TasksOf(d, {p}) \cap d.unviewed # {}

\* ORDER BY displayStatus, updatedAt DESC, as a number.
ServedAt(d, p) == Place(StatusOrder, StatusOf(d, p)) * (Cardinality(Project) + 1) + d.places[p]

-----------------------------------------------------------------------------
(* What is listed: filterProjects, groupProjects and sortProjects.         *)

\* matchesNullableUserFilter: Nil in a filter asks for rows of nobody.
Effective(d, assignees) == assignees \cap (d.users \cup {Nil})
ConcernsAny(d, p, users) ==
    \/ Known(d, Owner[p]) \in users
    \/ \E t \in TasksOf(d, {p}) : Known(d, Assignee[t]) \in users

Passes(pg, p) ==
    LET d == pg.rows
        f == pg.filters
        users == Effective(d, f.assignees)
    IN  /\ f.notViewed => Unviewed(d, p)
        /\ f.statuses # {} => StatusOf(d, p) \in f.statuses
        /\ users # {} => ConcernsAny(d, p, users)
        /\ pg.search # Nil =>
             p \in ProjectHits[pg.search] \/ TasksOf(d, {p}) \cap TaskHits[pg.search] # {}

Filtered(pg) == {p \in Live(pg.rows) : Passes(pg, p)}

GroupKey(pg, p) ==
    LET by == pg.filters.groupBy
    IN  CASE by = "none"     -> <<by>>
          [] by = "owner"    -> <<by, Known(pg.rows, Owner[p])>>
          [] by = "priority" -> <<by, Priority[p]>>
          [] by = "progress" -> <<by, Percent(pg.rows, p)>>
          [] by = "status"   -> <<by, StatusOf(pg.rows, p)>>

\* Groups by owner come in the order of their first projects.
GroupRank(pg, p) ==
    LET by == pg.filters.groupBy
        mates == {q \in Filtered(pg) : GroupKey(pg, q) = GroupKey(pg, p)}
    IN  CASE by = "none"     -> 0
          [] by = "owner"    -> Min({ServedAt(pg.rows, q) : q \in mates})
          [] by = "priority" -> Place(PriorityOrder, Priority[p])
          [] by = "progress" -> 100 - Percent(pg.rows, p)
          [] by = "status"   -> Place(StatusOrder, StatusOf(pg.rows, p))

\* compareProjectsByField, for some of its fields; ids stand for titles.
FieldRank(d, field, p) ==
    CASE field = "title"    -> p
      [] field = "priority" -> Place(PriorityOrder, Priority[p])
      [] field = "progress" -> 100 - Percent(d, p)

\* The place of a project in the list: by its group, by the fields (two at
\* most), then as it was served.
Rank(pg, p) ==
    LET field(i) == IF i \in DOMAIN pg.filters.sortBy
                    THEN FieldRank(pg.rows, pg.filters.sortBy[i], p) ELSE 0
    IN  <<GroupRank(pg, p), field(1), field(2), ServedAt(pg.rows, p), p>>
Before(x, y) == \E i \in DOMAIN x : x[i] < y[i] /\ \A j \in 1..i-1 : x[j] = y[j]

Listed(pg) ==
    LET ranked == SetToSortSeq({Rank(pg, p) : p \in Filtered(pg)}, Before)
    IN  [i \in DOMAIN ranked |-> ranked[i][5]]

Collapsed(pg, p) == GroupKey(pg, p) \in pg.collapsed[pg.filters.groupBy]
HiddenDone(pg) == TasksOf(pg.rows, Filtered(pg) \cap pg.hideDone) \cap pg.rows.done

\* Rows that can be clicked, and the tasks a bulk action is for.
OpenProjects(pg) == {p \in Filtered(pg) \cap pg.expanded : ~Collapsed(pg, p)}
OnDisplay(pg) == TasksOf(pg.rows, OpenProjects(pg)) \ HiddenDone(pg)
SelectedItems(pg) == (pg.selected \cap TasksOf(pg.rows, Filtered(pg))) \ HiddenDone(pg)

\* findFirstMatchingSearchTaskTarget
Matching(pg, p) == TasksOf(pg.rows, {p}) \cap TaskHits[pg.search]
FirstMatching(pg) ==
    LET found == {p \in Filtered(pg) : Matching(pg, p) # {}}
    IN  {p \in found : \A q \in found \ {p} : Before(Rank(pg, p), Rank(pg, q))}
FirstMatch(pg) ==
    LET project == CHOOSE p \in FirstMatching(pg) : TRUE
        task == CHOOSE t \in Matching(pg, project) : \A u \in Matching(pg, project) : t <= u
    IN  IF pg.search = Nil \/ FirstMatching(pg) = {} THEN Nil
        ELSE [term |-> pg.search, project |-> project, task |-> task,
              key |-> GroupKey(pg, project),
              hidden |-> project \in pg.hideDone /\ task \in pg.rows.done]

-----------------------------------------------------------------------------
(* The page.                                                               *)

Quiet == due = 0

DefaultFilters ==
    [groupBy |-> "owner", sortBy |-> <<>>, statuses |-> {}, assignees |-> {}, notViewed |-> FALSE]

\* A page that has just been loaded: what is open and selected is not kept,
\* the filters are, with the accounts that are still there, and the search
\* is in the address.
Loaded(pg, rows) ==
    [pg EXCEPT !.rows = rows, !.filters.assignees = Effective(pg.rows, @),
               !.expanded = {}, !.selected = {}, !.view = Nil, !.lastKey = Nil, !.pending = Nil]

Init ==
    /\ server \in Tables
    /\ views = [v \in View |-> Nil]
    /\ \E autoCollapse \in BOOLEAN, open \in SUBSET Live(server) :
         page = [rows |-> server, filters |-> DefaultFilters, search |-> Nil,
                 collapsed |-> [g \in Groupings |-> {}], expanded |-> open, hideDone |-> {},
                 selected |-> {}, autoCollapse |-> autoCollapse, view |-> Nil,
                 lastKey |-> Nil, pending |-> Nil]
    /\ due = 0 /\ asked = Nil
    /\ acts = 0 /\ activities \in Activities
    /\ revealed = Nil /\ dropped = FALSE /\ strayed = {} /\ applied = Nil
    /\ pictures = [v \in View |-> Nil]

\* mutant: the selection of projects that close by themselves is kept.
SetExpandedOnly(pg, p, open) ==
    LET closing == IF ~open THEN {p} ELSE {}
    IN  [pg EXCEPT !.expanded = IF open THEN (IF pg.autoCollapse THEN {p} ELSE @ \cup {p}) ELSE @ \ {p},
                   !.selected = @ \ TasksOf(pg.rows, closing)]

\* setProjectExpanded: closes a project, or opens it and with autoCollapse
\* closes all others, listed or not.  Those that close lose their selection
\* and are marked as viewed.
SetExpanded(pg, p, open) ==
    LET closing == IF ~open THEN {p} ELSE IF pg.autoCollapse THEN pg.expanded \ {p} ELSE {}
    IN  [pg EXCEPT !.expanded = IF open THEN (@ \ closing) \cup {p} ELSE @ \ {p},
                   !.selected = @ \ TasksOf(pg.rows, closing),
                   !.rows.unviewed = @ \ TasksOf(pg.rows, closing)]

\* The projects that new marks as viewed are marked on the server as well.
Marking(new) ==
    LET marked == {p \in Live(page.rows) : Unviewed(page.rows, p) /\ ~Unviewed(new.rows, p)}
    IN  server' = [server EXCEPT !.unviewed = @ \ TasksOf(server, marked)]

\* mutant: opens the project, but not its group.
RevealInGroup(pg, target) ==
    LET shown == [pg EXCEPT !.hideDone = IF target.hidden THEN @ \ {target.project} ELSE @]
    IN  IF target.project \in pg.expanded THEN shown ELSE SetExpanded(shown, target.project, TRUE)

\* The first effect, for a match that was not revealed yet: opens its group,
\* shows the done tasks if it is one, and opens its project.
Reveal(pg, target) ==
    LET shown == [pg EXCEPT
                    !.collapsed[pg.filters.groupBy] = @ \ {target.key},
                    !.hideDone = IF target.hidden THEN @ \ {target.project} ELSE @]
    IN  IF target.project \in pg.expanded THEN shown ELSE SetExpanded(shown, target.project, TRUE)

\* The second effect: the match of an earlier render is there to scroll to.
CanScroll(pg) ==
    /\ pg.pending # Nil
    /\ pg.pending.key \notin pg.collapsed[pg.filters.groupBy]
    /\ pg.pending.project \in pg.expanded
    /\ ~(pg.pending.hidden /\ pg.pending.project \in pg.hideDone)

\* mutant: the effect does not remember what it has revealed.
AnyMatch(pg, target) == target # Nil

\* lastSearchTaskRevealKeyRef
NewMatch(pg, target) == target # Nil /\ pg.lastKey # <<pg.search, target.task>>

\* A render with its effects, which all see the state that was rendered; the
\* third takes done tasks that are hidden out of the selection.  The second
\* one scrolls in a frame of its own, which comes before the next render or
\* after it, and then forgets the match that waits, whichever it is.
RunEffects ==
    LET target == FirstMatch(page)
        found == NewMatch(page, target)
        new == IF found
               THEN [Reveal(page, target) EXCEPT !.pending = target,
                                                 !.lastKey = <<page.search, target.task>>]
               ELSE IF target = Nil THEN [page EXCEPT !.pending = Nil, !.lastKey = Nil]
               ELSE page
    IN  /\ due > 0
        /\ \E early \in BOOLEAN :
             page' = [new EXCEPT !.selected = @ \ HiddenDone(page),
                                 !.pending = IF CanScroll(page) /\ (found => early) THEN Nil ELSE @]
        /\ Marking(page')
        /\ dropped' = IF found THEN page'.pending = Nil ELSE dropped
        /\ revealed' = IF CanScroll(page) /\ page.pending.task \in OnDisplay(page)
                       THEN <<page.pending.term, page.pending.task>> ELSE revealed
        /\ due' = IF page' = [page EXCEPT !.lastKey = page'.lastKey] THEN 0 ELSE due + 1
        /\ strayed' = strayed \cap page'.selected
        /\ UNCHANGED <<views, asked, bounds, pictures, applied>>

-----------------------------------------------------------------------------
(* What the user does, between two renders.                                *)

May(activity) == Quiet /\ acts < MaxActs[activities] /\ activity \in activities

Act(new) ==
    /\ page' = new
    /\ due' = IF new = page THEN 0 ELSE 1
    /\ acts' = acts + 1
    /\ strayed' = strayed \cap new.selected
    /\ UNCHANGED <<activities, revealed, dropped>>

PageAct(new) ==
    /\ Act(new) /\ Marking(new) /\ applied' = Nil
    /\ UNCHANGED <<views, asked, pictures>>

Search ==
    /\ May("search")
    /\ \E term \in (Term \cup {Nil}) \ {page.search} : PageAct([page EXCEPT !.search = term])

SetFilters == May("filter") /\ \E f \in
      {[page.filters EXCEPT !.groupBy = g] : g \in Groupings}
      \cup {[page.filters EXCEPT !.sortBy = s] : s \in Sortings}
      \cup {[page.filters EXCEPT !.statuses = s] : s \in StatusFilters}
      \cup {[page.filters EXCEPT !.assignees = a] : a \in AssigneeFilters}
      \cup {[page.filters EXCEPT !.notViewed = ~@]} :
    f # page.filters /\ PageAct([page EXCEPT !.filters = f])

ToggleGroup == May("toggle") /\ \E p \in Filtered(page) :
    LET key == GroupKey(page, p)
    IN  PageAct([page EXCEPT !.collapsed[page.filters.groupBy] =
                             IF key \in @ THEN @ \ {key} ELSE @ \cup {key}])

ToggleProject == May("toggle") /\ \E p \in Filtered(page) :
    ~Collapsed(page, p) /\ PageAct(SetExpanded(page, p, p \notin page.expanded))

ToggleDone == May("done") /\ \E p \in OpenProjects(page) :
    /\ TasksOf(page.rows, {p}) \cap page.rows.done # {}
    /\ PageAct([page EXCEPT !.hideDone = IF p \in @ THEN @ \ {p} ELSE @ \cup {p}])

\* One row, or all rows of a project.
SelectTasks == May("select") /\ \E T \in {{t} : t \in OnDisplay(page)}
                        \cup {OnDisplay(page) \cap TasksOf(page.rows, {p}) : p \in OpenProjects(page)} :
    PageAct([page EXCEPT !.selected = IF T \subseteq @ THEN @ \ T ELSE @ \cup T])

ToggleAutoCollapse == May("config") /\ PageAct([page EXCEPT !.autoCollapse = ~@])

MarkAllViewed ==
    /\ May("filter") /\ page.rows.unviewed # {}
    /\ PageAct([page EXCEPT !.rows.unviewed = {}])

Reload ==
    /\ May("config") /\ asked = Nil
    /\ page' = Loaded(page, server) /\ due' = 1
    /\ acts' = acts + 1 /\ strayed' = {}
    /\ applied' = Nil
    /\ UNCHANGED <<server, views, asked, activities, revealed, dropped, pictures>>

-----------------------------------------------------------------------------
(* Saved views.                                                            *)

\* buildSavedViewPayload: the groups collapsed in the current grouping, and
\* all filters but the one of projects not viewed.
Payload(pg) ==
    [filters |-> [pg.filters EXCEPT !.assignees = Effective(pg.rows, @), !.notViewed = FALSE],
     search |-> pg.search, collapsed |-> pg.collapsed[pg.filters.groupBy],
     expanded |-> pg.expanded]

\* What the page shows, and the rows and choices a view does not save.
Layout(pg) ==
    [i \in DOMAIN Listed(pg) |->
        LET p == Listed(pg)[i] IN <<p, GroupKey(pg, p), Collapsed(pg, p), p \in pg.expanded>>]
Ground(pg) ==
    [rows |-> IF pg.filters.notViewed THEN pg.rows ELSE [pg.rows EXCEPT !.unviewed = {}],
     notViewed |-> pg.filters.notViewed, hideDone |-> pg.hideDone]
ShowsMatch(pg) ==
    pg.search # Nil /\ FirstMatching(pg) # {} => FirstMatch(pg).task \in OnDisplay(pg)
Picture(pg) == [layout |-> Layout(pg), ground |-> Ground(pg), showsMatch |-> ShowsMatch(pg)]

Save(v, new) ==
    /\ Act(new) /\ Marking(new) /\ applied' = Nil
    /\ views' = [views EXCEPT ![v] = Payload(page)]
    /\ pictures' = [pictures EXCEPT ![v] = Picture(page)]
    /\ UNCHANGED asked

SaveNewView == May("view") /\ \E v \in View :
    views[v] = Nil /\ Save(v, [page EXCEPT !.view = v])

UpdateView == May("view") /\ page.view # Nil /\ Save(page.view, page)

DeleteView ==
    /\ May("view") /\ page.view # Nil
    /\ Act([page EXCEPT !.view = Nil]) /\ applied' = Nil
    /\ views' = [views EXCEPT ![page.view] = Nil]
    /\ pictures' = [pictures EXCEPT ![page.view] = Nil]
    /\ UNCHANGED <<server, asked>>

\* mutant: what was open stays open.
ApplyOnTop == May("view") /\ \E v \in View :
    LET saved == views[v]
        new == [page EXCEPT
                  !.filters = [saved.filters EXCEPT !.notViewed = page.filters.notViewed],
                  !.search = saved.search,
                  !.collapsed[saved.filters.groupBy] = saved.collapsed,
                  !.expanded = @ \cup saved.expanded, !.view = v]
    IN  /\ saved # Nil
        /\ page' = new /\ due' = IF new = page THEN 0 ELSE 1
        /\ acts' = acts + 1 /\ applied' = v
        /\ strayed' = page.selected
        /\ UNCHANGED <<server, views, asked, activities, revealed, dropped, pictures>>

\* applySavedView: the selection stays.
ApplyView == May("view") /\ \E v \in View :
    LET saved == views[v]
        new == [page EXCEPT
                  !.filters = [saved.filters EXCEPT !.notViewed = page.filters.notViewed],
                  !.search = saved.search,
                  !.collapsed[saved.filters.groupBy] = saved.collapsed,
                  !.expanded = saved.expanded, !.view = v]
    IN  /\ saved # Nil
        /\ page' = new /\ due' = IF new = page THEN 0 ELSE 1
        /\ acts' = acts + 1 /\ applied' = v
        /\ strayed' = page.selected
        /\ UNCHANGED <<server, views, asked, activities, revealed, dropped, pictures>>

-----------------------------------------------------------------------------
(* Requests that change rows.                                              *)

BulkRequests(pg) ==
    [op : {"bulkDelete", "bulkFinish"}, tasks : {SelectedItems(pg)} \ {{}}]

RowRequests(tasks, projects) ==
    [op : {"updateTask"}, task : tasks, to : projects \cup {Nil}, done : BOOLEAN]
    \cup [op : {"deleteTask", "convertTask"}, task : tasks]
    \cup [op : {"createTask", "deleteProject", "convertProject"}, project : projects]

Touches(r) == IF "tasks" \in DOMAIN r THEN r.tasks ELSE IF "task" \in DOMAIN r THEN {r.task} ELSE {}

\* What the services refuse, with the bounds on rows.
Possible(d, r) ==
    /\ \A t \in Touches(r) : d.home[t] # Nil
    /\ "project" \in DOMAIN r => r.project \in Live(d)
    /\ r.op = "updateTask" => r.to \in Live(d) \cup {Nil}
    /\ r.op \in {"createTask", "convertProject"} => d.tasks + 1 \in Task
    /\ r.op = "convertTask" => d.made + 1 \in Project
    /\ r.op = "convertProject" =>
         TasksOf(d, {r.project}) = {} /\ r.project # Unassigned /\ Unassigned \in Live(d)

Without(d, T) ==
    [d EXCEPT !.home = [t \in Task |-> IF t \in T THEN Nil ELSE @[t]], !.done = @ \ T, !.unviewed = @ \ T]
NewTask(d, p) == [d EXCEPT !.home[d.tasks + 1] = p, !.tasks = @ + 1]
Finished(d, T, done) == [d EXCEPT !.done = IF done THEN @ \cup T ELSE @ \ T, !.unviewed = @ \ T]

\* First and then the rest, in the order they had.
Placed(d, first, rest) ==
    LET among(P, p) == Cardinality({q \in P : d.places[q] <= d.places[p]})
    IN  [d EXCEPT !.places = [p \in Project |->
            IF p \in first THEN Cardinality({q \in first : q <= p})
            ELSE IF p \in rest THEN Cardinality(first) + among(rest, p) ELSE 0]]

\* Recalculated projects come first; an emptied "Unassigned" goes.
Updated(d, P) ==
    Placed(d, {p \in P \cap Live(d) : p = Unassigned => TasksOf(d, {p}) # {}}, Live(d) \ P)
Deleted(d, p) == Placed(d, {}, Live(d) \ {p})

Served(d, r) ==
    LET homes == {d.home[t] : t \in Touches(r)}
    IN  CASE r.op \in {"bulkDelete", "deleteTask"} -> Updated(Without(d, Touches(r)), homes)
          [] r.op = "bulkFinish" -> Updated(Finished(d, r.tasks, TRUE), homes)
          [] r.op = "updateTask" ->
               LET to == IF r.to = Nil THEN d.home[r.task] ELSE r.to
               IN  Updated([Finished(d, {r.task}, r.done) EXCEPT !.home[r.task] = to], homes \cup {to})
          [] r.op = "createTask" -> Updated(NewTask(d, r.project), {r.project})
          [] r.op = "convertTask" ->
               LET then == Updated(Without(d, {r.task}), homes)
               IN  [Placed(then, {d.made + 1}, Live(then)) EXCEPT !.made = @ + 1]
          [] r.op = "deleteProject" -> Deleted(Without(d, TasksOf(d, {r.project})), r.project)
          [] r.op = "convertProject" ->
               Updated(Deleted(NewTask(d, Unassigned), r.project), {Unassigned})

\* onSuccess, which sees the rows of the last response.
Succeeded(pg, r) ==
    CASE r.op \in {"bulkDelete", "bulkFinish"} -> [pg EXCEPT !.selected = {}]
      [] r.op = "updateTask" -> IF r.to = Nil THEN pg ELSE SetExpanded(pg, r.to, TRUE)
      [] r.op = "deleteTask" -> [pg EXCEPT !.selected = @ \ {r.task}]
      [] r.op = "createTask" -> SetExpanded(pg, r.project, TRUE)
      [] r.op = "convertTask" ->
           SetExpanded([pg EXCEPT !.selected = @ \ {r.task}], server.made + 1, TRUE)
      [] r.op = "deleteProject" ->
           [pg EXCEPT !.selected = @ \ TasksOf(pg.rows, {r.project}), !.expanded = @ \ {r.project}]
      [] r.op = "convertProject" ->
           [SetExpanded(pg, Unassigned, TRUE) EXCEPT !.expanded = @ \ {r.project}]

\* A project that becomes a task is closed as it is: tasks which a response
\* brought into it meanwhile stay selected.
Stranded(pg, r) == IF r.op = "convertProject" THEN TasksOf(pg.rows, {r.project}) ELSE {}

Ask(r) ==
    /\ Act(page)
    /\ asked' = r /\ applied' = Nil
    /\ UNCHANGED <<server, views, pictures>>

AskBulk == May("bulk") /\ asked = Nil /\ \E r \in BulkRequests(page) : Ask(r)

\* By the tasks that the page shows.
CanConvertProjectToTask(pg, p) == TasksOf(pg.rows, {p}) = {}

AskRow ==
    /\ May("edit") /\ asked = Nil
    /\ \E r \in RowRequests(OnDisplay(page), OpenProjects(page)) :
        /\ r.op = "convertProject" => CanConvertProjectToTask(page, r.project)
        /\ Ask(r)

Answer ==
    /\ Quiet /\ asked # Nil /\ Possible(server, asked)
    /\ LET new == Succeeded(page, asked)
           marked == {p \in Live(page.rows) : Unviewed(page.rows, p) /\ ~Unviewed(new.rows, p)}
           then == Served(server, asked)
       IN  /\ page' = new /\ due' = IF new = page THEN 0 ELSE 1
           /\ server' = [then EXCEPT !.unviewed = @ \ TasksOf(then, marked)]
           /\ strayed' = (strayed \cup Stranded(page, asked)) \cap new.selected
    /\ asked' = Nil /\ applied' = Nil
    /\ UNCHANGED <<views, bounds, revealed, dropped, pictures>>

\* Refused, or lost: onError changes nothing but a message.
AnswerFails ==
    /\ Quiet /\ asked # Nil /\ asked' = Nil
    /\ UNCHANGED <<server, views, page, due, bounds, history>>

\* The answer to a poll, or to the request that follows a change.
Refresh ==
    /\ Quiet /\ page.rows # server
    /\ page' = [page EXCEPT !.rows = server]
    /\ due' = 1
    /\ strayed' = strayed \cup {t \in page.selected : page.rows.home[t] # server.home[t]}
    /\ applied' = Nil
    /\ UNCHANGED <<server, views, asked, bounds, revealed, dropped, pictures>>

\* Colleagues make the same requests; what they change is not viewed.
Colleague ==
    /\ May("colleague")
    /\ \/ \E r \in RowRequests({t \in Task : server.home[t] # Nil}, Live(server)) :
            /\ r.op \in Others /\ Possible(server, r)
            /\ LET then == Served(server, r)
                   changed == {t \in Task : /\ then.home[t] # Nil
                                            /\ \/ then.home[t] # server.home[t]
                                               \/ (t \in then.done) # (t \in server.done)}
               IN  server' = [then EXCEPT !.unviewed = (server.unviewed \cup changed)
                                                         \cap {t \in Task : then.home[t] # Nil}]
       \/ \E user \in server.users : server' = [server EXCEPT !.users = @ \ {user}]
    /\ acts' = acts + 1
    /\ UNCHANGED <<views, page, due, asked, activities, history>>

-----------------------------------------------------------------------------
UserAct ==
    \/ Search \/ SetFilters \/ ToggleGroup \/ ToggleProject \/ ToggleDone
    \/ SelectTasks \/ ToggleAutoCollapse \/ MarkAllViewed \/ Reload
    \/ SaveNewView \/ UpdateView \/ DeleteView \/ ApplyView
    \/ AskBulk \/ AskRow

Next == RunEffects \/ UserAct \/ Answer \/ AnswerFails \/ Refresh \/ Colleague

Spec == Init /\ [][Next]_vars

-----------------------------------------------------------------------------
TypeOK ==
    /\ server \in Table /\ page.rows \in Table
    /\ page.filters.groupBy \in Groupings /\ DOMAIN page.collapsed = Groupings
    /\ page.expanded \subseteq Project /\ page.hideDone \subseteq Project
    /\ page.selected \subseteq Task /\ page.view \in View \cup {Nil}
    /\ due \in Nat /\ acts \in 0..MaxActs[activities]

\* However groups, projects and done tasks were hidden, by whom and in what
\* order, once the effects are through, the first task that matches the
\* search has been brought on the screen, after each change of the search,
\* the filters or the rows that makes it another one.  Excepted is a match
\* that the scrolling to an earlier one made the page forget.
RevealShowsTheMatch ==
    Quiet /\ page.lastKey # Nil /\ ~dropped => revealed = page.lastKey

\* A bulk action is for tasks of open projects: closing a project in any way
\* takes its tasks out of the selection.  Excepted are tasks that were
\* selected when a saved view was applied, that a later response moved, or
\* that came into a project while it was being converted to a task.
BulkTouchesOpenProjects ==
    [][asked = Nil /\ asked' # Nil /\ asked'.op \in {"bulkDelete", "bulkFinish"} =>
         \A t \in asked'.tasks : page.rows.home[t] \in page.expanded \/ t \in strayed]_vars

\* With the same rows, a view that is chosen shows the same projects in the
\* same order and groups, open or closed, as when it was saved, whatever was
\* set in between, unless its search had to reveal a match that was hidden.
SavedViewRoundTrips ==
    Quiet /\ applied # Nil =>
        LET picture == pictures[applied]
        IN  picture.ground = Ground(page) /\ picture.showsMatch => picture.layout = Layout(page)

\* The effects of a render change what the next one shows, and so on: they
\* come to an end at the fourth render.
EffectsSettle == due <= 4

\* CHANGELOG.md:85, search scrolls "to the first matching task row": violated
\* where revealing a match closes a project that is then no longer listed, so
\* that another match comes first while the page is about to scroll.
SearchScrollsToTheMatch ==
    Quiet /\ page.lastKey # Nil => revealed = page.lastKey

\* WORKSPACE.md, "Not viewed ... can also be captured in a saved view".
SavedViewsKeepNotViewed ==
    Quiet /\ applied # Nil /\ pictures[applied].showsMatch
       /\ [pictures[applied].ground EXCEPT !.notViewed = FALSE] = [Ground(page) EXCEPT !.notViewed = FALSE]
    => pictures[applied].layout = Layout(page)

\* A bulk action is for tasks of open projects, without exceptions.
BulkTouchesOnlyOpenProjects ==
    [][asked = Nil /\ asked' # Nil /\ asked'.op \in {"bulkDelete", "bulkFinish"} =>
         \A t \in asked'.tasks : page.rows.home[t] \in page.expanded]_vars
=============================================================================
