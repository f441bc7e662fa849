------------------------- MODULE WorkspaceView_proofs -------------------------
(* Theorems about WorkspaceView, for any projects, tasks, filters and rows   *)
(* and any number of acts, of the user and of colleagues.                    *)
EXTENDS WorkspaceView, TLAPS, FiniteSetTheorems, WellFoundedInduction

-----------------------------------------------------------------------------
(* Types.                                                                    *)

IsRecord(x, fields) == x = [f \in fields |-> x[f]]

Field == {"title", "priority", "progress"}

IsFilters(f) ==
    /\ IsRecord(f, {"groupBy", "sortBy", "statuses", "assignees", "notViewed"})
    /\ f.groupBy \in Groupings /\ f.sortBy \in Seq(Field) /\ f.notViewed \in BOOLEAN

IsPage(pg) ==
    /\ IsRecord(pg, {"rows", "filters", "search", "collapsed", "expanded", "hideDone", "selected",
                     "autoCollapse", "view", "lastKey", "pending"})
    /\ pg.rows \in Table /\ IsFilters(pg.filters) /\ pg.search \in Term \cup {Nil}
    /\ pg.collapsed = [g \in Groupings |-> pg.collapsed[g]]
    /\ pg.expanded \subseteq Project /\ pg.hideDone \subseteq Project
    /\ pg.selected \subseteq Task /\ pg.autoCollapse \in BOOLEAN

BulkOps == {"bulkDelete", "bulkFinish"}
RowOps  == {"updateTask", "deleteTask", "convertTask", "createTask", "deleteProject",
            "convertProject"}
Requests == [op : BulkOps, tasks : SUBSET Task] \cup RowRequests(Task, Project)

\* A view is what some page was when it was saved, and so is its picture.
IsSaved(v) == \E pg : IsPage(pg) /\ views[v] = Payload(pg) /\ pictures[v] = Picture(pg)

\* A selected task is in an open project, or was left behind.
Follows(pg, left) == \A t \in pg.selected : pg.rows.home[t] \in pg.expanded \/ t \in left

IInv ==
    /\ server \in Table /\ IsPage(page) /\ page.view \in View \cup {Nil}
    /\ asked # Nil => asked \in Requests
    /\ views = [v \in View |-> views[v]] /\ pictures = [v \in View |-> pictures[v]]
    /\ \A v \in View : views[v] # Nil => IsSaved(v)
    /\ Follows(page, strayed)

LEMMA RequestTypes ==
    ASSUME NEW r \in Requests
    PROVE  /\ r.op \in BulkOps \cup RowOps
           /\ r.op \in BulkOps => r.tasks \subseteq Task
           /\ r.op \in {"updateTask", "deleteTask", "convertTask"} => r.task \in Task
           /\ r.op = "updateTask" => r.to \in Project \cup {Nil} /\ r.done \in BOOLEAN
           /\ r.op \in {"createTask", "deleteProject", "convertProject"} =>
                r.project \in Project /\ "project" \in DOMAIN r
           /\ Touches(r) \subseteq Task
<1>1. CASE r \in [op : BulkOps, tasks : SUBSET Task]
  BY <1>1 DEF BulkOps, RowOps, Touches
<1>2. CASE r \in [op : {"updateTask"}, task : Task, to : Project \cup {Nil}, done : BOOLEAN]
  BY <1>2 DEF BulkOps, RowOps, Touches
<1>3. CASE r \in [op : {"deleteTask", "convertTask"}, task : Task]
  BY <1>3 DEF BulkOps, RowOps, Touches
<1>4. CASE r \in [op : {"createTask", "deleteProject", "convertProject"}, project : Project]
  BY <1>4 DEF BulkOps, RowOps, Touches
<1> QED
  BY <1>1, <1>2, <1>3, <1>4 DEF Requests, RowRequests

LEMMA RequestsOfSubsets ==
    /\ \A T \in SUBSET Task, P \in SUBSET Project : RowRequests(T, P) \subseteq Requests
    /\ \A pg : IsPage(pg) => BulkRequests(pg) \subseteq Requests
<1>1. ASSUME NEW T \in SUBSET Task, NEW P \in SUBSET Project
      PROVE  RowRequests(T, P) \subseteq RowRequests(Task, Project)
  BY DEF RowRequests
<1>2. ASSUME NEW pg, IsPage(pg)
      PROVE  BulkRequests(pg) \subseteq [op : BulkOps, tasks : SUBSET Task]
  BY <1>2 DEF BulkRequests, SelectedItems, IsPage, BulkOps
<1> QED
  BY <1>1, <1>2 DEF Requests

LEMMA ListedAreProjects ==
    /\ \A d : Live(d) \subseteq Project
    /\ \A pg : OpenProjects(pg) \subseteq Filtered(pg) /\ Filtered(pg) \subseteq Project
    /\ \A pg : OnDisplay(pg) \subseteq Task
BY DEF Live, OpenProjects, Filtered, OnDisplay, TasksOf

(* What is to be revealed is in a project that is listed.                    *)
LEMMA FirstMatchIsListed ==
    ASSUME NEW pg, FirstMatch(pg) # Nil
    PROVE  LET target == FirstMatch(pg)
           IN  /\ pg.search # Nil /\ target.term = pg.search
               /\ target.project \in FirstMatching(pg) /\ target.project \in Filtered(pg)
               /\ target.project = CHOOSE p \in FirstMatching(pg) : TRUE
               /\ Matching(pg, target.project) # {}
               /\ target.task = CHOOSE t \in Matching(pg, target.project) :
                                  \A u \in Matching(pg, target.project) : t <= u
               /\ target.key = GroupKey(pg, target.project)
               /\ target.hidden = (target.project \in pg.hideDone /\ target.task \in pg.rows.done)
<1> DEFINE project == CHOOSE p \in FirstMatching(pg) : TRUE
           task == CHOOSE t \in Matching(pg, project) : \A u \in Matching(pg, project) : t <= u
<1>1. /\ pg.search # Nil /\ FirstMatching(pg) # {}
      /\ FirstMatch(pg) = [term |-> pg.search, project |-> project, task |-> task,
                           key |-> GroupKey(pg, project),
                           hidden |-> project \in pg.hideDone /\ task \in pg.rows.done]
  BY DEF FirstMatch
<1>2. project \in FirstMatching(pg)
  BY <1>1
<1>3. project \in Filtered(pg) /\ Matching(pg, project) # {}
  BY <1>2 DEF FirstMatching
<1> HIDE DEF project
<1> QED
  BY <1>1, <1>2, <1>3 DEF project

-----------------------------------------------------------------------------
(* What changes of the page keep.                                            *)

\* The rows have the same homes, nothing more is selected, and of what is, the
\* projects that were open are.
Keeps(pg, new) ==
    /\ IsPage(new) /\ new.view = pg.view
    /\ new.rows.home = pg.rows.home
    /\ new.selected \subseteq pg.selected
    /\ \A t \in new.selected : pg.rows.home[t] \in pg.expanded => pg.rows.home[t] \in new.expanded

LEMMA KeepsFollows ==
    ASSUME NEW pg, NEW new, NEW left, Keeps(pg, new), Follows(pg, left)
    PROVE  Follows(new, left \cap new.selected)
BY DEF Keeps, Follows

LEMMA KeepsTwice ==
    ASSUME NEW a, NEW b, NEW c, Keeps(a, b), Keeps(b, c)
    PROVE  Keeps(a, c)
BY DEF Keeps

\* Which projects close when one is opened or closed.
Closing(pg, p, open) ==
    IF ~open THEN {p} ELSE IF pg.autoCollapse THEN pg.expanded \ {p} ELSE {}

\* What setProjectExpanded makes of a page, field by field.
Expands(pg, p, open, new) ==
    /\ new.rows = [pg.rows EXCEPT !.unviewed = @ \ TasksOf(pg.rows, Closing(pg, p, open))]
    /\ new.selected = pg.selected \ TasksOf(pg.rows, Closing(pg, p, open))
    /\ new.expanded = IF open THEN (pg.expanded \ Closing(pg, p, open)) \cup {p}
                      ELSE pg.expanded \ {p}
    /\ new.filters = pg.filters /\ new.search = pg.search
    /\ new.collapsed = pg.collapsed /\ new.hideDone = pg.hideDone
    /\ new.autoCollapse = pg.autoCollapse /\ new.view = pg.view
    /\ new.lastKey = pg.lastKey /\ new.pending = pg.pending

LEMMA SetExpandedFields ==
    ASSUME NEW pg, IsPage(pg), NEW p \in Project, NEW open \in BOOLEAN
    PROVE  IsPage(SetExpanded(pg, p, open)) /\ Expands(pg, p, open, SetExpanded(pg, p, open))
<1> DEFINE new == SetExpanded(pg, p, open)
<1>1. /\ Expands(pg, p, open, new)
      /\ IsRecord(new, {"rows", "filters", "search", "collapsed", "expanded", "hideDone",
                        "selected", "autoCollapse", "view", "lastKey", "pending"})
  BY DEF SetExpanded, Expands, Closing, IsPage, IsRecord
<1> HIDE DEF new
<1>2. new.rows \in Table
  BY <1>1 DEF Expands, IsPage, Table
<1>3. IsPage(new)
  BY <1>1, <1>2 DEF Expands, IsPage
<1> QED
  BY <1>1, <1>3 DEF new

(* Closing a project, by itself or since another one opens, takes its tasks  *)
(* out of the selection.                                                     *)
LEMMA SetExpandedKeeps ==
    ASSUME NEW pg, IsPage(pg), NEW p \in Project, NEW open \in BOOLEAN
    PROVE  Keeps(pg, SetExpanded(pg, p, open))
<1> DEFINE new == SetExpanded(pg, p, open)
<1>1. IsPage(new) /\ Expands(pg, p, open, new)
  BY SetExpandedFields
<1> HIDE DEF new
<1>2. new.rows.home = pg.rows.home
  BY <1>1 DEF Expands, IsPage, Table
<1>3. ASSUME NEW t \in new.selected, pg.rows.home[t] \in pg.expanded
      PROVE  pg.rows.home[t] \in new.expanded
  BY <1>1, <1>3 DEF Expands, Closing, TasksOf, IsPage
<1> QED
  BY <1>1, <1>2, <1>3 DEF Expands, Keeps, new

LEMMA RevealKeeps ==
    ASSUME NEW pg, IsPage(pg), NEW target, target.project \in Project
    PROVE  Keeps(pg, Reveal(pg, target))
<1> DEFINE shown == [pg EXCEPT
                       !.collapsed[pg.filters.groupBy] = @ \ {target.key},
                       !.hideDone = IF target.hidden THEN @ \ {target.project} ELSE @]
<1>1. Keeps(pg, shown)
  BY DEF Keeps, IsPage, IsRecord
<1>2. IsPage(shown)
  BY <1>1 DEF Keeps
<1>3. Keeps(shown, SetExpanded(shown, target.project, TRUE))
  BY <1>2, SetExpandedKeeps
<1> HIDE DEF shown
<1>4. Keeps(pg, SetExpanded(shown, target.project, TRUE))
  BY <1>1, <1>3, KeepsTwice
<1> QED
  BY <1>1, <1>4 DEF Reveal, shown

-----------------------------------------------------------------------------
(* What answers do.                                                          *)

(* Of the answers only that to a conversion closes a project and leaves its  *)
(* tasks selected.                                                           *)
LEMMA SucceededFollows ==
    ASSUME NEW pg, IsPage(pg), NEW r \in Requests, Possible(server, r), server \in Table,
           NEW left, Follows(pg, left)
    PROVE  /\ IsPage(Succeeded(pg, r)) /\ Succeeded(pg, r).view = pg.view
           /\ Follows(Succeeded(pg, r),
                      (left \cup Stranded(pg, r)) \cap Succeeded(pg, r).selected)
<1> DEFINE new == Succeeded(pg, r)
<1>1. SUFFICES Keeps(pg, new) \/ r.op = "convertProject"
  <2>1. CASE Keeps(pg, new)
    <3>1. Follows(pg, left \cup Stranded(pg, r))
      BY DEF Follows
    <3> QED
      BY <2>1, <3>1, KeepsFollows DEF Keeps
  <2>2. CASE r.op = "convertProject"
    <3> DEFINE opened == SetExpanded(pg, Unassigned, TRUE)
    <3>0. Unassigned \in Project
      BY <2>2, ListedAreProjects DEF Possible
    <3>1. Keeps(pg, opened)
      BY <3>0, SetExpandedKeeps
    <3>2. new = [opened EXCEPT !.expanded = @ \ {r.project}]
      BY <2>2 DEF Succeeded
    <3> HIDE DEF opened
    <3>3. /\ IsPage(new) /\ new.rows = opened.rows /\ new.selected = opened.selected
          /\ new.expanded = opened.expanded \ {r.project} /\ new.view = pg.view
      BY <3>1, <3>2 DEF Keeps, IsPage, IsRecord
    <3>4. Stranded(pg, r) = TasksOf(pg.rows, {r.project})
      BY <2>2 DEF Stranded
    <3> HIDE DEF new
    <3>5. ASSUME NEW t \in new.selected
          PROVE  new.rows.home[t] \in new.expanded \/ t \in left \cup Stranded(pg, r)
      <4>1. t \in pg.selected /\ t \in Task /\ new.rows.home[t] = pg.rows.home[t]
        BY <3>1, <3>3, <3>5 DEF Keeps, IsPage
      <4>2. pg.rows.home[t] \in pg.expanded => pg.rows.home[t] \in opened.expanded
        BY <3>1, <3>3, <3>5 DEF Keeps
      <4> QED
        BY <4>1, <4>2, <3>3, <3>4 DEF Follows, TasksOf
    <3> QED
      BY <3>3, <3>5 DEF Follows, new
  <2> QED
    BY <1>1, <2>1, <2>2
<1>2. CASE r.op \in BulkOps
  <2>1. new = [pg EXCEPT !.selected = {}]
    BY <1>2 DEF Succeeded, BulkOps
  <2> QED
    BY <2>1 DEF Keeps, IsPage, IsRecord
<1>3. CASE r.op = "updateTask"
  <2>1. new = IF r.to = Nil THEN pg ELSE SetExpanded(pg, r.to, TRUE)
    BY <1>3 DEF Succeeded
  <2>2. Keeps(pg, pg) /\ r.to \in Project \cup {Nil}
    BY <1>3, RequestTypes DEF Keeps
  <2> QED
    BY <2>1, <2>2, SetExpandedKeeps
<1>4. CASE r.op = "deleteTask"
  <2>1. new = [pg EXCEPT !.selected = @ \ {r.task}]
    BY <1>4 DEF Succeeded
  <2> QED
    BY <2>1 DEF Keeps, IsPage, IsRecord
<1>5. CASE r.op = "createTask"
  BY <1>5, SetExpandedKeeps, RequestTypes DEF Succeeded
<1>6. CASE r.op = "convertTask"
  <2> DEFINE cleared == [pg EXCEPT !.selected = @ \ {r.task}]
  <2>1. Keeps(pg, cleared)
    BY DEF Keeps, IsPage, IsRecord
  <2>2. new = SetExpanded(cleared, server.made + 1, TRUE) /\ server.made + 1 \in Project
    BY <1>6 DEF Succeeded, Possible
  <2> HIDE DEF cleared
  <2>3. Keeps(cleared, new)
    BY <2>1, <2>2, SetExpandedKeeps DEF Keeps
  <2> QED
    BY <2>1, <2>3, KeepsTwice
<1>7. CASE r.op = "deleteProject"
  <2>1. new = [pg EXCEPT !.selected = @ \ TasksOf(pg.rows, {r.project}),
                         !.expanded = @ \ {r.project}]
    BY <1>7 DEF Succeeded
  <2>2. /\ IsPage(new) /\ new.rows = pg.rows /\ new.view = pg.view
        /\ new.selected = pg.selected \ TasksOf(pg.rows, {r.project})
        /\ new.expanded = pg.expanded \ {r.project}
    BY <2>1 DEF IsPage, IsRecord
  <2> QED
    BY <2>2 DEF Keeps, TasksOf, IsPage
<1> QED
  BY <1>2, <1>3, <1>4, <1>5, <1>6, <1>7, RequestTypes DEF RowOps

LEMMA PlacedIsTable ==
    ASSUME NEW d \in Table, NEW first \in SUBSET Project, NEW rest \in SUBSET Project
    PROVE  Placed(d, first, rest) \in Table
<1> DEFINE among(P, p) == Cardinality({q \in P : d.places[q] <= d.places[p]})
           places == [p \in Project |->
              IF p \in first THEN Cardinality({q \in first : q <= p})
              ELSE IF p \in rest THEN Cardinality(first) + among(rest, p) ELSE 0]
<1>1. \A S \in SUBSET Project : Cardinality(S) \in Nat
  BY ConstantsAssumption, FS_Subset, FS_CardinalityType
<1>2. \A p \in Project : /\ Cardinality({q \in first : q <= p}) \in Nat
                         /\ Cardinality(first) \in Nat /\ among(rest, p) \in Nat
  BY <1>1
<1> HIDE DEF among
<1>3. places \in [Project -> Nat]
  BY <1>2
<1>4. Placed(d, first, rest) = [d EXCEPT !.places = places]
  BY DEF Placed, among
<1> HIDE DEF places
<1> QED
  BY <1>3, <1>4 DEF Table

LEMMA UpdatedIsTable ==
    ASSUME NEW d \in Table, NEW P
    PROVE  Updated(d, P) \in Table
<1>1. /\ {p \in P \cap Live(d) : p = Unassigned => TasksOf(d, {p}) # {}} \subseteq Project
      /\ Live(d) \ P \subseteq Project
  BY DEF Live
<1> QED
  BY <1>1, PlacedIsTable DEF Updated

LEMMA DeletedIsTable ==
    ASSUME NEW d \in Table, NEW p
    PROVE  Deleted(d, p) \in Table
<1>1. {} \subseteq Project /\ Live(d) \ {p} \subseteq Project
  BY DEF Live
<1> QED
  BY <1>1, PlacedIsTable DEF Deleted

LEMMA WithoutIsTable ==
    ASSUME NEW d \in Table, NEW T
    PROVE  Without(d, T) \in Table
<1> DEFINE home == [t \in Task |-> IF t \in T THEN Nil ELSE d.home[t]]
<1>1. home \in [Task -> Project \cup {Nil}]
  BY DEF Table
<1>2. Without(d, T) = [d EXCEPT !.home = home, !.done = @ \ T, !.unviewed = @ \ T]
  BY DEF Without
<1> HIDE DEF home
<1> QED
  BY <1>1, <1>2 DEF Table

LEMMA NewTaskIsTable ==
    ASSUME NEW d \in Table, NEW p \in Project
    PROVE  NewTask(d, p) \in Table
<1> DEFINE new == NewTask(d, p)
<1>1. /\ new.home = [d.home EXCEPT ![d.tasks + 1] = p] /\ new.tasks = d.tasks + 1
      /\ new = [f \in {"home", "places", "done", "unviewed", "users", "tasks", "made"} |-> new[f]]
      /\ new.places = d.places /\ new.done = d.done /\ new.unviewed = d.unviewed
      /\ new.users = d.users /\ new.made = d.made
  BY DEF NewTask, Table
<1> HIDE DEF new
<1> QED
  BY <1>1 DEF Table, new

LEMMA FinishedIsTable ==
    ASSUME NEW d \in Table, NEW T \in SUBSET Task, NEW done
    PROVE  Finished(d, T, done) \in Table
BY DEF Finished, Table

(* Every request leaves a table of the same kind.                            *)
LEMMA ServedIsTable ==
    ASSUME NEW d \in Table, NEW r \in Requests, Possible(d, r)
    PROVE  Served(d, r) \in Table
<1> DEFINE homes == {d.home[t] : t \in Touches(r)}
<1>1. CASE r.op \in {"bulkDelete", "deleteTask"}
  <2>1. Served(d, r) = Updated(Without(d, Touches(r)), homes)
    BY <1>1 DEF Served
  <2> QED
    BY <2>1, WithoutIsTable, UpdatedIsTable
<1>2. CASE r.op = "bulkFinish"
  <2>1. Served(d, r) = Updated(Finished(d, r.tasks, TRUE), homes) /\ r.tasks \subseteq Task
    BY <1>2, RequestTypes DEF Served, BulkOps
  <2> QED
    BY <2>1, FinishedIsTable, UpdatedIsTable
<1>3. CASE r.op = "updateTask"
  <2> DEFINE to == IF r.to = Nil THEN d.home[r.task] ELSE r.to
             finished == Finished(d, {r.task}, r.done)
             moved == [finished EXCEPT !.home[r.task] = to]
  <2>1. Served(d, r) = Updated(moved, homes \cup {to})
    BY <1>3 DEF Served
  <2>2. r.task \in Task /\ to \in Project \cup {Nil}
    BY <1>3, RequestTypes DEF Table
  <2>3. finished \in Table
    BY <2>2, FinishedIsTable
  <2> HIDE DEF finished, to
  <2>4. moved \in Table
    BY <2>2, <2>3 DEF Table
  <2> QED
    BY <2>1, <2>4, UpdatedIsTable
<1>4. CASE r.op = "createTask"
  <2>1. Served(d, r) = Updated(NewTask(d, r.project), {r.project}) /\ r.project \in Project
    BY <1>4, RequestTypes DEF Served
  <2> QED
    BY <2>1, NewTaskIsTable, UpdatedIsTable
<1>5. CASE r.op = "convertTask"
  <2> DEFINE then == Updated(Without(d, {r.task}), homes)
             placed == Placed(then, {d.made + 1}, Live(then))
  <2>1. Served(d, r) = [placed EXCEPT !.made = @ + 1]
    BY <1>5 DEF Served
  <2>2. then \in Table
    BY WithoutIsTable, UpdatedIsTable
  <2> HIDE DEF then
  <2>3. {d.made + 1} \subseteq Project /\ Live(then) \subseteq Project
    BY <1>5 DEF Possible, Live
  <2>4. placed \in Table
    BY <2>2, <2>3, PlacedIsTable
  <2> HIDE DEF placed
  <2> QED
    BY <2>1, <2>4 DEF Table
<1>6. CASE r.op = "deleteProject"
  <2>1. Served(d, r) = Deleted(Without(d, TasksOf(d, {r.project})), r.project)
    BY <1>6 DEF Served
  <2> QED
    BY <2>1, WithoutIsTable, DeletedIsTable
<1>7. CASE r.op = "convertProject"
  <2>1. /\ Served(d, r) = Updated(Deleted(NewTask(d, Unassigned), r.project), {Unassigned})
        /\ Unassigned \in Project
    BY <1>7, ListedAreProjects DEF Served, Possible
  <2> QED
    BY <2>1, NewTaskIsTable, DeletedIsTable, UpdatedIsTable
<1> QED
  BY <1>1, <1>2, <1>3, <1>4, <1>5, <1>6, <1>7, RequestTypes DEF BulkOps, RowOps

-----------------------------------------------------------------------------
(* The type invariant, with what selections follow.                          *)

LEMMA InitFollows == Init => IInv
<1> SUFFICES ASSUME Init PROVE IInv
  OBVIOUS
<1>1. server \in Table
  BY ConstantsAssumption DEF Init
<1>2. PICK autoCollapse \in BOOLEAN, open \in SUBSET Live(server) :
        page = [rows |-> server, filters |-> DefaultFilters, search |-> Nil,
                collapsed |-> [g \in Groupings |-> {}], expanded |-> open, hideDone |-> {},
                selected |-> {}, autoCollapse |-> autoCollapse, view |-> Nil,
                lastKey |-> Nil, pending |-> Nil]
  BY DEF Init
<1>3. IsFilters(DefaultFilters)
  BY ConstantsAssumption DEF DefaultFilters, IsFilters, IsRecord
<1>4. open \subseteq Project
  BY ListedAreProjects
<1>5. IsPage(page) /\ page.selected = {} /\ page.view = Nil
  BY <1>1, <1>2, <1>3, <1>4 DEF IsPage, IsRecord
<1>6. views = [v \in View |-> Nil] /\ pictures = [v \in View |-> Nil] /\ asked = Nil
  BY DEF Init
<1> QED
  BY <1>1, <1>5, <1>6 DEF IInv, Follows

LEMMA MarkingIsTable ==
    ASSUME IInv, NEW new, Marking(new)
    PROVE  server' \in Table
BY DEF IInv, Marking, Table

(* A step that saves no view.                                                *)
LEMMA StepFollows ==
    ASSUME IInv, server' \in Table, IsPage(page'), page'.view \in View \cup {Nil},
           asked' # Nil => asked' \in Requests, Follows(page', strayed'),
           UNCHANGED <<views, pictures>>
    PROVE  IInv'
<1>1. \A v \in View : views[v] # Nil => IsSaved(v)'
  BY DEF IInv, IsSaved
<1> QED
  BY <1>1 DEF IInv

LEMMA PageActFollows ==
    ASSUME IInv, NEW new, PageAct(new), Keeps(page, new) \/ Follows(new, strayed \cap new.selected),
           IsPage(new), new.view = page.view
    PROVE  IInv'
<1>1. Follows(new, strayed \cap new.selected)
  BY KeepsFollows DEF IInv
<1>2. IsPage(page') /\ Follows(page', strayed') /\ page'.view \in View \cup {Nil}
  BY <1>1 DEF PageAct, Act, IInv
<1>3. server' \in Table
  BY MarkingIsTable DEF PageAct
<1>4. asked' # Nil => asked' \in Requests
  BY DEF PageAct, IInv
<1> QED
  BY <1>2, <1>3, <1>4, StepFollows DEF PageAct

\* The page after a render, with the frame that scrolls early or late.
Rendered(pg) ==
    IF NewMatch(pg, FirstMatch(pg))
    THEN [Reveal(pg, FirstMatch(pg)) EXCEPT !.pending = FirstMatch(pg),
                                            !.lastKey = <<pg.search, FirstMatch(pg).task>>]
    ELSE IF FirstMatch(pg) = Nil THEN [pg EXCEPT !.pending = Nil, !.lastKey = Nil] ELSE pg
Settled(pg, early) ==
    [Rendered(pg) EXCEPT !.selected = @ \ HiddenDone(pg),
                         !.pending = IF CanScroll(pg) /\ (NewMatch(pg, FirstMatch(pg)) => early)
                                     THEN Nil ELSE @]

LEMMA EffectsRender ==
    ASSUME RunEffects
    PROVE  \E early \in BOOLEAN : page' = Settled(page, early)
BY DEF RunEffects, Settled, Rendered

LEMMA RenderedKeeps ==
    ASSUME NEW pg, IsPage(pg), NEW early \in BOOLEAN
    PROVE  Keeps(pg, Rendered(pg)) /\ Keeps(pg, Settled(pg, early))
<1> DEFINE target == FirstMatch(pg)
           shown == Reveal(pg, target)
<1>1. Keeps(pg, Rendered(pg))
  <2>1. CASE NewMatch(pg, target)
    <3>1. target.project \in Project
      BY <2>1, FirstMatchIsListed, ListedAreProjects DEF NewMatch
    <3>2. Keeps(pg, shown)
      BY <3>1, RevealKeeps
    <3>3. Rendered(pg) = [shown EXCEPT !.pending = target, !.lastKey = <<pg.search, target.task>>]
      BY <2>1 DEF Rendered
    <3> HIDE DEF shown, target
    <3>4. Keeps(shown, [shown EXCEPT !.pending = target, !.lastKey = <<pg.search, target.task>>])
      BY <3>2 DEF Keeps, IsPage, IsRecord
    <3> QED
      BY <3>2, <3>3, <3>4, KeepsTwice
  <2>2. CASE ~NewMatch(pg, target)
    <3>1. Rendered(pg) \in {[pg EXCEPT !.pending = Nil, !.lastKey = Nil], pg}
      BY <2>2 DEF Rendered
    <3>2. Keeps(pg, pg) /\ Keeps(pg, [pg EXCEPT !.pending = Nil, !.lastKey = Nil])
      BY DEF Keeps, IsPage, IsRecord
    <3> QED
      BY <3>1, <3>2
  <2> QED
    BY <2>1, <2>2
<1>2. Keeps(Rendered(pg), Settled(pg, early))
  BY <1>1 DEF Settled, Keeps, IsPage, IsRecord
<1> QED
  BY <1>1, <1>2, KeepsTwice

LEMMA EffectsFollow ==
    ASSUME IInv, RunEffects
    PROVE  IInv'
<1>1. PICK early \in BOOLEAN : page' = Settled(page, early)
  BY EffectsRender
<1>2. /\ Marking(page') /\ strayed' = strayed \cap page'.selected /\ asked' = asked
      /\ UNCHANGED <<views, pictures>>
  BY DEF RunEffects
<1>3. Keeps(page, page')
  BY <1>1, RenderedKeeps DEF IInv
<1>4. server' \in Table
  BY <1>2, MarkingIsTable
<1>5. Follows(page', strayed') /\ IsPage(page') /\ page'.view \in View \cup {Nil}
  BY <1>2, <1>3, KeepsFollows DEF IInv, Keeps
<1>6. asked' # Nil => asked' \in Requests
  BY <1>2 DEF IInv
<1> QED
  BY <1>2, <1>4, <1>5, <1>6, StepFollows

LEMMA SearchFollows ==
    ASSUME IInv, Search
    PROVE  IInv'
<1>1. PICK term \in Term \cup {Nil} : PageAct([page EXCEPT !.search = term])
  BY DEF Search
<1>2. Keeps(page, [page EXCEPT !.search = term])
  BY DEF IInv, Keeps, IsPage, IsRecord
<1> QED
  BY <1>1, <1>2, PageActFollows DEF Keeps

LEMMA FiltersFollow ==
    ASSUME IInv, SetFilters
    PROVE  IInv'
<1>1. PICK f : /\ PageAct([page EXCEPT !.filters = f])
               /\ \/ \E g \in Groupings : f = [page.filters EXCEPT !.groupBy = g]
                  \/ \E s \in Sortings : f = [page.filters EXCEPT !.sortBy = s]
                  \/ \E s \in StatusFilters : f = [page.filters EXCEPT !.statuses = s]
                  \/ \E a \in AssigneeFilters : f = [page.filters EXCEPT !.assignees = a]
                  \/ f = [page.filters EXCEPT !.notViewed = ~@]
  BY DEF SetFilters
<1>2. IsFilters(page.filters)
  BY DEF IInv, IsPage
<1>3. Sortings \subseteq Seq(Field)
  BY ConstantsAssumption DEF Field
<1>4. IsFilters(f)
  BY <1>1, <1>2, <1>3 DEF IsFilters, IsRecord
<1>5. Keeps(page, [page EXCEPT !.filters = f])
  BY <1>4 DEF IInv, Keeps, IsPage, IsRecord
<1> QED
  BY <1>1, <1>5, PageActFollows DEF Keeps

LEMMA ToggleFollows ==
    ASSUME IInv, ToggleGroup \/ ToggleProject \/ ToggleDone \/ ToggleAutoCollapse
    PROVE  IInv'
<1>1. CASE ToggleGroup
  <2>1. PICK p \in Filtered(page) : PageAct([page EXCEPT !.collapsed[page.filters.groupBy] =
          IF GroupKey(page, p) \in @ THEN @ \ {GroupKey(page, p)} ELSE @ \cup {GroupKey(page, p)}])
    BY <1>1 DEF ToggleGroup
  <2> DEFINE new == [page EXCEPT !.collapsed[page.filters.groupBy] =
          IF GroupKey(page, p) \in @ THEN @ \ {GroupKey(page, p)} ELSE @ \cup {GroupKey(page, p)}]
  <2>2. Keeps(page, new)
    BY DEF IInv, Keeps, IsPage, IsRecord
  <2> QED
    BY <2>1, <2>2, PageActFollows DEF Keeps
<1>2. CASE ToggleProject
  <2>1. PICK p \in Filtered(page) : PageAct(SetExpanded(page, p, p \notin page.expanded))
    BY <1>2 DEF ToggleProject
  <2>2. Keeps(page, SetExpanded(page, p, p \notin page.expanded))
    BY SetExpandedKeeps, ListedAreProjects DEF IInv
  <2> QED
    BY <2>1, <2>2, PageActFollows DEF Keeps
<1>3. CASE ToggleDone
  <2>1. PICK p \in OpenProjects(page) :
          PageAct([page EXCEPT !.hideDone = IF p \in @ THEN @ \ {p} ELSE @ \cup {p}])
    BY <1>3 DEF ToggleDone
  <2>2. p \in Project
    BY ListedAreProjects
  <2>3. Keeps(page, [page EXCEPT !.hideDone = IF p \in @ THEN @ \ {p} ELSE @ \cup {p}])
    BY <2>2 DEF IInv, Keeps, IsPage, IsRecord
  <2> QED
    BY <2>1, <2>3, PageActFollows DEF Keeps
<1>4. CASE ToggleAutoCollapse
  <2>1. PageAct([page EXCEPT !.autoCollapse = ~@])
    BY <1>4 DEF ToggleAutoCollapse
  <2>2. Keeps(page, [page EXCEPT !.autoCollapse = ~@])
    BY DEF IInv, Keeps, IsPage, IsRecord
  <2> QED
    BY <2>1, <2>2, PageActFollows DEF Keeps
<1> QED
  BY <1>1, <1>2, <1>3, <1>4

(* Only tasks on display can be selected, which are in open projects.        *)
LEMMA SelectFollows ==
    ASSUME IInv, SelectTasks
    PROVE  IInv'
<1>1. PICK T : /\ T \subseteq OnDisplay(page)
               /\ PageAct([page EXCEPT !.selected = IF T \subseteq @ THEN @ \ T ELSE @ \cup T])
  BY DEF SelectTasks
<1> DEFINE new == [page EXCEPT !.selected = IF T \subseteq @ THEN @ \ T ELSE @ \cup T]
<1>2. /\ \A t \in T : t \in Task /\ page.rows.home[t] \in page.expanded
  BY <1>1 DEF OnDisplay, OpenProjects, TasksOf
<1>3. /\ IsPage(new) /\ new.rows = page.rows /\ new.expanded = page.expanded
      /\ new.selected \subseteq page.selected \cup T /\ new.view = page.view
  BY <1>2 DEF IInv, IsPage, IsRecord
<1>4. Follows(new, strayed \cap new.selected)
  BY <1>2, <1>3 DEF IInv, Follows
<1> QED
  BY <1>1, <1>3, <1>4, PageActFollows

LEMMA MarkAllFollows ==
    ASSUME IInv, MarkAllViewed
    PROVE  IInv'
<1> DEFINE new == [page EXCEPT !.rows.unviewed = {}]
<1>1. PageAct(new)
  BY DEF MarkAllViewed
<1>2. /\ new.rows = [page.rows EXCEPT !.unviewed = {}]
      /\ new = [page EXCEPT !.rows = new.rows]
  BY DEF IInv, IsPage, IsRecord
<1>3. new.rows \in Table /\ new.rows.home = page.rows.home
  BY <1>2 DEF IInv, IsPage, Table
<1> HIDE DEF new
<1>4. Keeps(page, new)
  BY <1>2, <1>3 DEF IInv, Keeps, IsPage, IsRecord
<1> QED
  BY <1>1, <1>4, PageActFollows DEF Keeps

LEMMA ReloadFollows ==
    ASSUME IInv, Reload
    PROVE  IInv'
<1> DEFINE new == Loaded(page, server)
<1>1. new.filters = [page.filters EXCEPT !.assignees = Effective(page.rows, @)]
  BY DEF IInv, Loaded, IsPage, IsRecord
<1>2. IsFilters(new.filters)
  BY <1>1 DEF IInv, IsPage, IsFilters, IsRecord
<1>3. /\ new.rows = server /\ new.search = page.search /\ new.collapsed = page.collapsed
      /\ new.expanded = {} /\ new.hideDone = page.hideDone /\ new.selected = {}
      /\ new.autoCollapse = page.autoCollapse /\ new.view = Nil
      /\ IsRecord(new, {"rows", "filters", "search", "collapsed", "expanded", "hideDone",
                        "selected", "autoCollapse", "view", "lastKey", "pending"})
  BY DEF IInv, Loaded, IsPage, IsRecord
<1> HIDE DEF new
<1>4. IsPage(new)
  BY <1>2, <1>3 DEF IInv, IsPage
<1>5. page' = new /\ UNCHANGED <<server, asked, views, pictures>>
  BY DEF Reload, new
<1> QED
  BY <1>3, <1>4, <1>5, StepFollows DEF IInv, Follows

(* A view that is saved is what the page is.                                 *)
LEMMA SaveFollows ==
    ASSUME IInv, NEW v \in View, NEW new \in {page, [page EXCEPT !.view = v]}, Save(v, new)
    PROVE  IInv'
<1>1. /\ Keeps(page, page)
      /\ IsPage([page EXCEPT !.view = v]) /\ [page EXCEPT !.view = v].view = v
      /\ Follows([page EXCEPT !.view = v], strayed \cap [page EXCEPT !.view = v].selected)
      /\ Follows(page, strayed \cap page.selected)
  BY KeepsFollows DEF IInv, Keeps, IsPage, IsRecord, Follows
<1>2. IsPage(new) /\ new.view \in View \cup {Nil} /\ Follows(new, strayed \cap new.selected)
  BY <1>1 DEF IInv
<1>3. /\ page' = new /\ strayed' = strayed \cap new.selected /\ Marking(new) /\ asked' = asked
      /\ views' = [views EXCEPT ![v] = Payload(page)]
      /\ pictures' = [pictures EXCEPT ![v] = Picture(page)]
  BY DEF Save, Act
<1>4. IsPage(page') /\ page'.view \in View \cup {Nil} /\ Follows(page', strayed')
  BY <1>2, <1>3
<1>5. server' \in Table /\ (asked' # Nil => asked' \in Requests)
  BY <1>3, MarkingIsTable DEF IInv
<1>6. /\ views' = [w \in View |-> views'[w]] /\ pictures' = [w \in View |-> pictures'[w]]
      /\ views'[v] = Payload(page) /\ pictures'[v] = Picture(page)
      /\ \A w \in View \ {v} : views'[w] = views[w] /\ pictures'[w] = pictures[w]
  BY <1>3 DEF IInv
<1>7. IsSaved(v)'
  BY <1>6 DEF IsSaved, IInv
<1>8. \A w \in View \ {v} : views'[w] # Nil => IsSaved(w)'
  BY <1>6 DEF IsSaved, IInv
<1> QED
  BY <1>4, <1>5, <1>6, <1>7, <1>8 DEF IInv

LEMMA DeleteFollows ==
    ASSUME IInv, DeleteView
    PROVE  IInv'
<1>1. Keeps(page, page) /\ IsPage([page EXCEPT !.view = Nil])
      /\ [page EXCEPT !.view = Nil].view = Nil
      /\ [page EXCEPT !.view = Nil].selected = page.selected
      /\ Follows([page EXCEPT !.view = Nil], strayed \cap page.selected)
  BY KeepsFollows DEF IInv, Keeps, IsPage, IsRecord, Follows
<1>2. /\ page' = [page EXCEPT !.view = Nil] /\ strayed' = strayed \cap page'.selected
      /\ views' = [views EXCEPT ![page.view] = Nil]
      /\ pictures' = [pictures EXCEPT ![page.view] = Nil]
      /\ UNCHANGED <<server, asked>> /\ page.view # Nil
  BY DEF DeleteView, Act
<1>3. /\ views' = [w \in View |-> views'[w]] /\ pictures' = [w \in View |-> pictures'[w]]
      /\ page.view \in View /\ views'[page.view] = Nil
      /\ \A w \in View \ {page.view} : views'[w] = views[w] /\ pictures'[w] = pictures[w]
  BY <1>2 DEF IInv
<1>4. \A w \in View : views'[w] # Nil => IsSaved(w)'
  BY <1>3 DEF IsSaved, IInv
<1> QED
  BY <1>1, <1>2, <1>3, <1>4 DEF IInv

\* The page with a view applied.
Applied(pg, saved, v) ==
    [pg EXCEPT !.filters = [saved.filters EXCEPT !.notViewed = pg.filters.notViewed],
               !.search = saved.search,
               !.collapsed[saved.filters.groupBy] = saved.collapsed,
               !.expanded = saved.expanded, !.view = v]

LEMMA PayloadFields ==
    ASSUME NEW pg, IsPage(pg)
    PROVE  /\ IsFilters(Payload(pg).filters) /\ Payload(pg).search \in Term \cup {Nil}
           /\ Payload(pg).expanded \subseteq Project
           /\ Payload(pg).search = pg.search /\ Payload(pg).expanded = pg.expanded
           /\ Payload(pg).collapsed = pg.collapsed[pg.filters.groupBy]
           /\ Payload(pg).filters.groupBy = pg.filters.groupBy
           /\ Payload(pg).filters.sortBy = pg.filters.sortBy
           /\ Payload(pg).filters.statuses = pg.filters.statuses
           /\ Payload(pg).filters.assignees = Effective(pg.rows, pg.filters.assignees)
BY DEF Payload, IsPage, IsFilters, IsRecord

\* What a page and one with a view applied have.
Shows(pg, saved, new) ==
    /\ new.rows = pg.rows /\ new.hideDone = pg.hideDone /\ new.selected = pg.selected
    /\ new.autoCollapse = pg.autoCollapse
    /\ new.search = saved.search /\ new.expanded = saved.expanded
    /\ new.filters.groupBy = saved.filters.groupBy /\ new.filters.sortBy = saved.filters.sortBy
    /\ new.filters.statuses = saved.filters.statuses
    /\ new.filters.assignees = saved.filters.assignees
    /\ new.filters.notViewed = pg.filters.notViewed
    /\ new.collapsed[saved.filters.groupBy] = saved.collapsed

LEMMA AppliedIsPage ==
    ASSUME NEW pg, IsPage(pg), NEW old, IsPage(old), NEW v \in View
    PROVE  /\ IsPage(Applied(pg, Payload(old), v)) /\ Applied(pg, Payload(old), v).view = v
           /\ Shows(pg, Payload(old), Applied(pg, Payload(old), v))
<1> DEFINE saved == Payload(old)
           new == Applied(pg, saved, v)
<1>1. IsFilters(saved.filters) /\ saved.search \in Term \cup {Nil} /\ saved.expanded \subseteq Project
  BY PayloadFields
<1> HIDE DEF saved
<1>2. new.filters = [saved.filters EXCEPT !.notViewed = pg.filters.notViewed]
  BY DEF Applied, IsPage, IsRecord
<1>3. /\ IsFilters(new.filters) /\ new.filters.notViewed = pg.filters.notViewed
      /\ new.filters.groupBy = saved.filters.groupBy /\ new.filters.sortBy = saved.filters.sortBy
      /\ new.filters.statuses = saved.filters.statuses
      /\ new.filters.assignees = saved.filters.assignees
  BY <1>1, <1>2 DEF IsPage, IsFilters, IsRecord
<1>4. /\ new.rows = pg.rows /\ new.search = saved.search /\ new.expanded = saved.expanded
      /\ new.hideDone = pg.hideDone /\ new.selected = pg.selected
      /\ new.autoCollapse = pg.autoCollapse /\ new.view = v
      /\ new.collapsed = [pg.collapsed EXCEPT ![saved.filters.groupBy] = saved.collapsed]
      /\ IsRecord(new, {"rows", "filters", "search", "collapsed", "expanded", "hideDone",
                        "selected", "autoCollapse", "view", "lastKey", "pending"})
  BY DEF Applied, IsPage, IsRecord
<1> HIDE DEF new
<1>5. /\ new.collapsed = [g \in Groupings |-> new.collapsed[g]]
      /\ new.collapsed[saved.filters.groupBy] = saved.collapsed
  BY <1>1, <1>4 DEF IsPage, IsFilters
<1>6. IsPage(new)
  BY <1>1, <1>3, <1>4, <1>5 DEF IsPage
<1> QED
  BY <1>3, <1>4, <1>5, <1>6 DEF Shows, new, saved

LEMMA ApplyFollows ==
    ASSUME IInv, ApplyView
    PROVE  IInv'
<1>1. PICK v \in View : /\ views[v] # Nil /\ page' = Applied(page, views[v], v)
                        /\ strayed' = page.selected
                        /\ UNCHANGED <<server, asked, views, pictures>>
  BY DEF ApplyView, Applied
<1>2. PICK old : IsPage(old) /\ views[v] = Payload(old)
  BY <1>1 DEF IInv, IsSaved
<1>3. IsPage(page') /\ page'.view = v /\ page'.selected = page.selected
  <2>1. IsPage(page)
    BY DEF IInv
  <2>2. page' = Applied(page, Payload(old), v)
    BY <1>1, <1>2
  <2>3. /\ IsPage(Applied(page, Payload(old), v)) /\ Applied(page, Payload(old), v).view = v
        /\ Shows(page, Payload(old), Applied(page, Payload(old), v))
    BY <1>2, <2>1, AppliedIsPage
  <2> QED
    BY <2>2, <2>3 DEF Shows
<1>4. Follows(page', strayed')
  BY <1>1, <1>3 DEF Follows
<1>5. server' \in Table /\ (asked' # Nil => asked' \in Requests)
  BY <1>1 DEF IInv
<1>6. IsPage(page') /\ page'.view \in View \cup {Nil} /\ UNCHANGED <<views, pictures>>
  BY <1>1, <1>3
<1> QED
  BY <1>4, <1>5, <1>6, StepFollows

LEMMA ViewsFollow ==
    ASSUME IInv, SaveNewView \/ UpdateView \/ DeleteView \/ ApplyView
    PROVE  IInv'
<1>1. CASE SaveNewView
  BY <1>1, SaveFollows DEF SaveNewView
<1>2. CASE UpdateView
  BY <1>2, SaveFollows DEF UpdateView, IInv
<1> QED
  BY <1>1, <1>2, DeleteFollows, ApplyFollows

LEMMA AskFollows ==
    ASSUME IInv, AskBulk \/ AskRow
    PROVE  IInv'
<1>1. PICK r \in Requests : Ask(r)
  <2>1. BulkRequests(page) \subseteq Requests
    BY RequestsOfSubsets DEF IInv
  <2>2. RowRequests(OnDisplay(page), OpenProjects(page)) \subseteq Requests
    BY RequestsOfSubsets, ListedAreProjects
  <2> QED
    BY <2>1, <2>2 DEF AskBulk, AskRow
<1>2. Keeps(page, page)
  BY DEF IInv, Keeps
<1>3. Follows(page, strayed \cap page.selected)
  BY <1>2, KeepsFollows DEF IInv
<1> QED
  BY <1>1, <1>3, StepFollows DEF Ask, Act, IInv

LEMMA AnswersFollow ==
    ASSUME IInv, Answer \/ AnswerFails \/ Refresh
    PROVE  IInv'
<1>1. CASE Answer
  <2> DEFINE new == Succeeded(page, asked)
             then == Served(server, asked)
  <2>1. PICK marked : /\ page' = new /\ asked # Nil /\ asked' = Nil /\ Possible(server, asked)
                      /\ server' = [then EXCEPT !.unviewed = @ \ TasksOf(then, marked)]
                      /\ strayed' = (strayed \cup Stranded(page, asked)) \cap new.selected
                      /\ UNCHANGED <<views, pictures>>
    BY <1>1 DEF Answer
  <2>2. /\ IsPage(new) /\ Follows(new, (strayed \cup Stranded(page, asked)) \cap new.selected)
        /\ new.view = page.view
    BY <2>1, SucceededFollows DEF IInv
  <2>3. then \in Table
    BY <2>1, ServedIsTable DEF IInv
  <2> HIDE DEF new, then
  <2>4. server' \in Table
    BY <2>1, <2>3 DEF Table
  <2> QED
    BY <2>1, <2>2, <2>4, StepFollows DEF IInv
<1>2. CASE AnswerFails
  BY <1>2, StepFollows DEF AnswerFails, IInv, history
<1>3. CASE Refresh
  <2>1. /\ page' = [page EXCEPT !.rows = server] /\ server' = server /\ asked' = asked
        /\ strayed' = strayed \cup {t \in page.selected : page.rows.home[t] # server.home[t]}
        /\ UNCHANGED <<views, pictures>>
    BY <1>3 DEF Refresh
  <2>2. /\ IsPage(page') /\ page'.rows = server /\ page'.selected = page.selected
        /\ page'.expanded = page.expanded /\ page'.view = page.view
    BY <2>1 DEF IInv, IsPage, IsRecord
  <2> QED
    BY <2>1, <2>2, StepFollows DEF IInv, Follows
<1> QED
  BY <1>1, <1>2, <1>3

LEMMA ColleaguesFollow ==
    ASSUME IInv, Colleague
    PROVE  IInv'
<1>1. UNCHANGED <<page, asked, strayed, views, pictures>>
  BY DEF Colleague, history
<1>2. server' \in Table
  <2>1. CASE \E user : server' = [server EXCEPT !.users = @ \ {user}]
    BY <2>1 DEF IInv, Table
  <2>2. CASE \E r \in RowRequests({t \in Task : server.home[t] # Nil}, Live(server)) :
               /\ Possible(server, r)
               /\ \E X : server' = [Served(server, r) EXCEPT
                                      !.unviewed = X \cap {t \in Task : Served(server, r).home[t] # Nil}]
    <3>1. RowRequests({t \in Task : server.home[t] # Nil}, Live(server)) \subseteq Requests
      BY RequestsOfSubsets, ListedAreProjects
    <3>2. PICK r \in Requests :
               /\ Possible(server, r)
               /\ \E X : server' = [Served(server, r) EXCEPT
                                      !.unviewed = X \cap {t \in Task : Served(server, r).home[t] # Nil}]
      BY <2>2, <3>1
    <3>3. Served(server, r) \in Table
      BY <3>2, ServedIsTable DEF IInv
    <3> QED
      BY <3>2, <3>3 DEF Table
  <2> QED
    BY <2>1, <2>2 DEF Colleague
<1> QED
  BY <1>1, <1>2, StepFollows DEF IInv

LEMMA NextFollows == IInv /\ [Next]_vars => IInv'
<1> SUFFICES ASSUME IInv, [Next]_vars PROVE IInv'
  OBVIOUS
<1>1. CASE RunEffects
  BY <1>1, EffectsFollow
<1>2. CASE UserAct
  BY <1>2, SearchFollows, FiltersFollow, ToggleFollows, SelectFollows, MarkAllFollows,
     ReloadFollows, ViewsFollow, AskFollows DEF UserAct
<1>3. CASE Answer \/ AnswerFails \/ Refresh
  BY <1>3, AnswersFollow
<1>4. CASE Colleague
  BY <1>4, ColleaguesFollow
<1>5. CASE UNCHANGED vars
  BY <1>5, StepFollows DEF vars, history, IInv
<1> QED
  BY <1>1, <1>2, <1>3, <1>4, <1>5 DEF Next

(* What is asked for in bulk is selected, and so in an open project or left  *)
(* behind.                                                                   *)
LEMMA BulkStep ==
    ASSUME IInv, [Next]_vars, asked = Nil, asked' # Nil, asked'.op \in BulkOps
    PROVE  \A t \in asked'.tasks : page.rows.home[t] \in page.expanded \/ t \in strayed
<1>1. AskBulk \/ AskRow
  BY DEF Next, UserAct, RunEffects, Search, SetFilters, ToggleGroup, ToggleProject, ToggleDone,
     SelectTasks, ToggleAutoCollapse, MarkAllViewed, PageAct, Reload, SaveNewView, UpdateView,
     Save, DeleteView, ApplyView, Answer, AnswerFails, Refresh, Colleague, vars
<1>2. CASE AskRow
  BY <1>2 DEF AskRow, Ask, BulkOps, RowRequests
<1>3. CASE AskBulk
  <2>1. asked' \in BulkRequests(page)
    BY <1>3 DEF AskBulk, Ask
  <2>2. asked'.tasks = SelectedItems(page)
    BY <2>1 DEF BulkRequests
  <2> QED
    BY <2>2 DEF SelectedItems, IInv, Follows
<1> QED
  BY <1>1, <1>2, <1>3

(* However projects are closed, by hand, by opening another one, by a search *)
(* that reveals its match or by the answer to a request, a bulk action is    *)
(* for tasks of open projects (setProjectExpanded,                           *)
(* clearSelectedTasksForProjects), with the exceptions the property names.   *)
THEOREM BulkIsForOpenProjects == Spec => BulkTouchesOpenProjects
<1>1. Init => IInv
  BY InitFollows
<1>2. IInv /\ [Next]_vars => IInv'
  BY NextFollows
<1>3. IInv /\ [Next]_vars =>
        (asked = Nil /\ asked' # Nil /\ asked'.op \in {"bulkDelete", "bulkFinish"} =>
           \A t \in asked'.tasks : page.rows.home[t] \in page.expanded \/ t \in strayed)
  BY BulkStep DEF BulkOps
<1> QED
  BY <1>1, <1>2, <1>3, PTL DEF Spec, BulkTouchesOpenProjects

-----------------------------------------------------------------------------
(* What is listed depends on little: with the same rows, but for what was    *)
(* viewed, on what of the projects' changes the filters look at.             *)

SameRows(d, e) == e.home = d.home /\ e.places = d.places /\ e.done = d.done /\ e.users = d.users

LEMMA RowsAlike ==
    ASSUME NEW d, NEW e, SameRows(d, e)
    PROVE  /\ \A P : TasksOf(d, P) = TasksOf(e, P)
           /\ Live(d) = Live(e)
           /\ \A p : StatusOf(d, p) = StatusOf(e, p) /\ Percent(d, p) = Percent(e, p)
           /\ \A p : ServedAt(d, p) = ServedAt(e, p)
           /\ \A field, p : FieldRank(d, field, p) = FieldRank(e, field, p)
           /\ \A u : Known(d, u) = Known(e, u)
           /\ \A A : Effective(d, A) = Effective(e, A)
<1>1. \A P : TasksOf(d, P) = TasksOf(e, P)
  BY DEF SameRows, TasksOf
<1>2. Live(d) = Live(e) /\ \A u : Known(d, u) = Known(e, u)
  BY DEF SameRows, Live, Known
<1>3. \A A : Effective(d, A) = Effective(e, A)
  BY DEF SameRows, Effective
<1>4. \A p : StatusOf(d, p) = StatusOf(e, p)
  <2> TAKE p
  <2> DEFINE st(x) == [t \in TasksOf(x, {p}) |-> IF t \in x.done THEN "done" ELSE "not_started"]
  <2>1. st(d) = st(e)
    BY <1>1 DEF SameRows
  <2> HIDE DEF st
  <2>2. Rollup!DerivedStatus(TasksOf(d, {p}), st(d)) = Rollup!DerivedStatus(TasksOf(e, {p}), st(e))
    BY <1>1, <2>1
  <2> QED
    BY <2>2 DEF StatusOf, st
<1>5. \A p : Percent(d, p) = Percent(e, p)
  <2> TAKE p
  <2> DEFINE P == TasksOf(d, {p})
             F == TasksOf(d, {p}) \cap d.done
  <2>1. TasksOf(e, {p}) = P /\ TasksOf(e, {p}) \cap e.done = F
    BY <1>1 DEF SameRows
  <2> QED
    BY <2>1, Zenon DEF Percent
<1>6. \A p : ServedAt(d, p) = ServedAt(e, p)
  BY <1>4 DEF ServedAt, SameRows
<1>7. \A field, p : FieldRank(d, field, p) = FieldRank(e, field, p)
  BY <1>5 DEF FieldRank
<1> QED
  BY <1>1, <1>2, <1>3, <1>4, <1>5, <1>6, <1>7

\* The same search and the same filters over the same rows.
SameView(a, b) ==
    /\ SameRows(a.rows, b.rows) /\ b.search = a.search
    /\ b.filters.groupBy = a.filters.groupBy /\ b.filters.sortBy = a.filters.sortBy
    /\ b.filters.statuses = a.filters.statuses /\ b.filters.notViewed = a.filters.notViewed
    /\ Effective(b.rows, b.filters.assignees) = Effective(a.rows, a.filters.assignees)

LEMMA PassesAlike ==
    ASSUME NEW a, NEW b, SameView(a, b), NEW p, Passes(a, p),
           a.filters.notViewed /\ Unviewed(a.rows, p) => Unviewed(b.rows, p)
    PROVE  Passes(b, p)
<1>1. /\ TasksOf(a.rows, {p}) = TasksOf(b.rows, {p}) /\ StatusOf(a.rows, p) = StatusOf(b.rows, p)
      /\ \A u : Known(a.rows, u) = Known(b.rows, u)
  BY RowsAlike DEF SameView
<1>2. \A users : ConcernsAny(a.rows, p, users) => ConcernsAny(b.rows, p, users)
  BY <1>1 DEF ConcernsAny
<1> QED
  BY <1>1, <1>2 DEF Passes, SameView

LEMMA KeysAlike ==
    ASSUME NEW a, NEW b, SameView(a, b)
    PROVE  /\ \A p : GroupKey(a, p) = GroupKey(b, p)
           /\ \A p : Matching(a, p) = Matching(b, p)
<1>1. \A p : GroupKey(a, p) = GroupKey(b, p)
  BY RowsAlike DEF GroupKey, SameView
<1>2. \A p : Matching(a, p) = Matching(b, p)
  BY RowsAlike DEF Matching, SameView
<1> QED
  BY <1>1, <1>2

LEMMA RanksAlike ==
    ASSUME NEW a, NEW b, SameView(a, b), Filtered(a) = Filtered(b)
    PROVE  /\ \A p : Rank(a, p) = Rank(b, p)
           /\ FirstMatching(a) = FirstMatching(b)
           /\ Listed(a) = Listed(b)
<1>1. \A p : GroupRank(a, p) = GroupRank(b, p)
  <2> TAKE p
  <2> DEFINE mates(x) == {q \in Filtered(x) : GroupKey(x, q) = GroupKey(x, p)}
             ranks(x) == {ServedAt(x.rows, q) : q \in mates(x)}
  <2>1. mates(a) = mates(b)
    BY KeysAlike
  <2> HIDE DEF mates
  <2>2. ranks(a) = ranks(b)
    BY <2>1, RowsAlike DEF SameView
  <2> HIDE DEF ranks
  <2>3. Min(ranks(a)) = Min(ranks(b))
    BY <2>2
  <2>4. Percent(a.rows, p) = Percent(b.rows, p) /\ StatusOf(a.rows, p) = StatusOf(b.rows, p)
    BY RowsAlike DEF SameView
  <2>5. a.filters.groupBy = b.filters.groupBy
    BY DEF SameView
  <2> HIDE DEF SameView
  <2> DEFINE rank(x) == CASE x.filters.groupBy = "none"     -> 0
          [] x.filters.groupBy = "owner"    -> Min(ranks(x))
          [] x.filters.groupBy = "priority" -> Place(PriorityOrder, Priority[p])
          [] x.filters.groupBy = "progress" -> 100 - Percent(x.rows, p)
          [] x.filters.groupBy = "status"   -> Place(StatusOrder, StatusOf(x.rows, p))
  <2>6. rank(a) = rank(b)
    BY <2>3, <2>4, <2>5
  <2>7. GroupRank(a, p) = rank(a) /\ GroupRank(b, p) = rank(b)
    BY Zenon DEF GroupRank, ranks, mates
  <2> QED
    BY <2>6, <2>7
<1>2. \A p : Rank(a, p) = Rank(b, p)
  BY <1>1, RowsAlike DEF Rank, SameView
<1>3. FirstMatching(a) = FirstMatching(b)
  BY <1>2, KeysAlike DEF FirstMatching
<1>4. {Rank(a, p) : p \in Filtered(a)} = {Rank(b, p) : p \in Filtered(b)}
  BY <1>2
<1>5. Listed(a) = Listed(b)
  <2> DEFINE R(x) == {Rank(x, p) : p \in Filtered(x)}
             ranked(x) == SetToSortSeq(R(x), Before)
  <2>1. R(a) = R(b)
    BY <1>4
  <2> HIDE DEF R
  <2>2. ranked(a) = ranked(b)
    BY <2>1, Zenon
  <2>3. Listed(a) = [i \in DOMAIN ranked(a) |-> ranked(a)[i][5]] /\ Listed(b) = [i \in DOMAIN ranked(b) |-> ranked(b)[i][5]]
    BY Zenon DEF Listed, R
  <2> HIDE DEF ranked
  <2> QED
    BY <2>2, <2>3
<1> QED
  BY <1>2, <1>3, <1>5

-----------------------------------------------------------------------------
(* What the effects of a render do.                                          *)

LEMMA Least ==
    ASSUME NEW S \in SUBSET Nat, S # {}
    PROVE  \E x \in S : \A y \in S : x <= y
<1>1. \E x \in S : \A y \in S : ~ (<<y, x>> \in OpToRel(<, Nat))
  BY NatLessThanWellFounded, WFMin, Zenon
<1>2. \E x \in S : \A y \in S : ~ (y < x)
  BY <1>1, Zenon DEF OpToRel
<1> QED
  BY <1>2

LEMMA IdsAreNumbers == Task \subseteq Nat /\ Project \subseteq Nat
<1>1. Cardinality(Task) \in Nat /\ Cardinality(Project) \in Nat
  BY ConstantsAssumption, FS_CardinalityType
<1> QED
  BY <1>1, ConstantsAssumption

FirstOf(T) == CHOOSE t \in T : \A u \in T : t <= u

LEMMA FirstOfTasks ==
    ASSUME NEW T \in SUBSET Task, T # {}
    PROVE  FirstOf(T) \in T /\ \A u \in T : FirstOf(T) <= u
<1>1. \E t \in T : \A u \in T : t <= u
  BY IdsAreNumbers, Least
<1> QED
  BY <1>1 DEF FirstOf

(* The match is a task of its project.                                       *)
LEMMA MatchIsATask ==
    ASSUME NEW pg, FirstMatch(pg) # Nil
    PROVE  /\ FirstMatch(pg).task = FirstOf(Matching(pg, FirstMatch(pg).project))
           /\ FirstMatch(pg).task \in Task
           /\ pg.rows.home[FirstMatch(pg).task] = FirstMatch(pg).project
           /\ FirstMatch(pg).task \in Matching(pg, FirstMatch(pg).project)
<1> DEFINE T == Matching(pg, FirstMatch(pg).project)
<1>1. T # {} /\ FirstMatch(pg).task = FirstOf(T)
  BY FirstMatchIsListed, Zenon DEF FirstOf
<1>2. T \subseteq Task
  BY DEF Matching, TasksOf
<1>3. FirstOf(T) \in T
  BY <1>1, <1>2, FirstOfTasks
<1> QED
  BY <1>1, <1>3 DEF Matching, TasksOf

\* The projects that close when a match is revealed.
ClosedBy(pg, target) ==
    IF target.project \notin pg.expanded /\ pg.autoCollapse THEN pg.expanded \ {target.project}
    ELSE {}

\* What changes when a match is revealed, and what does not.
Reveals(pg, target, new) ==
    /\ SameRows(pg.rows, new.rows)
    /\ new.rows.unviewed = pg.rows.unviewed \ TasksOf(pg.rows, ClosedBy(pg, target))
    /\ new.filters = pg.filters /\ new.search = pg.search /\ new.autoCollapse = pg.autoCollapse
    /\ new.expanded = (pg.expanded \ ClosedBy(pg, target)) \cup {target.project}
    /\ new.collapsed = [pg.collapsed EXCEPT ![pg.filters.groupBy] = @ \ {target.key}]
    /\ new.hideDone = IF target.hidden THEN pg.hideDone \ {target.project} ELSE pg.hideDone
    /\ new.selected \subseteq pg.selected

LEMMA RevealFields ==
    ASSUME NEW pg, IsPage(pg), NEW target, target.project \in Project
    PROVE  IsPage(Reveal(pg, target)) /\ Reveals(pg, target, Reveal(pg, target))
<1> DEFINE shown == [pg EXCEPT
                       !.collapsed[pg.filters.groupBy] = @ \ {target.key},
                       !.hideDone = IF target.hidden THEN @ \ {target.project} ELSE @]
           opened == SetExpanded(shown, target.project, TRUE)
           new == Reveal(pg, target)
<1>1. /\ IsPage(shown) /\ shown.rows = pg.rows /\ shown.filters = pg.filters
      /\ shown.search = pg.search /\ shown.autoCollapse = pg.autoCollapse
      /\ shown.expanded = pg.expanded /\ shown.selected = pg.selected
      /\ shown.collapsed = [pg.collapsed EXCEPT ![pg.filters.groupBy] = @ \ {target.key}]
      /\ shown.hideDone = IF target.hidden THEN pg.hideDone \ {target.project} ELSE pg.hideDone
  BY DEF IsPage, IsRecord
<1>2. new = IF target.project \in pg.expanded THEN shown ELSE opened
  BY Zenon DEF Reveal
<1> HIDE DEF shown
<1>3. IsPage(opened) /\ Expands(shown, target.project, TRUE, opened)
  BY <1>1, SetExpandedFields
<1> HIDE DEF opened
<1>4. CASE target.project \in pg.expanded
  <2>1. ClosedBy(pg, target) = {} /\ new = shown
    BY <1>2, <1>4 DEF ClosedBy
  <2> HIDE DEF new
  <2>2. new.rows.unviewed = pg.rows.unviewed \ TasksOf(pg.rows, ClosedBy(pg, target))
    BY <1>1, <2>1 DEF TasksOf
  <2> QED
    BY <1>1, <1>4, <2>1, <2>2 DEF Reveals, SameRows, new
<1>5. CASE target.project \notin pg.expanded
  <2>1. ClosedBy(pg, target) = Closing(shown, target.project, TRUE) /\ new = opened
    BY <1>1, <1>2, <1>5 DEF ClosedBy, Closing
  <2> HIDE DEF new
  <2>2. /\ SameRows(pg.rows, new.rows)
        /\ new.rows.unviewed = pg.rows.unviewed \ TasksOf(pg.rows, ClosedBy(pg, target))
    BY <1>1, <1>3, <2>1 DEF Expands, SameRows, IsPage, Table
  <2>3. /\ new.expanded = (pg.expanded \ ClosedBy(pg, target)) \cup {target.project}
        /\ new.filters = pg.filters /\ new.search = pg.search /\ new.autoCollapse = pg.autoCollapse
        /\ new.collapsed = shown.collapsed /\ new.hideDone = shown.hideDone
        /\ new.selected \subseteq pg.selected
    BY <1>1, <1>3, <2>1 DEF Expands
  <2> QED
    BY <1>1, <1>3, <2>1, <2>2, <2>3 DEF Reveals, new
<1> QED
  BY <1>4, <1>5

\* A render in which nothing is revealed.
Rests(pg, new) ==
    /\ new.rows = pg.rows /\ new.filters = pg.filters /\ new.search = pg.search
    /\ new.collapsed = pg.collapsed /\ new.expanded = pg.expanded /\ new.hideDone = pg.hideDone
    /\ new.autoCollapse = pg.autoCollapse /\ new.view = pg.view
    /\ new.selected = pg.selected \ HiddenDone(pg)
    /\ new.lastKey = IF FirstMatch(pg) = Nil THEN Nil ELSE pg.lastKey
    /\ new.pending = IF FirstMatch(pg) = Nil \/ CanScroll(pg) THEN Nil ELSE pg.pending

LEMMA SettledFields ==
    ASSUME NEW pg, IsPage(pg), NEW early \in BOOLEAN
    PROVE  LET target == FirstMatch(pg)
               new == Settled(pg, early)
           IN  /\ IsPage(new)
               /\ NewMatch(pg, target) =>
                    /\ Reveals(pg, target, new)
                    /\ new.selected \cap HiddenDone(pg) = {}
                    /\ new.lastKey = <<pg.search, target.task>>
                    /\ new.pending = IF CanScroll(pg) /\ early THEN Nil ELSE target
               /\ ~NewMatch(pg, target) => Rests(pg, new)
<1> DEFINE target == FirstMatch(pg)
           new == Settled(pg, early)
<1>1. IsPage(new)
  BY RenderedKeeps DEF Keeps
<1>2. CASE NewMatch(pg, target)
  <2> DEFINE shown == Reveal(pg, target)
             cond == CanScroll(pg) /\ early
  <2>1. target.project \in Project
    BY <1>2, FirstMatchIsListed, ListedAreProjects DEF NewMatch
  <2>2. IsPage(shown) /\ Reveals(pg, target, shown)
    BY <2>1, RevealFields
  <2>3. new = [[shown EXCEPT !.pending = target, !.lastKey = <<pg.search, target.task>>]
                 EXCEPT !.selected = @ \ HiddenDone(pg),
                        !.pending = IF cond THEN Nil ELSE @]
    BY <1>2 DEF Settled, Rendered
  <2> HIDE DEF shown, target, new, cond
  <2>4. /\ new.rows = shown.rows /\ new.filters = shown.filters /\ new.search = shown.search
        /\ new.autoCollapse = shown.autoCollapse /\ new.expanded = shown.expanded
        /\ new.collapsed = shown.collapsed /\ new.hideDone = shown.hideDone
        /\ new.selected = shown.selected \ HiddenDone(pg)
        /\ new.lastKey = <<pg.search, target.task>>
        /\ new.pending = IF cond THEN Nil ELSE target
    BY <2>2, <2>3 DEF IsPage, IsRecord
  <2>5. Reveals(pg, target, new) /\ new.selected \cap HiddenDone(pg) = {}
    BY <2>2, <2>4 DEF Reveals
  <2> QED
    BY <1>1, <1>2, <2>4, <2>5 DEF new, target, cond
<1>3. CASE ~NewMatch(pg, target)
  <2> DEFINE shown == IF target = Nil THEN [pg EXCEPT !.pending = Nil, !.lastKey = Nil] ELSE pg
  <2>1. new = [shown EXCEPT !.selected = @ \ HiddenDone(pg),
                            !.pending = IF CanScroll(pg) THEN Nil ELSE @]
    BY <1>3 DEF Settled, Rendered
  <2>2. /\ IsPage(shown) /\ shown.rows = pg.rows /\ shown.filters = pg.filters
        /\ shown.search = pg.search /\ shown.autoCollapse = pg.autoCollapse
        /\ shown.expanded = pg.expanded /\ shown.selected = pg.selected
        /\ shown.collapsed = pg.collapsed /\ shown.hideDone = pg.hideDone
        /\ shown.view = pg.view
        /\ shown.lastKey = IF target = Nil THEN Nil ELSE pg.lastKey
        /\ shown.pending = IF target = Nil THEN Nil ELSE pg.pending
    BY DEF IsPage, IsRecord
  <2> HIDE DEF shown, target, new
  <2>3. /\ new.rows = shown.rows /\ new.filters = shown.filters /\ new.search = shown.search
        /\ new.autoCollapse = shown.autoCollapse /\ new.expanded = shown.expanded
        /\ new.collapsed = shown.collapsed /\ new.hideDone = shown.hideDone
        /\ new.selected = shown.selected \ HiddenDone(pg) /\ new.view = shown.view
        /\ new.lastKey = shown.lastKey
        /\ new.pending = IF CanScroll(pg) THEN Nil ELSE shown.pending
    BY <2>1, <2>2 DEF IsPage, IsRecord
  <2>4. Rests(pg, new)
    BY <2>2, <2>3 DEF Rests, target
  <2> QED
    BY <1>1, <1>3, <2>4 DEF new, target
<1> QED
  BY <1>2, <1>3

(* A match that was revealed is on the screen: its group and its project are *)
(* open, it is not hidden, and its project is still listed, since of the     *)
(* projects that close it is none.                                           *)
LEMMA RevealedIsShown ==
    ASSUME NEW pg, IsPage(pg), NEW new, IsPage(new), FirstMatch(pg) # Nil,
           Reveals(pg, FirstMatch(pg), new)
    PROVE  LET target == FirstMatch(pg)
           IN  /\ target.key \notin new.collapsed[new.filters.groupBy]
               /\ target.project \in new.expanded
               /\ ~(target.hidden /\ target.project \in new.hideDone)
               /\ target.project \in Filtered(new)
               /\ target.task \in OnDisplay(new)
               /\ SameView(pg, new)
<1> DEFINE target == FirstMatch(pg)
           p == target.project
<1>1. /\ p \in Filtered(pg) /\ target.key = GroupKey(pg, p)
      /\ target.hidden = (p \in pg.hideDone /\ target.task \in pg.rows.done)
      /\ target.task \in Task /\ pg.rows.home[target.task] = p
  BY FirstMatchIsListed, MatchIsATask
<1> HIDE DEF target
<1>2. Reveals(pg, target, new)
  BY DEF target
<1>3. SameView(pg, new)
  BY <1>2, RowsAlike DEF Reveals, SameView
<1>4. target.key \notin new.collapsed[new.filters.groupBy]
  BY <1>2, SMTT(30) DEF Reveals, IsPage, IsFilters
<1>5. p \in new.expanded /\ ~(target.hidden /\ p \in new.hideDone)
  BY <1>2 DEF Reveals
<1>6. Unviewed(pg.rows, p) => Unviewed(new.rows, p)
  BY <1>2 DEF Reveals, SameRows, Unviewed, TasksOf, ClosedBy
<1>7. p \in Filtered(new)
  BY <1>1, <1>3, <1>6, PassesAlike, RowsAlike DEF Filtered, SameView
<1>8. GroupKey(new, p) = target.key
  BY <1>1, <1>3, KeysAlike
<1>9. p \in OpenProjects(new)
  BY <1>4, <1>5, <1>7, <1>8 DEF OpenProjects, Collapsed
<1>10. new.rows.home = pg.rows.home /\ new.rows.done = pg.rows.done
  BY <1>2 DEF Reveals, SameRows
<1>11. target.task \notin HiddenDone(new)
  BY <1>1, <1>2, <1>5, <1>10 DEF HiddenDone, TasksOf, Reveals
<1>12. target.task \in OnDisplay(new)
  BY <1>1, <1>9, <1>10, <1>11 DEF OnDisplay, TasksOf
<1> QED
  BY <1>3, <1>4, <1>5, <1>7, <1>12 DEF target

-----------------------------------------------------------------------------
(* The match that comes first is brought on the screen.                      *)

\* Nothing is to be scrolled to, or the match that was revealed, which is there;
\* and what was found last was scrolled to, unless it was forgotten.
RInv ==
    /\ dropped \in BOOLEAN /\ due \in Nat
    /\ page.pending # Nil =>
         /\ due >= 2 /\ CanScroll(page) /\ page.pending.task \in OnDisplay(page)
         /\ page.lastKey = <<page.pending.term, page.pending.task>>
    /\ ~dropped /\ page.lastKey # Nil /\ page.pending = Nil => revealed = page.lastKey

\* What the page remembers of matches stays, or is forgotten altogether.
SameKeys(pg, new) ==
    \/ new.lastKey = pg.lastKey /\ new.pending = pg.pending
    \/ new.lastKey = Nil /\ new.pending = Nil

LEMMA SucceededKeys ==
    ASSUME NEW pg, IsPage(pg), NEW r \in Requests, Possible(server, r), server \in Table
    PROVE  SameKeys(pg, Succeeded(pg, r))
<1> DEFINE new == Succeeded(pg, r)
<1>1. ASSUME NEW x, IsPage(x), x.lastKey = pg.lastKey, x.pending = pg.pending,
             NEW p \in Project, SetExpanded(x, p, TRUE) = new
      PROVE  SameKeys(pg, new)
  <2>1. Expands(x, p, TRUE, SetExpanded(x, p, TRUE))
    BY <1>1, SetExpandedFields
  <2> HIDE DEF new
  <2>2. Expands(x, p, TRUE, new)
    BY <1>1, <2>1
  <2> QED
    BY <1>1, <2>2 DEF Expands, SameKeys
<1>2. CASE r.op \in BulkOps
  <2>1. new = [pg EXCEPT !.selected = {}]
    BY <1>2 DEF Succeeded, BulkOps
  <2> QED
    BY <2>1 DEF SameKeys, IsPage, IsRecord
<1>3. CASE r.op = "updateTask"
  <2>1. new = IF r.to = Nil THEN pg ELSE SetExpanded(pg, r.to, TRUE)
    BY <1>3 DEF Succeeded
  <2>2. r.to \in Project \cup {Nil}
    BY <1>3, RequestTypes
  <2> HIDE DEF new
  <2> QED
    BY <1>1, <2>1, <2>2 DEF SameKeys, new
<1>4. CASE r.op = "deleteTask"
  <2>1. new = [pg EXCEPT !.selected = @ \ {r.task}]
    BY <1>4 DEF Succeeded
  <2> QED
    BY <2>1 DEF SameKeys, IsPage, IsRecord
<1>5. CASE r.op = "createTask"
  <2>1. new = SetExpanded(pg, r.project, TRUE) /\ r.project \in Project
    BY <1>5, RequestTypes DEF Succeeded
  <2> QED
    BY <1>1, <2>1
<1>6. CASE r.op = "convertTask"
  <2> DEFINE cleared == [pg EXCEPT !.selected = @ \ {r.task}]
  <2>1. new = SetExpanded(cleared, server.made + 1, TRUE) /\ server.made + 1 \in Project
    BY <1>6 DEF Succeeded, Possible
  <2>2. IsPage(cleared) /\ cleared.lastKey = pg.lastKey /\ cleared.pending = pg.pending
    BY DEF IsPage, IsRecord
  <2> HIDE DEF cleared, new
  <2> QED
    BY <1>1, <2>1, <2>2 DEF new
<1>7. CASE r.op = "deleteProject"
  <2>1. new = [pg EXCEPT !.selected = @ \ TasksOf(pg.rows, {r.project}),
                         !.expanded = @ \ {r.project}]
    BY <1>7 DEF Succeeded
  <2> QED
    BY <2>1 DEF SameKeys, IsPage, IsRecord
<1>8. CASE r.op = "convertProject"
  <2> DEFINE opened == SetExpanded(pg, Unassigned, TRUE)
  <2>1. Unassigned \in Project
    BY <1>8, ListedAreProjects DEF Possible
  <2>2. new = [opened EXCEPT !.expanded = @ \ {r.project}]
    BY <1>8 DEF Succeeded
  <2>3. IsPage(opened) /\ opened.lastKey = pg.lastKey /\ opened.pending = pg.pending
    BY <2>1, SetExpandedFields DEF Expands
  <2> HIDE DEF opened
  <2> QED
    BY <2>2, <2>3 DEF SameKeys, IsPage, IsRecord
<1> QED
  BY <1>2, <1>3, <1>4, <1>5, <1>6, <1>7, <1>8, RequestTypes DEF RowOps

\* A step between two renders, after which one render is due at most.
Between ==
    /\ due = 0 /\ due' \in {0, 1} /\ SameKeys(page, page')
    /\ UNCHANGED <<revealed, dropped>>

LEMMA StepsBetween ==
    ASSUME IInv, UserAct \/ Answer \/ AnswerFails \/ Refresh
    PROVE  Between
<1> USE DEF Quiet
<1>0. IsPage(page)
  BY DEF IInv
<1>1. ASSUME NEW new, Act(new), due = 0, SameKeys(page, new)
      PROVE  Between
  BY <1>1 DEF Act, Between
<1>2. ASSUME NEW new, PageAct(new), due = 0, SameKeys(page, new)
      PROVE  Between
  BY <1>1, <1>2 DEF PageAct
<1>3. CASE Search \/ SetFilters \/ ToggleAutoCollapse \/ MarkAllViewed
  <2>1. due = 0 /\ \E f, term : PageAct([page EXCEPT !.search = term])
                      \/ PageAct([page EXCEPT !.filters = f])
                      \/ PageAct([page EXCEPT !.autoCollapse = ~@])
                      \/ PageAct([page EXCEPT !.rows.unviewed = {}])
    BY <1>3 DEF Search, SetFilters, ToggleAutoCollapse, MarkAllViewed, May
  <2>2. PICK f, term : PageAct([page EXCEPT !.search = term])
                      \/ PageAct([page EXCEPT !.filters = f])
                      \/ PageAct([page EXCEPT !.autoCollapse = ~@])
                      \/ PageAct([page EXCEPT !.rows.unviewed = {}])
    BY <2>1
  <2>3. /\ SameKeys(page, [page EXCEPT !.search = term])
        /\ SameKeys(page, [page EXCEPT !.filters = f])
        /\ SameKeys(page, [page EXCEPT !.autoCollapse = ~@])
        /\ SameKeys(page, [page EXCEPT !.rows.unviewed = {}])
    BY <1>0 DEF SameKeys, IsPage, IsRecord
  <2> QED
    BY <1>2, <2>1, <2>2, <2>3
<1>4. CASE ToggleGroup \/ ToggleDone \/ SelectTasks
  <2>1. due = 0 /\ \E x : PageAct([page EXCEPT !.collapsed = x])
                      \/ PageAct([page EXCEPT !.hideDone = x])
                      \/ PageAct([page EXCEPT !.selected = x])
    <3>1. CASE ToggleGroup
      <4>1. PICK p \in Filtered(page) : PageAct([page EXCEPT !.collapsed[page.filters.groupBy] =
              IF GroupKey(page, p) \in @ THEN @ \ {GroupKey(page, p)} ELSE @ \cup {GroupKey(page, p)}])
        BY <3>1 DEF ToggleGroup
      <4> QED
        BY <3>1, <4>1 DEF ToggleGroup, May
    <3>2. CASE ToggleDone
      <4>1. PICK p \in OpenProjects(page) :
              PageAct([page EXCEPT !.hideDone = IF p \in @ THEN @ \ {p} ELSE @ \cup {p}])
        BY <3>2 DEF ToggleDone
      <4> QED
        BY <3>2, <4>1 DEF ToggleDone, May
    <3>3. CASE SelectTasks
      <4>1. PICK T : PageAct([page EXCEPT !.selected = IF T \subseteq @ THEN @ \ T ELSE @ \cup T])
        BY <3>3 DEF SelectTasks
      <4> QED
        BY <3>3, <4>1 DEF SelectTasks, May
    <3> QED
      BY <1>4, <3>1, <3>2, <3>3
  <2>2. PICK x : PageAct([page EXCEPT !.collapsed = x])
                      \/ PageAct([page EXCEPT !.hideDone = x])
                      \/ PageAct([page EXCEPT !.selected = x])
    BY <2>1
  <2>3. /\ SameKeys(page, [page EXCEPT !.collapsed = x])
        /\ SameKeys(page, [page EXCEPT !.hideDone = x])
        /\ SameKeys(page, [page EXCEPT !.selected = x])
    BY <1>0 DEF SameKeys, IsPage, IsRecord
  <2> QED
    BY <1>2, <2>1, <2>2, <2>3
<1>5. CASE ToggleProject
  <2>1. PICK p \in Project : PageAct(SetExpanded(page, p, p \notin page.expanded))
    BY <1>5, ListedAreProjects DEF ToggleProject
  <2>2. SameKeys(page, SetExpanded(page, p, p \notin page.expanded))
    BY <1>0, SetExpandedFields DEF Expands, SameKeys
  <2> QED
    BY <1>2, <1>5, <2>1, <2>2 DEF ToggleProject, May
<1>6. CASE Reload
  BY <1>0, <1>6 DEF Reload, May, Loaded, Between, SameKeys, IsPage, IsRecord
<1>7. CASE SaveNewView \/ UpdateView \/ DeleteView
  <2>1. PICK v : due = 0 /\ (Act(page) \/ Act([page EXCEPT !.view = v]))
    BY <1>7 DEF SaveNewView, UpdateView, DeleteView, Save, May
  <2>2. SameKeys(page, page) /\ SameKeys(page, [page EXCEPT !.view = v])
    BY <1>0 DEF SameKeys, IsPage, IsRecord
  <2> QED
    BY <1>1, <2>1, <2>2
<1>8. CASE ApplyView
  <2>1. PICK v : /\ due = 0 /\ due' \in {0, 1} /\ page' = Applied(page, views[v], v)
                 /\ UNCHANGED <<revealed, dropped>>
    BY <1>8 DEF ApplyView, Applied, May
  <2>2. SameKeys(page, Applied(page, views[v], v))
    BY <1>0 DEF SameKeys, Applied, IsPage, IsRecord
  <2> QED
    BY <2>1, <2>2 DEF Between
<1>9. CASE AskBulk \/ AskRow
  <2>1. due = 0 /\ Act(page)
    BY <1>9 DEF AskBulk, AskRow, Ask, May
  <2> QED
    BY <1>1, <2>1 DEF SameKeys
<1>10. CASE Answer
  <2>1. /\ due = 0 /\ due' \in {0, 1} /\ page' = Succeeded(page, asked)
        /\ asked # Nil /\ Possible(server, asked) /\ UNCHANGED <<revealed, dropped>>
    BY <1>10 DEF Answer
  <2>2. SameKeys(page, page')
    BY <2>1, SucceededKeys DEF IInv
  <2> QED
    BY <2>1, <2>2 DEF Between
<1>11. CASE AnswerFails
  BY <1>11 DEF AnswerFails, Between, SameKeys, history
<1>12. CASE Refresh
  BY <1>0, <1>12 DEF Refresh, Between, SameKeys, IsPage, IsRecord
<1> QED
  BY <1>3, <1>4, <1>5, <1>6, <1>7, <1>8, <1>9, <1>10, <1>11, <1>12 DEF UserAct

LEMMA InitReveals == Init => RInv
<1> SUFFICES ASSUME Init PROVE RInv
  OBVIOUS
<1>1. page.pending = Nil /\ page.lastKey = Nil
  BY DEF Init
<1> QED
  BY <1>1 DEF Init, RInv

LEMMA BetweenReveals ==
    ASSUME RInv, Between
    PROVE  RInv'
<1>1. page.pending = Nil
  BY DEF RInv, Between
<1>2. page'.pending = Nil
  BY <1>1 DEF Between, SameKeys
<1> QED
  BY <1>1, <1>2 DEF RInv, Between, SameKeys

(* A render that finds nothing new scrolls to what was found before, one     *)
(* that does makes it the match to scroll to, or forgets it.                 *)
LEMMA EffectsReveal ==
    ASSUME IInv, IInv', RInv, RunEffects
    PROVE  RInv'
<1> DEFINE target == FirstMatch(page)
<1>1. PICK early \in BOOLEAN : page' = Settled(page, early)
  BY EffectsRender
<1>2. /\ due > 0 /\ dropped' = IF NewMatch(page, target) THEN page'.pending = Nil ELSE dropped
      /\ revealed' = IF CanScroll(page) /\ page.pending.task \in OnDisplay(page)
                     THEN <<page.pending.term, page.pending.task>> ELSE revealed
      /\ due' = IF page' = [page EXCEPT !.lastKey = page'.lastKey] THEN 0 ELSE due + 1
  BY DEF RunEffects
<1>3. IsPage(page) /\ IsPage(page')
  BY DEF IInv
<1>4. dropped' \in BOOLEAN /\ due' \in Nat
  <2>1. due' \in Nat
    BY <1>2 DEF RInv
  <2>2. CASE NewMatch(page, target)
    BY <1>2, <2>1, <2>2
  <2>3. CASE ~NewMatch(page, target)
    BY <1>2, <2>1, <2>3 DEF RInv
  <2> QED
    BY <2>2, <2>3
<1>5. CASE NewMatch(page, target)
  <2>1. /\ Reveals(page, target, page') /\ target # Nil /\ target.term = page.search
        /\ page'.lastKey = <<page.search, target.task>>
        /\ page'.pending = IF CanScroll(page) /\ early THEN Nil ELSE target
    BY <1>1, <1>3, <1>5, SettledFields, FirstMatchIsListed DEF NewMatch
  <2>2. CASE page'.pending = Nil
    <3>1. dropped'
      BY <1>2, <1>5, <2>2
    <3> QED
      BY <1>4, <2>2, <3>1 DEF RInv
  <2>3. CASE page'.pending # Nil
    <3>1. page'.pending = target
      BY <2>1, <2>3
    <3>2. /\ target.key \notin page'.collapsed[page'.filters.groupBy]
          /\ target.project \in page'.expanded
          /\ ~(target.hidden /\ target.project \in page'.hideDone)
          /\ target.task \in OnDisplay(page')
      BY <1>3, <2>1, RevealedIsShown
    <3>3. CanScroll(page')
      BY <2>3, <3>1, <3>2 DEF CanScroll
    <3>4. page.pending # target
      <4>1. target.term = page.search /\ page.lastKey # <<page.search, target.task>>
        BY <1>5, <2>1 DEF NewMatch
      <4> QED
        BY <2>1, <4>1 DEF RInv
    <3>5. page' # [page EXCEPT !.lastKey = page'.lastKey]
      BY <1>3, <3>1, <3>4 DEF IsPage, IsRecord
    <3>6. due' >= 2
      BY <1>2, <3>5 DEF RInv
    <3>7. OnDisplay(page') = OnDisplay(page)' /\ CanScroll(page') = CanScroll(page)'
      BY DEF OnDisplay, CanScroll
    <3> QED
      BY <1>4, <2>1, <2>3, <3>1, <3>2, <3>3, <3>6 DEF RInv
  <2> QED
    BY <2>2, <2>3
<1>6. CASE ~NewMatch(page, target)
  <2>1. Rests(page, page')
    BY <1>1, <1>3, <1>6, SettledFields
  <2>2. dropped' = dropped
    BY <1>2, <1>6
  <2>3. CASE page.pending = Nil
    <3>1. revealed' = revealed
      BY <1>2, <2>3 DEF CanScroll
    <3> QED
      BY <1>4, <2>1, <2>2, <2>3, <3>1 DEF RInv, Rests
  <2>4. CASE page.pending # Nil
    <3>1. /\ CanScroll(page) /\ page.pending.task \in OnDisplay(page)
          /\ page.lastKey = <<page.pending.term, page.pending.task>>
      BY <2>4 DEF RInv
    <3>2. revealed' = page.lastKey /\ page'.pending = Nil
      BY <1>2, <2>1, <3>1 DEF Rests
    <3> QED
      BY <1>4, <2>1, <2>2, <3>2 DEF RInv, Rests
  <2> QED
    BY <2>3, <2>4
<1> QED
  BY <1>5, <1>6

LEMMA NextReveals == IInv /\ IInv' /\ RInv /\ [Next]_vars => RInv'
<1> SUFFICES ASSUME IInv, IInv', RInv, [Next]_vars PROVE RInv'
  OBVIOUS
<1>1. CASE RunEffects
  BY <1>1, EffectsReveal
<1>2. CASE UserAct \/ Answer \/ AnswerFails \/ Refresh
  BY <1>2, StepsBetween, BetweenReveals
<1>3. CASE Colleague \/ UNCHANGED vars
  <2>1. UNCHANGED <<page, due, dropped, revealed>>
    BY <1>3 DEF Colleague, vars, history
  <2> QED
    BY <2>1 DEF RInv, CanScroll, OnDisplay, OpenProjects, HiddenDone, Filtered, Collapsed
<1> QED
  BY <1>1, <1>2, <1>3 DEF Next

(* However groups, projects and done tasks were hidden, the first match of a *)
(* search is on the screen when the page comes to rest, unless a frame that  *)
(* scrolled to an earlier one made the page forget it (the two effects of    *)
(* pendingSearchTaskReveal).                                                 *)
THEOREM SearchReveals == Spec => []RevealShowsTheMatch
<1>1. Init => IInv /\ RInv
  BY InitFollows, InitReveals
<1>2. IInv /\ RInv /\ [Next]_vars => IInv' /\ RInv'
  BY NextFollows, NextReveals
<1>3. RInv => RevealShowsTheMatch
  BY DEF RInv, RevealShowsTheMatch, Quiet
<1> QED
  BY <1>1, <1>2, <1>3, PTL DEF Spec

-----------------------------------------------------------------------------
(* The order of the list: by groups, and in a group by what does not depend  *)
(* on the other projects.                                                    *)

LEMMA StatusesHavePlaces ==
    /\ \A d, p : Place(StatusOrder, StatusOf(d, p)) \in Nat
    /\ \A p \in Project : Place(PriorityOrder, Priority[p]) \in Nat
<1>1. \A d, p : StatusOf(d, p) \in
        {"not_started", "in_progress", "demo", "review", "done", "blocked", "on_hold"}
  <2> TAKE d, p
  <2> DEFINE st == [t \in TasksOf(d, {p}) |-> IF t \in d.done THEN "done" ELSE "not_started"]
  <2>1. StatusOf(d, p) = Rollup!DerivedStatus(TasksOf(d, {p}), st)
    BY DEF StatusOf
  <2> HIDE DEF st
  <2> QED
    BY <2>1, Zenon DEF Rollup!DerivedStatus
<1>2. ASSUME NEW x \in {"not_started", "in_progress", "demo", "review", "done", "blocked", "on_hold"}
      PROVE  Place(StatusOrder, x) \in Nat
  <2>1. \E i \in DOMAIN StatusOrder : StatusOrder[i] = x
    BY DEF StatusOrder
  <2>2. Place(StatusOrder, x) \in DOMAIN StatusOrder
    BY <2>1 DEF Place
  <2> QED
    BY <2>2 DEF StatusOrder
<1>3. ASSUME NEW x \in {"high", "medium", "low"}
      PROVE  Place(PriorityOrder, x) \in Nat
  <2>1. \E i \in DOMAIN PriorityOrder : PriorityOrder[i] = x
    BY DEF PriorityOrder
  <2>2. Place(PriorityOrder, x) \in DOMAIN PriorityOrder
    BY <2>1 DEF Place
  <2> QED
    BY <2>2 DEF PriorityOrder
<1> QED
  BY <1>1, <1>2, <1>3, ConstantsAssumption

LEMMA PercentIsAPercentage ==
    \A d, p : Percent(d, p) \in 0..100
<1> TAKE d, p
<1> DEFINE total == Cardinality(TasksOf(d, {p}))
           done == Cardinality(TasksOf(d, {p}) \cap d.done)
<1>1. IsFiniteSet(TasksOf(d, {p}))
  BY ConstantsAssumption, FS_Subset DEF TasksOf
<1>2. total \in Nat /\ done \in Nat /\ done <= total
  BY <1>1, FS_Subset, FS_CardinalityType
<1>3. Percent(d, p) = IF total = 0 THEN 0 ELSE (200 * done + total) \div (2 * total)
  BY DEF Percent
<1> HIDE DEF total, done
<1>4. CASE total = 0
  BY <1>3, <1>4
<1>5. CASE total # 0
  <2> DEFINE n == 200 * done + total
             m == 2 * total
  <2>1. n \in Nat /\ m \in Nat /\ m > 0 /\ n < 101 * m
    BY <1>2, <1>5
  <2>2. Percent(d, p) = n \div m
    BY <1>3, <1>5
  <2> HIDE DEF n, m
  <2>3. n \div m \in Int /\ m * (n \div m) <= n /\ n < m * (n \div m) + m
    BY <2>1
  <2>4. n \div m >= 0
    BY <2>1, <2>3
  <2>5. n \div m <= 100
    BY <2>1, <2>3
  <2> QED
    BY <2>2, <2>3, <2>4, <2>5
<1> QED
  BY <1>4, <1>5

LEMMA ServedAtIsANumber ==
    ASSUME NEW d \in Table, NEW p \in Project
    PROVE  ServedAt(d, p) \in Nat
<1>1. /\ Place(StatusOrder, StatusOf(d, p)) \in Nat /\ Cardinality(Project) + 1 \in Nat
      /\ d.places[p] \in Nat
  BY StatusesHavePlaces, ConstantsAssumption, FS_CardinalityType DEF Table
<1>2. \A a, b \in Nat : a * b \in Nat
  OBVIOUS
<1> QED
  BY <1>1, <1>2 DEF ServedAt

SortRank(pg, i, p) ==
    IF i \in DOMAIN pg.filters.sortBy THEN FieldRank(pg.rows, pg.filters.sortBy[i], p) ELSE 0

LEMMA SortRankIsANumber ==
    ASSUME NEW pg, IsPage(pg), NEW i, NEW p \in Project
    PROVE  SortRank(pg, i, p) \in Nat
<1>1. \A field \in Field : FieldRank(pg.rows, field, p) \in Nat
  BY StatusesHavePlaces, PercentIsAPercentage, IdsAreNumbers DEF FieldRank, Field
<1>2. i \in DOMAIN pg.filters.sortBy => pg.filters.sortBy[i] \in Field
  BY DEF IsPage, IsFilters
<1> QED
  BY <1>1, <1>2 DEF SortRank

Mates(pg, p) == {q \in Filtered(pg) : GroupKey(pg, q) = GroupKey(pg, p)}
ServedWith(pg, p) == {ServedAt(pg.rows, q) : q \in Mates(pg, p)}

LEMMA MinIsLeast ==
    ASSUME NEW S \in SUBSET Nat, S # {}
    PROVE  Min(S) \in S /\ \A x \in S : Min(S) <= x
BY Least DEF Min

LEMMA GroupRankIs ==
    ASSUME NEW pg, IsPage(pg), NEW p \in Filtered(pg)
    PROVE  /\ ServedWith(pg, p) \in SUBSET Nat /\ ServedWith(pg, p) # {}
           /\ GroupRank(pg, p) = CASE pg.filters.groupBy = "none"     -> 0
                [] pg.filters.groupBy = "owner"    -> Min(ServedWith(pg, p))
                [] pg.filters.groupBy = "priority" -> Place(PriorityOrder, Priority[p])
                [] pg.filters.groupBy = "progress" -> 100 - Percent(pg.rows, p)
                [] pg.filters.groupBy = "status"   -> Place(StatusOrder, StatusOf(pg.rows, p))
           /\ GroupRank(pg, p) \in Nat
<1>1. Mates(pg, p) \subseteq Project /\ p \in Mates(pg, p)
  BY ListedAreProjects DEF Mates
<1>2. ServedWith(pg, p) \in SUBSET Nat /\ ServedWith(pg, p) # {}
  BY <1>1, ServedAtIsANumber DEF ServedWith, IsPage
<1>3. GroupRank(pg, p) = CASE pg.filters.groupBy = "none"     -> 0
                [] pg.filters.groupBy = "owner"    -> Min(ServedWith(pg, p))
                [] pg.filters.groupBy = "priority" -> Place(PriorityOrder, Priority[p])
                [] pg.filters.groupBy = "progress" -> 100 - Percent(pg.rows, p)
                [] pg.filters.groupBy = "status"   -> Place(StatusOrder, StatusOf(pg.rows, p))
  BY Zenon DEF GroupRank, ServedWith, Mates
<1>4. Min(ServedWith(pg, p)) \in Nat
  BY <1>2, MinIsLeast
<1>5. pg.filters.groupBy \in {"none", "owner", "priority", "progress", "status"}
  BY ConstantsAssumption DEF IsPage, IsFilters
<1>6. GroupRank(pg, p) \in Nat
  BY <1>1, <1>3, <1>4, <1>5, StatusesHavePlaces, PercentIsAPercentage
<1> QED
  BY <1>2, <1>3, <1>6

(* Projects of one group have one rank.                                      *)
LEMMA OneRankPerGroup ==
    ASSUME NEW pg, IsPage(pg), NEW p \in Filtered(pg), NEW q \in Filtered(pg),
           GroupKey(pg, p) = GroupKey(pg, q)
    PROVE  GroupRank(pg, p) = GroupRank(pg, q)
<1>1. ServedWith(pg, p) = ServedWith(pg, q)
  BY DEF ServedWith, Mates
<1>2. pg.filters.groupBy \in {"none", "owner", "priority", "progress", "status"}
  BY ConstantsAssumption DEF IsPage, IsFilters
<1>3. pg.filters.groupBy = "priority" => Priority[p] = Priority[q]
  BY DEF GroupKey
<1>4. pg.filters.groupBy = "progress" => Percent(pg.rows, p) = Percent(pg.rows, q)
  BY DEF GroupKey
<1>5. pg.filters.groupBy = "status" => StatusOf(pg.rows, p) = StatusOf(pg.rows, q)
  BY DEF GroupKey
<1> QED
  BY <1>1, <1>2, <1>3, <1>4, <1>5, GroupRankIs

\* Of two projects of a group, the one that comes first.
Precedes(pg, p, q) ==
    \/ SortRank(pg, 1, p) < SortRank(pg, 1, q)
    \/ /\ SortRank(pg, 1, p) = SortRank(pg, 1, q)
       /\ \/ SortRank(pg, 2, p) < SortRank(pg, 2, q)
          \/ /\ SortRank(pg, 2, p) = SortRank(pg, 2, q)
             /\ \/ ServedAt(pg.rows, p) < ServedAt(pg.rows, q)
                \/ ServedAt(pg.rows, p) = ServedAt(pg.rows, q) /\ p < q

LEMMA BeforeIsLexical ==
    ASSUME NEW s \in [1..5 -> Nat], NEW t \in [1..5 -> Nat]
    PROVE  Before(s, t) <=>
             \/ s[1] < t[1]
             \/ s[1] = t[1] /\ \/ s[2] < t[2]
                               \/ s[2] = t[2] /\ \/ s[3] < t[3]
                                                 \/ s[3] = t[3] /\ \/ s[4] < t[4]
                                                                   \/ s[4] = t[4] /\ s[5] < t[5]
<1> DEFINE at(i) == s[i] < t[i] /\ \A j \in 1..i-1 : s[j] = t[j]
<1>1. at(1) <=> s[1] < t[1]
  OBVIOUS
<1>2. at(2) <=> s[1] = t[1] /\ s[2] < t[2]
  OBVIOUS
<1>3. at(3) <=> s[1] = t[1] /\ s[2] = t[2] /\ s[3] < t[3]
  OBVIOUS
<1>4. at(4) <=> s[1] = t[1] /\ s[2] = t[2] /\ s[3] = t[3] /\ s[4] < t[4]
  OBVIOUS
<1>5. at(5) <=> s[1] = t[1] /\ s[2] = t[2] /\ s[3] = t[3] /\ s[4] = t[4] /\ s[5] < t[5]
  OBVIOUS
<1>6. DOMAIN s = 1..5
  OBVIOUS
<1>7. Before(s, t) <=> \E i \in 1..5 : at(i)
  BY <1>6, Zenon DEF Before
<1> HIDE DEF at
<1>8. Before(s, t) <=> at(1) \/ at(2) \/ at(3) \/ at(4) \/ at(5)
  BY <1>7
<1> QED
  BY <1>1, <1>2, <1>3, <1>4, <1>5, <1>8

LEMMA RankFields ==
    ASSUME NEW pg, IsPage(pg), NEW p \in Filtered(pg)
    PROVE  /\ Rank(pg, p) \in [1..5 -> Nat]
           /\ Rank(pg, p)[1] = GroupRank(pg, p) /\ Rank(pg, p)[2] = SortRank(pg, 1, p)
           /\ Rank(pg, p)[3] = SortRank(pg, 2, p) /\ Rank(pg, p)[4] = ServedAt(pg.rows, p)
           /\ Rank(pg, p)[5] = p
<1>1. /\ p \in Nat /\ GroupRank(pg, p) \in Nat /\ SortRank(pg, 1, p) \in Nat
      /\ SortRank(pg, 2, p) \in Nat /\ ServedAt(pg.rows, p) \in Nat
  BY ListedAreProjects, IdsAreNumbers, GroupRankIs, SortRankIsANumber, ServedAtIsANumber DEF IsPage
<1>2. Rank(pg, p) = <<GroupRank(pg, p), SortRank(pg, 1, p), SortRank(pg, 2, p),
                      ServedAt(pg.rows, p), p>>
  BY Zenon DEF Rank, SortRank
<1> QED
  BY <1>1, <1>2

LEMMA RanksInOrder ==
    ASSUME NEW pg, IsPage(pg), NEW p \in Filtered(pg), NEW q \in Filtered(pg)
    PROVE  Before(Rank(pg, p), Rank(pg, q)) <=>
             \/ GroupRank(pg, p) < GroupRank(pg, q)
             \/ GroupRank(pg, p) = GroupRank(pg, q) /\ Precedes(pg, p, q)
BY RankFields, BeforeIsLexical DEF Precedes

LEMMA PrecedesIsAnOrder ==
    ASSUME NEW pg, IsPage(pg), NEW p \in Project, NEW q \in Project
    PROVE  /\ ~(Precedes(pg, p, q) /\ Precedes(pg, q, p))
           /\ p # q => Precedes(pg, p, q) \/ Precedes(pg, q, p)
<1>1. \A r \in {p, q} :
        /\ r \in Nat /\ SortRank(pg, 1, r) \in Nat /\ SortRank(pg, 2, r) \in Nat
        /\ ServedAt(pg.rows, r) \in Nat
  BY IdsAreNumbers, SortRankIsANumber, ServedAtIsANumber DEF IsPage
<1> QED
  BY <1>1 DEF Precedes

LEMMA PrecedesAlike ==
    ASSUME NEW a, NEW b, SameView(a, b), NEW p, NEW q, Precedes(a, p, q)
    PROVE  Precedes(b, p, q)
<1>1. \A i, r : SortRank(a, i, r) = SortRank(b, i, r)
  BY RowsAlike DEF SameView, SortRank
<1>2. \A r : ServedAt(a.rows, r) = ServedAt(b.rows, r)
  BY RowsAlike DEF SameView
<1> QED
  BY <1>1, <1>2 DEF Precedes

(* At most one match comes first.                                            *)
LEMMA OneFirstMatch ==
    ASSUME NEW pg, IsPage(pg), NEW p \in FirstMatching(pg), NEW q \in FirstMatching(pg)
    PROVE  p = q
<1> SUFFICES ASSUME p # q PROVE FALSE
  OBVIOUS
<1>1. p \in Filtered(pg) /\ q \in Filtered(pg) /\ p \in Project /\ q \in Project
  BY ListedAreProjects DEF FirstMatching
<1>2. Before(Rank(pg, p), Rank(pg, q)) /\ Before(Rank(pg, q), Rank(pg, p))
  BY DEF FirstMatching
<1>3. GroupRank(pg, p) \in Nat /\ GroupRank(pg, q) \in Nat
  BY <1>1, GroupRankIs
<1> QED
  BY <1>1, <1>2, <1>3, RanksInOrder, PrecedesIsAnOrder

-----------------------------------------------------------------------------
(* The effects come to an end.                                               *)

Stable(pg) == ~NewMatch(pg, FirstMatch(pg))
Clean(pg)  == pg.selected \cap HiddenDone(pg) = {}

\* Only the project of the match that was revealed is open, and of the
\* projects of its group that have matches it comes first.
Alone(pg) ==
    /\ pg.autoCollapse /\ pg.search # Nil
    /\ \E p \in Filtered(pg) :
         /\ pg.expanded = {p} /\ Matching(pg, p) # {}
         /\ pg.lastKey = <<pg.search, FirstOf(Matching(pg, p))>>
         /\ \A q \in Filtered(pg) \ {p} :
              Matching(pg, q) # {} /\ GroupKey(pg, q) = GroupKey(pg, p)
              => Before(Rank(pg, p), Rank(pg, q))

\* No match after the first render; what the second one may still reveal comes
\* first for good; then only the scrolling is left.
SInv ==
    /\ due \in 0..4
    /\ due = 2 => Clean(page) /\ (Stable(page) \/ Alone(page))
    /\ due = 3 => Clean(page) /\ Stable(page)
    /\ due = 4 => Clean(page) /\ Stable(page) /\ page.pending = Nil

(* Revealing lists no more projects, and drops none but those it closes.     *)
LEMMA RevealingLists ==
    ASSUME NEW pg, IsPage(pg), NEW new, IsPage(new), NEW target, Reveals(pg, target, new)
    PROVE  /\ SameView(pg, new) /\ SameView(new, pg)
           /\ Filtered(new) \subseteq Filtered(pg)
           /\ Filtered(pg) \ ClosedBy(pg, target) \subseteq Filtered(new)
<1>1. SameView(pg, new) /\ SameView(new, pg)
  BY RowsAlike DEF Reveals, SameView, SameRows
<1>2. \A p : Unviewed(new.rows, p) => Unviewed(pg.rows, p)
  BY DEF Reveals, SameRows, Unviewed, TasksOf
<1>3. \A p : p \notin ClosedBy(pg, target) /\ Unviewed(pg.rows, p) => Unviewed(new.rows, p)
  BY DEF Reveals, SameRows, Unviewed, TasksOf
<1>4. Live(pg.rows) = Live(new.rows)
  BY RowsAlike DEF Reveals
<1>5. Filtered(new) \subseteq Filtered(pg)
  BY <1>1, <1>2, <1>4, PassesAlike DEF Filtered
<1>6. Filtered(pg) \ ClosedBy(pg, target) \subseteq Filtered(new)
  BY <1>1, <1>3, <1>4, PassesAlike DEF Filtered
<1> QED
  BY <1>1, <1>5, <1>6

LEMMA RevealingCleans ==
    ASSUME NEW pg, IsPage(pg), NEW new, IsPage(new), NEW target, Reveals(pg, target, new),
           new.selected \cap HiddenDone(pg) = {}
    PROVE  Clean(new)
<1>1. Filtered(new) \subseteq Filtered(pg) /\ new.hideDone \subseteq pg.hideDone
  BY RevealingLists DEF Reveals
<1>2. new.rows.home = pg.rows.home /\ new.rows.done = pg.rows.done
  BY DEF Reveals, SameRows
<1>3. HiddenDone(new) \subseteq HiddenDone(pg)
  BY <1>1, <1>2 DEF HiddenDone, TasksOf
<1> QED
  BY <1>3 DEF Clean

(* Once its project comes first, a match that was revealed is not a new one. *)
LEMMA StaysRevealed ==
    ASSUME NEW pg, IsPage(pg), NEW new, IsPage(new), FirstMatch(pg) # Nil,
           Reveals(pg, FirstMatch(pg), new),
           new.lastKey = <<pg.search, FirstMatch(pg).task>>,
           FirstMatch(new) # Nil => FirstMatch(new).project = FirstMatch(pg).project
    PROVE  Stable(new)
<1> SUFFICES ASSUME FirstMatch(new) # Nil
             PROVE  new.lastKey = <<new.search, FirstMatch(new).task>>
  BY DEF Stable, NewMatch
<1>1. Matching(new, FirstMatch(new).project) = Matching(pg, FirstMatch(pg).project)
  BY RevealingLists, KeysAlike
<1>2. FirstMatch(new).task = FirstMatch(pg).task
  BY <1>1, MatchIsATask
<1> QED
  BY <1>2 DEF Reveals

(* After the first match was revealed it is still first, or it is alone.     *)
LEMMA FirstReveal ==
    ASSUME NEW pg, IsPage(pg), NEW new, IsPage(new), FirstMatch(pg) # Nil,
           Reveals(pg, FirstMatch(pg), new),
           new.lastKey = <<pg.search, FirstMatch(pg).task>>
    PROVE  Stable(new) \/ Alone(new)
<1> DEFINE target == FirstMatch(pg)
           p == target.project
<1>1. /\ pg.search # Nil /\ p \in FirstMatching(pg) /\ p \in Filtered(pg)
      /\ Matching(pg, p) # {} /\ p = CHOOSE x \in FirstMatching(pg) : TRUE
      /\ target.task = FirstOf(Matching(pg, p))
  BY FirstMatchIsListed, MatchIsATask
<1>2. /\ SameView(pg, new) /\ SameView(new, pg) /\ Filtered(new) \subseteq Filtered(pg)
      /\ Filtered(pg) \ ClosedBy(pg, target) \subseteq Filtered(new)
  BY RevealingLists
<1>3. CASE ClosedBy(pg, target) = {}
  <2>1. Filtered(new) = Filtered(pg)
    BY <1>2, <1>3
  <2>2. FirstMatching(new) = FirstMatching(pg)
    BY <1>2, <2>1, RanksAlike
  <2>3. FirstMatch(new) # Nil => FirstMatch(new).project = p
    BY <1>1, <2>2, FirstMatchIsListed
  <2> QED
    BY <2>3, StaysRevealed
<1>4. CASE ClosedBy(pg, target) # {}
  <2> HIDE DEF target
  <2>1. /\ pg.autoCollapse /\ ClosedBy(pg, target) = pg.expanded \ {p}
    BY <1>4 DEF ClosedBy
  <2>2. new.autoCollapse /\ new.expanded = {p} /\ new.search = pg.search
    BY <2>1 DEF Reveals, target
  <2>3. p \in Filtered(new)
    BY <1>1, <1>2, <2>1
  <2>4. \A q : Matching(new, q) = Matching(pg, q) /\ GroupKey(new, q) = GroupKey(pg, q)
    BY <1>2, KeysAlike
  <2>5. ASSUME NEW q \in Filtered(new) \ {p}, Matching(new, q) # {},
               GroupKey(new, q) = GroupKey(new, p)
        PROVE  Before(Rank(new, p), Rank(new, q))
    <3>1. q \in Filtered(pg) /\ Matching(pg, q) # {} /\ GroupKey(pg, q) = GroupKey(pg, p)
      BY <1>2, <2>4, <2>5
    <3>2. Before(Rank(pg, p), Rank(pg, q))
      BY <1>1, <2>5, <3>1 DEF FirstMatching
    <3>3. GroupRank(pg, p) = GroupRank(pg, q) /\ GroupRank(pg, p) \in Nat
      BY <1>1, <3>1, OneRankPerGroup, GroupRankIs
    <3>4. Precedes(pg, p, q)
      BY <1>1, <3>1, <3>2, <3>3, RanksInOrder
    <3>5. Precedes(new, p, q)
      BY <1>2, <3>4, PrecedesAlike
    <3>6. GroupRank(new, p) = GroupRank(new, q)
      BY <2>3, <2>5, OneRankPerGroup
    <3> QED
      BY <2>3, <2>5, <3>5, <3>6, RanksInOrder
  <2>6. new.lastKey = <<new.search, FirstOf(Matching(new, p))>> /\ Matching(new, p) # {}
    BY <1>1, <2>2, <2>4 DEF target
  <2> QED
    BY <1>1, <2>2, <2>3, <2>5, <2>6 DEF Alone
<1> QED
  BY <1>3, <1>4

(* With fewer projects listed no group comes earlier, and one that lost none *)
(* comes where it did.                                                       *)
LEMMA GroupsComeLater ==
    ASSUME NEW pg, IsPage(pg), NEW new, IsPage(new), SameView(pg, new),
           Filtered(new) \subseteq Filtered(pg), NEW p \in Filtered(new)
    PROVE  /\ GroupRank(pg, p) <= GroupRank(new, p)
           /\ Mates(pg, p) \subseteq Filtered(new) => GroupRank(pg, p) = GroupRank(new, p)
<1>1. p \in Filtered(pg)
  OBVIOUS
<1>2. /\ new.filters.groupBy = pg.filters.groupBy
      /\ pg.filters.groupBy \in {"none", "owner", "priority", "progress", "status"}
  BY ConstantsAssumption DEF SameView, IsPage, IsFilters
<1>3. /\ \A q : GroupKey(pg, q) = GroupKey(new, q)
      /\ \A q : ServedAt(pg.rows, q) = ServedAt(new.rows, q)
      /\ Percent(pg.rows, p) = Percent(new.rows, p) /\ StatusOf(pg.rows, p) = StatusOf(new.rows, p)
  BY KeysAlike, RowsAlike DEF SameView
<1>4. /\ ServedWith(new, p) \subseteq ServedWith(pg, p)
      /\ Mates(pg, p) \subseteq Filtered(new) => ServedWith(new, p) = ServedWith(pg, p)
  BY <1>3 DEF ServedWith, Mates
<1>5. /\ ServedWith(pg, p) \in SUBSET Nat /\ ServedWith(pg, p) # {}
      /\ ServedWith(new, p) \in SUBSET Nat /\ ServedWith(new, p) # {}
  BY <1>1, GroupRankIs
<1>6. Min(ServedWith(pg, p)) <= Min(ServedWith(new, p))
  BY <1>4, <1>5, MinIsLeast
<1>7. GroupRank(pg, p) \in Nat /\ GroupRank(new, p) \in Nat
  BY <1>1, GroupRankIs
<1>8. CASE pg.filters.groupBy = "owner"
  <2>1. GroupRank(pg, p) = Min(ServedWith(pg, p)) /\ GroupRank(new, p) = Min(ServedWith(new, p))
    BY <1>1, <1>2, <1>8, GroupRankIs
  <2> QED
    BY <1>4, <1>6, <2>1
<1>9. CASE pg.filters.groupBy # "owner"
  <2>1. GroupRank(pg, p) = GroupRank(new, p)
    BY <1>1, <1>2, <1>3, <1>9, GroupRankIs
  <2> QED
    BY <1>7, <2>1
<1> QED
  BY <1>8, <1>9

(* What is revealed next comes first for good: it closes only the project    *)
(* that was alone, whose group comes later without it.                       *)
LEMMA SecondReveal ==
    ASSUME NEW pg, IsPage(pg), NEW new, IsPage(new), Alone(pg), NewMatch(pg, FirstMatch(pg)),
           Reveals(pg, FirstMatch(pg), new),
           new.lastKey = <<pg.search, FirstMatch(pg).task>>
    PROVE  Stable(new)
<1> DEFINE target == FirstMatch(pg)
           p == target.project
<1>1. /\ p \in FirstMatching(pg) /\ p \in Filtered(pg) /\ Matching(pg, p) # {}
      /\ target.task = FirstOf(Matching(pg, p)) /\ target # Nil
      /\ pg.lastKey # <<pg.search, target.task>>
  BY FirstMatchIsListed, MatchIsATask DEF NewMatch
<1>2. /\ SameView(pg, new) /\ SameView(new, pg) /\ Filtered(new) \subseteq Filtered(pg)
      /\ Filtered(pg) \ ClosedBy(pg, target) \subseteq Filtered(new)
  BY RevealingLists
<1>3. PICK r \in Filtered(pg) :
         /\ pg.expanded = {r} /\ Matching(pg, r) # {}
         /\ pg.lastKey = <<pg.search, FirstOf(Matching(pg, r))>>
         /\ \A q \in Filtered(pg) \ {r} :
              Matching(pg, q) # {} /\ GroupKey(pg, q) = GroupKey(pg, r)
              => Before(Rank(pg, r), Rank(pg, q))
  BY DEF Alone
<1> HIDE DEF target
<1>4. p # r
  BY <1>1, <1>3
<1>5. \A q \in Filtered(pg) \ {p} : Matching(pg, q) # {} => Before(Rank(pg, p), Rank(pg, q))
  BY <1>1 DEF FirstMatching
<1>6. GroupKey(pg, p) # GroupKey(pg, r)
  <2> SUFFICES ASSUME GroupKey(pg, p) = GroupKey(pg, r) PROVE FALSE
    OBVIOUS
  <2>1. Before(Rank(pg, r), Rank(pg, p)) /\ Before(Rank(pg, p), Rank(pg, r))
    BY <1>1, <1>3, <1>4, <1>5
  <2>2. GroupRank(pg, p) \in Nat /\ GroupRank(pg, r) \in Nat
    BY <1>1, <1>3, GroupRankIs
  <2>3. Precedes(pg, p, r) /\ Precedes(pg, r, p)
    BY <1>1, <1>3, <2>1, <2>2, RanksInOrder
  <2> QED
    BY <1>1, <1>3, <2>3, PrecedesIsAnOrder, ListedAreProjects
<1>7. ClosedBy(pg, target) \subseteq {r}
  BY <1>3 DEF ClosedBy
<1>8. p \in Filtered(new)
  BY <1>1, <1>2, <1>4, <1>7
<1>9. GroupRank(pg, p) = GroupRank(new, p)
  <2>1. Mates(pg, p) \subseteq Filtered(new)
    BY <1>2, <1>6, <1>7 DEF Mates
  <2> QED
    BY <1>2, <1>8, <2>1, GroupsComeLater
<1>10. ASSUME NEW q \in Filtered(new) \ {p}, Matching(new, q) # {}
       PROVE  Before(Rank(new, p), Rank(new, q))
  <2>1. Matching(pg, q) # {} /\ q \in Filtered(pg)
    BY <1>2, <1>10, KeysAlike
  <2>2. Before(Rank(pg, p), Rank(pg, q))
    BY <1>5, <1>10, <2>1
  <2>3. GroupRank(pg, q) <= GroupRank(new, q)
    BY <1>2, <1>10, GroupsComeLater
  <2>4. /\ GroupRank(pg, p) \in Nat /\ GroupRank(pg, q) \in Nat
        /\ GroupRank(new, p) \in Nat /\ GroupRank(new, q) \in Nat
    BY <1>1, <1>8, <1>10, <2>1, GroupRankIs
  <2>5. \/ GroupRank(pg, p) < GroupRank(pg, q)
        \/ GroupRank(pg, p) = GroupRank(pg, q) /\ Precedes(pg, p, q)
    BY <1>1, <2>1, <2>2, RanksInOrder
  <2>6. Precedes(pg, p, q) => Precedes(new, p, q)
    BY <1>2, PrecedesAlike
  <2>7. \/ GroupRank(new, p) < GroupRank(new, q)
        \/ GroupRank(new, p) = GroupRank(new, q) /\ Precedes(new, p, q)
    BY <1>9, <2>3, <2>4, <2>5, <2>6
  <2> QED
    BY <1>8, <1>10, <2>7, RanksInOrder
<1>11. p \in FirstMatching(new)
  <2>1. Matching(new, p) # {}
    BY <1>1, <1>2, KeysAlike
  <2> QED
    BY <1>8, <1>10, <2>1 DEF FirstMatching
<1>12. FirstMatch(new) # Nil => FirstMatch(new).project = p
  BY <1>11, FirstMatchIsListed, OneFirstMatch
<1> QED
  BY <1>1, <1>12, StaysRevealed DEF target

LEMMA RestingIsStable ==
    ASSUME NEW pg, IsPage(pg), NEW new, IsPage(new), Stable(pg), Rests(pg, new)
    PROVE  Stable(new) /\ Clean(new)
<1>1. /\ new.rows = pg.rows /\ new.filters = pg.filters /\ new.search = pg.search
      /\ new.hideDone = pg.hideDone
  BY DEF Rests
<1>2. Filtered(new) = Filtered(pg)
  BY <1>1 DEF Filtered, Passes
<1>3. SameView(pg, new)
  BY <1>1 DEF SameView, SameRows
<1>4. Clean(new)
  BY <1>1, <1>2 DEF Clean, HiddenDone, Rests
<1>5. FirstMatching(new) = FirstMatching(pg)
  BY <1>2, <1>3, RanksAlike
<1>6. Stable(new)
  <2> SUFFICES ASSUME FirstMatch(new) # Nil
               PROVE  new.lastKey = <<new.search, FirstMatch(new).task>>
    BY DEF Stable, NewMatch
  <2>1. FirstMatch(new) = FirstMatch(pg)
    <3>1. \A p : Matching(new, p) = Matching(pg, p) /\ GroupKey(new, p) = GroupKey(pg, p)
      BY <1>3, KeysAlike
    <3> QED
      BY <1>1, <1>5, <3>1 DEF FirstMatch
  <2>2. pg.lastKey = <<pg.search, FirstMatch(pg).task>>
    BY <2>1 DEF Stable, NewMatch
  <2> QED
    BY <1>1, <2>1, <2>2 DEF Rests
<1> QED
  BY <1>4, <1>6

LEMMA InitSettles == Init => SInv
BY DEF Init, SInv

LEMMA BetweenSettles ==
    ASSUME SInv, Between
    PROVE  SInv'
BY DEF SInv, Between

LEMMA EffectsSettleStep ==
    ASSUME IInv, IInv', RInv, SInv, RunEffects
    PROVE  SInv'
<1> DEFINE target == FirstMatch(page)
<1>1. PICK early \in BOOLEAN : page' = Settled(page, early)
  BY EffectsRender
<1>2. due > 0 /\ due' = IF page' = [page EXCEPT !.lastKey = page'.lastKey] THEN 0 ELSE due + 1
  BY DEF RunEffects
<1>3. IsPage(page) /\ IsPage(page')
  BY DEF IInv
<1>4. NewMatch(page, target) =>
        /\ Reveals(page, target, page') /\ target # Nil /\ Clean(page')
        /\ page'.lastKey = <<page.search, target.task>>
  <2> SUFFICES ASSUME NewMatch(page, target)
               PROVE  /\ Reveals(page, target, page') /\ target # Nil /\ Clean(page')
                      /\ page'.lastKey = <<page.search, target.task>>
    OBVIOUS
  <2>1. /\ Reveals(page, target, page') /\ page'.selected \cap HiddenDone(page) = {}
        /\ page'.lastKey = <<page.search, target.task>>
    BY <1>1, <1>3, SettledFields
  <2> QED
    BY <1>3, <2>1, RevealingCleans DEF NewMatch
<1>5. ~NewMatch(page, target) => Rests(page, page') /\ Stable(page') /\ Clean(page')
  <2>1. ~NewMatch(page, target) => Rests(page, page')
    BY <1>1, <1>3, SettledFields
  <2> QED
    BY <1>3, <2>1, RestingIsStable DEF Stable
<1>6. Stable(page') = Stable(page)' /\ Clean(page') = Clean(page)' /\ Alone(page') = Alone(page)'
  BY DEF Stable, Clean, Alone, NewMatch, FirstMatch, HiddenDone
<1>7. due \in 1..4
  BY <1>2 DEF SInv
<1>8. CASE due = 1
  <2>1. Clean(page') /\ (Stable(page') \/ Alone(page'))
    BY <1>3, <1>4, <1>5, FirstReveal
  <2> QED
    BY <1>2, <1>6, <1>8, <2>1 DEF SInv
<1>9. CASE due = 2
  <2>1. Clean(page') /\ Stable(page')
    BY <1>3, <1>4, <1>5, <1>9, SecondReveal DEF SInv, Stable
  <2> QED
    BY <1>2, <1>6, <1>9, <2>1 DEF SInv
<1>10. CASE due = 3
  <2>1. Rests(page, page') /\ Clean(page') /\ Stable(page')
    BY <1>5, <1>10 DEF SInv, Stable
  <2>2. page'.pending = Nil
    BY <2>1 DEF Rests, RInv
  <2> QED
    BY <1>2, <1>6, <1>10, <2>1, <2>2 DEF SInv
<1>11. CASE due = 4
  <2>1. Rests(page, page') /\ page.selected \cap HiddenDone(page) = {} /\ page.pending = Nil
    BY <1>5, <1>11 DEF SInv, Stable, Clean
  <2>2. page'.selected = page.selected /\ page'.pending = page.pending
    BY <2>1 DEF Rests
  <2>3. page' = [page EXCEPT !.lastKey = page'.lastKey]
    BY <1>3, <2>1, <2>2 DEF Rests, IsPage, IsRecord
  <2> QED
    BY <1>2, <2>3 DEF SInv
<1> QED
  BY <1>7, <1>8, <1>9, <1>10, <1>11

LEMMA NextSettles == IInv /\ IInv' /\ RInv /\ SInv /\ [Next]_vars => SInv'
<1> SUFFICES ASSUME IInv, IInv', RInv, SInv, [Next]_vars PROVE SInv'
  OBVIOUS
<1>1. CASE RunEffects
  BY <1>1, EffectsSettleStep
<1>2. CASE UserAct \/ Answer \/ AnswerFails \/ Refresh
  BY <1>2, StepsBetween, BetweenSettles
<1>3. CASE Colleague \/ UNCHANGED vars
  <2>1. UNCHANGED <<page, due>>
    BY <1>3 DEF Colleague, vars
  <2> QED
    BY <2>1 DEF SInv, Clean, Stable, Alone
<1> QED
  BY <1>1, <1>2, <1>3 DEF Next

(* The page does not render for ever: of what revealing a match may make     *)
(* first, by closing projects that then are not listed, one reveal more is   *)
(* the end.                                                                  *)
THEOREM RendersEnd == Spec => []EffectsSettle
<1>1. Init => IInv /\ RInv /\ SInv
  BY InitFollows, InitReveals, InitSettles
<1>2. IInv /\ RInv /\ SInv /\ [Next]_vars => IInv' /\ RInv' /\ SInv'
  BY NextFollows, NextReveals, NextSettles
<1>3. SInv => EffectsSettle
  BY DEF SInv, EffectsSettle
<1> QED
  BY <1>1, <1>2, <1>3, PTL DEF Spec

-----------------------------------------------------------------------------
(* A view brings back what the page was.                                     *)

(* The first match is that of a project whenever one has any.                *)
LEMMA FirstMatchFields ==
    ASSUME NEW pg, pg.search # Nil, FirstMatching(pg) # {}
    PROVE  LET p == FirstMatch(pg).project
           IN  /\ p = CHOOSE q \in FirstMatching(pg) : TRUE
               /\ p \in FirstMatching(pg) /\ p \in Filtered(pg) /\ p \in Project
               /\ FirstMatch(pg).task = FirstOf(Matching(pg, p))
               /\ pg.rows.home[FirstMatch(pg).task] = p
<1> DEFINE project == CHOOSE q \in FirstMatching(pg) : TRUE
           task == CHOOSE t \in Matching(pg, project) : \A u \in Matching(pg, project) : t <= u
<1>1. FirstMatch(pg).project = project /\ FirstMatch(pg).task = task
  BY DEF FirstMatch
<1>2. project \in FirstMatching(pg)
  OBVIOUS
<1>3. project \in Filtered(pg) /\ Matching(pg, project) # {}
  BY <1>2 DEF FirstMatching
<1>4. project \in Project
  BY <1>3, ListedAreProjects
<1>5. task = FirstOf(Matching(pg, project))
  BY Zenon DEF FirstOf
<1> HIDE DEF project
<1>6. Matching(pg, project) \subseteq Task
  BY DEF Matching, TasksOf
<1>7. task \in Matching(pg, project)
  BY <1>3, <1>5, <1>6, FirstOfTasks
<1>8. pg.rows.home[task] = project
  BY <1>7 DEF Matching, TasksOf
<1> QED
  BY <1>1, <1>2, <1>3, <1>4, <1>5, <1>8 DEF project

LEMMA LeastBy ==
    ASSUME NEW S, S # {}, NEW f \in [S -> Nat]
    PROVE  \E x \in S : \A y \in S : f[x] <= f[y]
<1>1. {f[x] : x \in S} \in SUBSET Nat /\ {f[x] : x \in S} # {}
  OBVIOUS
<1>2. PICK n \in {f[x] : x \in S} : \A m \in {f[x] : x \in S} : n <= m
  BY <1>1, Least, Zenon
<1> QED
  BY <1>2

(* Of the projects with matches that are listed one comes first.             *)
LEMMA SomeMatchIsFirst ==
    ASSUME NEW pg, IsPage(pg), NEW r \in Filtered(pg), Matching(pg, r) # {}
    PROVE  FirstMatching(pg) # {}
<1> DEFINE found == {p \in Filtered(pg) : Matching(pg, p) # {}}
           at(i, S) == [p \in S |-> Rank(pg, p)[i]]
           best(i, S, x) == x \in S /\ \A y \in S : Rank(pg, x)[i] <= Rank(pg, y)[i]
<1>1. r \in found /\ found \subseteq Filtered(pg)
  OBVIOUS
<1>2. \A p \in Filtered(pg) : Rank(pg, p) \in [1..5 -> Nat] /\ Rank(pg, p)[5] = p
  BY RankFields
<1> HIDE DEF found
<1>3. ASSUME NEW i \in 1..5, NEW S \in SUBSET found, S # {}
      PROVE  \E x \in S : \A y \in S : Rank(pg, x)[i] <= Rank(pg, y)[i]
  <2>1. \A p \in S : Rank(pg, p)[i] \in Nat
    BY <1>1, <1>2
  <2>2. at(i, S) \in [S -> Nat]
    BY <2>1
  <2> HIDE DEF at
  <2>3. \E x \in S : \A y \in S : at(i, S)[x] <= at(i, S)[y]
    BY <1>3, <2>2, LeastBy
  <2> QED
    BY <2>3 DEF at
<1>4. PICK a \in found : \A y \in found : Rank(pg, a)[1] <= Rank(pg, y)[1]
  BY <1>1, <1>3
<1> DEFINE A == {p \in found : Rank(pg, p)[1] = Rank(pg, a)[1]}
<1>5. PICK b \in A : \A y \in A : Rank(pg, b)[2] <= Rank(pg, y)[2]
  <2>1. A \in SUBSET found /\ A # {}
    OBVIOUS
  <2> HIDE DEF A
  <2> QED
    BY <1>3, <2>1
<1> DEFINE B == {p \in A : Rank(pg, p)[2] = Rank(pg, b)[2]}
<1>6. PICK c \in B : \A y \in B : Rank(pg, c)[3] <= Rank(pg, y)[3]
  <2>1. B \in SUBSET found /\ B # {}
    OBVIOUS
  <2> HIDE DEF B
  <2> QED
    BY <1>3, <2>1
<1> DEFINE C == {p \in B : Rank(pg, p)[3] = Rank(pg, c)[3]}
<1>7. PICK d \in C : \A y \in C : Rank(pg, d)[4] <= Rank(pg, y)[4]
  <2>1. C \in SUBSET found /\ C # {}
    OBVIOUS
  <2> HIDE DEF C
  <2> QED
    BY <1>3, <2>1
<1> DEFINE D == {p \in C : Rank(pg, p)[4] = Rank(pg, d)[4]}
<1>8. PICK e \in D : \A y \in D : Rank(pg, e)[5] <= Rank(pg, y)[5]
  <2>1. D \in SUBSET found /\ D # {}
    OBVIOUS
  <2> HIDE DEF D
  <2> QED
    BY <1>3, <2>1
<1>9. e \in found
  OBVIOUS
<1>10. ASSUME NEW q \in found \ {e}
       PROVE  Before(Rank(pg, e), Rank(pg, q))
  <2> DEFINE s == Rank(pg, e)
             t == Rank(pg, q)
  <2>1. /\ s \in [1..5 -> Nat] /\ t \in [1..5 -> Nat] /\ s[5] = e /\ t[5] = q /\ e # q
        /\ e \in Nat /\ q \in Nat
    BY <1>1, <1>2, <1>9, IdsAreNumbers, ListedAreProjects
  <2>2. s[1] <= t[1]
    BY <1>4
  <2>3. s[1] = t[1] => s[2] <= t[2]
    BY <1>5
  <2>4. s[1] = t[1] /\ s[2] = t[2] => s[3] <= t[3]
    BY <1>6
  <2>5. s[1] = t[1] /\ s[2] = t[2] /\ s[3] = t[3] => s[4] <= t[4]
    BY <1>7
  <2>6. s[1] = t[1] /\ s[2] = t[2] /\ s[3] = t[3] /\ s[4] = t[4] => s[5] <= t[5]
    BY <1>8
  <2> HIDE DEF s, t
  <2>7. Before(s, t)
    <3>1. /\ s[1] \in Nat /\ s[2] \in Nat /\ s[3] \in Nat /\ s[4] \in Nat /\ s[5] \in Nat
          /\ t[1] \in Nat /\ t[2] \in Nat /\ t[3] \in Nat /\ t[4] \in Nat /\ t[5] \in Nat
      BY <2>1
    <3> QED
      BY <2>1, <2>2, <2>3, <2>4, <2>5, <2>6, <3>1, BeforeIsLexical
  <2> QED
    BY <2>7 DEF s, t
<1> HIDE DEF A, B, C, D
<1> QED
  BY <1>9, <1>10 DEF FirstMatching, found

\* The page has the choices of the page that was saved.
Chosen(old, pg) ==
    /\ pg.search = old.search
    /\ pg.filters.groupBy = old.filters.groupBy /\ pg.filters.sortBy = old.filters.sortBy
    /\ pg.filters.statuses = old.filters.statuses
    /\ pg.filters.assignees = Effective(old.rows, old.filters.assignees)

AsSaved(old, pg) ==
    /\ pg.expanded = old.expanded
    /\ pg.collapsed[old.filters.groupBy] = old.collapsed[old.filters.groupBy]

\* With projects that were viewed filtered out, a match may be revealed that
\* was not the first when the view was saved.  Then the rows are other ones,
\* and they stay it: they are already, with the match of the view in a project
\* that is open; or changes in that project, which was closed, were viewed; or
\* a project is listed that has a match, where the view had none.
Astray(old, pg) ==
    \/ FirstMatching(old) # {} /\ FirstMatch(old).project \in pg.expanded
       /\ pg.rows.unviewed # old.rows.unviewed
    \/ old.rows.unviewed \ pg.rows.unviewed # {}
    \/ FirstMatching(old) = {} /\ \E p \in Filtered(pg) : Matching(pg, p) # {}

\* What is open is as it was saved, unless it is over other rows.
Carried(old, pg) ==
    \/ pg.filters.notViewed # old.filters.notViewed
    \/ ~SameRows(old.rows, pg.rows)
    \/ AsSaved(old, pg)
    \/ pg.filters.notViewed /\ Astray(old, pg)

\* A view that was chosen last.
VInv == applied # Nil =>
    \E old : /\ IsPage(old) /\ pictures[applied] = Picture(old) /\ Chosen(old, page)
             /\ ShowsMatch(old) => Carried(old, page)

(* Over the same rows the same is listed, and the same match is first.       *)
LEMMA ChosenAlike ==
    ASSUME NEW old, NEW pg, Chosen(old, pg), SameRows(old.rows, pg.rows),
           pg.filters.notViewed = old.filters.notViewed,
           pg.filters.notViewed => pg.rows.unviewed = old.rows.unviewed
    PROVE  /\ SameView(old, pg) /\ Filtered(pg) = Filtered(old)
           /\ FirstMatching(pg) = FirstMatching(old) /\ Listed(pg) = Listed(old)
<1>1. Effective(pg.rows, pg.filters.assignees) = Effective(old.rows, old.filters.assignees)
  BY DEF Chosen, Effective, SameRows
<1>2. SameView(old, pg) /\ SameView(pg, old)
  BY <1>1 DEF SameView, SameRows, Chosen
<1>3. \A p : pg.filters.notViewed => (Unviewed(pg.rows, p) <=> Unviewed(old.rows, p))
  BY DEF Unviewed, TasksOf, SameRows
<1>4. Live(pg.rows) = Live(old.rows)
  BY RowsAlike
<1>5. Filtered(pg) = Filtered(old)
  BY <1>2, <1>3, <1>4, PassesAlike DEF Filtered
<1> QED
  BY <1>2, <1>5, RanksAlike

(* The first match of a page that shows it is in a project that is open.     *)
LEMMA ShownIsOpen ==
    ASSUME NEW old, old.search # Nil, FirstMatching(old) # {}, ShowsMatch(old)
    PROVE  LET p == FirstMatch(old).project
           IN  p \in Filtered(old) /\ p \in old.expanded /\ ~Collapsed(old, p)
<1>1. FirstMatch(old).task \in OnDisplay(old)
  BY DEF ShowsMatch
<1>2. old.rows.home[FirstMatch(old).task] \in OpenProjects(old)
  BY <1>1 DEF OnDisplay, TasksOf
<1>3. FirstMatch(old).project \in OpenProjects(old)
  BY <1>2, FirstMatchFields
<1> QED
  BY <1>3 DEF OpenProjects

(* To reveal the match of the view opens nothing, and to reveal another one  *)
(* leads astray.                                                             *)
LEMMA RevealsCarry ==
    ASSUME NEW old, IsPage(old), NEW pg, IsPage(pg), NEW new, IsPage(new),
           ShowsMatch(old), Chosen(old, pg), Carried(old, pg),
           SameRows(old.rows, pg.rows), pg.filters.notViewed = old.filters.notViewed,
           FirstMatch(pg) # Nil, Reveals(pg, FirstMatch(pg), new)
    PROVE  AsSaved(old, new) \/ (new.filters.notViewed /\ Astray(old, new))
<1> DEFINE target == FirstMatch(pg)
           p == target.project
           sought == FirstMatch(old).project
<1>1. /\ pg.search # Nil /\ old.search # Nil /\ p \in FirstMatching(pg)
      /\ p = (CHOOSE q \in FirstMatching(pg) : TRUE) /\ Matching(pg, p) # {}
      /\ target.key = GroupKey(pg, p)
  BY FirstMatchIsListed DEF Chosen
<1>2. p \in Filtered(new) /\ Matching(new, p) # {}
  <2>1. p \in Filtered(new) /\ SameView(pg, new)
    BY RevealedIsShown
  <2>2. \A q : Matching(pg, q) = Matching(new, q)
    BY <2>1, KeysAlike
  <2> QED
    BY <1>1, <2>1, <2>2
<1>3. /\ new.filters = pg.filters /\ new.expanded = (pg.expanded \ ClosedBy(pg, target)) \cup {p}
      /\ new.collapsed = [pg.collapsed EXCEPT ![pg.filters.groupBy] = @ \ {target.key}]
      /\ new.rows.unviewed = pg.rows.unviewed \ TasksOf(pg.rows, ClosedBy(pg, target))
      /\ pg.filters.groupBy = old.filters.groupBy
  BY DEF Reveals, Chosen
<1> HIDE DEF target
<1>4. CASE AsSaved(old, pg) /\ (pg.filters.notViewed => pg.rows.unviewed = old.rows.unviewed)
  <2>1. SameView(old, pg) /\ FirstMatching(pg) = FirstMatching(old)
    BY <1>4, ChosenAlike
  <2>2. p = sought
    BY <1>1, <2>1, FirstMatchFields
  <2>3. p \in old.expanded /\ ~Collapsed(old, p)
    BY <1>1, <2>1, <2>2, ShownIsOpen
  <2>4. p \in pg.expanded /\ ClosedBy(pg, target) = {}
    BY <1>4, <2>3 DEF AsSaved, ClosedBy
  <2>5. target.key \notin pg.collapsed[pg.filters.groupBy]
    BY <1>1, <1>3, <1>4, <2>1, <2>3, KeysAlike DEF Collapsed, AsSaved
  <2>6. new.expanded = pg.expanded
    BY <1>3, <2>4
  <2>7. new.collapsed[pg.filters.groupBy] = pg.collapsed[pg.filters.groupBy]
    <3> DEFINE g == pg.filters.groupBy
    <3>1. g \in Groupings /\ pg.collapsed = [x \in Groupings |-> pg.collapsed[x]]
      BY DEF IsPage, IsFilters
    <3>2. pg.collapsed[g] \ {target.key} = pg.collapsed[g]
      BY <2>5
    <3> HIDE DEF g
    <3>3. [pg.collapsed EXCEPT ![g] = @ \ {target.key}][g] = pg.collapsed[g] \ {target.key}
      BY <3>1
    <3> QED
      BY <1>3, <3>2, <3>3 DEF g
  <2> QED
    BY <1>3, <1>4, <2>6, <2>7 DEF AsSaved
<1>5. CASE pg.filters.notViewed /\ FirstMatching(old) = {}
  BY <1>2, <1>3, <1>5 DEF Astray
<1>6. CASE pg.filters.notViewed /\ old.rows.unviewed \ pg.rows.unviewed # {}
  <2>1. old.rows.unviewed \ new.rows.unviewed # {}
    BY <1>3, <1>6
  <2> QED
    BY <1>3, <1>6, <2>1 DEF Astray
<1>7. CASE /\ pg.filters.notViewed /\ FirstMatching(old) # {}
           /\ sought \in pg.expanded /\ pg.rows.unviewed # old.rows.unviewed
  <2>1. CASE ClosedBy(pg, target) = {}
    <3>1. TasksOf(pg.rows, {}) = {}
      BY DEF TasksOf
    <3>2. new.rows.unviewed = pg.rows.unviewed /\ sought \in new.expanded
      BY <1>3, <1>7, <2>1, <3>1
    <3> QED
      BY <1>3, <1>7, <3>2 DEF Astray
  <2>2. CASE ClosedBy(pg, target) # {}
    <3>1. ClosedBy(pg, target) = pg.expanded \ {p} /\ p \notin pg.expanded
      BY <2>2 DEF ClosedBy
    <3>2. sought \in ClosedBy(pg, target)
      BY <1>7, <3>1
    <3>3. sought \in Filtered(old)
      BY <1>1, <1>7, FirstMatchFields
    <3>4. Unviewed(old.rows, sought)
      BY <1>7, <3>3 DEF Filtered, Passes
    <3>5. PICK t \in old.rows.unviewed : t \in TasksOf(old.rows, {sought})
      BY <3>4 DEF Unviewed
    <3>6. t \in TasksOf(pg.rows, ClosedBy(pg, target))
      BY <3>2, <3>5 DEF TasksOf, SameRows
    <3>7. old.rows.unviewed \ new.rows.unviewed # {}
      BY <1>3, <3>5, <3>6
    <3> QED
      BY <1>3, <1>7, <3>7 DEF Astray
  <2> QED
    BY <2>1, <2>2
<1>8. FirstMatching(old) # {} => sought \in old.expanded
  BY <1>1, ShownIsOpen
<1>9. AsSaved(old, pg) \/ (pg.filters.notViewed /\ Astray(old, pg))
  BY DEF Carried
<1>10. CASE AsSaved(old, pg)
  <2>1. FirstMatching(old) # {} => sought \in pg.expanded
    BY <1>8, <1>10 DEF AsSaved
  <2> QED
    BY <1>4, <1>5, <1>7, <1>10, <2>1
<1>11. CASE pg.filters.notViewed /\ Astray(old, pg)
  <2>1. \/ FirstMatching(old) # {} /\ sought \in pg.expanded /\ pg.rows.unviewed # old.rows.unviewed
        \/ old.rows.unviewed \ pg.rows.unviewed # {}
        \/ FirstMatching(old) = {}
    BY <1>11 DEF Astray
  <2> QED
    BY <1>5, <1>6, <1>7, <1>11, <2>1
<1> QED
  BY <1>9, <1>10, <1>11

LEMMA RendersCarry ==
    ASSUME NEW old, IsPage(old), NEW pg, IsPage(pg), NEW new, IsPage(new),
           ShowsMatch(old), Chosen(old, pg), Carried(old, pg),
           \/ Rests(pg, new)
           \/ FirstMatch(pg) # Nil /\ Reveals(pg, FirstMatch(pg), new)
    PROVE  Carried(old, new)
<1>1. new.filters = pg.filters /\ SameRows(pg.rows, new.rows)
  BY DEF Rests, Reveals, SameRows
<1>2. CASE pg.filters.notViewed # old.filters.notViewed
  BY <1>1, <1>2 DEF Carried
<1>3. CASE ~SameRows(old.rows, pg.rows)
  BY <1>1, <1>3 DEF Carried, SameRows
<1>4. CASE Rests(pg, new)
  <2>1. /\ new.rows = pg.rows /\ new.filters = pg.filters /\ new.search = pg.search
        /\ new.expanded = pg.expanded /\ new.collapsed = pg.collapsed
    BY <1>4 DEF Rests
  <2>2. Filtered(new) = Filtered(pg) /\ \A p : Matching(new, p) = Matching(pg, p)
    BY <2>1 DEF Filtered, Passes, Matching
  <2>3. AsSaved(old, pg) => AsSaved(old, new)
    BY <2>1 DEF AsSaved
  <2>4. Astray(old, pg) => Astray(old, new)
    BY <2>1, <2>2 DEF Astray
  <2> QED
    BY <2>1, <2>3, <2>4 DEF Carried
<1>5. CASE /\ SameRows(old.rows, pg.rows) /\ pg.filters.notViewed = old.filters.notViewed
           /\ FirstMatch(pg) # Nil /\ Reveals(pg, FirstMatch(pg), new)
  <2>1. AsSaved(old, new) \/ (new.filters.notViewed /\ Astray(old, new))
    BY <1>5, RevealsCarry
  <2> QED
    BY <2>1 DEF Carried
<1> QED
  BY <1>2, <1>3, <1>4, <1>5

LEMMA EffectsCarry ==
    ASSUME IInv, IInv', VInv, RunEffects
    PROVE  VInv'
<1> SUFFICES ASSUME applied' # Nil PROVE VInv'
  BY DEF VInv
<1>1. applied' = applied /\ pictures' = pictures
  BY DEF RunEffects
<1>2. PICK old : /\ IsPage(old) /\ pictures[applied] = Picture(old) /\ Chosen(old, page)
                 /\ ShowsMatch(old) => Carried(old, page)
  BY <1>1 DEF VInv
<1>3. PICK early \in BOOLEAN : page' = Settled(page, early)
  BY EffectsRender
<1>4. IsPage(page) /\ IsPage(page')
  BY DEF IInv
<1>5. \/ Rests(page, page')
      \/ FirstMatch(page) # Nil /\ Reveals(page, FirstMatch(page), page')
  BY <1>3, <1>4, SettledFields DEF NewMatch
<1>6. Chosen(old, page')
  BY <1>2, <1>5 DEF Rests, Reveals, Chosen
<1>7. ShowsMatch(old) => Carried(old, page')
  BY <1>2, <1>4, <1>5, RendersCarry
<1>8. Chosen(old, page') = Chosen(old, page)' /\ Carried(old, page') = Carried(old, page)'
  BY DEF Chosen, Carried, AsSaved, Astray, Filtered, Matching
<1> QED
  BY <1>1, <1>2, <1>6, <1>7, <1>8 DEF VInv

LEMMA ApplyCarries ==
    ASSUME IInv, ApplyView
    PROVE  VInv'
<1>1. PICK v \in View : /\ views[v] # Nil /\ page' = Applied(page, views[v], v)
                        /\ applied' = v /\ UNCHANGED pictures
  BY DEF ApplyView, Applied
<1>2. PICK old : IsPage(old) /\ views[v] = Payload(old) /\ pictures[v] = Picture(old)
  BY <1>1 DEF IInv, IsSaved
<1>3. Shows(page, Payload(old), page')
  BY <1>1, <1>2, AppliedIsPage DEF IInv
<1>4. Chosen(old, page') /\ AsSaved(old, page')
  BY <1>2, <1>3, PayloadFields DEF Shows, Chosen, AsSaved
<1>5. Chosen(old, page') = Chosen(old, page)' /\ AsSaved(old, page') = AsSaved(old, page)'
  BY DEF Chosen, AsSaved
<1>6. Carried(old, page)'
  BY <1>4, <1>5 DEF Carried
<1> QED
  BY <1>1, <1>2, <1>4, <1>5, <1>6 DEF VInv

LEMMA NextCarries == IInv /\ IInv' /\ VInv /\ [Next]_vars => VInv'
<1> SUFFICES ASSUME IInv, IInv', VInv, [Next]_vars PROVE VInv'
  OBVIOUS
<1>1. CASE RunEffects
  BY <1>1, EffectsCarry
<1>2. CASE ApplyView
  BY <1>2, ApplyCarries
<1>3. CASE UserAct /\ ~ApplyView
  <2>1. applied' = Nil
    BY <1>3 DEF UserAct, Search, SetFilters, ToggleGroup, ToggleProject, ToggleDone,
       SelectTasks, ToggleAutoCollapse, MarkAllViewed, PageAct, Reload, SaveNewView, UpdateView,
       Save, DeleteView, AskBulk, AskRow, Ask
  <2> QED
    BY <2>1 DEF VInv
<1>4. CASE Answer \/ Refresh
  BY <1>4 DEF Answer, Refresh, VInv
<1>5. CASE AnswerFails \/ Colleague \/ UNCHANGED vars
  <2>1. UNCHANGED <<page, applied, pictures>>
    BY <1>5 DEF AnswerFails, Colleague, vars, history
  <2>2. \A old : Chosen(old, page)' = Chosen(old, page) /\ Carried(old, page)' = Carried(old, page)
    BY <2>1 DEF Chosen, Carried, AsSaved, Astray, Filtered, Matching
  <2> QED
    BY <2>1, <2>2 DEF VInv
<1> QED
  BY <1>1, <1>2, <1>3, <1>4, <1>5 DEF Next, UserAct

(* Over the rows it was saved over, what is open is what was.                *)
LEMMA CarriedShows ==
    ASSUME NEW old, IsPage(old), NEW pg, IsPage(pg), Chosen(old, pg), Carried(old, pg),
           Ground(old) = Ground(pg)
    PROVE  Layout(old) = Layout(pg)
<1>1. pg.filters.notViewed = old.filters.notViewed
  BY DEF Ground
<1>2. /\ SameRows(old.rows, pg.rows)
      /\ pg.filters.notViewed => pg.rows.unviewed = old.rows.unviewed
  <2>1. CASE pg.filters.notViewed
    BY <1>1, <2>1 DEF Ground, SameRows
  <2>2. CASE ~pg.filters.notViewed
    <3>1. [old.rows EXCEPT !.unviewed = {}] = [pg.rows EXCEPT !.unviewed = {}]
      BY <1>1, <2>2 DEF Ground
    <3> DEFINE a == [old.rows EXCEPT !.unviewed = {}]
               b == [pg.rows EXCEPT !.unviewed = {}]
    <3>2. /\ a.home = old.rows.home /\ a.places = old.rows.places
          /\ a.done = old.rows.done /\ a.users = old.rows.users
          /\ b.home = pg.rows.home /\ b.places = pg.rows.places
          /\ b.done = pg.rows.done /\ b.users = pg.rows.users
      BY DEF IsPage, Table
    <3> QED
      BY <2>2, <3>1, <3>2 DEF SameRows
  <2> QED
    BY <2>1, <2>2
<1>3. /\ SameView(old, pg) /\ Filtered(pg) = Filtered(old)
      /\ FirstMatching(pg) = FirstMatching(old) /\ Listed(pg) = Listed(old)
  BY <1>1, <1>2, ChosenAlike
<1>4. ~(pg.filters.notViewed /\ Astray(old, pg))
  <2> SUFFICES ASSUME pg.filters.notViewed, Astray(old, pg) PROVE FALSE
    OBVIOUS
  <2>1. FirstMatching(old) = {} /\ \E p \in Filtered(pg) : Matching(pg, p) # {}
    BY <1>2 DEF Astray
  <2> QED
    BY <1>3, <2>1, SomeMatchIsFirst
<1>5. AsSaved(old, pg)
  BY <1>1, <1>2, <1>4 DEF Carried
<1>6. \A p : /\ GroupKey(old, p) = GroupKey(pg, p) /\ Collapsed(old, p) = Collapsed(pg, p)
             /\ (p \in old.expanded) = (p \in pg.expanded)
  BY <1>3, <1>5, KeysAlike DEF Collapsed, AsSaved, SameView
<1> QED
  BY <1>3, <1>6 DEF Layout

(* A view that is chosen brings back the same projects, in the same order    *)
(* and groups, open and closed (buildSavedViewPayload and applySavedView),   *)
(* over the rows that it was saved over, with the first match on the screen.  *)
THEOREM ViewsComeBack == Spec => []SavedViewRoundTrips
<1>1. Init => IInv /\ VInv
  BY InitFollows DEF Init, VInv
<1>2. IInv /\ VInv /\ [Next]_vars => IInv' /\ VInv'
  BY NextFollows, NextCarries
<1>3. IInv /\ VInv => SavedViewRoundTrips
  <2> SUFFICES ASSUME IInv, VInv, applied # Nil,
                      pictures[applied].ground = Ground(page), pictures[applied].showsMatch
               PROVE  pictures[applied].layout = Layout(page)
    BY Zenon DEF SavedViewRoundTrips
  <2>1. PICK old : /\ IsPage(old) /\ pictures[applied] = Picture(old) /\ Chosen(old, page)
                   /\ ShowsMatch(old) => Carried(old, page)
    BY DEF VInv
  <2>2. /\ pictures[applied].ground = Ground(old) /\ pictures[applied].showsMatch = ShowsMatch(old)
        /\ pictures[applied].layout = Layout(old)
    BY <2>1 DEF Picture
  <2>3. Carried(old, page) /\ Ground(old) = Ground(page)
    BY <2>1, <2>2
  <2> QED
    BY <2>1, <2>2, <2>3, CarriedShows DEF IInv
<1> QED
  BY <1>1, <1>2, <1>3, PTL DEF Spec

=============================================================================
