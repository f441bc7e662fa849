--------------------------- MODULE Workspace_proofs ---------------------------
(* Theorems about Workspace, for any projects, tasks and titles, and for any *)
(* number of requests at a time.                                             *)
EXTENDS Workspace, TLAPS, FiniteSetTheorems

-----------------------------------------------------------------------------
(* The two rollups agree on every finite set of tasks.  The worker's sums are *)
(* the cardinalities of the API's filtered lists, so a counter is positive    *)
(* when some task has the status and equals the sum when all of them do.      *)

(* The filtered lists are finite: their cardinalities are numbers.         *)
LEMMA WithFinite ==
  ASSUME NEW S, IsFiniteSet(S), NEW st, NEW A
  PROVE  IsFiniteSet(With(S, st, A)) /\ Cardinality(With(S, st, A)) \in Nat
<1>1. With(S, st, A) \subseteq S
  BY Zenon DEF With
<1> QED
  BY <1>1, FS_Subset, FS_CardinalityType

(* Adding one more status to a filter adds its counter.                    *)
LEMMA WithOneMore ==
  ASSUME NEW S, IsFiniteSet(S), NEW st, NEW A, NEW a, a \notin A
  PROVE  Cardinality(With(S, st, A \cup {a})) = Cardinality(With(S, st, A)) + Count(S, st, a)
<1> DEFINE P == With(S, st, A)
           Q == With(S, st, {a})
<1>1. With(S, st, A \cup {a}) = P \cup Q
  BY Zenon DEF With
<1>2. P \cap Q = {}
  BY Zenon DEF With
<1>3. /\ IsFiniteSet(P) /\ IsFiniteSet(Q) 
      /\ Cardinality(P) \in Nat /\ Cardinality(Q) \in Nat
  BY WithFinite
<1>4. Cardinality(P \cup Q) = Cardinality(P) + Cardinality(Q) - Cardinality(P \cap Q)
  BY <1>3, FS_Union
<1>5. Cardinality(P \cap Q) = 0
  BY <1>2, FS_EmptySet
<1>6. Cardinality(With(S, st, A \cup {a})) = Cardinality(P \cup Q)
  BY Zenon, <1>1
<1> HIDE DEF P, Q
<1>7. Cardinality(P \cup Q) = Cardinality(P) + Cardinality(Q)
  BY <1>3, <1>4, <1>5
<1> QED
  BY Zenon, <1>6, <1>7 DEF Count, P, Q

(* The worker's sums are the sizes of the API's lists.                     *)
LEMMA SumsAreSizes ==
  ASSUME NEW S, IsFiniteSet(S), NEW st, \A t \in S : st[t] \in TaskStatus
  PROVE  /\ ActionableSum(S, st) = Cardinality(With(S, st, TaskStatus \ {"done", "canceled"}))
         /\ NonCanceledSum(S, st) = Cardinality(With(S, st, TaskStatus \ {"canceled"}))
         /\ TotalSum(S, st) = Cardinality(S)
<1> DEFINE size(A) == Cardinality(With(S, st, A))
           A1 == {"not_started"}
           A2 == A1 \cup {"in_progress"}
           A3 == A2 \cup {"demo"}
           A4 == A3 \cup {"review"}
           A5 == A4 \cup {"blocked"}
           A6 == A5 \cup {"on_hold"}
           A7 == A6 \cup {"done"}
           A8 == A7 \cup {"canceled"}
<1>1. /\ size(A1) = Count(S, st, "not_started")
      /\ size(A2) = size(A1) + Count(S, st, "in_progress")
      /\ size(A3) = size(A2) + Count(S, st, "demo")
      /\ size(A4) = size(A3) + Count(S, st, "review")
      /\ size(A5) = size(A4) + Count(S, st, "blocked")
      /\ size(A6) = size(A5) + Count(S, st, "on_hold")
      /\ size(A7) = size(A6) + Count(S, st, "done")
      /\ size(A8) = size(A7) + Count(S, st, "canceled")
  <2>1. size(A1) = Count(S, st, "not_started")
    BY DEF Count
  <2>2. size(A2) = size(A1) + Count(S, st, "in_progress")
    <3>1. "in_progress" \notin A1
      OBVIOUS
    <3> QED BY <3>1, WithOneMore
  <2>3. size(A3) = size(A2) + Count(S, st, "demo")
    <3>1. "demo" \notin A2
      OBVIOUS
    <3> QED BY <3>1, WithOneMore
  <2>4. size(A4) = size(A3) + Count(S, st, "review")
    <3>1. "review" \notin A3
      OBVIOUS
    <3> QED BY <3>1, WithOneMore
  <2>5. size(A5) = size(A4) + Count(S, st, "blocked")
    <3>1. "blocked" \notin A4
      OBVIOUS
    <3> QED BY <3>1, WithOneMore
  <2>6. size(A6) = size(A5) + Count(S, st, "on_hold")
    <3>1. "on_hold" \notin A5
      OBVIOUS
    <3> QED BY <3>1, WithOneMore
  <2>7. size(A7) = size(A6) + Count(S, st, "done")
    <3>1. "done" \notin A6
      OBVIOUS
    <3> QED BY <3>1, WithOneMore
  <2>8. size(A8) = size(A7) + Count(S, st, "canceled")
    <3>1. "canceled" \notin A7
      OBVIOUS
    <3> QED BY <3>1, WithOneMore
  <2> QED
    BY <2>1, <2>2, <2>3, <2>4, <2>5, <2>6, <2>7, <2>8
<1>2. A6 = TaskStatus \ {"done", "canceled"} /\ A7 = TaskStatus \ {"canceled"} /\ A8 = TaskStatus
  BY DEF TaskStatus
<1>3. With(S, st, TaskStatus) = S
  BY Zenon DEF With
<1> HIDE DEF A1, A2, A3, A4, A5, A6, A7, A8, size
<1>4. /\ ActionableSum(S, st) = size(A6)
      /\ NonCanceledSum(S, st) = size(A7)
      /\ TotalSum(S, st) = size(A8)
  BY <1>1 DEF ActionableSum, NonCanceledSum, TotalSum
<1> QED
  BY <1>2, <1>3, <1>4 DEF size

(* Counting tells whether some task of a list has a status, and whether    *)
(* all of them have it.                                                    *)
LEMMA CountingDecides ==
  ASSUME NEW S, IsFiniteSet(S), NEW st, NEW A, NEW a \in A
  PROVE  /\ Count(S, st, a) > 0 <=> SomeIs(With(S, st, A), st, a)
         /\ (Cardinality(With(S, st, A)) > 0 /\ Count(S, st, a) = Cardinality(With(S, st, A)))
            <=> AllAre(With(S, st, A), st, a)
<1> DEFINE P == With(S, st, A)
           Q == With(S, st, {a})
<1>1. /\ IsFiniteSet(P) /\ IsFiniteSet(Q)
      /\ Cardinality(P) \in Nat /\ Cardinality(Q) \in Nat
  BY WithFinite
<1>2. Q \subseteq P
  BY Zenon DEF With
<1>3. Cardinality(P) = 0 <=> P = {}
  BY <1>1, FS_EmptySet
<1>4. Cardinality(Q) = 0 <=> Q = {}
  BY <1>1, FS_EmptySet
<1>5. Cardinality(Q) = Cardinality(P) => Q = P
  BY <1>1, <1>2, FS_Subset
<1>6. Q # {} <=> SomeIs(P, st, a)
  BY Zenon DEF SomeIs, With
<1>7. Q = P <=> \A t \in P : st[t] = a
  BY Zenon DEF With
<1> QED
  BY <1>1, <1>3, <1>4, <1>5, <1>6, <1>7 DEF Count, AllAre

(* ... and whether there is any.                                            *)
LEMMA SizeDecides ==
  ASSUME NEW S, IsFiniteSet(S), NEW st, NEW A
  PROVE  Cardinality(With(S, st, A)) > 0 <=> With(S, st, A) # {}
<1>1. IsFiniteSet(With(S, st, A)) /\ Cardinality(With(S, st, A)) \in Nat
  BY WithFinite
<1>2. Cardinality(With(S, st, A)) = 0 <=> With(S, st, A) = {}
  BY <1>1, FS_EmptySet
<1> QED
  BY <1>1, <1>2

(* The API and the import worker give a project the same status and the    *)
(* same total from the same tasks, though they compute them by different   *)
(* formulas that are kept alike by hand.                                   *)
THEOREM TheRollupsAgree ==
  ASSUME NEW S, IsFiniteSet(S), NEW st, \A t \in S : st[t] \in TaskStatus
  PROVE  RollupsAgree(S, st)
<1> DEFINE open == With(S, st, TaskStatus \ {"canceled"})
           actionable == With(S, st, TaskStatus \ {"done", "canceled"})
           is(status, sum) == sum > 0 /\ Count(S, st, status) = sum
<1>1. /\ ActionableSum(S, st) = Cardinality(actionable)
      /\ NonCanceledSum(S, st) = Cardinality(open)
      /\ TotalSum(S, st) = Cardinality(S)
  BY SumsAreSizes
<1>2. is("done", NonCanceledSum(S, st)) <=> AllAre(open, st, "done")
  <2>1. "done" \in TaskStatus \ {"canceled"}
    BY DEF TaskStatus
  <2> QED
    BY <1>1, <2>1, CountingDecides
<1>3. /\ Count(S, st, "review") > 0 <=> SomeIs(actionable, st, "review")
      /\ Count(S, st, "demo") > 0 <=> SomeIs(actionable, st, "demo")
  <2>1. {"review", "demo"} \subseteq TaskStatus \ {"done", "canceled"}
    BY DEF TaskStatus
  <2> QED
    BY <2>1, CountingDecides
<1>4. /\ is("blocked", ActionableSum(S, st)) <=> AllAre(actionable, st, "blocked")
      /\ is("on_hold", ActionableSum(S, st)) <=> AllAre(actionable, st, "on_hold")
      /\ ActionableSum(S, st) > 0 <=> actionable # {}
  <2>1. "blocked" \in TaskStatus \ {"done", "canceled"} /\ "on_hold" \in TaskStatus \ {"done", "canceled"}
    BY DEF TaskStatus
  <2>2. is("blocked", ActionableSum(S, st)) <=> AllAre(actionable, st, "blocked")
    BY <1>1, <2>1, CountingDecides
  <2>3. is("on_hold", ActionableSum(S, st)) <=> AllAre(actionable, st, "on_hold")
    BY <1>1, <2>1, CountingDecides
  <2>4. ActionableSum(S, st) > 0 <=> actionable # {}
    BY <1>1, SizeDecides
  <2> QED
    BY <2>2, <2>3, <2>4
<1>5. (ActionableSum(S, st) > 0 /\ Count(S, st, "not_started") = NonCanceledSum(S, st))
        <=> AllAre(open, st, "not_started")
  <2>1. "not_started" \in TaskStatus \ {"canceled"}
    BY DEF TaskStatus
  <2>2. is("not_started", NonCanceledSum(S, st)) <=> AllAre(open, st, "not_started")
    BY <1>1, <2>1, CountingDecides
  <2>3. NonCanceledSum(S, st) > 0 <=> open # {}
    BY <1>1, SizeDecides
  <2>4. AllAre(open, st, "not_started") => actionable # {}
    BY Zenon DEF AllAre, With, TaskStatus
  <2>5. actionable # {} => open # {}
    BY Zenon DEF With
  <2> QED
    BY <1>4, <2>2, <2>3, <2>4, <2>5
<1>6. TotalSum(S, st) = 0 => open = {} /\ actionable = {}
  <2>1. TotalSum(S, st) = 0 => S = {}
    BY <1>1, FS_EmptySet
  <2>2. S = {} => open = {} /\ actionable = {}
    BY Zenon DEF With
  <2> QED
    BY <2>1, <2>2
<1>7. WorkerStatus(S, st) = DerivedStatus(S, st)
  <2>1. CASE TotalSum(S, st) = 0
    BY <1>6, <2>1 DEF WorkerStatus, DerivedStatus, AllAre, SomeIs
  <2>2. CASE TotalSum(S, st) # 0
    <3> HIDE DEF open, actionable
    <3> QED
      BY <1>2, <1>3, <1>4, <1>5, <2>2 DEF WorkerStatus, DerivedStatus, open, actionable
  <2> QED
    BY <2>1, <2>2
<1> QED
  BY <1>1, <1>7 DEF RollupsAgree

-----------------------------------------------------------------------------
(* Derived statuses.                                                         *)

LEMMA DerivedIsAStatus ==
    ASSUME NEW S, NEW st, \A t \in S : st[t] \in Statuses
    PROVE  DerivedStatus(S, st) \in Statuses
<1>1. {"not_started", "in_progress", "done"} \subseteq Statuses
  BY WorkspaceAssumption
<1> DEFINE open == With(S, st, TaskStatus \ {"canceled"})
           actionable == With(S, st, TaskStatus \ {"done", "canceled"})
<1>2. open \subseteq S /\ actionable \subseteq S
  BY DEF With
<1> HIDE DEF open, actionable
<1>3. ASSUME NEW T, T \subseteq S, NEW x, AllAre(T, st, x) \/ SomeIs(T, st, x)
      PROVE  x \in Statuses
  BY <1>3 DEF AllAre, SomeIs
<1>4. DerivedStatus(S, st) =
        IF AllAre(open, st, "done") THEN "done"
        ELSE IF SomeIs(actionable, st, "review") THEN "review"
        ELSE IF SomeIs(actionable, st, "demo") THEN "demo"
        ELSE IF AllAre(actionable, st, "blocked") THEN "blocked"
        ELSE IF AllAre(actionable, st, "on_hold") THEN "on_hold"
        ELSE IF AllAre(open, st, "not_started") THEN "not_started"
        ELSE IF actionable # {} THEN "in_progress"
        ELSE "not_started"
  BY DEF DerivedStatus, open, actionable
<1> QED
  BY <1>1, <1>2, <1>3, <1>4

LEMMA NothingIsNotStarted ==
    ASSUME NEW st
    PROVE  DerivedStatus({}, st) = "not_started"
BY DEF DerivedStatus, With, AllAre, SomeIs

LEMMA TasksAreFinite ==
    ASSUME NEW T \in SUBSET Task
    PROVE  IsFiniteSet(T) /\ Cardinality(T) \in 0..Cardinality(Task)
<1>1. IsFiniteSet(Task) /\ IsFiniteSet(T)
  BY WorkspaceAssumption, FS_Subset
<1>2. Cardinality(T) \in Nat /\ Cardinality(Task) \in Nat
  BY <1>1, FS_CardinalityType
<1>3. Cardinality(T) <= Cardinality(Task)
  BY <1>1, FS_Subset
<1> QED
  BY <1>1, <1>2, <1>3

-----------------------------------------------------------------------------
(* What a request has read and what it has written.                          *)

Created(t) == t \in Task /\ task[t].state # "absent"

(* A request that has begun is about rows there are: tasks are never gone,   *)
(* they are at most archived.                                                *)
AskOK(r) ==
  /\ r.op = "createTask" => r.project \in Project /\ r.status \in Statuses
  /\ r.op = "archiveTasks" => \A t \in r.tasks : Created(t)
  /\ r.op = "copyTasks" =>
       /\ r.project \in Project
       /\ \A t \in DOMAIN r.seen : r.seen[t] \in TaskRow
  /\ r.op = "bulkUpdateTasks" =>
       /\ r.status \in Statuses \cup {None}
       /\ \A t \in DOMAIN r.seen : Created(t)
  /\ r.op = "updateTask" =>
       /\ Created(r.task) /\ r.seen.project \in Project
       /\ r.project \in Project /\ r.status \in Statuses
  /\ r.op = "convertTaskToProject" =>
       /\ Created(r.task) /\ r.home \in Project
       /\ r.status \in Statuses /\ r.title \in Titles
  /\ r.op = "createProject" => r.title \in Titles
  /\ r.op = "updateProject" =>
       /\ r.project \in Project /\ r.seen \in ProjectRow
       /\ r.manual \in Statuses \cup {None} /\ r.title \in Titles
  /\ r.op = "convertProjectToTask" =>
       /\ r.project \in Project /\ r.manual \in Statuses \cup {None} /\ r.display \in Statuses
  /\ r.op = "deleteProject" => r.project \in Project

(* What a request has read, as long as it is still so.                       *)
FreshAsk(r) ==
  /\ r.op \in {"createTask", "copyTasks"} => project[r.project].state = "active"
  /\ r.op = "bulkUpdateTasks" => \A t \in DOMAIN r.seen : r.seen[t] = task[t]
  /\ r.op = "updateTask" =>
       /\ r.seen = task[r.task]
       /\ r.project # task[r.task].project => project[r.project].state = "active"
  /\ r.op = "convertTaskToProject" => r.home = task[r.task].project
  /\ r.op = "updateProject" => r.seen = project[r.project]
  /\ r.op = "convertProjectToTask" => project[r.project].total = 0

Rollup == [project: Project, derived: Statuses, total: 0..Cardinality(Task), display: Statuses]

BegunRequest(asks) == [stage: {"begun"}, alone: BOOLEAN, asks: {asks}]
WrittenRequest ==
  [stage: {"written"}, alone: BOOLEAN, recalc: SUBSET Project, cleanup: SUBSET Project,
   touched: SUBSET Project, rollup: Rollup \cup {None}]

RequestOK(r) ==
  \/ r = Idle
  \/ r.stage = "begun" /\ r \in BegunRequest(r.asks) /\ AskOK(r.asks)
  \/ /\ r \in WrittenRequest
     /\ r.recalc \subseteq r.touched /\ r.cleanup \subseteq r.touched
     /\ r.rollup # None => r.rollup \in Rollup /\ r.rollup.project \in r.recalc

(* The rows a transaction writes: a task it writes is there and has a home;  *)
(* what was archived stays archived.                                         *)
RowsOK(rows) ==
  /\ DOMAIN rows \subseteq Project \cup Task
  /\ \A p \in Project \cap DOMAIN rows :
       /\ rows[p] \in ProjectRow
       /\ project[p].state = "archived" => rows[p].state = "archived"
  /\ \A t \in Task \cap DOMAIN rows :
       /\ rows[t] \in TaskRow /\ rows[t].state # "absent" /\ rows[t].project \in Project
       /\ task[t].state = "archived" => rows[t].state = "archived"

(* Only a transaction has written anything; what it has recalculated it has  *)
(* written, and it has the rows to itself.                                   *)
OwnOK ==
  \A s \in Session :
    /\ RowsOK(own[s])
    /\ request[s].stage # "written" => DOMAIN own[s] = {}
    /\ request[s].stage = "written" =>
         request[s].touched \ request[s].recalc \subseteq DOMAIN own[s]
    /\ \A u \in Session \ {s} : DOMAIN own[s] \cap DOMAIN own[u] = {}

TasksHaveHomes == \A t \in Task : Created(t) => task[t].project \in Project

RequestsOK == \A s \in Session : RequestOK(request[s])

Shape == TypeOK /\ TasksHaveHomes /\ RequestsOK /\ OwnOK

-----------------------------------------------------------------------------
(* What each step is of: a request begins, writes its rows, or goes on.      *)

Begins(s) == \E what : Begin(s, what) /\ AskOK(what) /\ FreshAsk(what)

Writes(s) ==
  \E rows, recalc, cleanup :
    /\ Write(s, rows, recalc, cleanup) /\ request[s].stage = "begun"
    /\ RowsOK(rows) /\ recalc \subseteq Project /\ cleanup \subseteq recalc

LEMMA OrType ==
    ASSUME NEW S, NEW d \in S, NEW x \in S \cup {None}
    PROVE  Or(x, d) \in S
BY DEF Or

LEMMA Constants ==
    /\ None \notin Project /\ None \notin Task /\ None \notin Statuses
    /\ Project \cap Task = {} /\ Titles \subseteq Title
    /\ {"not_started", "in_progress", "done"} \subseteq Statuses
BY WorkspaceAssumption, TitlesAssumption

LEMMA RequestsBegin ==
    ASSUME Shape, NEW s \in Session,
           \/ BeginCreateTask(s) \/ BeginArchiveTasks(s) \/ BeginCopyTasks(s)
           \/ BeginUpdateTasks(s) \/ BeginUpdateTask(s) \/ BeginConvertTask(s)
           \/ BeginCreateProject(s) \/ BeginUpdateProject(s)
           \/ BeginConvertProject(s) \/ BeginDeleteProject(s)
    PROVE  Begins(s)
<1>1. \A t \in Task : /\ task[t] \in TaskRow /\ task[t].status \in Statuses
                      /\ task[t].state = "active" => Created(t) /\ task[t].project \in Project
  BY DEF Shape, TypeOK, TasksHaveHomes, Created, TaskRow
<1>2. \A p \in Project : project[p] \in ProjectRow /\ project[p].derived \in Statuses
  BY DEF Shape, TypeOK, ProjectRow
<1> USE DEF Begins
<1>3. CASE BeginCreateTask(s)
  BY <1>3 DEF BeginCreateTask, AskOK, FreshAsk
<1>4. CASE BeginArchiveTasks(s)
  BY <1>1, <1>4 DEF BeginArchiveTasks, AskOK, FreshAsk, Active
<1>5. CASE BeginCopyTasks(s)
  BY <1>1, <1>5 DEF BeginCopyTasks, AskOK, FreshAsk, RowsOf
<1>6. CASE BeginUpdateTasks(s)
  BY <1>1, <1>6 DEF BeginUpdateTasks, AskOK, FreshAsk, Active, RowsOf
<1>7. CASE BeginUpdateTask(s)
  <2>1. PICK t \in Task, p \in Project \cup {None}, status \in Statuses \cup {None} :
          /\ task[t].state = "active"
          /\ p \notin {None, task[t].project} => project[p].state = "active"
          /\ Begin(s, [op |-> "updateTask", task |-> t, seen |-> task[t],
                       project |-> Or(p, task[t].project), status |-> Or(status, task[t].status)])
    BY <1>7 DEF BeginUpdateTask
  <2>2. Or(p, task[t].project) \in Project /\ Or(status, task[t].status) \in Statuses
    BY <1>1, <2>1, OrType
  <2>3. Or(p, task[t].project) # task[t].project =>
          project[Or(p, task[t].project)].state = "active"
    BY <2>1 DEF Or
  <2> QED
    BY <1>1, <2>1, <2>2, <2>3 DEF AskOK, FreshAsk
<1>8. CASE BeginConvertTask(s)
  <2>1. PICK t \in Task, status \in Statuses \cup {None}, title \in Titles :
          /\ task[t].state = "active"
          /\ Begin(s, [op |-> "convertTaskToProject", task |-> t, home |-> task[t].project,
                       status |-> Or(status, task[t].status), title |-> title])
    BY <1>8 DEF BeginConvertTask
  <2>2. Or(status, task[t].status) \in Statuses
    BY <1>1, <2>1, OrType
  <2> QED
    BY <1>1, <2>1, <2>2 DEF AskOK, FreshAsk
<1>9. CASE BeginCreateProject(s)
  BY <1>9 DEF BeginCreateProject, AskOK, FreshAsk
<1>10. CASE BeginUpdateProject(s)
  BY <1>2, <1>10 DEF BeginUpdateProject, AskOK, FreshAsk
<1>11. CASE BeginConvertProject(s)
  <2>1. PICK p \in Project, manual \in Statuses \cup {None} :
          /\ project[p].total = 0
          /\ Begin(s, [op |-> "convertProjectToTask", project |-> p, manual |-> manual,
                       display |-> Or(manual, project[p].derived)])
    BY <1>11 DEF BeginConvertProject
  <2>2. Or(manual, project[p].derived) \in Statuses
    BY <1>2, OrType
  <2> QED
    BY <2>1, <2>2 DEF AskOK, FreshAsk
<1>12. CASE BeginDeleteProject(s)
  BY <1>12 DEF BeginDeleteProject, AskOK, FreshAsk
<1> QED
  BY <1>3, <1>4, <1>5, <1>6, <1>7, <1>8, <1>9, <1>10, <1>11, <1>12

LEMMA NewRows ==
    /\ \A p \in Project, status \in Statuses :
         NewTask(p, status) \in TaskRow /\ NewTask(p, status).state = "active"
         /\ NewTask(p, status).project = p
    /\ \A title \in Title, manual \in Statuses \cup {None} :
         /\ NewProject(title, manual) \in ProjectRow /\ NewProject(title, manual).state = "active"
<1>1. ASSUME NEW p \in Project, NEW status \in Statuses
      PROVE  NewTask(p, status) \in TaskRow /\ NewTask(p, status).state = "active"
             /\ NewTask(p, status).project = p
  BY DEF NewTask, TaskRow, RowState
<1>2. ASSUME NEW title \in Title, NEW manual \in Statuses \cup {None}
      PROVE  /\ NewProject(title, manual) \in ProjectRow
             /\ NewProject(title, manual).state = "active"
  <2>1. Or(manual, "not_started") \in Statuses
    BY Constants, OrType
  <2>2. 0 \in 0..Cardinality(Task)
    BY TasksAreFinite
  <2> QED
    BY <2>1, <2>2, Constants DEF NewProject, ProjectRow, RowState
<1> QED
  BY <1>1, <1>2

LEMMA ProjectRowsOK ==
    ASSUME NEW p \in Project, NEW row \in ProjectRow,
           project[p].state = "archived" => row.state = "archived"
    PROVE  RowsOK(Row(p, row))
BY Constants DEF RowsOK, Row

TaskRowOK(t, row) ==
  /\ row \in TaskRow /\ row.state # "absent" /\ row.project \in Project
  /\ task[t].state = "archived" => row.state = "archived"

LEMMA TaskRowsOK ==
    ASSUME NEW T \in SUBSET Task, NEW rows, DOMAIN rows = T, \A t \in T : TaskRowOK(t, rows[t])
    PROVE  RowsOK(rows)
BY Constants DEF RowsOK, TaskRowOK

LEMMA OneTaskRowOK ==
    ASSUME NEW t \in Task, NEW row, TaskRowOK(t, row)
    PROVE  RowsOK(Row(t, row))
BY Constants DEF RowsOK, Row, TaskRowOK

LEMMA RowsOver ==
    ASSUME NEW f, NEW g, RowsOK(f), RowsOK(g)
    PROVE  RowsOK(Over(f, g))
<1> DEFINE h == Over(f, g)
<1>1. /\ DOMAIN h = DOMAIN f \cup DOMAIN g
      /\ \A x \in DOMAIN h : h[x] = IF x \in DOMAIN f THEN f[x] ELSE g[x]
  BY DEF Over
<1> HIDE DEF h
<1>2. RowsOK(h)
  BY <1>1 DEF RowsOK
<1> QED
  BY <1>2 DEF h

LEMMA RowIs ==
    ASSUME NEW id, NEW row
    PROVE  DOMAIN Row(id, row) = {id} /\ Row(id, row)[id] = row
BY DEF Row

(* The patches of a task.                                                    *)
LEMMA CreatedTask ==
    ASSUME Shape, NEW t, Created(t)
    PROVE  t \in Task /\ task[t] \in TaskRow /\ task[t].state # "absent" /\ task[t].project \in Project
BY DEF Shape, TypeOK, TasksHaveHomes, Created

LEMMA ArchivedTask ==
    ASSUME Shape, NEW t, Created(t)
    PROVE  TaskRowOK(t, [task[t] EXCEPT !.state = "archived"])
BY CreatedTask DEF TaskRowOK, TaskRow, RowState

LEMMA PatchedTask ==
    ASSUME Shape, NEW t, Created(t), NEW status \in Statuses, NEW completed \in BOOLEAN
    PROVE  TaskRowOK(t, [task[t] EXCEPT !.status = status, !.completed = completed])
BY CreatedTask DEF TaskRowOK, TaskRow

LEMMA MovedTask ==
    ASSUME Shape, NEW t, Created(t), NEW p \in Project, NEW status \in Statuses,
           NEW completed \in BOOLEAN
    PROVE  TaskRowOK(t, [task[t] EXCEPT !.project = p, !.status = status, !.completed = completed])
BY CreatedTask DEF TaskRowOK, TaskRow

LEMMA ConvertedTask ==
    ASSUME Shape, NEW t, Created(t), NEW status \in Statuses, NEW completed \in BOOLEAN
    PROVE  TaskRowOK(t, [task[t] EXCEPT !.state = "archived", !.status = status,
                                        !.completed = completed])
BY CreatedTask DEF TaskRowOK, TaskRow, RowState

LEMMA BegunOK ==
    ASSUME Shape, NEW s \in Session, NEW op, Begun(s, op)
    PROVE  /\ request[s].stage = "begun" /\ AskOK(request[s].asks) /\ request[s].asks.op = op
           /\ request[s].alone \in BOOLEAN
<1>1. RequestOK(request[s]) /\ request[s].stage = "begun" /\ request[s].asks.op = op
  BY DEF Shape, RequestsOK, Begun
<1>2. request[s] # Idle
  BY <1>1 DEF Idle
<1>3. request[s] \notin WrittenRequest
  BY <1>1 DEF WrittenRequest
<1> QED
  BY <1>1, <1>2, <1>3 DEF RequestOK, BegunRequest

LEMMA NewTaskRows ==
    ASSUME NEW t \in Task, task[t].state = "absent", NEW p \in Project, NEW status \in Statuses
    PROVE  TaskRowOK(t, NewTask(p, status))
BY NewRows DEF TaskRowOK

LEMMA TaskWrites ==
    ASSUME Shape, NEW s \in Session,
           \/ CreateTask(s) \/ ArchiveTasks(s) \/ CopyTasks(s)
           \/ UpdateTasks(s) \/ UpdateTask(s)
    PROVE  Writes(s)
<1> DEFINE r == request[s].asks
<1>1. request[s].stage = "begun" /\ AskOK(r)
  BY BegunOK DEF CreateTask, ArchiveTasks, CopyTasks, UpdateTasks, UpdateTask
<1>2. \A t \in Task : Created(t) => /\ task[t].project \in Project /\ task[t] \in TaskRow
                                    /\ task[t].completed \in BOOLEAN /\ task[t].status \in Statuses
  BY DEF Shape, TypeOK, TasksHaveHomes, TaskRow
<1>3. ASSUME NEW rows, NEW recalc, NEW cleanup, Write(s, rows, recalc, cleanup),
             RowsOK(rows), recalc \subseteq Project, cleanup \subseteq recalc
      PROVE  Writes(s)
  BY <1>1, <1>3 DEF Writes
<1>4. CASE CreateTask(s)
  <2>1. r.project \in Project /\ r.status \in Statuses
    BY <1>1, <1>4 DEF CreateTask, Begun, AskOK
  <2>2. PICK t \in FreshTask : Write(s, Row(t, NewTask(r.project, r.status)), {r.project}, {})
    BY <1>4 DEF CreateTask
  <2>3. TaskRowOK(t, NewTask(r.project, r.status)) /\ t \in Task
    BY <2>1, <2>2, NewTaskRows DEF FreshTask
  <2>4. RowsOK(Row(t, NewTask(r.project, r.status)))
    BY <2>3, OneTaskRowOK
  <2> QED
    BY <1>3, <2>1, <2>2, <2>4
<1>5. CASE ArchiveTasks(s)
  <2> DEFINE T == r.tasks
             homes == {task[t].project : t \in T}
             rows == [t \in T |-> [task[t] EXCEPT !.state = "archived"]]
  <2>1. \A t \in T : Created(t)
    BY <1>1, <1>5 DEF ArchiveTasks, Begun, AskOK
  <2>2. T \in SUBSET Task /\ homes \subseteq Project
    BY <1>2, <2>1 DEF Created
  <2>3. RowsOK(rows)
    BY <2>1, <2>2, TaskRowsOK, ArchivedTask
  <2>4. Write(s, rows, homes, homes)
    BY <1>5 DEF ArchiveTasks
  <2> QED
    BY <1>3, <2>2, <2>3, <2>4
<1>6. CASE CopyTasks(s)
  <2>1. r.project \in Project /\ \A t \in DOMAIN r.seen : r.seen[t] \in TaskRow
    BY <1>1, <1>6 DEF CopyTasks, Begun, AskOK
  <2>2. PICK source \in [FreshTask -> DOMAIN r.seen \cup {None}] :
          LET copies == {c \in FreshTask : source[c] # None}
          IN Write(s, [c \in copies |-> NewTask(r.project, r.seen[source[c]].status)], {r.project}, {})
    BY <1>6 DEF CopyTasks
  <2> DEFINE copies == {c \in FreshTask : source[c] # None}
             rows == [c \in copies |-> NewTask(r.project, r.seen[source[c]].status)]
  <2>3. copies \in SUBSET Task /\ \A c \in copies : task[c].state = "absent"
    BY DEF FreshTask
  <2>4. \A c \in copies : r.seen[source[c]].status \in Statuses
    BY <2>1 DEF TaskRow
  <2>5. \A c \in copies : TaskRowOK(c, NewTask(r.project, r.seen[source[c]].status))
    BY <2>1, <2>3, <2>4, NewTaskRows
  <2> HIDE DEF copies
  <2>6. RowsOK(rows)
    BY <2>3, <2>5, TaskRowsOK
  <2>7. Write(s, rows, {r.project}, {})
    BY <2>2 DEF copies
  <2> QED
    BY <1>3, <2>1, <2>6, <2>7
<1>7. CASE UpdateTasks(s)
  <2> DEFINE done == r.status = "done"
             newStatus(t) == r.status \notin {None, r.seen[t].status}
             newCompletion(t) == r.status # None /\ r.seen[t].completed # done
             patched(t) == [task[t] EXCEPT
               !.status = IF newStatus(t) THEN r.status ELSE @,
               !.completed = IF newCompletion(t) THEN done ELSE @]
  <2>1. r.status \in Statuses \cup {None} /\ \A t \in DOMAIN r.seen : Created(t)
    BY <1>1, <1>7 DEF UpdateTasks, Begun, AskOK
  <2>2. PICK T \in SUBSET DOMAIN r.seen :
          Write(s, [t \in T |-> patched(t)], {task[t].project : t \in T}, {})
    BY <1>7 DEF UpdateTasks
  <2>3. ASSUME NEW t \in T
        PROVE  TaskRowOK(t, patched(t)) /\ t \in Task /\ task[t].project \in Project
    <3> DEFINE status == IF newStatus(t) THEN r.status ELSE task[t].status
               completed == IF newCompletion(t) THEN done ELSE task[t].completed
    <3>1. Created(t) /\ t \in Task
      BY <2>1 DEF Created
    <3>2. status \in Statuses /\ completed \in BOOLEAN
      BY <1>2, <2>1, <3>1
    <3>3. patched(t) = [task[t] EXCEPT !.status = status, !.completed = completed]
      OBVIOUS
    <3> HIDE DEF status, completed
    <3>4. TaskRowOK(t, [task[t] EXCEPT !.status = status, !.completed = completed])
      BY <3>1, <3>2, PatchedTask
    <3> HIDE DEF patched
    <3> QED
      BY <1>2, <3>1, <3>3, <3>4
  <2> HIDE DEF patched
  <2>4. RowsOK([t \in T |-> patched(t)])
    BY <2>3, TaskRowsOK
  <2>5. {task[t].project : t \in T} \subseteq Project
    BY <2>3
  <2> QED
    BY <1>3, <2>2, <2>4, <2>5
<1>8. CASE UpdateTask(s)
  <2> DEFINE row == [task[r.task] EXCEPT !.project = r.project, !.status = r.status,
                                         !.completed = (r.status = "done")]
             moved == r.project # r.seen.project
  <2>1. Created(r.task) /\ r.seen.project \in Project /\ r.project \in Project /\ r.status \in Statuses
    BY <1>1, <1>8 DEF UpdateTask, Begun, AskOK
  <2>2. Write(s, Row(r.task, row), {r.seen.project, r.project}, IF moved THEN {r.seen.project} ELSE {})
    BY <1>8 DEF UpdateTask
  <2>3. TaskRowOK(r.task, row) /\ r.task \in Task
    BY <2>1, MovedTask DEF Created
  <2> HIDE DEF row
  <2>4. RowsOK(Row(r.task, row))
    BY <2>3, OneTaskRowOK
  <2> QED
    BY <1>3, <2>1, <2>2, <2>4
<1> QED
  BY <1>4, <1>5, <1>6, <1>7, <1>8

LEMMA ProjectPatches ==
    ASSUME Shape, NEW p \in Project
    PROVE  /\ RowsOK(Row(p, [project[p] EXCEPT !.state = "archived"]))
           /\ project[p].state = "absent" =>
                \A title \in Title, manual \in Statuses \cup {None} :
                    RowsOK(Row(p, NewProject(title, manual)))
<1>1. project[p] \in ProjectRow
  BY DEF Shape, TypeOK
<1>2. RowsOK(Row(p, [project[p] EXCEPT !.state = "archived"]))
  <2> DEFINE row == [project[p] EXCEPT !.state = "archived"]
  <2>1. row \in ProjectRow /\ row.state = "archived"
    BY <1>1 DEF ProjectRow, RowState
  <2> HIDE DEF row
  <2> QED
    BY <2>1, ProjectRowsOK DEF row
<1>3. ASSUME project[p].state = "absent", NEW title \in Title, NEW manual \in Statuses \cup {None}
      PROVE  RowsOK(Row(p, NewProject(title, manual)))
  BY <1>3, NewRows, ProjectRowsOK
<1> QED
  BY <1>2, <1>3

LEMMA ProjectWrites ==
    ASSUME Shape, NEW s \in Session,
           \/ ConvertTask(s) \/ CreateProject(s) \/ UpdateProject(s)
           \/ ConvertProject(s) \/ DeleteProject(s)
    PROVE  Writes(s)
<1> DEFINE r == request[s].asks
<1>1. request[s].stage = "begun" /\ AskOK(r)
  BY BegunOK DEF ConvertTask, CreateProject, UpdateProject, ConvertProject, DeleteProject
<1>2. \A title \in Titles : title \in Title
  BY Constants
<1>3. ASSUME NEW rows, NEW recalc, NEW cleanup, Write(s, rows, recalc, cleanup),
             RowsOK(rows), recalc \subseteq Project, cleanup \subseteq recalc
      PROVE  Writes(s)
  BY <1>1, <1>3 DEF Writes
<1>4. CASE ConvertTask(s)
  <2> DEFINE manual == ToProjectManualStatus(r.status)
             row == [task[r.task] EXCEPT !.state = "archived", !.status = r.status,
                                         !.completed = (r.status = "done")]
  <2>1. /\ Created(r.task) /\ r.task \in Task /\ r.home \in Project /\ r.status \in Statuses
        /\ r.title \in Title /\ manual \in Statuses \cup {None}
    BY <1>1, <1>2, <1>4 DEF ConvertTask, Begun, AskOK, Created, ToProjectManualStatus
  <2>2. PICK p \in FreshProject :
          Write(s, Over(Row(p, NewProject(r.title, manual)), Row(r.task, row)), {r.home}, {r.home})
    BY <1>4 DEF ConvertTask
  <2>3. RowsOK(Row(p, NewProject(r.title, manual)))
    <3> HIDE DEF manual
    <3> QED
      BY <2>1, ProjectPatches DEF FreshProject
  <2>4. TaskRowOK(r.task, row)
    BY <2>1, ConvertedTask
  <2> HIDE DEF row, manual
  <2>5. RowsOK(Row(r.task, row))
    BY <2>1, <2>4, OneTaskRowOK
  <2>6. RowsOK(Over(Row(p, NewProject(r.title, manual)), Row(r.task, row)))
    BY <2>3, <2>5, RowsOver
  <2> QED
    BY <1>3, <2>1, <2>2, <2>6
<1>5. CASE CreateProject(s)
  <2>1. r.title \in Title
    BY <1>1, <1>2, <1>5 DEF CreateProject, Begun, AskOK
  <2>2. PICK p \in FreshProject : Write(s, Row(p, NewProject(r.title, None)), {}, {})
    BY <1>5 DEF CreateProject
  <2>3. RowsOK(Row(p, NewProject(r.title, None)))
    BY <2>1, ProjectPatches DEF FreshProject
  <2> QED
    BY <1>3, <2>2, <2>3
<1>6. CASE UpdateProject(s)
  <2> DEFINE clearing == r.given /\ r.manual = None /\ r.seen.manual # None
             row == [project[r.project] EXCEPT !.title = r.title]
             overridden == [row EXCEPT !.manual = r.manual]
             new == IF ~ r.given THEN row
                    ELSE IF clearing THEN overridden
                    ELSE [overridden EXCEPT !.display = Or(r.manual, r.seen.derived)]
             recalc == IF clearing THEN {r.project} ELSE {}
  <2>1. /\ r.project \in Project /\ r.seen \in ProjectRow /\ r.manual \in Statuses \cup {None}
        /\ r.title \in Title
    BY <1>1, <1>2, <1>6 DEF UpdateProject, Begun, AskOK
  <2>2. Or(r.manual, r.seen.derived) \in Statuses
    BY <2>1, OrType DEF ProjectRow
  <2>3. project[r.project] \in ProjectRow
    BY <2>1 DEF Shape, TypeOK
  <2>4. row \in ProjectRow /\ row.state = project[r.project].state
    BY <2>1, <2>3 DEF ProjectRow
  <2> HIDE DEF row
  <2>5. overridden \in ProjectRow /\ overridden.state = project[r.project].state
    BY <2>1, <2>4 DEF ProjectRow
  <2> HIDE DEF overridden
  <2>6. /\ [overridden EXCEPT !.display = Or(r.manual, r.seen.derived)] \in ProjectRow
        /\ [overridden EXCEPT !.display = Or(r.manual, r.seen.derived)].state
             = project[r.project].state
    BY <2>2, <2>5 DEF ProjectRow
  <2>7. new \in ProjectRow /\ new.state = project[r.project].state
    BY <2>4, <2>5, <2>6
  <2>8. Write(s, Row(r.project, new), recalc, {})
    BY <1>6 DEF UpdateProject, row, overridden
  <2> HIDE DEF new
  <2>9. RowsOK(Row(r.project, new))
    BY <2>1, <2>7, ProjectRowsOK
  <2>10. recalc \subseteq Project
    BY <2>1
  <2> HIDE DEF recalc
  <2> QED
    BY <1>3, <2>8, <2>9, <2>10
<1>7. CASE ConvertProject(s)
  <2> DEFINE homes == {p \in Project \ {r.project} :
                         project[p].state = "active" /\ project[p].title # "other"}
             archived == [project[r.project] EXCEPT
               !.state = "archived", !.title = "other", !.manual = r.manual, !.display = r.display]
             rows(p, t) == Over(Row(r.project, archived), Row(t, NewTask(p, r.display)))
  <2>1. r.project \in Project /\ r.manual \in Statuses \cup {None} /\ r.display \in Statuses
    BY <1>1, <1>7 DEF ConvertProject, Begun, AskOK
  <2>2. PICK t \in FreshTask :
          \/ \E p \in homes : Write(s, rows(p, t), {p}, {})
          \/ /\ homes = {}
             /\ \E p \in FreshProject :
                  Write(s, Over(Row(p, NewProject("Unassigned", None)), rows(p, t)), {p}, {})
    BY <1>7 DEF ConvertProject
  <2>3. project[r.project] \in ProjectRow
    BY <2>1 DEF Shape, TypeOK
  <2>4. archived \in ProjectRow /\ archived.state = "archived"
    BY <2>1, <2>3 DEF ProjectRow, RowState, Title
  <2> HIDE DEF archived
  <2>5. RowsOK(Row(r.project, archived))
    BY <2>1, <2>4, ProjectRowsOK
  <2>6. ASSUME NEW p \in Project
        PROVE  RowsOK(rows(p, t))
    <3>1. TaskRowOK(t, NewTask(p, r.display)) /\ t \in Task
      BY <2>1, <2>2, NewTaskRows DEF FreshTask
    <3>2. RowsOK(Row(t, NewTask(p, r.display)))
      BY <3>1, OneTaskRowOK
    <3> QED
      BY <2>5, <3>2, RowsOver
  <2> HIDE DEF rows
  <2>7. ASSUME NEW p \in FreshProject
        PROVE  RowsOK(Over(Row(p, NewProject("Unassigned", None)), rows(p, t)))
    <3>1. RowsOK(Row(p, NewProject("Unassigned", None)))
      BY ProjectPatches DEF FreshProject, Title
    <3>2. RowsOK(rows(p, t))
      BY <2>6 DEF FreshProject
    <3> QED
      BY <3>1, <3>2, RowsOver
  <2>8. CASE \E p \in homes : Write(s, rows(p, t), {p}, {})
    BY <1>3, <2>6, <2>8
  <2>9. CASE \E p \in FreshProject :
                  Write(s, Over(Row(p, NewProject("Unassigned", None)), rows(p, t)), {p}, {})
    <3>1. PICK p \in FreshProject :
                  Write(s, Over(Row(p, NewProject("Unassigned", None)), rows(p, t)), {p}, {})
      BY <2>9
    <3>2. {p} \subseteq Project
      BY DEF FreshProject
    <3> QED
      BY <1>3, <2>7, <3>1, <3>2
  <2> QED
    BY <2>2, <2>8, <2>9
<1>8. CASE DeleteProject(s)
  <2> DEFINE p == r.project
             T == ActiveTasks(s, p)
             rows == [t \in T |-> [task[t] EXCEPT !.state = "archived"]]
  <2>1. p \in Project
    BY <1>1, <1>8 DEF DeleteProject, Begun, AskOK
  <2>2. DOMAIN own[s] = {}
    BY <1>1 DEF Shape, OwnOK
  <2>3. T \in SUBSET Task /\ \A t \in T : Created(t)
    BY <2>2 DEF ActiveTasks, TaskSeenBy, Created
  <2> HIDE DEF T
  <2>4. RowsOK(rows)
    BY <2>3, TaskRowsOK, ArchivedTask
  <2>5. RowsOK(Row(p, [project[p] EXCEPT !.state = "archived"]))
    BY <2>1, ProjectPatches
  <2>6. RowsOK(Over(Row(p, [project[p] EXCEPT !.state = "archived"]), rows))
    BY <2>4, <2>5, RowsOver
  <2>7. Write(s, Over(Row(p, [project[p] EXCEPT !.state = "archived"]), rows), {}, {})
    BY <1>8 DEF DeleteProject, T
  <2> QED
    BY <1>3, <2>6, <2>7
<1> QED
  BY <1>4, <1>5, <1>6, <1>7, <1>8

(* The steps of a transaction once its rows are written.                     *)
GoesOn(s) == ReadTasks(s) \/ WriteRollup(s) \/ Cleanup(s) \/ Commit(s) \/ Rollback(s)

LEMMA Kinds ==
    ASSUME Shape, [Next]_vars
    PROVE  UNCHANGED vars \/ \E s \in Session : Begins(s) \/ Writes(s) \/ GoesOn(s)
<1>1. ASSUME NEW s \in Session, TaskRequest(s)
      PROVE  Begins(s) \/ Writes(s)
  BY <1>1, RequestsBegin, TaskWrites, ProjectWrites DEF TaskRequest
<1>2. ASSUME NEW s \in Session, ProjectRequest(s)
      PROVE  Begins(s) \/ Writes(s)
  BY <1>2, RequestsBegin, ProjectWrites DEF ProjectRequest
<1> QED
  BY <1>1, <1>2 DEF Next, GoesOn

-----------------------------------------------------------------------------
(* Types, locks and archived rows.                                           *)

SelfOK(s) ==
  /\ RowsOK(own[s]) /\ RequestOK(request[s])
  /\ request[s].stage # "written" => DOMAIN own[s] = {}
  /\ request[s].stage = "written" =>
       request[s].touched \ request[s].recalc \subseteq DOMAIN own[s]

Tables ==
  /\ project \in [Project -> ProjectRow]
  /\ task \in [Task -> TaskRow]
  /\ TasksHaveHomes

Archived ==
  /\ \A t \in Task : task[t].state = "archived" => task'[t].state = "archived"
  /\ \A p \in Project : project[p].state = "archived" => project'[p].state = "archived"

(* The other requests: at most one of them is not alone any more.            *)
OthersGoOn(s) ==
  \A u \in Session \ {s} :
    /\ own'[u] = own[u]
    /\ \/ request'[u] = request[u]
       \/ request[u] # Idle /\ request'[u] = [request[u] EXCEPT !.alone = FALSE]

LEMMA AskKept ==
    ASSUME NEW r, AskOK(r), \A t : Created(t) => Created(t)'
    PROVE  AskOK(r)'
BY DEF AskOK

LEMMA RequestKept ==
    ASSUME NEW r, RequestOK(r), \A t : Created(t) => Created(t)'
    PROVE  RequestOK(r)'
BY AskKept DEF RequestOK

(* A request that is not alone any more is otherwise the same.               *)
LEMMA NotAlone ==
    ASSUME NEW r, RequestOK(r), r # Idle
    PROVE  LET q == [r EXCEPT !.alone = FALSE]
           IN  /\ RequestOK(q) /\ q # Idle /\ q.alone = FALSE /\ q.stage = r.stage
               /\ r.stage = "begun" => q.asks = r.asks
               /\ r.stage = "written" =>
                    /\ q.recalc = r.recalc /\ q.cleanup = r.cleanup /\ q.touched = r.touched
                    /\ q.rollup = r.rollup
<1> DEFINE q == [r EXCEPT !.alone = FALSE]
<1>1. CASE r \in BegunRequest(r.asks) /\ AskOK(r.asks)
  <2> DEFINE b == r.asks
  <2>1. r \in BegunRequest(b)
    BY <1>1
  <2> HIDE DEF b
  <2>2. /\ q \in BegunRequest(b) /\ q.stage = "begun" /\ q.alone = FALSE /\ q.asks = b
        /\ r.stage = "begun"
    BY <2>1 DEF BegunRequest
  <2> HIDE DEF q
  <2>3. q # Idle
    BY <2>2 DEF Idle
  <2> QED
    BY <1>1, <2>2, <2>3 DEF RequestOK, q, b
<1>2. CASE /\ r \in WrittenRequest
           /\ r.recalc \subseteq r.touched /\ r.cleanup \subseteq r.touched
           /\ r.rollup # None => r.rollup \in Rollup /\ r.rollup.project \in r.recalc
  <2>1. /\ q \in WrittenRequest /\ q.stage = "written" /\ q.alone = FALSE
        /\ q.recalc = r.recalc /\ q.cleanup = r.cleanup
        /\ q.touched = r.touched /\ q.rollup = r.rollup /\ r.stage = "written"
    BY <1>2 DEF WrittenRequest
  <2> HIDE DEF q
  <2>2. q # Idle
    BY <2>1 DEF Idle
  <2> QED
    BY <1>2, <2>1, <2>2 DEF RequestOK, q
<1> QED
  BY <1>1, <1>2 DEF RequestOK

LEMMA RowsKept ==
    ASSUME NEW rows, RowsOK(rows),
           \A p \in Project \cap DOMAIN rows : project'[p] = project[p],
           \A t \in Task \cap DOMAIN rows : task'[t] = task[t]
    PROVE  RowsOK(rows)'
BY DEF RowsOK

(* A step of s keeps the shape if it leaves s in order, writes no row that   *)
(* another transaction has written, and keeps the tables in order.           *)
LEMMA ShapeAround ==
    ASSUME Shape, NEW s \in Session, OthersGoOn(s), SelfOK(s)',
           DOMAIN own' = Session, DOMAIN request' = Session, overlapped' \in BOOLEAN,
           Tables', \A t : Created(t) => Created(t)',
           \A u \in Session \ {s} :
             /\ DOMAIN own'[s] \cap DOMAIN own[u] = {}
             /\ \A p \in Project \cap DOMAIN own[u] : project'[p] = project[p]
             /\ \A t \in Task \cap DOMAIN own[u] : task'[t] = task[t]
    PROVE  Shape'
<1>1. ASSUME NEW u \in Session \ {s}
      PROVE  SelfOK(u)'
  <2>1. /\ RowsOK(own[u]) /\ RequestOK(request[u])
        /\ request[u].stage # "written" => DOMAIN own[u] = {}
        /\ request[u].stage = "written" =>
             request[u].touched \ request[u].recalc \subseteq DOMAIN own[u]
    BY DEF Shape, OwnOK, RequestsOK
  <2>2. own'[u] = own[u] /\ RowsOK(own[u])'
    <3>1. own'[u] = own[u]
      BY DEF OthersGoOn
    <3>2. ASSUME NEW rows, rows = own[u]
          PROVE  RowsOK(rows)'
      BY <2>1, <3>2, RowsKept
    <3> QED
      BY <3>1, <3>2
  <2>3. ASSUME NEW r, RequestOK(r)
        PROVE  RequestOK(r)'
    BY <2>3, RequestKept
  <2>4. CASE request'[u] = request[u]
    BY <2>1, <2>2, <2>3, <2>4 DEF SelfOK
  <2>5. CASE request[u] # Idle /\ request'[u] = [request[u] EXCEPT !.alone = FALSE]
    BY <2>1, <2>2, <2>3, <2>5, NotAlone DEF SelfOK
  <2> QED
    BY <2>4, <2>5 DEF OthersGoOn
<1>2. \A u \in Session : SelfOK(u)'
  BY <1>1
<1>3. RequestsOK' /\ OwnOK'
  <2>1. \A u, v \in Session : u # v => DOMAIN own'[u] \cap DOMAIN own'[v] = {}
    BY DEF Shape, OwnOK, OthersGoOn
  <2> QED
    BY <1>2, <2>1 DEF RequestsOK, OwnOK, SelfOK
<1>4. TypeOK'
  BY <1>2 DEF TypeOK, Tables, SelfOK, RowsOK
<1> QED
  BY <1>3, <1>4 DEF Shape, Tables

LEMMA SelfInShape ==
    ASSUME Shape, NEW s \in Session
    PROVE  SelfOK(s) /\ Tables
BY DEF Shape, OwnOK, RequestsOK, SelfOK, Tables, TypeOK

LEMMA ShapeBegins ==
    ASSUME Shape, NEW s \in Session, Begins(s)
    PROVE  Shape' /\ Archived
<1>1. PICK what : Begin(s, what) /\ AskOK(what)
  BY DEF Begins
<1> DEFINE alone == \A other \in Session \ {s} : request[other] = Idle
           mine == [stage |-> "begun", alone |-> alone, asks |-> what]
<1>2. /\ request[s] = Idle /\ UNCHANGED <<project, task, own>>
      /\ DOMAIN request' = Session /\ request'[s] = mine
      /\ \A u \in Session \ {s} :
           request'[u] = IF request[u] = Idle THEN Idle ELSE [request[u] EXCEPT !.alone = FALSE]
      /\ overlapped' = (overlapped \/ ~ alone)
  BY <1>1 DEF Begin
<1>3. OthersGoOn(s)
  BY <1>2 DEF OthersGoOn
<1>4. Archived /\ \A t : Created(t) => Created(t)'
  BY <1>2 DEF Archived, Created
<1>5. Tables'
  BY <1>2, SelfInShape DEF Tables, TasksHaveHomes, Created
<1>6. AskOK(what)'
  BY <1>1, <1>4, AskKept
<1>7. SelfOK(s)'
  <2>1. /\ request'[s] \in BegunRequest(request'[s].asks)
        /\ request'[s].asks = what /\ request'[s].stage = "begun"
    BY <1>2 DEF BegunRequest
  <2>2. RequestOK(request[s])'
    BY <1>6, <2>1 DEF RequestOK, BegunRequest
  <2>3. RowsOK(own[s]) /\ DOMAIN own[s] = {}
    BY <1>2, SelfInShape DEF SelfOK, Idle
  <2>4. RowsOK(own[s])'
    BY <1>2, <2>3, RowsKept
  <2> QED
    BY <1>2, <2>1, <2>2, <2>3, <2>4 DEF SelfOK
<1>8. DOMAIN own' = Session /\ overlapped' \in BOOLEAN
  BY <1>2 DEF Shape, TypeOK
<1>9. \A u \in Session \ {s} : DOMAIN own'[s] \cap DOMAIN own[u] = {}
  BY <1>2 DEF Shape, OwnOK
<1> QED
  BY <1>2, <1>3, <1>4, <1>5, <1>7, <1>8, <1>9, ShapeAround

LEMMA ShapeWrites ==
    ASSUME Shape, NEW s \in Session, Writes(s)
    PROVE  Shape' /\ Archived
<1>1. PICK rows, recalc, cleanup :
        /\ Write(s, rows, recalc, cleanup) /\ request[s].stage = "begun"
        /\ RowsOK(rows) /\ recalc \subseteq Project /\ cleanup \subseteq recalc
  BY DEF Writes
<1> DEFINE mine == [stage |-> "written", alone |-> request[s].alone, recalc |-> recalc,
                    cleanup |-> cleanup, touched |-> recalc, rollup |-> None]
<1>2. DOMAIN own = Session /\ DOMAIN request = Session /\ overlapped \in BOOLEAN
  BY DEF Shape, TypeOK
<1>3. /\ \A id \in DOMAIN rows : Unlocked(s, id)
      /\ own' = [own EXCEPT ![s] = rows]
      /\ request' = [request EXCEPT ![s] = mine]
      /\ UNCHANGED <<project, task, overlapped>>
  BY <1>1 DEF Write
<1>4. OthersGoOn(s) /\ own'[s] = rows /\ request'[s] = mine
  BY <1>2, <1>3 DEF OthersGoOn
<1>5. Archived /\ \A t : Created(t) => Created(t)'
  BY <1>3 DEF Archived, Created
<1>6. Tables'
  BY <1>3, SelfInShape DEF Tables, TasksHaveHomes, Created
<1>7. request[s].alone \in BOOLEAN
  <2>1. RequestOK(request[s]) /\ request[s].stage = "begun"
    BY <1>1 DEF Shape, RequestsOK
  <2> QED
    BY <2>1 DEF RequestOK, BegunRequest, WrittenRequest, Idle
<1>8. SelfOK(s)'
  <2>1. /\ mine \in WrittenRequest /\ mine.recalc = recalc /\ mine.touched = recalc
        /\ mine.cleanup = cleanup /\ mine.rollup = None /\ mine.stage = "written"
    BY <1>1, <1>7 DEF WrittenRequest
  <2> HIDE DEF mine
  <2>2. RequestOK(request[s])'
    BY <1>1, <1>4, <2>1 DEF RequestOK, WrittenRequest, Rollup
  <2>3. RowsOK(rows)'
    BY <1>1, <1>3, RowsKept
  <2> QED
    BY <1>4, <2>1, <2>2, <2>3 DEF SelfOK
<1>9. \A u \in Session \ {s} : DOMAIN own'[s] \cap DOMAIN own[u] = {}
  BY <1>3, <1>4 DEF Unlocked
<1> QED
  BY <1>2, <1>3, <1>4, <1>5, <1>6, <1>8, <1>9, ShapeAround

LEMMA WrittenOK ==
    ASSUME Shape, NEW s \in Session, request[s].stage = "written"
    PROVE  /\ request[s] \in WrittenRequest
           /\ request[s].recalc \subseteq request[s].touched
           /\ request[s].cleanup \subseteq request[s].touched
           /\ request[s].rollup # None =>
                request[s].rollup \in Rollup /\ request[s].rollup.project \in request[s].recalc
           /\ request[s].touched \ request[s].recalc \subseteq DOMAIN own[s]
<1>1. RequestOK(request[s]) /\ request[s].stage = "written"
  BY DEF Shape, RequestsOK
<1>2. request[s] # Idle /\ request[s] \notin BegunRequest(request[s].asks)
  BY <1>1 DEF Idle, BegunRequest
<1> QED
  BY <1>1, <1>2 DEF RequestOK, Shape, OwnOK

LEMMA SeenRows ==
    ASSUME Shape, NEW s \in Session
    PROVE  /\ \A p \in Project :
                /\ ProjectSeenBy(s, p) \in ProjectRow
                /\ project[p].state = "archived" => ProjectSeenBy(s, p).state = "archived"
           /\ \A t \in Task :
                /\ TaskSeenBy(s, t) \in TaskRow
                /\ task[t].state = "archived" => TaskSeenBy(s, t).state = "archived"
                /\ Created(t) => TaskSeenBy(s, t).state # "absent"
                /\ TaskSeenBy(s, t).state # "absent" => TaskSeenBy(s, t).project \in Project
<1>1. RowsOK(own[s]) /\ Tables
  BY SelfInShape DEF SelfOK
<1> QED
  BY <1>1 DEF RowsOK, Tables, TasksHaveHomes, Created, ProjectSeenBy, TaskSeenBy

(* Steps that change nothing that is committed and nothing of the others.    *)
LEMMA ShapeInside ==
    ASSUME Shape, NEW s \in Session, UNCHANGED <<project, task, overlapped>>,
           DOMAIN own' = Session, DOMAIN request' = Session,
           \A u \in Session \ {s} : own'[u] = own[u] /\ request'[u] = request[u],
           \A u \in Session \ {s} : DOMAIN own'[s] \cap DOMAIN own[u] = {},
           SelfOK(s)'
    PROVE  Shape' /\ Archived
<1>1. OthersGoOn(s) /\ overlapped' \in BOOLEAN
  BY DEF OthersGoOn, Shape, TypeOK
<1>2. Archived /\ \A t : Created(t) => Created(t)'
  BY DEF Archived, Created
<1>3. Tables'
  BY SelfInShape DEF Tables, TasksHaveHomes, Created
<1> QED
  BY <1>1, <1>2, <1>3, ShapeAround

LEMMA ShapeReads ==
    ASSUME Shape, NEW s \in Session, ReadTasks(s)
    PROVE  Shape' /\ Archived
<1> DEFINE r == request[s]
<1>1. r.stage = "written" /\ r.rollup = None /\ UNCHANGED <<project, task, own, overlapped>>
  BY DEF ReadTasks
<1>2. PICK p \in r.recalc :
        LET T == ActiveTasks(s, p)
            derived == DerivedStatus(T, [t \in T |-> TaskSeenBy(s, t).status])
        IN request' = [request EXCEPT ![s].rollup =
             [project |-> p, derived |-> derived, total |-> Cardinality(T),
              display |-> Or(ProjectSeenBy(s, p).manual, derived)]]
  BY DEF ReadTasks
<1> DEFINE T == ActiveTasks(s, p)
           derived == DerivedStatus(T, [t \in T |-> TaskSeenBy(s, t).status])
           rollup == [project |-> p, derived |-> derived, total |-> Cardinality(T),
                      display |-> Or(ProjectSeenBy(s, p).manual, derived)]
<1>3. DOMAIN own = Session /\ DOMAIN request = Session
  BY DEF Shape, TypeOK
<1>4. r \in WrittenRequest /\ p \in Project
  BY <1>1, WrittenOK DEF WrittenRequest
<1>5. derived \in Statuses
  <2>1. \A t \in T : TaskSeenBy(s, t).status \in Statuses
    BY SeenRows DEF ActiveTasks, TaskRow
  <2> QED
    BY <2>1, DerivedIsAStatus
<1>6. Cardinality(T) \in 0..Cardinality(Task)
  BY TasksAreFinite DEF ActiveTasks
<1>7. Or(ProjectSeenBy(s, p).manual, derived) \in Statuses
  <2> HIDE DEF derived
  <2> QED
    BY <1>4, <1>5, SeenRows, OrType DEF ProjectRow
<1> HIDE DEF derived, T
<1>8. rollup \in Rollup /\ rollup.project = p
  BY <1>4, <1>5, <1>6, <1>7 DEF Rollup
<1>9. request' = [request EXCEPT ![s].rollup = rollup]
  BY <1>2 DEF derived, T
<1> HIDE DEF rollup
<1>10. /\ request'[s] = [r EXCEPT !.rollup = rollup] /\ DOMAIN request' = Session
       /\ \A u \in Session \ {s} : request'[u] = request[u]
  BY <1>3, <1>9
<1>11. SelfOK(s)'
  <2>1. /\ request'[s] \in WrittenRequest /\ request'[s].stage = "written"
        /\ request'[s].recalc = r.recalc /\ request'[s].cleanup = r.cleanup
        /\ request'[s].touched = r.touched /\ request'[s].rollup = rollup
    BY <1>4, <1>8, <1>10 DEF WrittenRequest
  <2>2. RequestOK(request[s])'
    BY <1>1, <1>8, <2>1, WrittenOK DEF RequestOK, WrittenRequest, Rollup
  <2>3. RowsOK(own[s])'
    BY <1>1, SelfInShape, RowsKept DEF SelfOK
  <2> QED
    BY <1>1, <2>1, <2>2, <2>3, WrittenOK DEF SelfOK
<1>12. \A u \in Session \ {s} : DOMAIN own'[s] \cap DOMAIN own[u] = {}
  BY <1>1 DEF Shape, OwnOK
<1> QED
  BY <1>1, <1>3, <1>10, <1>11, <1>12, ShapeInside

LEMMA RollupRow ==
    ASSUME NEW old \in ProjectRow, NEW rollup \in Rollup
    PROVE  LET row == [old EXCEPT !.derived = rollup.derived, !.display = rollup.display,
                                  !.total = rollup.total]
           IN  /\ row \in ProjectRow
               /\ row.state = old.state /\ row.title = old.title /\ row.manual = old.manual
               /\ row.derived = rollup.derived /\ row.display = rollup.display
               /\ row.total = rollup.total
BY DEF ProjectRow, Rollup

LEMMA ShapeWritesRollup ==
    ASSUME Shape, NEW s \in Session, WriteRollup(s)
    PROVE  Shape' /\ Archived
<1> DEFINE r == request[s]
           p == r.rollup.project
           row == [ProjectSeenBy(s, p) EXCEPT !.derived = r.rollup.derived,
                     !.display = r.rollup.display, !.total = r.rollup.total]
<1>1. /\ r.stage = "written" /\ r.rollup # None /\ Unlocked(s, p)
      /\ UNCHANGED <<project, task, overlapped>>
      /\ request' = [request EXCEPT ![s].rollup = None, ![s].recalc = @ \ {p}]
  BY DEF WriteRollup
<1>2. own' = [own EXCEPT ![s] = Over(Row(p, row), @)]
  BY DEF WriteRollup
<1>3. DOMAIN own = Session /\ DOMAIN request = Session
  BY DEF Shape, TypeOK
<1>4. r \in WrittenRequest /\ r.rollup \in Rollup /\ p \in r.recalc /\ p \in Project
  BY <1>1, WrittenOK DEF WrittenRequest
<1>5. row \in ProjectRow /\ row.state = ProjectSeenBy(s, p).state
  BY <1>4, SeenRows, RollupRow
<1> HIDE DEF row
<1>6. RowsOK(Row(p, row)) /\ RowsOK(own[s])
  BY <1>4, <1>5, SeenRows, ProjectRowsOK, SelfInShape DEF SelfOK
<1>7. RowsOK(Over(Row(p, row), own[s]))
  BY <1>6, RowsOver
<1>8. /\ own'[s] = Over(Row(p, row), own[s]) /\ DOMAIN own'[s] = {p} \cup DOMAIN own[s]
      /\ \A u \in Session \ {s} : own'[u] = own[u]
      /\ DOMAIN own' = Session
  BY <1>2, <1>3 DEF Over, Row
<1>9. /\ request'[s] = [r EXCEPT !.rollup = None, !.recalc = @ \ {p}]
      /\ \A u \in Session \ {s} : request'[u] = request[u]
      /\ DOMAIN request' = Session
  BY <1>1, <1>3
<1>10. SelfOK(s)'
  <2>1. /\ request'[s] \in WrittenRequest /\ request'[s].stage = "written"
        /\ request'[s].recalc = r.recalc \ {p} /\ request'[s].cleanup = r.cleanup
        /\ request'[s].touched = r.touched /\ request'[s].rollup = None
    BY <1>4, <1>9, ZenonT(40) DEF WrittenRequest
  <2>2. RequestOK(request[s])'
    BY <1>1, <2>1, WrittenOK DEF RequestOK, WrittenRequest, Rollup
  <2>3. RowsOK(own[s])'
    BY <1>1, <1>7, <1>8, RowsKept
  <2>4. request'[s].touched \ request'[s].recalc \subseteq DOMAIN own'[s]
    BY <1>1, <1>8, <2>1, WrittenOK
  <2> QED
    BY <2>1, <2>2, <2>3, <2>4 DEF SelfOK
<1>11. \A u \in Session \ {s} : DOMAIN own'[s] \cap DOMAIN own[u] = {}
  BY <1>1, <1>8 DEF Shape, OwnOK, Unlocked
<1> QED
  BY <1>1, <1>8, <1>9, <1>10, <1>11, ShapeInside

LEMMA ShapeCleansUp ==
    ASSUME Shape, NEW s \in Session, Cleanup(s)
    PROVE  Shape' /\ Archived
<1> DEFINE r == request[s]
<1>1. r.stage = "written" /\ r.recalc = {} /\ UNCHANGED <<project, task, overlapped>>
  BY DEF Cleanup
<1>2. PICK p \in r.cleanup :
        LET row == ProjectSeenBy(s, p)
            empty == row.state = "active" /\ row.title = "Unassigned" /\ ActiveTasks(s, p) = {}
        IN /\ own' = IF empty THEN [own EXCEPT ![s] = Over(Row(p, [row EXCEPT !.state = "archived"]), @)]
                     ELSE own
           /\ request' = [request EXCEPT ![s].cleanup = @ \ {p}]
  BY DEF Cleanup
<1> DEFINE row == [ProjectSeenBy(s, p) EXCEPT !.state = "archived"]
<1>3. DOMAIN own = Session /\ DOMAIN request = Session
  BY DEF Shape, TypeOK
<1>4. r \in WrittenRequest /\ p \in Project /\ p \in DOMAIN own[s]
  BY <1>1, WrittenOK DEF WrittenRequest
<1>5. row \in ProjectRow /\ row.state = "archived"
  BY <1>4, SeenRows DEF ProjectRow, RowState
<1> HIDE DEF row
<1>6. RowsOK(Over(Row(p, row), own[s])) /\ RowsOK(own[s])
  BY <1>4, <1>5, SeenRows, ProjectRowsOK, RowsOver, SelfInShape DEF SelfOK
<1>7. DOMAIN Over(Row(p, row), own[s]) = DOMAIN own[s]
  BY <1>4 DEF Over, Row
<1>8. own' = own \/ own' = [own EXCEPT ![s] = Over(Row(p, row), @)]
  BY <1>2 DEF row
<1>9. /\ own'[s] = own[s] \/ own'[s] = Over(Row(p, row), own[s])
      /\ \A u \in Session \ {s} : own'[u] = own[u]
      /\ DOMAIN own' = Session
  BY <1>3, <1>8
<1>10. /\ request'[s] = [r EXCEPT !.cleanup = @ \ {p}]
       /\ \A u \in Session \ {s} : request'[u] = request[u]
       /\ DOMAIN request' = Session
  BY <1>2, <1>3
<1>11. SelfOK(s)'
  <2>1. /\ request'[s] \in WrittenRequest /\ request'[s].stage = "written"
        /\ request'[s].recalc = r.recalc /\ request'[s].cleanup = r.cleanup \ {p}
        /\ request'[s].touched = r.touched /\ request'[s].rollup = r.rollup
    BY <1>4, <1>10 DEF WrittenRequest
  <2>2. RequestOK(request[s])'
    BY <1>1, <2>1, WrittenOK DEF RequestOK, WrittenRequest, Rollup
  <2>3. RowsOK(own[s])'
    BY <1>1, <1>6, <1>9, RowsKept
  <2>4. request'[s].touched \ request'[s].recalc \subseteq DOMAIN own'[s]
    BY <1>1, <1>7, <1>9, <2>1, WrittenOK
  <2> QED
    BY <2>1, <2>2, <2>3, <2>4 DEF SelfOK
<1>12. \A u \in Session \ {s} : DOMAIN own'[s] \cap DOMAIN own[u] = {}
  BY <1>7, <1>9 DEF Shape, OwnOK
<1> QED
  BY <1>1, <1>9, <1>10, <1>11, <1>12, ShapeInside

(* A transaction that ends gives its rows back.                              *)
LEMMA DoneOK ==
    ASSUME Shape, NEW s \in Session, Done(s)
    PROVE  /\ OthersGoOn(s) /\ SelfOK(s)' /\ overlapped' \in BOOLEAN
           /\ DOMAIN own' = Session /\ DOMAIN request' = Session
           /\ request'[s] = Idle /\ DOMAIN own'[s] = {}
           /\ \A u \in Session \ {s} : own'[u] = own[u] /\ request'[u] = request[u]
<1>1. DOMAIN own = Session /\ DOMAIN request = Session /\ overlapped \in BOOLEAN
  BY DEF Shape, TypeOK
<1>2. /\ own'[s] = <<>> /\ request'[s] = Idle /\ overlapped' = overlapped
      /\ DOMAIN own' = Session /\ DOMAIN request' = Session
      /\ \A u \in Session \ {s} : own'[u] = own[u] /\ request'[u] = request[u]
  BY <1>1 DEF Done
<1>3. DOMAIN <<>> = {}
  OBVIOUS
<1>4. SelfOK(s)'
  BY <1>2, <1>3 DEF SelfOK, RowsOK, RequestOK, Idle
<1> QED
  BY <1>1, <1>2, <1>3, <1>4 DEF OthersGoOn

LEMMA ShapeEnds ==
    ASSUME Shape, NEW s \in Session, Commit(s) \/ Rollback(s)
    PROVE  Shape' /\ Archived
<1>1. Done(s)
  BY DEF Commit, Rollback
<1>2. CASE Commit(s)
  <2>1. /\ project' = [p \in Project |-> ProjectSeenBy(s, p)]
        /\ task' = [t \in Task |-> TaskSeenBy(s, t)]
    BY <1>2 DEF Commit
  <2>2. Archived
    BY <2>1, SeenRows DEF Archived
  <2>3. \A t : Created(t) => Created(t)'
    BY <2>1, SeenRows DEF Created
  <2>4. Tables'
    BY <2>1, SeenRows DEF Tables, TasksHaveHomes, Created
  <2>5. ASSUME NEW u \in Session \ {s}
        PROVE  /\ DOMAIN own'[s] \cap DOMAIN own[u] = {}
               /\ \A p \in Project \cap DOMAIN own[u] : project'[p] = project[p]
               /\ \A t \in Task \cap DOMAIN own[u] : task'[t] = task[t]
    <3>1. DOMAIN own[s] \cap DOMAIN own[u] = {} /\ DOMAIN own'[s] = {}
      BY <1>1, DoneOK DEF Shape, OwnOK
    <3> QED
      BY <2>1, <3>1 DEF ProjectSeenBy, TaskSeenBy
  <2> QED
    BY <1>1, <2>2, <2>3, <2>4, <2>5, DoneOK, ShapeAround
<1>3. CASE Rollback(s)
  <2>1. UNCHANGED <<project, task, overlapped>>
    BY <1>1, <1>3 DEF Rollback, Done
  <2> QED
    BY <1>1, <2>1, DoneOK, ShapeInside
<1> QED
  BY <1>2, <1>3

LEMMA ShapeStep ==
    ASSUME Shape, [Next]_vars
    PROVE  Shape' /\ Archived
<1>1. CASE UNCHANGED vars
  BY <1>1 DEF Shape, TypeOK, TasksHaveHomes, Created, RequestsOK, RequestOK, AskOK, OwnOK, RowsOK,
              Archived, vars
<1>2. CASE \E s \in Session : Begins(s) \/ Writes(s) \/ GoesOn(s)
  BY <1>2, ShapeBegins, ShapeWrites, ShapeReads, ShapeWritesRollup, ShapeCleansUp, ShapeEnds
     DEF GoesOn
<1> QED
  BY <1>1, <1>2, Kinds

LEMMA ShapeInit ==
    ASSUME Init
    PROVE  Shape
<1>1. NoProject \in ProjectRow
  BY NewRows DEF NoProject, ProjectRow, RowState, Title
<1>2. NoTask \in TaskRow /\ NoTask.state = "absent"
  BY Constants DEF NoTask, NewTask, TaskRow, RowState
<1>3. \A s \in Session : request[s] = Idle /\ DOMAIN own[s] = {}
  BY DEF Init
<1>4. TypeOK
  BY <1>1, <1>2, <1>3 DEF Init, TypeOK
<1>5. TasksHaveHomes
  BY <1>2 DEF Init, TasksHaveHomes, Created
<1>6. RequestsOK /\ OwnOK
  BY <1>3 DEF RequestsOK, RequestOK, OwnOK, RowsOK, Idle
<1> QED
  BY <1>4, <1>5, <1>6 DEF Shape

(* The tables and what the transactions have written keep their types.       *)
THEOREM TypeCorrect == Spec => []TypeOK
<1>1. Init => Shape
  BY ShapeInit
<1>2. Shape /\ [Next]_vars => Shape'
  BY ShapeStep
<1>3. Shape => TypeOK
  BY DEF Shape
<1> QED
  BY <1>1, <1>2, <1>3, PTL DEF Spec

(* A task or a project that is archived never comes back, whatever requests  *)
(* read it before and write it afterwards, and however many run at a time.   *)
THEOREM ArchivedStays == Spec => ArchivedIsFinal
<1>1. Init => Shape
  BY ShapeInit
<1>2. Shape /\ [Next]_vars => Shape'
  BY ShapeStep
<1>3. Shape /\ [Next]_vars => [Archived]_vars
  BY ShapeStep
<1> QED
  BY <1>1, <1>2, <1>3, PTL DEF Spec, ArchivedIsFinal, Archived

-----------------------------------------------------------------------------
(* A request that runs alone, and what it sees.                              *)

AloneOK ==
  /\ \A s \in Session : request[s] # Idle /\ request[s].alone =>
       \A u \in Session \ {s} : request[u] = Idle
  /\ ~ overlapped => \A s \in Session : request[s] # Idle => request[s].alone

SeenProjects(s) == [p \in Project |-> ProjectSeenBy(s, p)]
SeenTasks(s) == [t \in Task |-> TaskSeenBy(s, t)]

(* The rollup of p in the tables P and T.                                    *)
ActiveIn(T, p) == {t \in Task : T[t].state = "active" /\ T[t].project = p}
DerivedIn(T, p) == DerivedStatus(ActiveIn(T, p), [t \in ActiveIn(T, p) |-> T[t].status])
Current(P, T, p) ==
  /\ P[p].derived = DerivedIn(T, p)
  /\ P[p].total = Cardinality(ActiveIn(T, p))
  /\ P[p].display = Or(P[p].manual, P[p].derived)

RightRollup(P, T, rollup) ==
  /\ rollup.derived = DerivedIn(T, rollup.project)
  /\ rollup.total = Cardinality(ActiveIn(T, rollup.project))
  /\ rollup.display = Or(P[rollup.project].manual, rollup.derived)

(* What a transaction has recalculated is current as it sees the rows, and   *)
(* what it is about to write is right.                                       *)
Recalculated(s) ==
  /\ \A p \in request[s].touched \ request[s].recalc :
       Current(SeenProjects(s), SeenTasks(s), p)
  /\ request[s].rollup # None =>
       RightRollup(SeenProjects(s), SeenTasks(s), request[s].rollup)

AloneIsRight ==
  \A s \in Session : request[s].stage = "written" /\ request[s].alone => Recalculated(s)

LEMMA SeenIs ==
    ASSUME NEW s \in Session
    PROVE  /\ \A p \in Project : SeenProjects(s)[p] = ProjectSeenBy(s, p)
           /\ \A t \in Task : SeenTasks(s)[t] = TaskSeenBy(s, t)
           /\ \A p : ActiveIn(SeenTasks(s), p) = ActiveTasks(s, p)
           /\ \A p : DerivedIn(SeenTasks(s), p) =
                DerivedStatus(ActiveTasks(s, p),
                              [t \in ActiveTasks(s, p) |-> TaskSeenBy(s, t).status])
<1>1. \A t \in Task : SeenTasks(s)[t] = TaskSeenBy(s, t)
  BY DEF SeenTasks
<1>2. ASSUME NEW p
      PROVE  ActiveIn(SeenTasks(s), p) = ActiveTasks(s, p)
  BY <1>1 DEF ActiveIn, ActiveTasks
<1>3. ASSUME NEW p
      PROVE  [t \in ActiveTasks(s, p) |-> SeenTasks(s)[t].status]
               = [t \in ActiveTasks(s, p) |-> TaskSeenBy(s, t).status]
  BY <1>1 DEF ActiveTasks
<1>4. ASSUME NEW p
      PROVE  DerivedIn(SeenTasks(s), p) =
               DerivedStatus(ActiveTasks(s, p),
                             [t \in ActiveTasks(s, p) |-> TaskSeenBy(s, t).status])
  BY <1>2, <1>3 DEF DerivedIn
<1> QED
  BY <1>1, <1>2, <1>4 DEF SeenProjects

(* A request that has arrived.                                               *)
LEMMA BeginIs ==
    ASSUME Shape, NEW s \in Session, NEW what, Begin(s, what)
    PROVE  /\ request[s] = Idle /\ request'[s].stage = "begun" /\ request'[s].asks = what
           /\ request'[s].alone <=> \A u \in Session \ {s} : request[u] = Idle
           /\ overlapped' <=> overlapped \/ ~ request'[s].alone
           /\ UNCHANGED <<project, task, own>>
           /\ \A u \in Session \ {s} :
                IF request[u] = Idle THEN request'[u] = Idle
                ELSE request'[u].alone = FALSE /\ request'[u] # Idle
<1> DEFINE alone == \A other \in Session \ {s} : request[other] = Idle
<1>1. /\ request[s] = Idle /\ UNCHANGED <<project, task, own>>
      /\ request'[s] = [stage |-> "begun", alone |-> alone, asks |-> what]
      /\ overlapped' = (overlapped \/ ~ alone)
      /\ \A u \in Session \ {s} :
           request'[u] = IF request[u] = Idle THEN Idle ELSE [request[u] EXCEPT !.alone = FALSE]
  BY DEF Begin
<1>2. ASSUME NEW u \in Session \ {s}, request[u] # Idle
      PROVE  request'[u].alone = FALSE /\ request'[u] # Idle
  <2>1. RequestOK(request[u]) /\ request'[u] = [request[u] EXCEPT !.alone = FALSE]
    BY <1>1, <1>2 DEF Shape, RequestsOK
  <2> QED
    BY <1>2, <2>1, NotAlone
<1>3. alone \in BOOLEAN
  OBVIOUS
<1> HIDE DEF alone
<1>4. request'[s].stage = "begun" /\ request'[s].asks = what /\ request'[s].alone = alone
  <2> DEFINE new == [stage |-> "begun", alone |-> alone, asks |-> what]
  <2>1. new.stage = "begun" /\ new.asks = what /\ new.alone = alone
    OBVIOUS
  <2>2. request'[s] = new
    BY <1>1
  <2> HIDE DEF new
  <2> QED
    BY <2>1, <2>2
<1>5. request'[s].alone <=> \A u \in Session \ {s} : request[u] = Idle
  BY <1>4 DEF alone
<1>6. overlapped' <=> overlapped \/ ~ request'[s].alone
  BY <1>1, <1>4, Zenon
<1> QED
  BY <1>1, <1>2, <1>4, <1>5, <1>6

(* A request that writes its rows.                                           *)
LEMMA WriteIs ==
    ASSUME Shape, NEW s \in Session, NEW rows, NEW recalc, NEW cleanup,
           Write(s, rows, recalc, cleanup)
    PROVE  /\ own'[s] = rows /\ request'[s].stage = "written"
           /\ request'[s].alone = request[s].alone
           /\ request'[s].recalc = recalc /\ request'[s].touched = recalc
           /\ request'[s].cleanup = cleanup /\ request'[s].rollup = None
           /\ UNCHANGED <<project, task, overlapped>>
           /\ \A u \in Session \ {s} : request'[u] = request[u]
BY DEF Write, Shape, TypeOK

(* A transaction that goes on.                                               *)
LEMMA ReadIs ==
    ASSUME Shape, NEW s \in Session, ReadTasks(s)
    PROVE  /\ request[s].stage = "written" /\ request'[s].stage = "written"
           /\ request'[s].alone = request[s].alone
           /\ request'[s].recalc = request[s].recalc /\ request'[s].touched = request[s].touched
           /\ RightRollup(SeenProjects(s), SeenTasks(s), request'[s].rollup)
           /\ UNCHANGED <<project, task, own, overlapped>>
           /\ \A u \in Session \ {s} : request'[u] = request[u]
<1> DEFINE r == request[s]
<1>1. r.stage = "written" /\ UNCHANGED <<project, task, own, overlapped>>
  BY DEF ReadTasks
<1>2. PICK p \in r.recalc :
        LET T == ActiveTasks(s, p)
            derived == DerivedStatus(T, [t \in T |-> TaskSeenBy(s, t).status])
        IN request' = [request EXCEPT ![s].rollup =
             [project |-> p, derived |-> derived, total |-> Cardinality(T),
              display |-> Or(ProjectSeenBy(s, p).manual, derived)]]
  BY DEF ReadTasks
<1>3. DOMAIN request = Session /\ r \in WrittenRequest /\ p \in Project
  BY <1>1, WrittenOK DEF Shape, TypeOK, WrittenRequest
<1> DEFINE T == ActiveTasks(s, p)
           derived == DerivedStatus(T, [t \in T |-> TaskSeenBy(s, t).status])
           rollup == [project |-> p, derived |-> derived, total |-> Cardinality(T),
                      display |-> Or(ProjectSeenBy(s, p).manual, derived)]
<1>4. request' = [request EXCEPT ![s].rollup = rollup]
  BY <1>2
<1>5. RightRollup(SeenProjects(s), SeenTasks(s), rollup)
  BY <1>3, SeenIs DEF RightRollup
<1> HIDE DEF rollup
<1>6. /\ request'[s].stage = "written" /\ request'[s].alone = r.alone
      /\ request'[s].recalc = r.recalc /\ request'[s].touched = r.touched
      /\ request'[s].rollup = rollup
      /\ \A u \in Session \ {s} : request'[u] = request[u]
  BY <1>1, <1>3, <1>4 DEF WrittenRequest
<1> QED
  BY <1>1, <1>5, <1>6

LEMMA WriteRollupIs ==
    ASSUME Shape, NEW s \in Session, WriteRollup(s)
    PROVE  LET rollup == request[s].rollup
               p == rollup.project
           IN  /\ request[s].stage = "written" /\ request'[s].stage = "written"
               /\ rollup # None /\ p \in Project
               /\ request'[s].alone = request[s].alone
               /\ request'[s].recalc = request[s].recalc \ {p}
               /\ request'[s].touched = request[s].touched /\ request'[s].rollup = None
               /\ UNCHANGED <<project, task, overlapped>>
               /\ \A u \in Session \ {s} : request'[u] = request[u]
               /\ SeenTasks(s)' = SeenTasks(s)
               /\ \A q \in Project \ {p} : SeenProjects(s)'[q] = SeenProjects(s)[q]
               /\ SeenProjects(s)'[p].state = SeenProjects(s)[p].state
               /\ SeenProjects(s)'[p].manual = SeenProjects(s)[p].manual
               /\ SeenProjects(s)'[p].derived = rollup.derived
               /\ SeenProjects(s)'[p].total = rollup.total
               /\ SeenProjects(s)'[p].display = rollup.display
<1> DEFINE r == request[s]
           p == r.rollup.project
           row == [ProjectSeenBy(s, p) EXCEPT !.derived = r.rollup.derived,
                     !.display = r.rollup.display, !.total = r.rollup.total]
<1>1. /\ r.stage = "written" /\ r.rollup # None
      /\ UNCHANGED <<project, task, overlapped>>
      /\ request' = [request EXCEPT ![s].rollup = None, ![s].recalc = @ \ {p}]
      /\ own' = [own EXCEPT ![s] = Over(Row(p, row), @)]
  BY DEF WriteRollup
<1>2. DOMAIN own = Session /\ DOMAIN request = Session
  BY DEF Shape, TypeOK
<1>3. r \in WrittenRequest /\ r.rollup \in Rollup /\ p \in Project
  BY <1>1, WrittenOK DEF WrittenRequest
<1>4. /\ request'[s].stage = "written" /\ request'[s].alone = r.alone
      /\ request'[s].recalc = r.recalc \ {p} /\ request'[s].touched = r.touched
      /\ request'[s].rollup = None
      /\ \A u \in Session \ {s} : request'[u] = request[u]
  BY <1>1, <1>2, <1>3 DEF WrittenRequest
<1>5. /\ row.state = ProjectSeenBy(s, p).state /\ row.manual = ProjectSeenBy(s, p).manual
      /\ row.derived = r.rollup.derived /\ row.display = r.rollup.display
      /\ row.total = r.rollup.total
  <2> DEFINE old == ProjectSeenBy(s, p)
  <2>1. old \in ProjectRow
    BY <1>3, SeenRows
  <2> HIDE DEF old
  <2> QED
    BY <1>3, <2>1, RollupRow DEF old
<1>6. own'[s] = Over(Row(p, row), own[s])
  BY <1>1, <1>2
<1> HIDE DEF row
<1>7. /\ DOMAIN own'[s] = {p} \cup DOMAIN own[s] /\ own'[s][p] = row
      /\ \A x \in DOMAIN own[s] \ {p} : own'[s][x] = own[s][x]
  BY <1>6 DEF Over, Row
<1>8. SeenTasks(s)' = SeenTasks(s)
  BY <1>1, <1>3, <1>7, Constants DEF SeenTasks, TaskSeenBy
<1>9. \A q \in Project : SeenProjects(s)'[q] = IF q = p THEN row ELSE SeenProjects(s)[q]
  BY <1>1, <1>7 DEF SeenProjects, ProjectSeenBy
<1>10. SeenProjects(s)[p] = ProjectSeenBy(s, p)
  BY <1>3 DEF SeenProjects
<1> QED
  BY <1>1, <1>3, <1>4, <1>5, <1>8, <1>9, <1>10

LEMMA CleanupIs ==
    ASSUME Shape, NEW s \in Session, Cleanup(s)
    PROVE  /\ request[s].stage = "written" /\ request'[s].stage = "written"
           /\ request[s].recalc = {} /\ request'[s].recalc = {}
           /\ request'[s].alone = request[s].alone
           /\ request'[s].touched = request[s].touched
           /\ request'[s].rollup = request[s].rollup
           /\ UNCHANGED <<project, task, overlapped>>
           /\ \A u \in Session \ {s} : request'[u] = request[u]
           /\ SeenTasks(s)' = SeenTasks(s)
           /\ \E p \in Project :
                /\ \A q \in Project \ {p} : SeenProjects(s)'[q] = SeenProjects(s)[q]
                /\ \/ SeenProjects(s)'[p] = SeenProjects(s)[p]
                   \/ /\ ActiveIn(SeenTasks(s), p) = {}
                      /\ SeenProjects(s)'[p].state = "archived"
                      /\ SeenProjects(s)'[p].manual = SeenProjects(s)[p].manual
                      /\ SeenProjects(s)'[p].derived = SeenProjects(s)[p].derived
                      /\ SeenProjects(s)'[p].total = SeenProjects(s)[p].total
                      /\ SeenProjects(s)'[p].display = SeenProjects(s)[p].display
<1> DEFINE r == request[s]
<1>1. r.stage = "written" /\ r.recalc = {} /\ UNCHANGED <<project, task, overlapped>>
  BY DEF Cleanup
<1>2. PICK p \in r.cleanup :
        LET row == ProjectSeenBy(s, p)
            empty == row.state = "active" /\ row.title = "Unassigned" /\ ActiveTasks(s, p) = {}
        IN /\ own' = IF empty THEN [own EXCEPT ![s] = Over(Row(p, [row EXCEPT !.state = "archived"]), @)]
                     ELSE own
           /\ request' = [request EXCEPT ![s].cleanup = @ \ {p}]
  BY DEF Cleanup
<1> DEFINE old == ProjectSeenBy(s, p)
           row == [old EXCEPT !.state = "archived"]
<1>3. DOMAIN own = Session /\ DOMAIN request = Session
  BY DEF Shape, TypeOK
<1>4. r \in WrittenRequest /\ p \in Project
  BY <1>1, WrittenOK DEF WrittenRequest
<1>5. /\ request'[s].stage = "written" /\ request'[s].alone = r.alone
      /\ request'[s].recalc = r.recalc /\ request'[s].touched = r.touched
      /\ request'[s].rollup = r.rollup
      /\ \A u \in Session \ {s} : request'[u] = request[u]
  BY <1>1, <1>2, <1>3, <1>4 DEF WrittenRequest
<1>6. SeenProjects(s)[p] = old
  BY <1>4 DEF SeenProjects
<1>7. /\ row.state = "archived" /\ row.manual = old.manual /\ row.derived = old.derived
      /\ row.total = old.total /\ row.display = old.display
  <2>1. old \in ProjectRow
    BY <1>4, SeenRows
  <2> HIDE DEF old
  <2> QED
    BY <2>1 DEF ProjectRow
<1>8. CASE own' = own
  <2>1. SeenTasks(s)' = SeenTasks(s) /\ SeenProjects(s)' = SeenProjects(s)
    BY <1>1, <1>8 DEF SeenTasks, SeenProjects, TaskSeenBy, ProjectSeenBy
  <2> QED
    BY <1>1, <1>4, <1>5, <2>1
<1>9. CASE /\ own' = [own EXCEPT ![s] = Over(Row(p, row), @)]
           /\ ActiveTasks(s, p) = {}
  <2>1. own'[s] = Over(Row(p, row), own[s])
    BY <1>3, <1>9
  <2> HIDE DEF row
  <2>2. /\ DOMAIN own'[s] = {p} \cup DOMAIN own[s] /\ own'[s][p] = row
        /\ \A x \in DOMAIN own[s] \ {p} : own'[s][x] = own[s][x]
    BY <2>1 DEF Over, Row
  <2>3. SeenTasks(s)' = SeenTasks(s)
    BY <1>1, <1>4, <2>2, Constants DEF SeenTasks, TaskSeenBy
  <2>4. \A q \in Project : SeenProjects(s)'[q] = IF q = p THEN row ELSE SeenProjects(s)[q]
    BY <1>1, <2>2 DEF SeenProjects, ProjectSeenBy
  <2>5. ActiveIn(SeenTasks(s), p) = {}
    BY <1>9, SeenIs
  <2> QED
    BY <1>1, <1>4, <1>5, <1>6, <1>7, <2>3, <2>4, <2>5
<1> QED
  BY <1>2, <1>8, <1>9

LEMMA DoneIs ==
    ASSUME Shape, NEW s \in Session, Commit(s) \/ Rollback(s)
    PROVE  /\ request[s] # Idle /\ request'[s] = Idle /\ overlapped' = overlapped
           /\ \A u \in Session \ {s} : request'[u] = request[u]
           /\ Commit(s) => /\ request[s].stage = "written" /\ request[s].recalc = {}
                           /\ project' = SeenProjects(s) /\ task' = SeenTasks(s)
           /\ Rollback(s) => UNCHANGED <<project, task>>
<1>1. Done(s)
  BY DEF Commit, Rollback
<1>2. overlapped' = overlapped
  BY <1>1 DEF Done
<1> QED
  BY <1>1, <1>2, DoneOK DEF Commit, Rollback, SeenProjects, SeenTasks, Idle

(* A request goes on as alone as it was.                                     *)
LEMMA OneGoesOn ==
    ASSUME Shape, NEW s \in Session, Writes(s) \/ GoesOn(s)
    PROVE  /\ request[s] # Idle /\ overlapped' = overlapped
           /\ request'[s] = Idle \/ request'[s].alone = request[s].alone
           /\ \A u \in Session \ {s} : request'[u] = request[u]
<1>1. CASE Writes(s)
  <2>1. PICK rows, recalc, cleanup : Write(s, rows, recalc, cleanup) /\ request[s].stage = "begun"
    BY <1>1 DEF Writes
  <2> QED
    BY <2>1, WriteIs DEF Idle
<1>2. CASE ReadTasks(s)
  BY <1>2, ReadIs DEF Idle
<1>3. CASE WriteRollup(s)
  BY <1>3, WriteRollupIs DEF Idle
<1>4. CASE Cleanup(s)
  BY <1>4, CleanupIs DEF Idle
<1>5. CASE Commit(s) \/ Rollback(s)
  BY <1>5, DoneIs
<1> QED
  BY <1>1, <1>2, <1>3, <1>4, <1>5 DEF GoesOn

LEMMA AloneStep ==
    ASSUME Shape, AloneOK, [Next]_vars
    PROVE  AloneOK'
<1>1. CASE UNCHANGED vars
  BY <1>1 DEF AloneOK, vars
<1>2. ASSUME NEW s \in Session, Begins(s)
      PROVE  AloneOK'
  <2>1. PICK what : Begin(s, what)
    BY <1>2 DEF Begins
  <2>2. /\ request'[s].alone <=> \A u \in Session \ {s} : request[u] = Idle
        /\ overlapped' <=> overlapped \/ ~ request'[s].alone
        /\ \A u \in Session \ {s} :
             IF request[u] = Idle THEN request'[u] = Idle
             ELSE request'[u].alone = FALSE /\ request'[u] # Idle
    BY <2>1, BeginIs
  <2>3. ASSUME NEW u \in Session, request'[u] # Idle, request'[u].alone,
               NEW v \in Session \ {u}
        PROVE  request'[v] = Idle
    BY <2>2, <2>3
  <2>4. ASSUME ~ overlapped', NEW u \in Session, request'[u] # Idle
        PROVE  request'[u].alone
    BY <2>2, <2>4
  <2> QED
    BY <2>3, <2>4 DEF AloneOK
<1>3. ASSUME NEW s \in Session, Writes(s) \/ GoesOn(s)
      PROVE  AloneOK'
  <2>1. /\ request[s] # Idle /\ overlapped' = overlapped
        /\ request'[s] = Idle \/ request'[s].alone = request[s].alone
        /\ \A u \in Session \ {s} : request'[u] = request[u]
    BY <1>3, OneGoesOn
  <2>2. ASSUME NEW u \in Session, request'[u] # Idle, request'[u].alone,
               NEW v \in Session \ {u}
        PROVE  request'[v] = Idle
    BY <2>1, <2>2 DEF AloneOK
  <2>3. ASSUME ~ overlapped', NEW u \in Session, request'[u] # Idle
        PROVE  request'[u].alone
    BY <2>1, <2>3 DEF AloneOK
  <2> QED
    BY <2>2, <2>3 DEF AloneOK
<1> QED
  BY <1>1, <1>2, <1>3, Kinds

LEMMA SameRollup ==
    ASSUME NEW P, NEW Q, NEW T, NEW p,
           Q[p].manual = P[p].manual, Q[p].derived = P[p].derived,
           Q[p].total = P[p].total, Q[p].display = P[p].display
    PROVE  /\ Current(Q, T, p) <=> Current(P, T, p)
           /\ \A rollup : rollup.project = p =>
                (RightRollup(Q, T, rollup) <=> RightRollup(P, T, rollup))
BY DEF Current, RightRollup

(* A right rollup that is written makes its project current.                 *)
LEMMA WrittenRollup ==
    ASSUME NEW P, NEW Q, NEW T, NEW rollup, RightRollup(P, T, rollup),
           LET p == rollup.project
           IN  /\ Q[p].manual = P[p].manual /\ Q[p].derived = rollup.derived
               /\ Q[p].total = rollup.total /\ Q[p].display = rollup.display
    PROVE  Current(Q, T, rollup.project)
BY DEF Current, RightRollup

LEMMA RecalculatedStep ==
    ASSUME Shape, AloneOK, AloneIsRight, [Next]_vars
    PROVE  AloneIsRight'
<1>1. CASE UNCHANGED vars
  BY <1>1 DEF AloneIsRight, Recalculated, SeenProjects, SeenTasks, ProjectSeenBy, TaskSeenBy, vars
<1>2. SUFFICES ASSUME NEW s \in Session, Begins(s) \/ Writes(s) \/ GoesOn(s),
                      NEW u \in Session, request'[u].stage = "written", request'[u].alone
               PROVE  Recalculated(u)'
  BY <1>1, Kinds DEF AloneIsRight
<1>3. CASE Begins(s)
  <2>1. PICK what : Begin(s, what)
    BY <1>3 DEF Begins
  <2>2. /\ request'[s].stage = "begun"
        /\ u # s => IF request[u] = Idle THEN request'[u] = Idle ELSE request'[u].alone = FALSE
    BY <2>1, BeginIs
  <2> QED
    BY <1>2, <2>2 DEF Idle
<1>4. CASE u # s /\ (Writes(s) \/ GoesOn(s))
  BY <1>2, <1>4, OneGoesOn DEF AloneOK, Idle
<1>5. CASE u = s /\ Writes(s)
  <2>1. PICK rows, recalc, cleanup : Write(s, rows, recalc, cleanup)
    BY <1>5 DEF Writes
  <2> QED
    BY <1>5, <2>1, WriteIs DEF Recalculated
<1> DEFINE P == SeenProjects(s)
           T == SeenTasks(s)
           r == request[s]
<1>6. CASE u = s /\ ReadTasks(s)
  <2>1. Recalculated(s)
    BY <1>2, <1>6, ReadIs DEF AloneIsRight
  <2>2. SeenTasks(s)' = T /\ SeenProjects(s)' = P
    BY <1>6, ReadIs DEF SeenTasks, SeenProjects, TaskSeenBy, ProjectSeenBy
  <2>3. \A p \in (r.touched \ r.recalc)' : Current(P', T', p)
    BY <1>6, <2>1, <2>2, ReadIs DEF Recalculated
  <2>4. RightRollup(P', T', r.rollup')
    BY <1>6, <2>2, ReadIs
  <2> QED
    BY <1>6, <2>3, <2>4 DEF Recalculated
<1>7. CASE u = s /\ WriteRollup(s)
  <2> DEFINE p == r.rollup.project
  <2>1. Recalculated(s)
    BY <1>2, <1>7, WriteRollupIs DEF AloneIsRight
  <2>2. /\ r.rollup # None /\ p \in Project /\ r.recalc' = r.recalc \ {p}
        /\ r.touched' = r.touched /\ r.rollup' = None /\ T' = T
        /\ \A q \in Project \ {p} : P'[q] = P[q]
        /\ P'[p].manual = P[p].manual /\ P'[p].derived = r.rollup.derived
        /\ P'[p].total = r.rollup.total /\ P'[p].display = r.rollup.display
    BY <1>7, WriteRollupIs
  <2>3. Current(P', T, p)
    BY <2>1, <2>2, WrittenRollup DEF Recalculated
  <2>4. r.touched \subseteq Project
    BY <1>7, WriteRollupIs, WrittenOK DEF WrittenRequest
  <2>5. ASSUME NEW q \in r.touched \ r.recalc, q # p
        PROVE  Current(P', T, q)
    BY <2>1, <2>2, <2>4, <2>5, SameRollup DEF Recalculated
  <2> HIDE DEF P, T
  <2>6. \A q \in (r.touched \ r.recalc)' : Current(P', T', q)
    BY <2>2, <2>3, <2>5
  <2> QED
    BY <1>7, <2>2, <2>6 DEF Recalculated, P, T
<1>8. CASE u = s /\ Cleanup(s)
  <2>1. Recalculated(s)
    BY <1>2, <1>8, CleanupIs DEF AloneIsRight
  <2>2. /\ r.recalc' = r.recalc /\ r.touched' = r.touched /\ r.rollup' = r.rollup /\ T' = T
        /\ r.stage = "written" /\ r.recalc = {}
    BY <1>8, CleanupIs
  <2>3. \A q \in Project : /\ P'[q].manual = P[q].manual /\ P'[q].derived = P[q].derived
                           /\ P'[q].total = P[q].total /\ P'[q].display = P[q].display
    BY <1>8, CleanupIs
  <2>4. r.touched \subseteq Project /\ r.rollup = None
    BY <2>2, WrittenOK DEF WrittenRequest
  <2>5. \A q \in r.touched \ r.recalc : Current(P', T, q)
    BY <2>1, <2>3, <2>4, SameRollup DEF Recalculated
  <2> HIDE DEF P, T
  <2>6. \A q \in (r.touched \ r.recalc)' : Current(P', T', q)
    BY <2>2, <2>5
  <2> QED
    BY <1>8, <2>2, <2>4, <2>6 DEF Recalculated, P, T
<1>9. CASE Commit(s) \/ Rollback(s)
  BY <1>2, <1>4, <1>9, DoneIs DEF Idle, GoesOn
<1> QED
  BY <1>2, <1>3, <1>4, <1>5, <1>6, <1>7, <1>8, <1>9 DEF GoesOn

LEMMA SoloCommit ==
    ASSUME Shape, AloneIsRight, NEW s \in Session, Commit(s), request[s].alone
    PROVE  \A p \in request[s].touched : RollupCurrent(p)'
<1>1. /\ request[s].stage = "written" /\ request[s].recalc = {}
      /\ project' = SeenProjects(s) /\ task' = SeenTasks(s)
  BY DoneIs
<1>2. \A p \in request[s].touched : Current(project', task', p)
  BY <1>1 DEF AloneIsRight, Recalculated
<1> QED
  BY <1>2 DEF RollupCurrent, TasksOf, StatusOf, Current, DerivedIn, ActiveIn

Solo == Shape /\ AloneOK /\ AloneIsRight

LEMMA SoloInit ==
    ASSUME Init
    PROVE  Solo
<1>1. \A s \in Session : request[s] = Idle
  BY DEF Init
<1> QED
  BY <1>1, ShapeInit DEF Solo, AloneOK, AloneIsRight, Idle

LEMMA SoloStep ==
    ASSUME Solo, [Next]_vars
    PROVE  Solo' /\ \A s \in Session : Commit(s) /\ request[s].alone =>
             \A p \in request[s].touched : RollupCurrent(p)'
<1>1. Solo'
  BY ShapeStep, AloneStep, RecalculatedStep DEF Solo
<1> QED
  BY <1>1, SoloCommit DEF Solo

(* Whatever requests that ran at the same time have left behind, a request   *)
(* that runs alone leaves the rollup of every project it recalculates right. *)
THEOREM SoloRepairs == Spec => SoloRequestsRepairRollups
<1>1. Init => Solo
  BY SoloInit
<1>2. Solo /\ [Next]_vars => Solo'
  BY SoloStep
<1>3. Solo /\ [Next]_vars =>
        [\A s \in Session : Commit(s) /\ request[s].alone =>
           \A p \in request[s].touched : RollupCurrent(p)']_vars
  BY SoloStep
<1> QED
  BY <1>1, <1>2, <1>3, PTL DEF Spec, SoloRequestsRepairRollups

-----------------------------------------------------------------------------
(* Requests one after the other.  The tables P and T are sound but for the   *)
(* projects a transaction has yet to recalculate.                            *)

Sound(P, T, owed) ==
  /\ \A p \in Project \ owed : P[p].state = "active" => Current(P, T, p)
  /\ \A t \in Task : T[t].state = "active" => P[T[t].project].state = "active"
  /\ \A t \in Task : T[t].completed <=> T[t].status = "done"

AfterP(rows) == [p \in Project |-> IF p \in DOMAIN rows THEN rows[p] ELSE project[p]]
AfterT(rows) == [t \in Task |-> IF t \in DOMAIN rows THEN rows[t] ELSE task[t]]

(* Rows that keep them sound: the projects that gain or lose a task are      *)
(* recalculated or archived, and none is archived with a task left in it.    *)
Keeps(rows, recalc) ==
  /\ \A t \in Task \cap DOMAIN rows :
       /\ rows[t].completed <=> rows[t].status = "done"
       /\ rows[t].state = "active" =>
            rows[t].project \in recalc /\ AfterP(rows)[rows[t].project].state = "active"
       /\ task[t].state = "active" =>
            task[t].project \in recalc \/ AfterP(rows)[task[t].project].state # "active"
  /\ \A p \in Project \cap DOMAIN rows :
       /\ rows[p].state = "active" =>
            p \in recalc \/ Current(AfterP(rows), AfterT(rows), p)
       /\ project[p].state = "active" /\ rows[p].state # "active" =>
            \A t \in Task : task[t].state = "active" /\ task[t].project = p => t \in DOMAIN rows

LEMMA SameTasks ==
    ASSUME NEW P, NEW Q, NEW T, NEW U, NEW p, Q[p] = P[p],
           \A t \in Task : (t \in ActiveIn(T, p) \/ t \in ActiveIn(U, p)) => U[t] = T[t]
    PROVE  Current(P, T, p) <=> Current(Q, U, p)
<1>1. ActiveIn(T, p) = ActiveIn(U, p)
  BY DEF ActiveIn
<1>2. [t \in ActiveIn(T, p) |-> T[t].status] = [t \in ActiveIn(U, p) |-> U[t].status]
  <2>1. \A t \in ActiveIn(T, p) : U[t] = T[t]
    BY DEF ActiveIn
  <2> QED
    BY <1>1, <2>1
<1> QED
  BY <1>1, <1>2 DEF Current, DerivedIn

LEMMA KeptSound ==
    ASSUME Shape, Sound(project, task, {}), NEW rows, NEW recalc \in SUBSET Project,
           Keeps(rows, recalc)
    PROVE  Sound(AfterP(rows), AfterT(rows), recalc)
<1> DEFINE Q == AfterP(rows)
           U == AfterT(rows)
<1>1. /\ \A p \in Project : Q[p] = IF p \in DOMAIN rows THEN rows[p] ELSE project[p]
      /\ \A t \in Task : U[t] = IF t \in DOMAIN rows THEN rows[t] ELSE task[t]
  BY DEF AfterP, AfterT
<1> HIDE DEF Q, U
<1>2. /\ \A t \in Task \cap DOMAIN rows :
           /\ rows[t].completed <=> rows[t].status = "done"
           /\ rows[t].state = "active" =>
                rows[t].project \in recalc /\ Q[rows[t].project].state = "active"
           /\ task[t].state = "active" =>
                task[t].project \in recalc \/ Q[task[t].project].state # "active"
      /\ \A p \in Project \cap DOMAIN rows :
           /\ rows[p].state = "active" => p \in recalc \/ Current(Q, U, p)
           /\ project[p].state = "active" /\ rows[p].state # "active" =>
                \A t \in Task : task[t].state = "active" /\ task[t].project = p => t \in DOMAIN rows
  BY DEF Keeps, Q, U
<1>3. ASSUME NEW p \in Project \ recalc, Q[p].state = "active"
      PROVE  Current(Q, U, p)
  <2>1. CASE p \in DOMAIN rows
    BY <1>1, <1>2, <1>3, <2>1
  <2>2. CASE p \notin DOMAIN rows
    <3>1. Q[p] = project[p] /\ Current(project, task, p)
      BY <1>1, <1>3, <2>2 DEF Sound
    <3>2. ASSUME NEW t \in Task, t \in ActiveIn(task, p) \/ t \in ActiveIn(U, p)
          PROVE  U[t] = task[t]
      <4>1. t \notin DOMAIN rows
        BY <1>1, <1>2, <1>3, <3>2 DEF ActiveIn
      <4> QED
        BY <1>1, <4>1
    <3> QED
      BY <3>1, <3>2, SameTasks
  <2> QED
    BY <2>1, <2>2
<1>4. ASSUME NEW t \in Task, U[t].state = "active"
      PROVE  Q[U[t].project].state = "active"
  <2>1. CASE t \in DOMAIN rows
    BY <1>1, <1>2, <1>4, <2>1
  <2>2. CASE t \notin DOMAIN rows
    <3>1. /\ U[t] = task[t] /\ project[task[t].project].state = "active"
          /\ task[t].project \in Project
      BY <1>1, <1>4, <2>2 DEF Sound, Shape, TasksHaveHomes, Created
    <3> QED
      BY <1>1, <1>2, <1>4, <2>2, <3>1
  <2> QED
    BY <2>1, <2>2
<1>5. \A t \in Task : U[t].completed <=> U[t].status = "done"
  BY <1>1, <1>2 DEF Sound
<1> QED
  BY <1>3, <1>4, <1>5 DEF Sound, Q, U

(* Rows of tasks only.                                                       *)
LEMMA TaskRowsKeep ==
    ASSUME NEW T \in SUBSET Task, NEW rows, DOMAIN rows = T, NEW recalc,
           \A t \in T :
             /\ rows[t].completed <=> rows[t].status = "done"
             /\ rows[t].state = "active" =>
                  /\ rows[t].project \in recalc /\ rows[t].project \in Project
                  /\ project[rows[t].project].state = "active"
             /\ task[t].state = "active" => task[t].project \in recalc
    PROVE  Keeps(rows, recalc)
<1>1. Project \cap DOMAIN rows = {}
  BY Constants
<1>2. \A p \in Project : AfterP(rows)[p] = project[p]
  BY <1>1 DEF AfterP
<1> QED
  BY <1>1, <1>2 DEF Keeps

(* A new project has no task yet.                                            *)
LEMMA NewProjectIsCurrent ==
    ASSUME NEW P, NEW T, NEW p, NEW title, NEW manual,
           P[p] = NewProject(title, manual), ActiveIn(T, p) = {}
    PROVE  Current(P, T, p)
<1>1. DerivedIn(T, p) = "not_started"
  BY NothingIsNotStarted DEF DerivedIn
<1>2. Cardinality({}) = 0
  BY FS_EmptySet
<1> QED
  BY <1>1, <1>2 DEF Current, NewProject

(* The writes of the requests keep the tables sound.                         *)
KeepsSound(s) ==
  \E rows, recalc, cleanup :
    /\ Write(s, rows, recalc, cleanup) /\ recalc \in SUBSET Project
    /\ Keeps(rows, recalc)

LEMMA HomesAreActive ==
    ASSUME Shape, Sound(project, task, {}), NEW t \in Task, task[t].state = "active"
    PROVE  task[t].project \in Project /\ project[task[t].project].state = "active"
BY DEF Shape, TasksHaveHomes, Created, Sound

LEMMA NewTaskFields ==
    ASSUME NEW p, NEW status
    PROVE  /\ NewTask(p, status).state = "active" /\ NewTask(p, status).project = p
           /\ NewTask(p, status).completed <=> NewTask(p, status).status = "done"
BY DEF NewTask

LEMMA TaskWritesSound ==
    ASSUME Shape, Sound(project, task, {}), NEW s \in Session, FreshAsk(request[s].asks),
           \/ CreateTask(s) \/ ArchiveTasks(s) \/ CopyTasks(s)
           \/ UpdateTasks(s) \/ UpdateTask(s)
    PROVE  KeepsSound(s)
<1> DEFINE r == request[s].asks
<1>1. AskOK(r)
  BY BegunOK DEF CreateTask, ArchiveTasks, CopyTasks, UpdateTasks, UpdateTask
<1>2. \A t \in Task : /\ task[t] \in TaskRow
                      /\ task[t].completed <=> task[t].status = "done"
                      /\ Created(t) => task[t].project \in Project
  BY DEF Shape, TypeOK, TasksHaveHomes, Sound
<1>3. ASSUME NEW rows, NEW recalc, NEW cleanup, Write(s, rows, recalc, cleanup),
             recalc \subseteq Project, Keeps(rows, recalc)
      PROVE  KeepsSound(s)
  BY <1>3 DEF KeepsSound
<1>4. CASE CreateTask(s)
  <2>1. r.project \in Project /\ project[r.project].state = "active"
    BY <1>1, <1>4 DEF CreateTask, Begun, AskOK, FreshAsk
  <2>2. PICK t \in FreshTask : Write(s, Row(t, NewTask(r.project, r.status)), {r.project}, {})
    BY <1>4 DEF CreateTask
  <2> DEFINE rows == Row(t, NewTask(r.project, r.status))
  <2>3. DOMAIN rows = {t} /\ rows[t] = NewTask(r.project, r.status)
    BY RowIs
  <2>4. t \in Task /\ task[t].state = "absent"
    BY <2>2 DEF FreshTask
  <2> HIDE DEF rows
  <2>5. Keeps(rows, {r.project})
    BY <2>1, <2>3, <2>4, NewTaskFields, TaskRowsKeep
  <2> QED
    BY <1>3, <2>1, <2>2, <2>5 DEF rows
<1>5. CASE ArchiveTasks(s)
  <2> DEFINE T == r.tasks
             homes == {task[t].project : t \in T}
             rows == [t \in T |-> [task[t] EXCEPT !.state = "archived"]]
  <2>1. \A t \in T : t \in Task /\ Created(t)
    BY <1>1, <1>5 DEF ArchiveTasks, Begun, AskOK, Created
  <2>2. T \in SUBSET Task /\ homes \subseteq Project
    BY <1>2, <2>1
  <2>3. ASSUME NEW t \in T
        PROVE  /\ rows[t].completed <=> rows[t].status = "done"
               /\ rows[t].state = "archived" /\ task[t].project \in homes
    BY <1>2, <2>1 DEF TaskRow
  <2>4. DOMAIN rows = T
    OBVIOUS
  <2>5. Write(s, rows, homes, homes)
    BY <1>5 DEF ArchiveTasks
  <2> HIDE DEF rows, homes, T
  <2>6. Keeps(rows, homes)
    BY <2>2, <2>3, <2>4, TaskRowsKeep
  <2> QED
    BY <1>3, <2>2, <2>5, <2>6
<1>6. CASE CopyTasks(s)
  <2>1. r.project \in Project /\ project[r.project].state = "active"
    BY <1>1, <1>6 DEF CopyTasks, Begun, AskOK, FreshAsk
  <2>2. PICK source \in [FreshTask -> DOMAIN r.seen \cup {None}] :
          LET copies == {c \in FreshTask : source[c] # None}
          IN Write(s, [c \in copies |-> NewTask(r.project, r.seen[source[c]].status)], {r.project}, {})
    BY <1>6 DEF CopyTasks
  <2> DEFINE copies == {c \in FreshTask : source[c] # None}
             rows == [c \in copies |-> NewTask(r.project, r.seen[source[c]].status)]
  <2>3. Write(s, rows, {r.project}, {})
    BY <2>2
  <2>4. \A t \in copies : /\ rows[t].completed <=> rows[t].status = "done"
                          /\ rows[t].project = r.project
    BY ONLY NewTaskFields
  <2>5. DOMAIN rows = copies
    OBVIOUS
  <2>6. copies \in SUBSET Task /\ \A t \in copies : task[t].state = "absent"
    BY DEF FreshTask
  <2> HIDE DEF rows, copies
  <2> DEFINE recalc == {r.project}
  <2>7. \A t \in copies :
          /\ rows[t].completed <=> rows[t].status = "done"
          /\ rows[t].project \in recalc /\ rows[t].project \in Project
          /\ project[rows[t].project].state = "active"
          /\ task[t].state # "active"
    BY <2>1, <2>4, <2>6
  <2> HIDE DEF recalc
  <2>8. Keeps(rows, recalc)
    BY <2>5, <2>6, <2>7, TaskRowsKeep
  <2> QED
    BY <1>3, <2>1, <2>3, <2>8 DEF recalc
<1>7. CASE UpdateTasks(s)
  <2> DEFINE done == r.status = "done"
             newStatus(t) == r.status \notin {None, r.seen[t].status}
             newCompletion(t) == r.status # None /\ r.seen[t].completed # done
             patched(t) == [task[t] EXCEPT
               !.status = IF newStatus(t) THEN r.status ELSE @,
               !.completed = IF newCompletion(t) THEN done ELSE @]
  <2>1. \A t \in DOMAIN r.seen : t \in Task /\ Created(t) /\ r.seen[t] = task[t]
    BY <1>1, <1>7 DEF UpdateTasks, Begun, AskOK, FreshAsk, Created
  <2>2. PICK T \in SUBSET DOMAIN r.seen :
          Write(s, [t \in T |-> patched(t)], {task[t].project : t \in T}, {})
    BY <1>7 DEF UpdateTasks
  <2> DEFINE homes == {task[t].project : t \in T}
             rows == [t \in T |-> patched(t)]
  <2>3. T \in SUBSET Task /\ homes \subseteq Project
    BY <1>2, <2>1
  <2>4. ASSUME NEW t \in T
        PROVE  /\ rows[t].completed <=> rows[t].status = "done"
               /\ rows[t].state = task[t].state /\ rows[t].project = task[t].project
    <3>1. rows[t] = patched(t) /\ task[t] \in TaskRow /\ r.seen[t] = task[t]
      BY <1>2, <2>1
    <3> DEFINE status == IF newStatus(t) THEN r.status ELSE task[t].status
               completed == IF newCompletion(t) THEN done ELSE task[t].completed
    <3>2. patched(t).status = status /\ patched(t).completed = completed
          /\ patched(t).state = task[t].state /\ patched(t).project = task[t].project
      BY <3>1 DEF TaskRow
    <3> HIDE DEF patched
    <3>3. CASE r.status = None
      BY <1>2, <2>1, <3>1, <3>2, <3>3
    <3>4. CASE r.status # None
      <4>1. status = r.status
        BY <3>1, <3>4
      <4>2. completed <=> done
        BY <3>1, <3>4 DEF TaskRow
      <4> HIDE DEF status, completed
      <4> QED
        BY <3>1, <3>2, <4>1, <4>2
    <3> QED
      BY <3>3, <3>4
  <2>5. DOMAIN rows = T /\ \A t \in T : task[t].project \in homes
    OBVIOUS
  <2> HIDE DEF patched, homes, rows
  <2>6. \A t \in T : rows[t].state = "active" =>
          /\ rows[t].project \in homes /\ rows[t].project \in Project
          /\ project[rows[t].project].state = "active"
    BY <2>3, <2>4, <2>5, HomesAreActive
  <2>7. Keeps(rows, homes)
    BY <2>3, <2>4, <2>5, <2>6, TaskRowsKeep
  <2> QED
    BY <1>3, <2>2, <2>3, <2>7 DEF homes, rows
<1>8. CASE UpdateTask(s)
  <2> DEFINE t == r.task
             row == [task[t] EXCEPT !.project = r.project, !.status = r.status,
                                    !.completed = (r.status = "done")]
             moved == r.project # r.seen.project
             recalc == {r.seen.project, r.project}
             rows == Row(t, row)
  <2>1. /\ t \in Task /\ Created(t) /\ r.project \in Project /\ r.seen = task[t]
        /\ r.seen.project \in Project
        /\ r.project # task[t].project => project[r.project].state = "active"
    BY <1>1, <1>8 DEF UpdateTask, Begun, AskOK, FreshAsk, Created
  <2>2. Write(s, rows, recalc, IF moved THEN {r.seen.project} ELSE {})
    BY <1>8 DEF UpdateTask
  <2>3. /\ row.state = task[t].state /\ row.project = r.project
        /\ row.completed <=> row.status = "done"
    BY <1>2, <2>1 DEF TaskRow
  <2> HIDE DEF row
  <2>4. DOMAIN rows = {t} /\ rows[t] = row
    BY RowIs
  <2>5. row.state = "active" => project[r.project].state = "active"
    BY <2>1, <2>3, HomesAreActive
  <2>6. {t} \in SUBSET Task /\ recalc \subseteq Project /\ task[t].project \in recalc
        /\ r.project \in recalc
    BY <2>1
  <2> HIDE DEF rows, recalc, t
  <2>7. Keeps(rows, recalc)
    BY <2>1, <2>3, <2>4, <2>5, <2>6, TaskRowsKeep
  <2> QED
    BY <1>3, <2>2, <2>6, <2>7
<1> QED
  BY <1>4, <1>5, <1>6, <1>7, <1>8

LEMMA NoTaskYet ==
    ASSUME Shape, Sound(project, task, {}), NEW p \in Project, project[p].state # "active",
           NEW rows,
           \A t \in Task \cap DOMAIN rows : rows[t].state = "active" => rows[t].project # p
    PROVE  ActiveIn(AfterT(rows), p) = {}
<1>1. ASSUME NEW t \in Task, AfterT(rows)[t].state = "active", AfterT(rows)[t].project = p
      PROVE  FALSE
  <2>1. AfterT(rows)[t] = IF t \in DOMAIN rows THEN rows[t] ELSE task[t]
    BY DEF AfterT
  <2> QED
    BY <1>1, <2>1, HomesAreActive
<1> QED
  BY <1>1 DEF ActiveIn

LEMMA NewProjectFields ==
    ASSUME NEW title, NEW manual
    PROVE  NewProject(title, manual).state = "active"
BY DEF NewProject

LEMMA SoundProjects ==
    ASSUME Shape, Sound(project, task, {}), NEW p \in Project, project[p].state = "active"
    PROVE  Current(project, task, p)
BY DEF Sound

LEMMA ProjectWritesSound ==
    ASSUME Shape, Sound(project, task, {}), NEW s \in Session, FreshAsk(request[s].asks),
           \/ ConvertTask(s) \/ CreateProject(s) \/ UpdateProject(s)
           \/ ConvertProject(s) \/ DeleteProject(s)
    PROVE  KeepsSound(s)
<1> DEFINE r == request[s].asks
<1>1. request[s].stage = "begun" /\ AskOK(r)
  BY BegunOK DEF ConvertTask, CreateProject, UpdateProject, ConvertProject, DeleteProject
<1>2. \A t \in Task : /\ task[t] \in TaskRow
                      /\ task[t].completed <=> task[t].status = "done"
                      /\ Created(t) => task[t].project \in Project
  BY DEF Shape, TypeOK, TasksHaveHomes, Sound
<1>3. ASSUME NEW rows, NEW recalc, NEW cleanup, Write(s, rows, recalc, cleanup),
             recalc \subseteq Project, Keeps(rows, recalc)
      PROVE  KeepsSound(s)
  BY <1>3 DEF KeepsSound
<1>4. CASE ConvertTask(s)
  <2> DEFINE manual == ToProjectManualStatus(r.status)
             t == r.task
             row == [task[t] EXCEPT !.state = "archived", !.status = r.status,
                                    !.completed = (r.status = "done")]
  <2>1. t \in Task /\ r.home \in Project /\ r.home = task[t].project
    BY <1>1, <1>4 DEF ConvertTask, Begun, AskOK, FreshAsk, Created
  <2>2. PICK p \in FreshProject :
          Write(s, Over(Row(p, NewProject(r.title, manual)), Row(t, row)), {r.home}, {r.home})
    BY <1>4 DEF ConvertTask
  <2>3. row.state = "archived" /\ (row.completed <=> row.status = "done")
    BY <1>2, <2>1 DEF TaskRow
  <2>4. p \in Project /\ project[p].state = "absent" /\ p # t /\ p \notin Task /\ t \notin Project
    BY <2>1, <2>2, Constants DEF FreshProject
  <2> HIDE DEF row, manual
  <2> DEFINE rows == Over(Row(p, NewProject(r.title, manual)), Row(t, row))
  <2>5. DOMAIN rows = {p, t} /\ rows[p] = NewProject(r.title, manual) /\ rows[t] = row
    BY <2>4 DEF Over, Row
  <2> HIDE DEF rows
  <2>6. ActiveIn(AfterT(rows), p) = {}
    BY <2>3, <2>4, <2>5, NoTaskYet
  <2>7. AfterP(rows)[p] = NewProject(r.title, manual)
    BY <2>4, <2>5 DEF AfterP
  <2>8. Current(AfterP(rows), AfterT(rows), p)
    BY <2>6, <2>7, NewProjectIsCurrent
  <2>9. Task \cap DOMAIN rows = {t} /\ Project \cap DOMAIN rows = {p}
    BY <2>1, <2>4, <2>5
  <2>10. Keeps(rows, {r.home})
    BY <2>1, <2>3, <2>4, <2>5, <2>8, <2>9 DEF Keeps
  <2> QED
    BY <1>3, <2>1, <2>2, <2>10 DEF rows
<1>5. CASE CreateProject(s)
  <2>1. PICK p \in FreshProject : Write(s, Row(p, NewProject(r.title, None)), {}, {})
    BY <1>5 DEF CreateProject
  <2> DEFINE rows == Row(p, NewProject(r.title, None))
  <2>2. DOMAIN rows = {p} /\ rows[p] = NewProject(r.title, None)
    BY RowIs
  <2>3. p \in Project /\ project[p].state = "absent" /\ p \notin Task
    BY <2>1, Constants DEF FreshProject
  <2> HIDE DEF rows
  <2>4. ActiveIn(AfterT(rows), p) = {}
    BY <2>2, <2>3, NoTaskYet
  <2>5. AfterP(rows)[p] = NewProject(r.title, None)
    BY <2>2, <2>3 DEF AfterP
  <2>6. Current(AfterP(rows), AfterT(rows), p)
    BY <2>4, <2>5, NewProjectIsCurrent
  <2>7. Keeps(rows, {})
    BY <2>2, <2>3, <2>6 DEF Keeps
  <2> QED
    BY <1>3, <2>1, <2>7 DEF rows
<1>6. CASE UpdateProject(s)
  <2> DEFINE p == r.project
             clearing == r.given /\ r.manual = None /\ r.seen.manual # None
             row == [project[p] EXCEPT !.title = r.title]
             overridden == [row EXCEPT !.manual = r.manual]
             displayed == [overridden EXCEPT !.display = Or(r.manual, r.seen.derived)]
             new == IF ~ r.given THEN row ELSE IF clearing THEN overridden ELSE displayed
             recalc == IF clearing THEN {p} ELSE {}
             rows == Row(p, new)
  <2>1. p \in Project /\ r.seen = project[p]
    BY <1>1, <1>6 DEF UpdateProject, Begun, AskOK, FreshAsk
  <2>2. Write(s, rows, recalc, {})
    BY <1>6 DEF UpdateProject
  <2>3. project[p] \in ProjectRow
    BY <2>1 DEF Shape, TypeOK
  <2> DEFINE Same(x) == /\ x.state = project[p].state /\ x.derived = project[p].derived
                        /\ x.total = project[p].total
  <2>4. /\ Same(row) /\ row.manual = project[p].manual /\ row.display = project[p].display
        /\ Same(overridden)
        /\ Same(displayed) /\ displayed.manual = r.manual
        /\ displayed.display = Or(r.manual, project[p].derived)
    BY <2>1, <2>3 DEF ProjectRow
  <2>5. p \notin Task /\ recalc \subseteq Project
    BY <2>1, Constants
  <2>6. DOMAIN rows = {p} /\ rows[p] = new
    <3> HIDE DEF new, p
    <3> QED
      BY RowIs
  <2> HIDE DEF row, overridden, displayed, rows
  <2>7. AfterT(rows) = task
    BY <2>5, <2>6 DEF AfterT, Shape, TypeOK
  <2>8. AfterP(rows)[p] = new
    BY <2>1, <2>6 DEF AfterP
  <2>9. ASSUME new.state = "active", p \notin recalc
        PROVE  Current(AfterP(rows), AfterT(rows), p)
    <3>1. new = row \/ new = displayed
      BY <2>9
    <3>2. project[p].state = "active"
      BY <2>4, <2>9, <3>1
    <3>3. Current(project, task, p)
      BY <2>1, <3>2, SoundProjects
    <3> HIDE DEF new
    <3> QED
      BY <2>4, <2>7, <2>8, <3>1, <3>3 DEF Current
  <2>10. new.state = project[p].state
    BY <2>4
  <2> HIDE DEF new, recalc
  <2>11. Keeps(rows, recalc)
    BY <2>5, <2>6, <2>9, <2>10 DEF Keeps
  <2> QED
    BY <1>3, <2>2, <2>5, <2>11
<1>7. CASE ConvertProject(s)
  <2> DEFINE q == r.project
             homes == {p \in Project \ {q} :
                         project[p].state = "active" /\ project[p].title # "other"}
             archived == [project[q] EXCEPT
               !.state = "archived", !.title = "other", !.manual = r.manual, !.display = r.display]
             rows(p, t) == Over(Row(q, archived), Row(t, NewTask(p, r.display)))
  <2>1. q \in Project /\ project[q].total = 0
    BY <1>1, <1>7 DEF ConvertProject, Begun, AskOK, FreshAsk
  <2>2. PICK t \in FreshTask :
          \/ \E p \in homes : Write(s, rows(p, t), {p}, {})
          \/ /\ homes = {}
             /\ \E p \in FreshProject :
                  Write(s, Over(Row(p, NewProject("Unassigned", None)), rows(p, t)), {p}, {})
    BY <1>7 DEF ConvertProject
  <2>3. t \in Task /\ task[t].state = "absent" /\ t \notin Project /\ q \notin Task
    BY <2>1, <2>2, Constants DEF FreshTask
  <2>4. archived.state = "archived"
    <3>1. project[q] \in ProjectRow
      BY <2>1 DEF Shape, TypeOK
    <3> QED
      BY <3>1 DEF ProjectRow
  <2> HIDE DEF archived
  <2>5. ASSUME NEW p
        PROVE  /\ DOMAIN rows(p, t) = {q, t} /\ rows(p, t)[q] = archived
               /\ rows(p, t)[t] = NewTask(p, r.display)
    BY <2>1, <2>3 DEF Over, Row
  <2>6. project[q].state = "active" => \A x \in Task : ~ (task[x].state = "active" /\ task[x].project = q)
    <3>1. SUFFICES ASSUME project[q].state = "active"
                   PROVE  ActiveIn(task, q) = {}
      BY DEF ActiveIn
    <3>2. Cardinality(ActiveIn(task, q)) = 0
      BY <2>1, <3>1, SoundProjects DEF Current
    <3>3. IsFiniteSet(ActiveIn(task, q))
      BY TasksAreFinite DEF ActiveIn
    <3> QED
      BY <3>2, <3>3, FS_EmptySet
  <2> HIDE DEF rows
  <2>7. CASE \E p \in homes : Write(s, rows(p, t), {p}, {})
    <3>1. PICK p \in homes : Write(s, rows(p, t), {p}, {})
      BY <2>7
    <3> DEFINE new == rows(p, t)
    <3>2. p \in Project /\ p # q /\ project[p].state = "active"
      OBVIOUS
    <3>3. DOMAIN new = {q, t} /\ new[q] = archived /\ new[t] = NewTask(p, r.display)
      BY <2>5
    <3> HIDE DEF new
    <3>4. AfterP(new)[p] = project[p]
      BY <2>3, <3>2, <3>3 DEF AfterP
    <3>5. Task \cap DOMAIN new = {t} /\ Project \cap DOMAIN new = {q}
      BY <2>1, <2>3, <3>3
    <3>6. Keeps(new, {p})
      BY <2>3, <2>4, <2>6, <3>2, <3>3, <3>4, <3>5, NewTaskFields DEF Keeps
    <3> QED
      BY <1>3, <3>1, <3>2, <3>6 DEF new
  <2>8. CASE \E p \in FreshProject :
                  Write(s, Over(Row(p, NewProject("Unassigned", None)), rows(p, t)), {p}, {})
    <3>1. PICK p \in FreshProject :
                  Write(s, Over(Row(p, NewProject("Unassigned", None)), rows(p, t)), {p}, {})
      BY <2>8
    <3> DEFINE unassigned == NewProject("Unassigned", None)
               new == Over(Row(p, unassigned), rows(p, t))
    <3>2. p \in Project /\ project[p].state = "absent" /\ p \notin Task /\ p # t
      BY <2>3, Constants DEF FreshProject
    <3>3. unassigned.state = "active"
      BY NewProjectFields
    <3> HIDE DEF unassigned
    <3>4. /\ DOMAIN new = {p, q, t} /\ new[p] = unassigned
          /\ q # p => new[q] = archived
          /\ new[t] = NewTask(p, r.display)
      BY <2>3, <2>5, <3>2 DEF Over, Row
    <3> HIDE DEF new
    <3>5. AfterP(new)[p] = unassigned
      BY <3>2, <3>4 DEF AfterP
    <3>6. Task \cap DOMAIN new = {t} /\ Project \cap DOMAIN new = {p, q}
      BY <2>1, <2>3, <3>2, <3>4
    <3>7. Keeps(new, {p})
      BY <2>3, <2>4, <2>6, <3>2, <3>3, <3>4, <3>5, <3>6, NewTaskFields DEF Keeps
    <3> QED
      BY <1>3, <3>1, <3>2, <3>7 DEF new, unassigned
  <2> QED
    BY <2>2, <2>7, <2>8
<1>8. CASE DeleteProject(s)
  <2> DEFINE p == r.project
             T == ActiveTasks(s, p)
             tasks == [t \in T |-> [task[t] EXCEPT !.state = "archived"]]
             row == [project[p] EXCEPT !.state = "archived"]
             rows == Over(Row(p, row), tasks)
  <2>1. p \in Project /\ p \notin Task
    BY <1>1, <1>8, Constants DEF DeleteProject, Begun, AskOK
  <2>2. Write(s, rows, {}, {})
    BY <1>8 DEF DeleteProject
  <2>3. DOMAIN own[s] = {}
    BY <1>1 DEF Shape, OwnOK
  <2>4. T = {t \in Task : task[t].state = "active" /\ task[t].project = p}
    BY <2>3 DEF ActiveTasks, TaskSeenBy
  <2>5. row.state = "archived"
    <3>1. project[p] \in ProjectRow
      BY <2>1 DEF Shape, TypeOK
    <3> QED
      BY <3>1 DEF ProjectRow
  <2>6. ASSUME NEW t \in T
        PROVE  /\ tasks[t].state = "archived"
               /\ tasks[t].completed <=> tasks[t].status = "done"
    <3>1. task[t] \in TaskRow /\ (task[t].completed <=> task[t].status = "done")
      BY <1>2, <2>4
    <3> QED
      BY <3>1 DEF TaskRow
  <2>7. DOMAIN tasks = T
    OBVIOUS
  <2> HIDE DEF row, tasks, T
  <2>8. /\ DOMAIN rows = {p} \cup T /\ rows[p] = row
        /\ \A t \in T : rows[t] = tasks[t]
    BY <2>1, <2>4, <2>7 DEF Over, Row
  <2> HIDE DEF rows
  <2>9. AfterP(rows)[p] = row
    BY <2>1, <2>8 DEF AfterP
  <2>10. Task \cap DOMAIN rows = T /\ Project \cap DOMAIN rows = {p}
    BY <2>1, <2>4, <2>8, Constants
  <2>11. Keeps(rows, {})
    BY <2>4, <2>5, <2>6, <2>8, <2>9, <2>10 DEF Keeps
  <2> QED
    BY <1>3, <2>2, <2>11
<1> QED
  BY <1>4, <1>5, <1>6, <1>7, <1>8

(* With one request at a time, the tables are sound, what a request has read *)
(* is still so, and a transaction owes but the projects to recalculate.      *)
InOrder ==
  ~ overlapped =>
    /\ Sound(project, task, {})
    /\ \A s \in Session : request[s].stage = "begun" => FreshAsk(request[s].asks)
    /\ \A s \in Session : request[s].stage = "written" =>
         Sound(SeenProjects(s), SeenTasks(s), request[s].recalc)

LEMMA OrderedKinds ==
    ASSUME Shape, InOrder, ~ overlapped, [Next]_vars
    PROVE  UNCHANGED vars \/ \E s \in Session : Begins(s) \/ (Writes(s) /\ KeepsSound(s)) \/ GoesOn(s)
<1>1. ASSUME NEW s \in Session, NEW op, Begun(s, op)
      PROVE  FreshAsk(request[s].asks)
  BY <1>1 DEF InOrder, Begun
<1>2. ASSUME NEW s \in Session,
             \/ CreateTask(s) \/ ArchiveTasks(s) \/ CopyTasks(s) \/ UpdateTasks(s) \/ UpdateTask(s)
      PROVE  Writes(s) /\ KeepsSound(s)
  <2>1. FreshAsk(request[s].asks)
    BY <1>1, <1>2 DEF CreateTask, ArchiveTasks, CopyTasks, UpdateTasks, UpdateTask
  <2> QED
    BY <1>2, <2>1, TaskWrites, TaskWritesSound DEF InOrder
<1>3. ASSUME NEW s \in Session,
             \/ ConvertTask(s) \/ CreateProject(s) \/ UpdateProject(s)
             \/ ConvertProject(s) \/ DeleteProject(s)
      PROVE  Writes(s) /\ KeepsSound(s)
  <2>1. FreshAsk(request[s].asks)
    BY <1>1, <1>3 DEF ConvertTask, CreateProject, UpdateProject, ConvertProject, DeleteProject
  <2> QED
    BY <1>3, <2>1, ProjectWrites, ProjectWritesSound DEF InOrder
<1>4. ASSUME NEW s \in Session, TaskRequest(s) \/ ProjectRequest(s)
      PROVE  Begins(s) \/ (Writes(s) /\ KeepsSound(s))
  BY <1>2, <1>3, <1>4, RequestsBegin DEF TaskRequest, ProjectRequest
<1> QED
  BY <1>4 DEF Next, GoesOn

LEMMA SoundWithRollup ==
    ASSUME NEW P, NEW T, NEW owed, Sound(P, T, owed), NEW Q, NEW p \in Project,
           \A t \in Task : T[t].state = "active" => T[t].project \in Project,
           \A q \in Project \ {p} : Q[q] = P[q], Q[p].state = P[p].state, Current(Q, T, p)
    PROVE  Sound(Q, T, owed \ {p})
<1>1. ASSUME NEW q \in Project \ (owed \ {p}), Q[q].state = "active"
      PROVE  Current(Q, T, q)
  <2>1. CASE q = p
    BY <2>1
  <2>2. CASE q # p
    <3>1. Q[q] = P[q] /\ Current(P, T, q)
      BY <1>1, <2>2 DEF Sound
    <3> QED
      BY <3>1 DEF Current
  <2> QED
    BY <2>1, <2>2
<1>2. \A t \in Task : T[t].state = "active" => Q[T[t].project].state = "active"
  BY DEF Sound
<1> QED
  BY <1>1, <1>2 DEF Sound

LEMMA SoundWithoutEmpty ==
    ASSUME NEW P, NEW T, Sound(P, T, {}), NEW Q, NEW p \in Project,
           \A t \in Task : T[t].state = "active" => T[t].project \in Project,
           \A q \in Project \ {p} : Q[q] = P[q],
           Q[p] = P[p] \/ (ActiveIn(T, p) = {} /\ Q[p].state = "archived")
    PROVE  Sound(Q, T, {})
<1>1. ASSUME NEW q \in Project, Q[q].state = "active"
      PROVE  Current(Q, T, q)
  <2>1. Q[q] = P[q]
    BY <1>1
  <2> QED
    BY <1>1, <2>1 DEF Current, Sound
<1>2. ASSUME NEW t \in Task, T[t].state = "active"
      PROVE  Q[T[t].project].state = "active"
  <2>1. P[T[t].project].state = "active" /\ t \in ActiveIn(T, T[t].project)
    BY <1>2 DEF Sound, ActiveIn
  <2> QED
    BY <1>2, <2>1
<1> QED
  BY <1>1, <1>2 DEF Sound

LEMMA OrderStep ==
    ASSUME Solo, InOrder, [Next]_vars
    PROVE  InOrder'
<1> USE DEF Solo
<1>1. CASE UNCHANGED vars
  <2>1. UNCHANGED <<project, task, own, request, overlapped>>
    BY <1>1 DEF vars
  <2>2. \A s : SeenProjects(s)' = SeenProjects(s) /\ SeenTasks(s)' = SeenTasks(s)
    BY <2>1 DEF SeenProjects, SeenTasks, ProjectSeenBy, TaskSeenBy
  <2>3. \A s \in Session : FreshAsk(request[s].asks) => FreshAsk(request[s].asks)'
    BY <2>1 DEF FreshAsk
  <2> QED
    BY <2>1, <2>2, <2>3 DEF InOrder
<1>2. CASE overlapped'
  BY <1>2 DEF InOrder
<1>3. SUFFICES ASSUME ~ overlapped', ~ UNCHANGED vars
               PROVE  InOrder'
  BY <1>1, <1>2
<1>4. ~ overlapped
  <2>1. ASSUME NEW s \in Session, Begins(s), overlapped
        PROVE  FALSE
    BY <1>3, <2>1, BeginIs DEF Begins
  <2>2. ASSUME NEW s \in Session, Writes(s) \/ GoesOn(s), overlapped
        PROVE  FALSE
    BY <1>3, <2>2, OneGoesOn
  <2> QED
    BY <1>3, <2>1, <2>2, Kinds
<1>5. PICK s \in Session : Begins(s) \/ (Writes(s) /\ KeepsSound(s)) \/ GoesOn(s)
  BY <1>3, <1>4, OrderedKinds
<1>6. /\ Sound(project, task, {})
      /\ request[s].stage = "written" => Sound(SeenProjects(s), SeenTasks(s), request[s].recalc)
      /\ request[s].stage = "begun" => FreshAsk(request[s].asks)
  BY <1>4 DEF InOrder
<1>7. \A u \in Session \ {s} : request'[u] = Idle
  <2>1. CASE Begins(s)
    BY <1>3, <2>1, BeginIs DEF Begins
  <2>2. CASE Writes(s) \/ GoesOn(s)
    BY <1>4, <2>2, OneGoesOn DEF AloneOK
  <2> QED
    BY <1>5, <2>1, <2>2
<1>8. SUFFICES /\ Sound(project', task', {})
               /\ request'[s].stage = "begun" => FreshAsk(request[s].asks)'
               /\ request'[s].stage = "written" =>
                    Sound(SeenProjects(s)', SeenTasks(s)', request'[s].recalc)
  BY <1>7 DEF InOrder, Idle
<1>9. CASE Begins(s)
  <2>1. PICK what : Begin(s, what) /\ FreshAsk(what)
    BY <1>9 DEF Begins
  <2>2. request'[s].stage = "begun" /\ request'[s].asks = what /\ UNCHANGED <<project, task>>
    BY <2>1, BeginIs
  <2>3. FreshAsk(request[s].asks)'
    BY <2>1, <2>2 DEF FreshAsk
  <2> QED
    BY <1>6, <2>2, <2>3
<1>10. CASE KeepsSound(s)
  <2>1. PICK rows, recalc, cleanup :
          Write(s, rows, recalc, cleanup) /\ recalc \in SUBSET Project /\ Keeps(rows, recalc)
    BY <1>10 DEF KeepsSound
  <2>2. /\ own'[s] = rows /\ request'[s].stage = "written" /\ request'[s].recalc = recalc
        /\ UNCHANGED <<project, task>>
    BY <2>1, WriteIs
  <2>3. SeenProjects(s)' = AfterP(rows) /\ SeenTasks(s)' = AfterT(rows)
    BY <2>2 DEF SeenProjects, SeenTasks, ProjectSeenBy, TaskSeenBy, AfterP, AfterT
  <2>4. Sound(AfterP(rows), AfterT(rows), recalc)
    BY <1>6, <2>1, KeptSound
  <2> QED
    BY <1>6, <2>2, <2>3, <2>4
<1> DEFINE P == SeenProjects(s)
           T == SeenTasks(s)
<1>11. \A t \in Task : T[t].state = "active" => T[t].project \in Project
  BY SeenRows, SeenIs
<1>12. CASE ReadTasks(s)
  <2>1. /\ request[s].stage = "written" /\ request'[s].stage = "written"
        /\ request'[s].recalc = request[s].recalc /\ UNCHANGED <<project, task, own>>
    BY <1>12, ReadIs
  <2>2. P' = P /\ T' = T
    BY <2>1 DEF SeenProjects, SeenTasks, ProjectSeenBy, TaskSeenBy
  <2> QED
    BY <1>6, <2>1, <2>2
<1>13. CASE WriteRollup(s)
  <2> DEFINE rollup == request[s].rollup
             p == rollup.project
  <2>1. /\ request[s].stage = "written" /\ request'[s].stage = "written"
        /\ rollup # None /\ p \in Project
        /\ request'[s].recalc = request[s].recalc \ {p}
        /\ UNCHANGED <<project, task>> /\ T' = T
        /\ \A q \in Project \ {p} : P'[q] = P[q]
        /\ P'[p].state = P[p].state /\ P'[p].manual = P[p].manual
        /\ P'[p].derived = rollup.derived /\ P'[p].total = rollup.total
        /\ P'[p].display = rollup.display
    BY <1>13, WriteRollupIs
  <2>2. Recalculated(s)
    BY <1>4, <2>1 DEF AloneOK, AloneIsRight, Idle
  <2>3. Current(P', T, p)
    BY <2>1, <2>2, WrittenRollup DEF Recalculated
  <2> HIDE DEF P, T
  <2>4. Sound(P', T, request[s].recalc \ {p})
    BY <1>6, <1>11, <2>1, <2>3, SoundWithRollup DEF P, T
  <2> QED
    BY <1>6, <2>1, <2>4 DEF P, T
<1>14. CASE Cleanup(s)
  <2>1. /\ request[s].stage = "written" /\ request'[s].stage = "written"
        /\ request[s].recalc = {} /\ request'[s].recalc = {}
        /\ UNCHANGED <<project, task>> /\ T' = T
    BY <1>14, CleanupIs
  <2>2. PICK p \in Project :
          /\ \A q \in Project \ {p} : P'[q] = P[q]
          /\ P'[p] = P[p] \/ (ActiveIn(T, p) = {} /\ P'[p].state = "archived")
    BY <1>14, CleanupIs
  <2> HIDE DEF P, T
  <2>3. Sound(P, T, {})
    BY <1>6, <2>1 DEF P, T
  <2>4. Sound(P', T, {})
    BY <1>11, <2>2, <2>3, SoundWithoutEmpty
  <2> QED
    BY <1>6, <2>1, <2>4 DEF P, T
<1>15. CASE Commit(s)
  <2>1. /\ request'[s] = Idle /\ request[s].stage = "written" /\ request[s].recalc = {}
        /\ project' = P /\ task' = T
    BY <1>15, DoneIs
  <2> QED
    BY <1>6, <2>1 DEF Idle
<1>16. CASE Rollback(s)
  <2>1. request'[s] = Idle /\ UNCHANGED <<project, task>>
    BY <1>16, DoneIs
  <2> QED
    BY <1>6, <2>1 DEF Idle
<1> QED
  BY <1>5, <1>9, <1>10, <1>12, <1>13, <1>14, <1>15, <1>16 DEF GoesOn

LEMMA OrderInit ==
    ASSUME Init
    PROVE  InOrder
<1>1. \A s \in Session : request[s] = Idle
  BY DEF Init
<1>2. \A t \in Task : task[t].state = "absent" /\ (task[t].completed <=> task[t].status = "done")
  BY DEF Init, NoTask, NewTask
<1>3. \A p \in Project : project[p].state = "absent"
  BY DEF Init, NoProject, NewProject
<1> QED
  BY <1>1, <1>2, <1>3 DEF InOrder, Sound, Idle

(* After any sequence of requests, one at a time and failed ones included,   *)
(* the persisted rollups are those of the active tasks, no active task is    *)
(* hidden in an archived project, and the done tasks are the completed ones. *)
THEOREM SequencesAreConsistent == Spec => []SequencesStayConsistent
<1>1. Init => Solo /\ InOrder
  BY SoloInit, OrderInit
<1>2. Solo /\ InOrder /\ [Next]_vars => (Solo /\ InOrder)'
  BY SoloStep, OrderStep
<1>3. InOrder => SequencesStayConsistent
  BY DEF InOrder, Sound, Current, DerivedIn, ActiveIn, SequencesStayConsistent, RollupIsCurrent,
         RollupCurrent, TasksOf, StatusOf, ActiveTasksAreVisible, CompletedMatchesDone
<1> QED
  BY <1>1, <1>2, <1>3, PTL DEF Spec
=============================================================================
