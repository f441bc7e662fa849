----------------------------- MODULE WebClient -----------------------------
(***************************************************************************)
(* The browsers of one user and what they keep in step with the server:    *)
(* the order of a project's tasks, the marks of the changes the user has   *)
(* not viewed, the personal to-dos and the user's config.  A tab shows the *)
(* last response to GET /workspace, changed in advance by the requests it  *)
(* has sent (onMutate) and put back when one fails; it asks again every    *)
(* few seconds.  Colleagues work on the same tasks.                        *)
(***************************************************************************)
EXTENDS Naturals, FiniteSets, SequencesExt

CONSTANTS
    Tab,            \* browsers of the user, each with a local storage
    Task, Todo,     \* ids, in the order in which they are given out
    Config,         \* what filters, panels and so on can be set to
    Default,        \* the config of a new account
    Nil,
    FirstTasks, FirstTodos,   \* how many there are at the start
    MaxActs,        \* bound on what the user does, one less for each open tab
    MaxOthers,      \* bound on what colleagues do and requests that fail, too
    Activities      \* sets of what a user may be up to

ASSUME ConstantsAssumption ==
    /\ IsFiniteSet(Task) /\ IsFiniteSet(Todo)
    /\ Task = 1..Cardinality(Task) /\ Todo = 1..Cardinality(Todo)
    /\ Default \in Config /\ Nil \notin Config
    /\ FirstTasks \in Task /\ FirstTodos \in Todo
    /\ MaxActs \in Nat /\ MaxOthers \in Nat

VARIABLES
    tasks,       \* the tasks of the project: id -> sortOrder
    archived,    \* those whose archivedAt is set
    born,        \* how many to-dos were ever made
    viewed,      \* tasks whose TaskViewState row of the user is there
    todos,       \* the user's PersonalTodo rows
    retention,   \* the user's personalTodoRetention
    config,      \* the user's userConfigJson
    tab,         \* the tabs that are open
    activities,  \* what the user is up to
    ops,         \* requests of the tabs that are not answered, oldest first
    acts, others,   \* how much has happened so far
    overlooked,  \* history: colleagues' changes since the user's marks
    raced,       \* history: those that a mark on its way has covered
    dropped,     \* history: the order of the last reorder no other overlapped
    refused      \* history: whether storing the config has failed

rows    == <<tasks, archived, born, viewed, todos, retention, config>>
counts  == <<acts, others, activities>>
history == <<overlooked, raced, dropped, refused>>
vars    == <<rows, tab, ops, counts, history>>

Retention == {"never", "delete_when_done", "later"}
TodoRow   == [order: Nat, done: BOOLEAN]

TypeOK ==
    /\ DOMAIN tasks \subseteq Task /\ archived \subseteq DOMAIN tasks
    /\ born \in 0..Cardinality(Todo) /\ DOMAIN todos \subseteq 1..born
    /\ \A t \in DOMAIN tasks : tasks[t] \in Nat
    /\ \A d \in DOMAIN todos : todos[d] \in TodoRow
    /\ viewed \subseteq Task /\ retention \in Retention /\ config \in Config
    /\ DOMAIN tab \subseteq Tab /\ \A b \in DOMAIN tab : tab[b].local \in Config

-----------------------------------------------------------------------------
(* The server's tables.                                                    *)

\* ORDER BY sortOrder, createdAt: each behind as many as come before it.
Before(x, y, order) == order[x] < order[y] \/ (order[x] = order[y] /\ x < y)
InOrder(S, order) ==
    [n \in 1..Cardinality(S) |->
        CHOOSE x \in S : Cardinality({y \in S : Before(y, x, order)}) = n - 1]

Place(order) == [x \in ToSet(order) |-> CHOOSE n \in DOMAIN order : order[n] = x]

ActiveTasks == DOMAIN tasks \ archived

TaskList == InOrder(ActiveTasks, tasks)
TodoOrder == [d \in DOMAIN todos |-> todos[d].order]
TodoList == InOrder(DOMAIN todos, TodoOrder)

\* getNextTaskSortOrder, which counts the archived tasks, and
\* getNextPersonalTodoSortOrder
NextOrder(orders) == IF orders = {} THEN 0 ELSE 1 + CHOOSE n \in orders : \A m \in orders : m <= n
NextTaskOrder == NextOrder({tasks[t] : t \in DOMAIN tasks})
NextTask == Cardinality(DOMAIN tasks) + 1
NextTodoOrder == NextOrder({todos[d].order : d \in DOMAIN todos})

Without(table, S) == [x \in DOMAIN table \ S |-> table[x]]
With(table, x, row) == [y \in DOMAIN table \cup {x} |-> IF y = x THEN row ELSE table[y]]

\* markTaskChangedForActor: for the user's changes and for a colleague's.
OwnChange(S) ==
    /\ viewed' = viewed \cup S
    /\ overlooked' = overlooked \ S /\ raced' = raced \ S

\* mutant: only the actor's own row is touched.
TheirChangeAlone(S) ==
    /\ overlooked' = overlooked \cup S /\ raced' = raced \ S
    /\ UNCHANGED viewed

TheirChange(S) ==
    /\ viewed' = viewed \ S
    /\ overlooked' = overlooked \cup S /\ raced' = raced \ S

-----------------------------------------------------------------------------
(* A tab.                                                                  *)

NoPoll == Nil
Mounted(b) == tab[b].mounted

\* A page that has nothing to show yet.  hasTaviStorage: the default config is
\* not stored.
Fresh(local) == [cache |-> Nil, mounted |-> FALSE, local |-> local, cached |-> local # Default,
                 synced |-> Default, timer |-> FALSE, poll |-> NoPoll]

Init ==
    /\ tasks = [t \in 1..FirstTasks |-> t - 1]
    /\ todos = [d \in 1..FirstTodos |-> [order |-> d - 1, done |-> FALSE]]
    /\ archived = {} /\ born = FirstTodos
    /\ viewed = 1..FirstTasks
    /\ retention = "never"
    /\ config \in Config
    /\ \E open \in SUBSET Tab \ {{}} : tab \in [open -> {Fresh(local) : local \in Config}]
    /\ ops = <<>> /\ activities \in Activities
    /\ acts = 0 /\ others = 0
    /\ overlooked = {} /\ raced = {} /\ dropped = <<>> /\ refused = FALSE

\* mutant: a tab that has its config from the server takes it once only.
ApplyOnce(old, response) ==
    IF ~old.cached /\ ~old.mounted
    THEN [old EXCEPT !.cache = response, !.mounted = TRUE, !.local = response.config,
                     !.synced = response.config, !.timer = FALSE]
    ELSE [old EXCEPT !.cache = response, !.mounted = TRUE]

\* A tab with another response in its cache, which mounts the workspace where
\* it was not: one with a stored config keeps that, and sends it if it is not
\* the server's.  One without takes the config of every response that brings
\* another one (applyUserConfigState), and does not send its own any more.
Showing(old, response) ==
    LET new == [old EXCEPT !.cache = response, !.mounted = TRUE]
    IN  IF ~old.cached /\ (~old.mounted \/ old.cache.config # response.config)
        THEN [new EXCEPT !.local = response.config, !.synced = response.config,
                         !.timer = FALSE]
        ELSE IF ~old.mounted
        THEN [new EXCEPT !.synced = response.config, !.timer = old.local # response.config]
        ELSE new

SetTab(b, new) == tab' = [tab EXCEPT ![b] = new]

\* invalidateQueries and cancelQueries: an answer on its way is not used.
Canceled(new) == [new EXCEPT !.poll = NoPoll]

-----------------------------------------------------------------------------
(* Polling.                                                                *)

\* What getWorkspace deletes before it reads (later: what has grown old).
Pruned ==
    LET done == {d \in DOMAIN todos : todos[d].done}
    IN  CASE retention = "never" -> {{}}
          [] retention = "delete_when_done" -> {done}
          [] retention = "later" -> SUBSET done

\* mutant: to-dos that are done are left out, whatever the retention is.
PollOpenTodos(b) ==
    /\ tab[b].poll = NoPoll
    /\ SetTab(b, [tab[b] EXCEPT !.poll =
            [tasks |-> TaskList, unviewed |-> ActiveTasks \ viewed,
             todos |-> InOrder({d \in DOMAIN todos : ~todos[d].done}, TodoOrder), config |-> config]])
    /\ UNCHANGED <<rows, ops, counts, history>>

\* The tables are read side by side; the view states, which follow them, are
\* taken to be read with them.
PollRows(b) ==
    /\ tab[b].poll = NoPoll
    /\ \E gone \in Pruned :
        /\ todos' = Without(todos, gone)
        /\ SetTab(b, [tab[b] EXCEPT !.poll =
                [tasks |-> TaskList, unviewed |-> ActiveTasks \ viewed,
                 todos |-> InOrder(DOMAIN todos \ gone, TodoOrder), config |-> config]])
    /\ UNCHANGED <<tasks, archived, born, viewed, retention, config, ops, counts, history>>

PollAnswer(b) ==
    /\ tab[b].poll # NoPoll
    /\ SetTab(b, Canceled(Showing(tab[b], tab[b].poll)))
    /\ UNCHANGED <<rows, ops, counts, history>>

Fails == Cardinality(DOMAIN tab) + others < MaxOthers /\ others' = others + 1

\* The error takes the place of the workspace, which is mounted again when
\* there is an answer.
PollFails(b) ==
    /\ Fails /\ tab[b].poll # NoPoll
    /\ SetTab(b, [Fresh(tab[b].local) EXCEPT !.cache = tab[b].cache])
    /\ ops' = [i \in DOMAIN ops |->
                IF ops[i].tab = b THEN [ops[i] EXCEPT !.screen = FALSE] ELSE ops[i]]
    /\ UNCHANGED <<rows, acts, activities, history>>

-----------------------------------------------------------------------------
(* What the user does in a tab.                                            *)

Acts(b, activity) ==
    /\ activity \in activities /\ Mounted(b)
    /\ Cardinality(DOMAIN tab) + acts < MaxActs /\ acts' = acts + 1

Sends(b, kind, arg, previous) ==
    ops' = Append(ops, [tab |-> b, screen |-> TRUE, kind |-> kind, arg |-> arg, previous |-> previous,
                        stage |-> "sent", read |-> Nil, alone |-> TRUE, fresh |-> {}])

\* isPending
Pending(b, kind) ==
    \E i \in DOMAIN ops : ops[i].tab = b /\ ops[i].screen /\ ops[i].kind = kind

\* A setting is changed: stored in the browser, and sent a moment later
\* unless it is what the tab believes the server has.
Choose(b, c) ==
    /\ Acts(b, "choose") /\ c # tab[b].local
    /\ SetTab(b, [tab[b] EXCEPT !.local = c, !.timer = c # tab[b].synced])
    /\ UNCHANGED <<rows, ops, others, activities, history>>

SyncUserConfig(b) ==
    /\ tab[b].timer
    /\ SetTab(b, [tab[b] EXCEPT !.timer = FALSE])
    /\ Sends(b, "config", tab[b].local, Nil)
    /\ UNCHANGED <<rows, counts, history>>

\* moveTaskIdRelative, reorderTodoIds
Moved(list) ==
    {InsertAt(RemoveAt(list, i), j, list[i]) : i, j \in DOMAIN list} \ {list}

\* The response as the tab shows it while a request is on its way.
ReorderInAdvance(list, order) == InOrder(ToSet(list) \cap ToSet(order), Place(order))

Reorder(b) ==
    /\ Acts(b, "reorder") /\ ~Pending(b, "reorder")
    /\ \E order \in Moved(tab[b].cache.tasks) :
        /\ Sends(b, "reorder", order, tab[b].cache)
        /\ SetTab(b, Canceled([tab[b] EXCEPT !.cache.tasks = ReorderInAdvance(@, order)]))
    /\ UNCHANGED <<rows, others, activities, history>>

\* Collapsing the project, or Mark all viewed.
MarkViewed(b) ==
    /\ Acts(b, "view") /\ tab[b].cache.unviewed # {}
    /\ Sends(b, "view", Nil, tab[b].cache)
    /\ SetTab(b, Canceled([tab[b] EXCEPT !.cache.unviewed = {}]))
    /\ UNCHANGED <<rows, others, activities, history>>

ReorderTodos(b) ==
    /\ Acts(b, "todos") /\ ~Pending(b, "todo_reorder")
    /\ \E order \in Moved(tab[b].cache.todos) :
        /\ Sends(b, "todo_reorder", order, tab[b].cache)
        /\ SetTab(b, Canceled([tab[b] EXCEPT !.cache.todos = ReorderInAdvance(@, order)]))
    /\ UNCHANGED <<rows, others, activities, history>>

\* Requests that change nothing in the tab until they are answered.
Request(b) ==
    /\ \/ /\ Acts(b, "edit")
          /\ \E t \in ToSet(tab[b].cache.tasks), kind \in {"update", "delete"} :
                Sends(b, kind, t, Nil)
       \/ Acts(b, "edit") /\ Sends(b, "create", Nil, Nil)
       \/ /\ Acts(b, "todos")
          /\ \/ \E d \in ToSet(tab[b].cache.todos),
                   kind \in {"todo_check", "todo_uncheck", "todo_delete"} :
                    Sends(b, kind, d, Nil)
             \/ \E kind \in {"todo_create", "todo_import"} : Sends(b, kind, Nil, Nil)
             \/ \E r \in Retention \ {retention} : Sends(b, "retention", r, Nil)
       \/ Acts(b, "reset") /\ ~Pending(b, "reset") /\ Sends(b, "reset", Default, Nil)
    /\ UNCHANGED <<rows, tab, others, activities, history>>

\* The page is loaded anew; requests it has sent are still served.
Reload(b) ==
    /\ Acts(b, "reload")
    /\ SetTab(b, Fresh(tab[b].local))
    /\ ops' = [i \in DOMAIN ops |-> IF ops[i].tab = b THEN [ops[i] EXCEPT !.tab = Nil]
                                    ELSE ops[i]]
    /\ UNCHANGED <<rows, others, activities, history>>

-----------------------------------------------------------------------------
(* The server.                                                             *)

Active(i, kind, stage) == ops[i].kind = kind /\ ops[i].stage = stage

Turn(i, stage) ==
    ops' = [ops EXCEPT ![i].stage = stage, ![i].read = Nil, ![i].fresh = {}, ![i].alone = TRUE]

\* The order has to name every row exactly once.
IsOrderOf(order, S) == Len(order) = Cardinality(S) /\ ToSet(order) = S

ReadTasks(i) ==
    /\ Active(i, "reorder", "sent")
    /\ ops' = IF IsOrderOf(ops[i].arg, ActiveTasks)
              THEN [ops EXCEPT ![i].stage = "read", ![i].read = tasks]
              ELSE [ops EXCEPT ![i].stage = "error"]
    /\ UNCHANGED <<rows, tab, counts, history>>

\* What a reorder has overtaken is not alone.
Overtaken(o) == [o EXCEPT !.alone = @ /\ ~(o.kind = "reorder" /\ o.stage = "read")]

\* mutant: only the task that was dragged forward is given its place.
RenumberDragged(i) ==
    LET o     == ops[i]
        moved == {m \in DOMAIN o.arg : o.read[o.arg[m]] # m - 1}
    IN  {o.arg[n] : n \in {m \in moved : \A k \in moved : m <= k}}

\* The tasks whose sortOrder is not their place, as read.
Renumbered(i) ==
    LET o == ops[i]
    IN  {o.arg[n] : n \in {m \in DOMAIN o.arg : o.read[o.arg[m]] # m - 1}}

ReorderProjectTasks(i) ==
    /\ Active(i, "reorder", "read")
    /\ LET order == ops[i].arg
           place == Place(order)
       IN  \E changed \in {Renumbered(i)} :
            /\ tasks' = [t \in DOMAIN tasks |-> IF t \in changed THEN place[t] - 1 ELSE tasks[t]]
            /\ OwnChange(changed)
            /\ IF changed = {} THEN Turn(i, "ok") /\ UNCHANGED dropped
               ELSE /\ ops' = [j \in DOMAIN ops |-> IF j = i THEN [ops[i] EXCEPT !.stage = "ok", !.read = Nil]
                                                     ELSE Overtaken(ops[j])]
                    /\ dropped' = IF ops[i].alone THEN order ELSE <<>>
    /\ UNCHANGED <<archived, born, todos, retention, config, tab, counts, refused>>

ReadViewed(i) ==
    /\ Active(i, "view", "sent")
    /\ ops' = [ops EXCEPT ![i].stage = "read", ![i].read = ActiveTasks,
                          ![i].fresh = ActiveTasks]
    /\ UNCHANGED <<rows, tab, counts, history>>

\* The changes that came after the tasks were read are marked with the rest.
MarkProjectViewed(i) ==
    /\ Active(i, "view", "read")
    /\ viewed' = viewed \cup ops[i].read
    /\ raced' = (raced \ ops[i].fresh) \cup (overlooked \cap (ops[i].read \ ops[i].fresh))
    /\ overlooked' = overlooked \ ops[i].fresh
    /\ Turn(i, "ok")
    /\ UNCHANGED <<tasks, archived, born, todos, retention, config, tab, counts, dropped, refused>>

EditTask(i) ==
    /\ ops[i].stage = "sent"
    /\ \/ /\ ops[i].kind = "create" /\ NextTask \in Task
          /\ tasks' = With(tasks, NextTask, NextTaskOrder)
          /\ OwnChange({NextTask})
          /\ Turn(i, "ok") /\ UNCHANGED archived
       \/ /\ ops[i].kind \in {"update", "delete"} /\ ops[i].arg \in ActiveTasks
          /\ archived' = IF ops[i].kind = "delete" THEN archived \cup {ops[i].arg} ELSE archived
          /\ OwnChange({ops[i].arg})
          /\ Turn(i, "ok") /\ UNCHANGED tasks
       \/ /\ \/ ops[i].kind = "create" /\ NextTask \notin Task
             \/ ops[i].kind \in {"update", "delete"} /\ ops[i].arg \notin ActiveTasks
          /\ Turn(i, "error") /\ UNCHANGED <<tasks, archived, viewed, overlooked, raced>>
    /\ UNCHANGED <<born, todos, retention, config, tab, counts, dropped, refused>>

ReadTodos(i) ==
    /\ Active(i, "todo_reorder", "sent")
    /\ ops' = IF IsOrderOf(ops[i].arg, DOMAIN todos)
              THEN [ops EXCEPT ![i].stage = "read", ![i].read = todos]
              ELSE [ops EXCEPT ![i].stage = "error"]
    /\ UNCHANGED <<rows, tab, counts, history>>

\* A row that is gone by now ends the transaction.
ReorderPersonalTodos(i) ==
    /\ Active(i, "todo_reorder", "read")
    /\ LET order   == ops[i].arg
           changed == {n \in DOMAIN order : ops[i].read[order[n]].order # n - 1}
       IN  IF \A n \in changed : order[n] \in DOMAIN todos
           THEN /\ todos' = [d \in DOMAIN todos |->
                        [todos[d] EXCEPT !.order =
                            IF \E n \in changed : order[n] = d
                            THEN (CHOOSE n \in changed : order[n] = d) - 1 ELSE @]]
                /\ Turn(i, "ok")
           ELSE Turn(i, "error") /\ UNCHANGED todos
    /\ UNCHANGED <<tasks, archived, born, viewed, retention, config, tab, counts, history>>

\* A to-do that gets done is deleted at once where that is the retention.
EditTodo(i) ==
    LET d     == ops[i].arg
        fresh == born + 1
    IN  /\ ops[i].stage = "sent"
        /\ \/ /\ ops[i].kind = "todo_create" /\ fresh \in Todo
              /\ born' = fresh
              /\ todos' = With(todos, fresh, [order |-> NextTodoOrder, done |-> FALSE])
              /\ Turn(i, "ok")
           \/ /\ ops[i].kind = "todo_import" /\ fresh \in Todo
              /\ born' = fresh
              /\ \E done \in BOOLEAN :
                    todos' = [x \in {fresh} |-> [order |-> 0, done |-> done]]
              /\ Turn(i, "ok")
           \/ /\ ops[i].kind = "todo_import" /\ todos' = [x \in {} |-> Nil]
              /\ Turn(i, "ok") /\ UNCHANGED born
           \/ /\ ops[i].kind \in {"todo_create", "todo_import"} /\ fresh \notin Todo
              /\ Turn(i, "error") /\ UNCHANGED <<born, todos>>
           \/ /\ ops[i].kind \in {"todo_check", "todo_uncheck", "todo_delete"}
              /\ IF d \in DOMAIN todos
                 THEN /\ todos' = IF \/ ops[i].kind = "todo_delete"
                                     \/ /\ ops[i].kind = "todo_check" /\ ~todos[d].done
                                        /\ retention = "delete_when_done"
                                  THEN Without(todos, {d})
                                  ELSE [todos EXCEPT ![d].done = ops[i].kind = "todo_check"]
                      /\ Turn(i, "ok")
                 ELSE Turn(i, "error") /\ UNCHANGED todos
              /\ UNCHANGED born
        /\ UNCHANGED <<tasks, archived, viewed, retention, config, tab, counts, history>>

\* updateUserConfig, updateNotificationPreferences, resetUserSettings
EditSettings(i) ==
    /\ ops[i].stage = "sent"
    /\ \/ /\ ops[i].kind = "config" /\ config' = ops[i].arg
          /\ UNCHANGED retention
       \/ /\ ops[i].kind = "retention" /\ retention' = ops[i].arg
          /\ UNCHANGED config
       \/ /\ ops[i].kind = "reset" /\ config' = Default /\ retention' = "never"
    /\ Turn(i, "ok")
    /\ UNCHANGED <<tasks, archived, born, viewed, todos, tab, counts, history>>

\* The request fails, or was served and its answer is lost.
Fail(i) ==
    /\ Fails /\ ops[i].stage # "error"
    /\ Turn(i, "error")
    /\ UNCHANGED <<rows, tab, acts, activities, history>>

-----------------------------------------------------------------------------
(* The answers.                                                            *)

Answered(i) == ops' = RemoveAt(ops, i)

\* onSuccess: a stored config becomes part of the cached response; what was
\* viewed is cleared in it again; everything else makes the tab ask anew.  The
\* state of a screen that is gone is not touched any more.
OnSuccess(b, o) ==
    LET old == tab[b]
        new == Showing(old, [old.cache EXCEPT !.config = o.arg])
    IN  CASE o.kind = "config" -> IF o.screen THEN [new EXCEPT !.synced = o.arg] ELSE new
          [] o.kind = "reset" ->
                IF o.screen
                THEN [new EXCEPT !.local = Default, !.synced = Default, !.timer = FALSE]
                ELSE IF old.mounted THEN new
                ELSE Showing([old EXCEPT !.local = Default, !.cached = FALSE], new.cache)
          [] o.kind = "view" -> Showing(old, [old.cache EXCEPT !.unviewed = {}])
          [] o.kind = "retention" -> old
          [] OTHER -> Canceled(old)

Succeed(i) ==
    LET o == ops[i]
    IN  /\ o.stage = "ok"
        /\ IF o.tab = Nil THEN UNCHANGED tab ELSE SetTab(o.tab, OnSuccess(o.tab, o))
        /\ Answered(i)
        /\ UNCHANGED <<rows, counts, history>>

\* onError: what was changed in advance is put back, with all the rest of
\* the response as it was then.
Refuse(i) ==
    LET o == ops[i]
    IN  /\ o.stage = "error"
        /\ IF o.tab = Nil \/ o.previous = Nil THEN UNCHANGED tab
           ELSE SetTab(o.tab, Showing(tab[o.tab], o.previous))
        /\ refused' = (refused \/ o.kind = "config")
        /\ Answered(i)
        /\ UNCHANGED <<rows, counts, overlooked, raced, dropped>>

-----------------------------------------------------------------------------
(* The colleagues.                                                         *)

Colleague == Cardinality(DOMAIN tab) + others < MaxOthers /\ others' = others + 1

\* A mark that is being served does not cover them knowingly.
Unseen(S, o) == [o EXCEPT !.fresh = @ \ S]

ColleagueEdits ==
    /\ Colleague
    /\ \E t \in Task :
        /\ \/ /\ t \in ActiveTasks
              /\ archived' \in {archived, archived \cup {t}}
              /\ UNCHANGED tasks
           \/ /\ t = NextTask
              /\ tasks' = With(tasks, t, NextTaskOrder)
              /\ UNCHANGED archived
        /\ TheirChange({t})
        /\ ops' = [i \in DOMAIN ops |-> Unseen({t}, ops[i])]
    /\ UNCHANGED <<born, todos, retention, config, tab, acts, activities, dropped, refused>>

ColleagueReorders ==
    /\ Colleague
    /\ \E order \in Moved(TaskList) :
        LET place == Place(order)
            moved == {t \in ActiveTasks : tasks[t] # place[t] - 1}
        IN  /\ tasks' = [t \in DOMAIN tasks |-> IF t \in ActiveTasks THEN place[t] - 1 ELSE tasks[t]]
            /\ TheirChange(moved)
            /\ dropped' = order
            /\ ops' = [i \in DOMAIN ops |-> Overtaken(Unseen(moved, ops[i]))]
    /\ UNCHANGED <<archived, born, todos, retention, config, tab, acts, activities, refused>>

-----------------------------------------------------------------------------
PollStep(b) == PollRows(b) \/ PollAnswer(b)

Serve(i) ==
    \/ ReadTasks(i) \/ ReorderProjectTasks(i)
    \/ ReadViewed(i) \/ MarkProjectViewed(i)
    \/ EditTask(i) \/ EditSettings(i)
    \/ ReadTodos(i) \/ ReorderPersonalTodos(i) \/ EditTodo(i)

RequestStep == \E i \in DOMAIN ops : Serve(i) \/ Succeed(i) \/ Refuse(i)

UserStep(b) ==
    \/ \E c \in Config : Choose(b, c)
    \/ Reorder(b) \/ MarkViewed(b) \/ ReorderTodos(b) \/ Request(b) \/ Reload(b)

Next ==
    \/ \E b \in DOMAIN tab : PollStep(b) \/ PollFails(b) \/ UserStep(b) \/ SyncUserConfig(b)
    \/ RequestStep
    \/ \E i \in DOMAIN ops : Fail(i)
    \/ ColleagueEdits \/ ColleagueReorders

\* Polling goes on in the background, timers fire, requests come to an end.
Fairness ==
    /\ \A b \in Tab : WF_vars(b \in DOMAIN tab /\ PollStep(b))
                     /\ WF_vars(b \in DOMAIN tab /\ SyncUserConfig(b))
    /\ WF_vars(RequestStep)

Spec == Init /\ [][Next]_vars
FairSpec == Spec /\ Fairness

-----------------------------------------------------------------------------
(* Properties.                                                             *)

\* A project's order is the one of the last reorder that no other reorder
\* overlapped, whatever was created, changed or deleted in between; when two
\* overlap, the order may be that of neither.
OrderIsAsDropped ==
    \A i, j \in DOMAIN TaskList, m, n \in DOMAIN dropped :
        TaskList[i] = dropped[m] /\ TaskList[j] = dropped[n] => (i < j <=> m < n)

\* A colleague's change stays highlighted until the user, in whatever tab,
\* changes the task too or asks for it to be marked as viewed; only a change
\* that comes while a mark is being served can be covered by it.
ChangesAreHighlighted == overlooked \cap viewed \subseteq raced

\* However requests fail, their answers get lost and polls cross them: again
\* and again every tab shows the tasks, the highlights and the to-dos there are.
Shows(b) ==
    /\ Mounted(b)
    /\ tab[b].cache.tasks = TaskList
    /\ tab[b].cache.unviewed = ActiveTasks \ viewed
    /\ tab[b].cache.todos = TodoList

TabsCatchUp == []<>(\A b \in DOMAIN tab : Shows(b))

\* Tabs that mounted without a stored config come to agree with the server in
\* the end, unless it could not be stored: no request with a config is sent
\* twice.
ConfigIsShared ==
    []<>(\/ refused
         \/ \A b \in DOMAIN tab : Mounted(b) /\ (tab[b].cached \/ tab[b].local = config))

\* docs/DESIGN.md: "Filters and grouping state should persist in per-user
\* synced config with a browser-local cache".  What a user chooses in the only
\* tab stays until the user chooses something else or resets everything.
ChoicesStay ==
    [][\A b \in DOMAIN tab :
        tab'[b].local # tab[b].local /\ Mounted(b) /\ DOMAIN tab = {b} =>
            acts' # acts \/ Pending(b, "reset")]_vars
=============================================================================
