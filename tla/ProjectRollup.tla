--------------------------- MODULE ProjectRollup ---------------------------
(***************************************************************************)
(* The status of a project as its active tasks determine it, twice: as the *)
(* API computes it (apps/api/src/project-rollup.ts) by looking at the      *)
(* tasks, and as the import worker does (recalculateProjects of            *)
(* apps/worker/src/loop-import-worker.ts) by comparing counters.  S is the *)
(* set of active tasks, st their statuses.                                 *)
(***************************************************************************)
EXTENDS Integers, FiniteSets

TaskStatus ==
  {"not_started", "in_progress", "demo", "review", "blocked", "on_hold", "done", "canceled"}

With(S, st, statuses) == {t \in S : st[t] \in statuses}

AllAre(S, st, status) == S # {} /\ \A t \in S : st[t] = status
SomeIs(S, st, status) == \E t \in S : st[t] = status

(* deriveProjectRollup.                                                    *)
DerivedStatus(S, st) ==
  LET open == With(S, st, TaskStatus \ {"canceled"})
      actionable == With(S, st, TaskStatus \ {"done", "canceled"})
  IN IF AllAre(open, st, "done") THEN "done"
     ELSE IF SomeIs(actionable, st, "review") THEN "review"
     ELSE IF SomeIs(actionable, st, "demo") THEN "demo"
     ELSE IF AllAre(actionable, st, "blocked") THEN "blocked"
     ELSE IF AllAre(actionable, st, "on_hold") THEN "on_hold"
     ELSE IF AllAre(open, st, "not_started") THEN "not_started"
     ELSE IF actionable # {} THEN "in_progress"
     ELSE "not_started"

(* recalculateProjects of the worker: one counter per status, and sums.    *)
Count(S, st, status) == Cardinality(With(S, st, {status}))

ActionableSum(S, st) ==
  Count(S, st, "not_started") + Count(S, st, "in_progress") + Count(S, st, "demo")
  + Count(S, st, "review") + Count(S, st, "blocked") + Count(S, st, "on_hold")
NonCanceledSum(S, st) == ActionableSum(S, st) + Count(S, st, "done")
TotalSum(S, st) == NonCanceledSum(S, st) + Count(S, st, "canceled")

WorkerStatus(S, st) ==
  LET is(status, sum) == sum > 0 /\ Count(S, st, status) = sum
  IN IF TotalSum(S, st) = 0 THEN "not_started"
     ELSE IF is("done", NonCanceledSum(S, st)) THEN "done"
     ELSE IF Count(S, st, "review") > 0 THEN "review"
     ELSE IF Count(S, st, "demo") > 0 THEN "demo"
     ELSE IF is("blocked", ActionableSum(S, st)) THEN "blocked"
     ELSE IF is("on_hold", ActionableSum(S, st)) THEN "on_hold"
     ELSE IF /\ ActionableSum(S, st) > 0
             /\ Count(S, st, "not_started") = NonCanceledSum(S, st)
     THEN "not_started"
     ELSE IF ActionableSum(S, st) > 0 THEN "in_progress"
     ELSE "not_started"

(* The API counts the active tasks, the worker adds its counters up.       *)
RollupsAgree(S, st) ==
  /\ WorkerStatus(S, st) = DerivedStatus(S, st)
  /\ TotalSum(S, st) = Cardinality(S)
=============================================================================
