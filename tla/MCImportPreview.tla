-------------------------- MODULE MCImportPreview --------------------------
(* Instances of ImportPreview for TLC.                                     *)
EXTENDS ImportPreview

CONSTANT none

MCFold == [a |-> "a", A |-> "a", b |-> "b"]
Row(p, o, k, ts, tk, w, x) ==
    [project |-> p, owner |-> o, pid |-> k, task |-> ts, tid |-> tk, who |-> w, text |-> x]

\* A cell of two lines; a task that moves; a source id for an old project; an
\* unknown assignee and a second owner; a line that cannot be read.
MCFiles ==
    { <<Row("a", <<"u">>, none, <<"a", "b">>, none, none, "x")>>,
      <<Row("a", <<>>, none, <<"a", "b">>, "t", none, "x"), Row("a", <<>>, none, <<>>, none, none, "y")>>,
      <<Row("a", <<"u">>, "p", <<"a">>, "t", "u", "x"), Row("b", <<>>, "q", <<"b">>, "t", none, "y")>>,
      <<Row("a", <<>>, none, <<"a">>, none, none, "x"), Row("a", <<>>, "p", <<"a">>, none, "v", "x")>>,
      <<Row("b", <<"v", "w">>, none, <<"a">>, none, "u", "x"), Row("b", <<"w">>, none, <<"a">>, none, none, "y")>>,
      <<Row("A", <<>>, none, <<"a">>, none, none, "x"), Row("a", <<>>, none, <<"A">>, none, none, "y")>>,
      <<Row("a", <<>>, none, <<"a">>, none, none, "invalid"), Row("A", <<>>, none, <<"a">>, none, none, "x")>> }

Project(t, o, k, x, gone) == [title |-> t, owner |-> o, source |-> k, text |-> x, archived |-> gone]
ATask(p, t, w, k, x) ==
    [project |-> p, title |-> t, who |-> w, source |-> k, text |-> x, archived |-> FALSE]
NoRows == [x \in {} |-> none]

MCTables ==
    { [projects |-> NoRows, tasks |-> NoRows],
      [projects |-> <<Project("a", none, none, "x", FALSE), Project("b", none, "q", "y", FALSE)>>,
       tasks |-> <<ATask(1, "a", "me", none, "x"), ATask(2, "b", "me", "t", "y")>>],
      [projects |-> <<Project("a", none, "p", "x", FALSE), Project("a", none, none, "y", FALSE)>>,
       tasks |-> <<ATask(1, "a", "u", "t", "x"), ATask(2, "a", "me", none, "x"), ATask(2, "a", "me", none, "y")>>],
      [projects |-> <<Project("A", none, none, "x", FALSE), Project("a", "u", "p", "x", TRUE)>>,
       tasks |-> NoRows],
      [projects |-> <<Project("a", none, none, "x", FALSE), Project("a", none, none, "y", FALSE)>>,
       tasks |-> NoRows] }

MCMappings == {Fields, Fields \ {"pid", "tid"}, Fields \ {"owner"}, Fields \ {"task"}}
=============================================================================
