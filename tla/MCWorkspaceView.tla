-------------------------- MODULE MCWorkspaceView --------------------------
(* An instance of WorkspaceView for TLC: two projects of two owners, three  *)
(* tasks, a fourth one to be made; or three projects with four tasks.       *)
EXTENDS WorkspaceView

MCOwner == [p \in Project |-> IF p = 1 THEN "u" ELSE IF p = 2 THEN "v" ELSE Nil]
MCAssignee == [t \in Task |-> IF t = 2 THEN "v" ELSE Nil]
MCPriority == [p \in Project |-> IF p = 1 THEN "low" ELSE "high"]
MCProjectHits == [x |-> {2}, y |-> {1}]
MCTaskHits == [x |-> {1, 3}, y |-> {2, 4}]

\* Three tasks; the second one is done and the third one changed, or the
\* first one is done.
FirstTable ==
    [home |-> [t \in Task |-> IF t = 1 THEN 1 ELSE IF t \in {2, 3} THEN 2 ELSE Nil],
     places |-> <<1, 2, 0>>, done |-> {2}, unviewed |-> {3}, users |-> {"u", "v"},
     tasks |-> 3, made |-> 2]
\* Two projects of nobody, the second of which has the first match of "y", and
\* one in between that has another; all of them changed.
ThirdTable ==
    [home |-> [t \in Task |-> IF t = 2 THEN 3 ELSE IF t = 4 THEN 2 ELSE 1], places |-> <<1, 2, 3>>,
     done |-> {}, unviewed |-> {1, 2, 4}, users |-> {"v"}, tasks |-> 4, made |-> 3]
MCTables == {FirstTable, [FirstTable EXCEPT !.done = {1}, !.unviewed = {}], ThirdTable}

MCSortings == {<<>>, <<"priority", "progress">>}
MCStatusFilters == {{}, {"done"}, {"not_started", "in_progress"}}
MCAssigneeFilters == {{}, {"v"}, {Nil}}

Looking   == {"search", "toggle", "done", "filter"}
Watching  == {"search", "toggle", "done", "colleague"}
Choosing  == {"toggle", "select", "bulk", "config", "colleague"}
Editing   == {"toggle", "select", "edit"}
Arranging == {"view", "toggle", "filter"}
Searching == {"view", "search", "toggle"}
Picking   == {"view", "select", "toggle", "bulk"}
Narrowing == {"search", "filter"}
MCActivities == {Looking, Watching, Choosing, Editing, Arranging, Searching, Picking, Narrowing}
MCMaxActs == [a \in MCActivities |-> IF "view" \in a THEN 4 ELSE 3]

\* The third table is for the one that looks at little.
MCInit == Init /\ (activities = Narrowing <=> server = ThirdTable)
MCSpec == MCInit /\ [][Next]_vars
=============================================================================
