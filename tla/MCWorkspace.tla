---------------------------- MODULE MCWorkspace ----------------------------
(* Instances of Workspace for TLC: any requests one after the other on two *)
(* tasks, and the requests that write most, two at a time, on one task.    *)
EXTENDS Workspace, TLC

CONSTANT Overlapping   \* the requests that are made two at a time
VARIABLE instance

mcvars == <<vars, instance>>

UsedTasks == {t \in Task : task[t].state # "absent" \/ \E s \in Session : t \in DOMAIN own[s]}
Running == {s \in Session : request[s] # Idle}

\* A request that overlaps is one of Overlapping and leaves "Unassigned" alone.
Modest(r) ==
  r.stage = "begun" =>
    r.asks.op \in Overlapping /\ ("title" \in DOMAIN r.asks => r.asks.title = "other")

\* In a sequence the overrides of projects are none and one.
OneOverride == {None, "done"}
Plain(r) ==
  /\ r.stage = "begun" /\ "manual" \in DOMAIN r.asks => r.asks.manual \in OneOverride
  /\ r.stage = "begun" /\ r.asks.op = "convertTaskToProject" =>
       ToProjectManualStatus(r.asks.status) \in OneOverride

WithinInstance ==
  /\ instance = "sequence" => Cardinality(Running) <= 1 /\ \A s \in Running : Plain(request[s])
  /\ instance = "concurrent" =>
       Cardinality(UsedTasks) <= 1 /\ \A s \in Running : Modest(request[s])

MCInit == Init /\ instance \in {"sequence", "concurrent"}
MCNext == Next /\ UNCHANGED instance /\ WithinInstance'
MCSpec == MCInit /\ [][MCNext]_mcvars

SameIds == Permutations(Project) \cup Permutations(Task) \cup Permutations(Session)
=============================================================================
