-------------------------- MODULE MCImportPipeline --------------------------
(* Instances of ImportPipeline for TLC.                                    *)
EXTENDS ImportPipeline, TLC

(* PX came with a source id, with the task TX in it, in an earlier import. *)
(* The file moves TX to the project P and adds T, which has a source id.    *)
MCProjectsBefore == <<[key |-> "PX", external |-> TRUE, total |-> 1, by |-> None]>>
MCTasksBefore == <<[key |-> "TX", external |-> TRUE, project |-> 1, by |-> None]>>
MCFile == <<[project |-> "P", task |-> "TX", valid |-> TRUE],
            [project |-> "P", task |-> "T", valid |-> TRUE]>>
SameWorkers == Permutations(Worker)
Alike == Permutations(Worker) \cup Permutations(Admin)
MCKey == {"PX", "P", "TX", "T", "TN"}
(* Two rows of a project that exists.                                      *)
MCSplitFile == <<[project |-> "PX", task |-> "T", valid |-> TRUE],
                 [project |-> "PX", task |-> None, valid |-> TRUE]>>
(* The same with a row of another project and one that cannot be imported. *)
MCMixedFile == <<[project |-> "PX", task |-> "T", valid |-> TRUE],
                 [project |-> "P", task |-> "TX", valid |-> TRUE],
                 [project |-> "PX", task |-> "TN", valid |-> TRUE],
                 [project |-> "P", task |-> None, valid |-> FALSE]>>
MCExternal == {"PX", "TX", "T"}
=============================================================================
