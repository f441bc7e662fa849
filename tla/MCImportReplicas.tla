--------------------------- MODULE MCImportReplicas ---------------------------
(* The instances of ImportPipeline that are checked for safety: two workers  *)
(* at once, and one whose every call may fail.                               *)
EXTENDS MCImportPipeline

VARIABLE instance   \* what of the module this behaviour is an instance of

mcvars == <<vars, instance>>

(* "replicas": two workers on two jobs, where a row fails only for what the  *)
(* other worker did.  "faults": one worker at a time and one job, with any   *)
(* decision, where everything that can fail does.  "reviewers": one worker   *)
(* and one job, with two requests at a time.                                 *)
Provoked(w) ==
  \/ worker[w].gone
  \/ \E differs \in Differences :
       LET e == Effect(w, differs) IN e.projectTaken \/ e.taskTaken
Replicas ==
  \/ \E w \in Worker :
       /\ Loop(w)
       /\ worker[w].at = "write" /\ worker'[w].at = "row_failed" => Provoked(w)
  \/ \E a \in Admin :
       /\ Requests(a)
       /\ "action" \in DOMAIN request'[a] => request'[a].action = "add"
  \/ \E j \in Job : Upload(j) \/ RemoveImport(j)
FaultsNext ==
  /\ \/ \E w \in Worker : Loop(w) \/ CallFails(w) \/ Crash(w)
     \/ \E a \in Admin : Requests(a)
     \/ Upload(1) \/ RemoveImport(1)
  /\ Cardinality({w \in Worker : worker'[w] # Idle}) <= 1
Reviewers ==
  /\ \/ \E w \in Worker :
          /\ Loop(w)
          /\ worker[w].at = "write" /\ worker'[w].at = "row_failed" => Provoked(w)
     \/ \E a \in Admin : Requests(a)
     \/ Upload(1) \/ RemoveImport(1)
  /\ Cardinality({w \in Worker : worker'[w] # Idle}) <= 1

Busy == Cardinality({a \in Admin : request'[a] # Idle})
MCInit == Init /\ instance \in {"replicas", "faults", "reviewers"}
MCNext ==
  /\ \/ instance = "replicas" /\ Replicas /\ Busy <= 1
     \/ instance = "faults" /\ FaultsNext /\ Busy <= 1
     \/ instance = "reviewers" /\ Reviewers
  /\ UNCHANGED instance
MCSpec == MCInit /\ [][MCNext]_mcvars

=============================================================================
