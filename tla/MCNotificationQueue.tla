------------------------ MODULE MCNotificationQueue ------------------------
(* Instances of QueueHistory for TLC.  Every update is for the one user    *)
(* u1: recipients do not share rows.                                       *)
EXTENDS QueueHistory, TLC

CONSTANT u1

MCUser == {u1}
MCRecipientOf == [s \in Update |-> u1]

(* Workers are interchangeable where all of them schedule.                 *)
SameWorkers == Permutations(Worker) \cup Permutations(Update)
=============================================================================
