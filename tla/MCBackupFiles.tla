--------------------------- MODULE MCBackupFiles ---------------------------
(* Instances of BackupFiles.                                               *)
EXTENDS BackupFiles, TLC

CONSTANTS w1, w2, r1

Policy(d, w, m) == [daily |-> d, weekly |-> w, monthly |-> m]

OnePolicy   == {Policy(1, 2, 0)}

WrittenBefore == {1, 2}

EveryActivity ==
    {"failure", "settings", "create", "upload", "delete", "protect", "prune", "status"}
====
