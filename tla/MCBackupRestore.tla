-------------------------- MODULE MCBackupRestore --------------------------
(* Instances of BackupRestore.                                             *)
EXTENDS BackupRestore

CONSTANTS a, b, c, src, nil

TwoUsers ==
    <<[email |-> a, role |-> "admin", password |-> 1, config |-> "chosen"],
      [email |-> b, role |-> "viewer", password |-> 2, config |-> "default"]>>

\* One project was imported, with its task; the other is a user's own.
TwoProjects ==
    <<[content |-> 1, source |-> src, owner |-> nil],
      [content |-> 2, source |-> nil, owner |-> 2]>>

TwoTasks ==
    <<[content |-> 1, source |-> src, project |-> 1],
      [content |-> 2, source |-> nil, project |-> 2]>>
=============================================================================
