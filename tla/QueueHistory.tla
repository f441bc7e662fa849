---------------------------- MODULE QueueHistory ----------------------------
(***************************************************************************)
(* NotificationQueue with a record of what has gone wrong so far.  Some    *)
(* promises of the outbox hold under every fault; those stated here hold   *)
(* as long as certain faults have not happened, and the record says which. *)
(***************************************************************************)
EXTENDS NotificationQueue

VARIABLE mishaps   \* history, read by properties only

(* What a step can do wrong: a statement of the delivery loop fails        *)
(* ("db"), a scheduling pass has not ended within the hour ("slow_pass"),  *)
(* a user changes the digest rate while one is running ("toggle"), a mail  *)
(* is accepted and sendMail fails all the same ("late_error").             *)
PassRunning == \E f \in Flow : flow[f] # Off

Mishaps ==
  {m \in {"db", "slow_pass", "toggle", "late_error"} :
     \/ m = "db" /\ \E w \in Worker : DatabaseError(w)
     \/ m = "slow_pass" /\ hour' # hour /\ PassRunning
     \/ m = "toggle" /\ digestOn' # digestOn /\ PassRunning
     \/ m = "late_error" /\ emails' # emails
          /\ \E w \in Worker : loop[w].pc = "sending" /\ loop'[w].pc = "failing"}

HistoryInit == Init /\ mishaps = {}
HistoryNext == Next /\ mishaps' = mishaps \cup Mishaps
HistorySpec == HistoryInit /\ [][HistoryNext]_<<vars, mishaps>>
FairHistorySpec == HistorySpec /\ Fairness

(* With no failing statement, no lost answer and no change in the middle   *)
(* of a pass: one mail per event, and no update in two mails, though       *)
(* several workers schedule, deliver and die at once, the host refuses     *)
(* mails and retention deletes rows.                                       *)
MailedOnce ==
  mishaps = {} =>
    /\ \A e \in Event : emails[e] <= 1
    /\ \A s \in Update : Cardinality(Mailed(s)) <= 1

(* With no failing statement an outcome is final: failEvent, which does    *)
(* not look at the status it overwrites, never reopens a finished event.   *)
OutcomesAreFinal ==
  [][\A e \in Event : "db" \notin mishaps' /\ status[e] \in Finished
       => status'[e] \in {status[e], "pruned"}]_vars
=============================================================================
