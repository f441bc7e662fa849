---------------------------- MODULE UpdateLedger ----------------------------
(***************************************************************************)
(* What the outbox promises about buffered updates, without workers,       *)
(* digests, attempts or faults: an update waits until a digest takes it,   *)
(* is closed only after a mail that listed it was accepted, and goes back  *)
(* to the buffer otherwise; what is closed stays closed until retention    *)
(* deletes it.                                                             *)
(***************************************************************************)

CONSTANT Update

VARIABLES
  place,    \* where an update is
  mailed    \* updates that some accepted mail has listed

ledger == <<place, mailed>>

Place == {"none", "buffered", "parked", "closed", "deleted"}
Existing == {"buffered", "parked", "closed"}

Init ==
  /\ place = [s \in Update |-> "none"]
  /\ mailed = {}

Move(S, from, to) ==
  /\ \A s \in S : place[s] \in from
  /\ place' = [s \in Update |-> IF s \in S THEN to ELSE place[s]]

Arrive(s)  == Move({s}, {"none"}, "buffered") /\ UNCHANGED mailed
Park(S)    == Move(S, {"buffered"}, "parked") /\ UNCHANGED mailed
Release(S) == Move(S, {"parked"}, "buffered") /\ UNCHANGED mailed
Delete(S)  == Move(S, Existing, "deleted") /\ UNCHANGED mailed

\* Only what has been mailed is closed.
Close(S) ==
  /\ S \subseteq mailed
  /\ Move(S, {"parked"}, "closed")
  /\ UNCHANGED mailed

\* A digest is accepted, also one whose updates have moved on since.
Mail(S) ==
  /\ \A s \in S : place[s] # "none"
  /\ mailed' = mailed \cup S
  /\ UNCHANGED place

Next ==
  \/ \E s \in Update : Arrive(s)
  \/ \E S \in SUBSET Update : Park(S) \/ Release(S) \/ Delete(S) \/ Close(S) \/ Mail(S)

Spec == Init /\ [][Next]_ledger
=============================================================================
