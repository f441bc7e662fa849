-------------------------- MODULE MCDigestSchedule --------------------------
(* Instances of DigestSchedule for TLC.                                    *)
EXTENDS DigestSchedule, TLC

SameWorkers == Permutations(Worker)
=============================================================================
