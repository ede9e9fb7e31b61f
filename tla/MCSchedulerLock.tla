--------------------------- MODULE MCSchedulerLock ---------------------------
(* Small instances of SchedulerLock for TLC. *)
EXTENDS SchedulerLock, TLC

CONSTANTS s1, s2, s3

SchedulerSymmetry == Permutations(Schedulers)

=============================================================================
