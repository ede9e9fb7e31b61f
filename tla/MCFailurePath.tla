---------------------------- MODULE MCFailurePath ----------------------------
(* Small instances of FailurePath for TLC.  A second is a few units long. *)
EXTENDS FailurePath

=============================================================================
