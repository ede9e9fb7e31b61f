------------------------- MODULE MCDashboardSession -------------------------
(* Small instances of DashboardSession for TLC. *)
EXTENDS DashboardSession

CONSTANTS a, b

\* Two sessions of different organisations.
OrgOfToken == [t \in Tokens |-> IF t = a THEN "org1" ELSE "org2"]

=============================================================================
