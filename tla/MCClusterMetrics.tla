--------------------------- MODULE MCClusterMetrics ---------------------------
(* Small instances of ClusterMetrics for TLC. *)
EXTENDS ClusterMetrics

CONSTANTS j1, j2, w, a, b

\* A job of each organisation, and a worker that is bound to no project.
MCOrgOf == [x \in Jobs \cup Workers |-> CASE x = j1 -> a [] x = j2 -> b [] OTHER -> NoOrg]

\* A developer of a, an OWNER of b asking for b, and the same asking for all.
MCCallers == {
    [org |-> a, role |-> "DEVELOPER", scope |-> "global"],
    [org |-> b, role |-> "OWNER", scope |-> "own"],
    [org |-> b, role |-> "OWNER", scope |-> "global"] }

=============================================================================
