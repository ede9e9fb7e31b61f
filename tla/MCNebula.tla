------------------------------ MODULE MCNebula ------------------------------
(* Small instances of Nebula for TLC. *)
EXTENDS Nebula, TLC

CONSTANTS j1, j2, w1, w2

\* Both jobs in one queue that both workers poll.
OneQueueOf == [j \in Jobs |-> "q"]
LimitOne == [q \in Queues |-> 1]
LimitTwo == [q \in Queues |-> 2]
AllSubscribed == [w \in Workers |-> Queues]

NoRetries == [j \in Jobs |-> 0]
OneRetry == [j \in Jobs |-> 1]
\* One job may be retried once, the other not at all.
MixedRetries == [j \in Jobs |-> IF j = j1 THEN 1 ELSE 0]

WorkerSymmetry == Permutations(Workers)

=============================================================================
