---------------------------- MODULE MCNebulaApi ----------------------------
(* Small instances of NebulaApi for TLC. *)
EXTENDS NebulaApi

CONSTANTS c1, c2

\* A request of a developer of the organisation that owns everything.
Good ==
    [ route |-> "enqueue", token |-> "valid", role |-> "DEVELOPER", org |-> "org",
      broken |-> {}, kind |-> "immediate", on |-> "q", key |-> NoKey ]

Keyed == [Good EXCEPT !.key = "k"]
ReplayOne == [Good EXCEPT !.route = "replay", !.on = "d"]
Pause == [Good EXCEPT !.route = "pause"]

\* An expired token with a broken body, a viewer, and strangers to the row.
ExpiredPause == [Pause EXCEPT !.token = "expired", !.broken = {"body"}]
ViewerReplay == [ReplayOne EXCEPT !.role = "VIEWER"]
StrangerEnqueue == [Good EXCEPT !.org = "other"]
StrangerQueue == [StrangerEnqueue EXCEPT !.route = "createQueue", !.on = "slug"]

\* One request for each of the other handlers.
Register == [Good EXCEPT !.route = "register", !.token = "missing", !.on = "email"]
Adjust == [Good EXCEPT !.route = "updateQueue", !.kind = "resuming"]
Health == [Good EXCEPT !.route = "health"]

CoreShapes ==
    {Keyed, ReplayOne, Pause, Adjust, ExpiredPause, ViewerReplay, StrangerEnqueue,
     StrangerQueue, Register, Health}

OwnerOf == [x \in Rows \cup Dead \cup Names |-> "org"]

=============================================================================
