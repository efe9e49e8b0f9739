------------------------------- MODULE Search -------------------------------
(***************************************************************************)
(* What bdNodeManager promises the application about its searches, without *)
(* modes, queries or time: a search that was asked for runs, comes to a    *)
(* verdict and stays there, unless it idles; stopping the DHT puts every   *)
(* search back in line; and what the application is told of a search is    *)
(* what the search has come to.                                            *)
(***************************************************************************)
CONSTANTS
    Id,
    Background,         \* ids that the node searches for by itself as well
    Verdict

VARIABLES
    status,             \* of the search for an id
    idle,               \* whether the search goes on after its verdict
    told                \* what the step tells the application: ids and reports

vars == <<status, idle, told>>

Searched(id) == status[id] # "NONE"

Report(s) ==
    CASE s = "QUERYING"         -> "NONE"
      [] s = "FAILURE"          -> "FAILURE"
      [] s = "FOUND_CLOSEST"    -> "OFFLINE"
      [] s = "PEER_UNREACHABLE" -> "UNREACHABLE"
      [] s = "SUCCESS"          -> "ONLINE"

Init ==
    /\ status = [id \in Id |-> "NONE"]
    /\ idle = [id \in Id |-> FALSE]
    /\ told = {}

\* A search that is already there stays as it is.
Ask(id, doIdle) ==
    /\ told' = {}
    /\ IF Searched(id)
         THEN UNCHANGED <<status, idle>>
         ELSE /\ status' = [status EXCEPT ![id] = "READY"]
              /\ idle' = [idle EXCEPT ![id] = doIdle]

Withdraw(ids) ==
    /\ told' = {}
    /\ status' = [id \in Id |-> IF id \in ids THEN "NONE" ELSE status[id]]
    /\ idle' = [id \in Id |-> idle[id] /\ id \notin ids]

\* The DHT is stopped, by the application or because it has lost the network.
Stop ==
    /\ told' = {}
    /\ status' = [id \in Id |-> IF Searched(id) THEN "READY" ELSE "NONE"]
    /\ UNCHANGED idle

\* The states a search may be in after a turn.  A search of the node itself for the
\* same id may give the state of its own.
After(id) ==
    {status[id]}
      \cup (IF status[id] = "READY" THEN {"QUERYING"} ELSE {})
      \cup (IF status[id] = "QUERYING" THEN Verdict ELSE {})
      \cup (IF status[id] \in Verdict /\ idle[id] THEN Verdict ELSE {})
      \cup (IF Searched(id) /\ id \in Background THEN {"QUERYING"} \cup Verdict ELSE {})

Turn ==
    /\ \A id \in Id : status'[id] \in After(id)
    /\ DOMAIN status' = Id
    /\ \A report \in told' :
         \E id \in Id : Searched(id) /\ report = <<id, Report(status'[id])>>
    /\ UNCHANGED idle

Next ==
    \/ \E id \in Id, doIdle \in BOOLEAN : Ask(id, doIdle)
    \/ \E ids \in SUBSET Id : Withdraw(ids)
    \/ Stop
    \/ Turn

Spec == Init /\ [][Next]_vars

=============================================================================
