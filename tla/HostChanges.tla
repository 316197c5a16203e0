----------------------------- MODULE HostChanges -----------------------------
(***************************************************************************)
(* What runElection of coordinator/src/election.ts promises the program    *)
(* that calls it: the host a page beside it should connect to, as          *)
(* coordinatorHost() answers it and onHostChange reports it.  Election     *)
(* implements this specification, and DesktopShell is built on it.         *)
(***************************************************************************)
CONSTANTS
    Hosts,      \* the addresses of other coordinators
    None        \* no coordinator is known

VARIABLES
    status,     \* runElection has yet to return, watches, or has been stopped
    host

vars == <<status, host>>

Init == status = "starting" /\ host = None

\* Its promise settles, with a coordinator or without.
Returns ==
    /\ status = "starting" /\ status' = "watching"
    /\ host' \in Hosts \cup {"localhost", None}

\* onHostChange is called: there is a coordinator, and it is another one than
\* before.  Who has become the coordinator remains it.
Changes ==
    /\ status = "watching" /\ UNCHANGED status
    /\ host # "localhost"
    /\ host' \in (Hosts \cup {"localhost"}) \ {host}

Ends ==
    /\ status # "ended" /\ status' = "ended"
    /\ UNCHANGED host

Next == Returns \/ Changes \/ Ends

Spec == Init /\ [][Next]_vars
=============================================================================
