------------------------------ MODULE Transfer ------------------------------
(***************************************************************************)
(* What sendFile and receiveFile of transfer-engine/src/transferSession.ts *)
(* promise the two users of a transfer: what each may be told, and when.   *)
(* How a file gets across is left to TransferSession, which implements     *)
(* this specification.                                                     *)
(***************************************************************************)

VARIABLES
    sender,     \* what the sending user has been told of this attempt
    receiver,   \* what the receiving user has been told, or has answered
    cancelled,  \* one of them has cancelled
    verified    \* the receiver has the hash of every chunk of this file

vars == <<sender, receiver, cancelled, verified>>

SenderEndings == {"complete", "rejected", "cancelled", "failed"}
ReceiverEndings == {"complete", "declined", "cancelled", "failed"}

Init ==
    /\ sender = "idle" /\ receiver = "idle"
    /\ cancelled = FALSE /\ verified \in BOOLEAN

\* The file is sent (again), whatever became of the receiver's last attempt.
Begin ==
    /\ sender # "running"
    /\ sender' = "running" /\ receiver' = "running"
    /\ cancelled' = FALSE /\ verified' \in BOOLEAN

\* A user may cancel at any time, chunks come in.
Goes == cancelled' \in {cancelled, TRUE} /\ verified' \in {verified, TRUE}

Proceed == Goes /\ UNCHANGED <<sender, receiver>>

SenderIsTold ==
    /\ sender = "running" /\ sender' \in SenderEndings
    /\ sender' = "complete" => verified
    /\ sender' = "cancelled" => cancelled'
    /\ sender' = "rejected" => receiver = "declined"
    /\ Goes /\ UNCHANGED receiver

ReceiverIsTold ==
    /\ receiver = "running" /\ receiver' \in ReceiverEndings
    /\ receiver' = "complete" => verified
    /\ receiver' = "cancelled" => cancelled
    /\ Goes /\ UNCHANGED sender

\* The receiving page or app dies, and nobody is told anything there any more.
ReceiverDies ==
    /\ receiver # "idle"
    /\ receiver' = "crashed"
    /\ Goes /\ UNCHANGED sender

Next == Begin \/ Proceed \/ SenderIsTold \/ ReceiverIsTold \/ ReceiverDies

Spec == Init /\ [][Next]_vars
=============================================================================
