----------------------------- MODULE TxLifecycle -----------------------------
(***************************************************************************)
(* What Party B promises about the status of a transaction, and all that   *)
(* a reader of the transactions table may rely on: the statuses of         *)
(* internal/store/store.go and the moves between them.                     *)
(***************************************************************************)
CONSTANTS
    Tx,
    MayLoseWrites   \* a status update may be lost (UpdateTxStatus failed)

VARIABLE status

Init == status = [t \in Tx |-> "none"]

Move(t, s) == status' = [status EXCEPT ![t] = s]

\* A request is recorded, once.
Submit(t)  == status[t] = "none" /\ Move(t, "pending_review")

Approve(t) == status[t] = "pending_review" /\ Move(t, "approved")

\* The owner, the analyzer, a timer or a failed session rejects.
Reject(t)  == status[t] \in {"pending_review", "approved"} /\ Move(t, "rejected")

\* A signature exists; "approved" is skipped only if that update was lost.
Sign(t) ==
    /\ status[t] = "approved" \/ (MayLoseWrites /\ status[t] = "pending_review")
    /\ Move(t, "signed")

Next == \E t \in Tx : Submit(t) \/ Approve(t) \/ Reject(t) \/ Sign(t)

\* No status is ever left behind: rejected and signed are final.
Spec == Init /\ [][Next]_status

\* ... and a transaction under review is eventually decided.
Decide(t) ==
    status[t] = "pending_review" /\ (Move(t, "approved") \/ Move(t, "rejected"))

Decides == \A t \in Tx : WF_status(Decide(t))
=============================================================================
