-------------------------- MODULE ApprovalLifecycle --------------------------
(***************************************************************************)
(* What an approval promises, and nothing of how: one question, answered   *)
(* at most once, and execution authorised only by the answer "Approved".   *)
(***************************************************************************)
VARIABLES
    state,          \* "None" until proposed, then the approval's state
    authorised      \* has execution ever been authorised?

vars == <<state, authorised>>

Init == state = "None" /\ authorised = FALSE

Propose == state = "None" /\ state' = "PendingApproval" /\ UNCHANGED authorised

Settle ==
    /\ state = "PendingApproval"
    /\ state' \in {"Approved", "Rejected", "Expired"}
    /\ UNCHANGED authorised

Authorise == state = "Approved" /\ authorised' = TRUE /\ UNCHANGED state

Next == Propose \/ Settle \/ Authorise

Spec == Init /\ [][Next]_vars
=============================================================================
