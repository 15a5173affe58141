--------------------------- MODULE ApprovalDomain ---------------------------
(***************************************************************************)
(* The approval domain (Fcmr.Approvals.Domain) as operators on immutable   *)
(* records: raising a proposal, the state machine's transition table, the  *)
(* check on a stored row, and the execution gate.  Every operation of the  *)
(* domain returns a new record and an audit event and keeps no state of    *)
(* its own; the modules that EXTEND this one hold the state.               *)
(***************************************************************************)
EXTENDS Naturals

CONSTANTS
    Ids,            \* approval ids: the Guid each proposal is given
    Oid,            \* object ids exactly as a token or a stored row spells them
    Person,         \* Person[o]: o trimmed and case-folded, i.e. whose id it is
    Packets,        \* evidence packets
    Uncorrelated,   \* the packets that carry no correlationId
    Digest,         \* Digest[p]: the packet's EvidencePacketHash
    None            \* C#'s null, and a blank string where the code tests for one

ASSUME DomainAssumption ==
    /\ None \notin Oid /\ None \notin Nat /\ None \notin Packets
    /\ Uncorrelated \subseteq Packets
    /\ DOMAIN Person = Oid /\ DOMAIN Digest = Packets

Terminal == {"Approved", "Rejected", "Expired"}
ApprovalState == {"PendingApproval"} \cup Terminal
Hashes == {Digest[p] : p \in Packets}

ApprovalRecord ==
    [id: Ids, packet: Packets, hash: Hashes, state: ApprovalState,
     proposedBy: Oid, decidedBy: Oid \cup {None}, reasoned: BOOLEAN,
     createdAt: Nat, expiresAt: Nat, decidedAt: Nat \cup {None}]

RefusalKind ==
    {"None", "CorrelationIdRequired", "ProposerIdentityRequired", "ExpiryNotInFuture",
     "ApproverIdentityRequired", "Expired", "SegregationOfDuties", "ReasonRequired",
     "EvidencePacketMismatch", "NotYetExpired", "InvalidTransition", "NotApproved",
     "InconsistentRecord"}

\* Only the text of a reason is left out: `reasoned` says whether it is non-blank.
\* `ack` is the hash the approver acknowledges, None when the command has none.
Command ==
    [trigger: {"Approve", "Reject", "Expire"}, by: Oid \cup {None},
     reasoned: BOOLEAN, ack: Hashes \cup {None}]

AuditEvent ==
    [type: {"ApprovalRequested", "ApprovalDecided", "ApprovalExpired", "ApprovalRefused",
            "ExecutionAuthorized"},
     id: Ids, actor: Oid \cup {None}, state: ApprovalState, at: Nat,
     hash: Hashes, refusal: RefusalKind]

\* A transition result: `approval` is the new record, or the old one on a refusal.
TransitionResult == [refusal: RefusalKind, approval: ApprovalRecord, event: AuditEvent]

\* null is none of these.
ASSUME NullAssumption ==
    None \notin ApprovalRecord /\ None \notin Command /\ None \notin TransitionResult

Event(type, a, actor, now, kind) ==
    [type |-> type, id |-> a.id, actor |-> actor, state |-> a.state, at |-> now,
     hash |-> a.hash, refusal |-> kind]

-----------------------------------------------------------------------------
(* Guards shared by the state machine and the gate.                        *)

MutIsSameIdentity(left, right) == left = right     \* ordinal comparison

IsSameIdentity(left, right) == Person[left] = Person[right]

VerifyEvidenceIntegrity(a) == a.hash = Digest[a.packet]

HasPassedExpiry(a, now) == now >= a.expiresAt

-----------------------------------------------------------------------------
(* Approval.Propose.                                                       *)

ProposeRefusal(packet, by, expiresAt, now) ==
    IF packet \in Uncorrelated THEN "CorrelationIdRequired"
    ELSE IF by = None THEN "ProposerIdentityRequired"
    ELSE IF expiresAt <= now THEN "ExpiryNotInFuture"
    ELSE "None"

Proposal(id, packet, by, expiresAt, now) ==
    [id |-> id, packet |-> packet, hash |-> Digest[packet], state |-> "PendingApproval",
     proposedBy |-> by, decidedBy |-> None, reasoned |-> FALSE,
     createdAt |-> now, expiresAt |-> expiresAt, decidedAt |-> None]

-----------------------------------------------------------------------------
(* ApprovalStateMachine.Apply: the transition table, total over state and  *)
(* trigger.                                                                *)

MutDecisionRefusal(a, c, now) ==       \* the expiry guard dropped
    IF c.by = None THEN "ApproverIdentityRequired"
    ELSE IF IsSameIdentity(c.by, a.proposedBy) THEN "SegregationOfDuties"
    ELSE IF c.trigger = "Reject" /\ ~c.reasoned THEN "ReasonRequired"
    ELSE IF ~VerifyEvidenceIntegrity(a) THEN "EvidencePacketMismatch"
    ELSE IF c.ack # None /\ c.ack # a.hash THEN "EvidencePacketMismatch"
    ELSE "None"

MutDecisionAnyone(a, c, now) ==        \* segregation of duties left to the gate
    IF c.by = None THEN "ApproverIdentityRequired"
    ELSE IF HasPassedExpiry(a, now) THEN "Expired"
    ELSE IF c.trigger = "Reject" /\ ~c.reasoned THEN "ReasonRequired"
    ELSE IF ~VerifyEvidenceIntegrity(a) THEN "EvidencePacketMismatch"
    ELSE IF c.ack # None /\ c.ack # a.hash THEN "EvidencePacketMismatch"
    ELSE "None"

\* The guards on Approve and Reject, in the order the code evaluates them.
DecisionRefusal(a, c, now) ==
    IF c.by = None THEN "ApproverIdentityRequired"
    ELSE IF HasPassedExpiry(a, now) THEN "Expired"
    ELSE IF IsSameIdentity(c.by, a.proposedBy) THEN "SegregationOfDuties"
    ELSE IF c.trigger = "Reject" /\ ~c.reasoned THEN "ReasonRequired"
    ELSE IF ~VerifyEvidenceIntegrity(a) THEN "EvidencePacketMismatch"
    ELSE IF c.ack # None /\ c.ack # a.hash THEN "EvidencePacketMismatch"
    ELSE "None"

FromPending(a, c, now) ==
    IF c.trigger # "Expire" THEN DecisionRefusal(a, c, now)
    ELSE IF ~HasPassedExpiry(a, now) THEN "NotYetExpired"
    ELSE "None"

MutTransitionRefusal(a, c, now) ==     \* a decision may be revisited until it expires
    IF a.state = "Expired" THEN "Expired" ELSE FromPending(a, c, now)

TransitionRefusal(a, c, now) ==
    IF a.state = "PendingApproval" THEN FromPending(a, c, now)
    ELSE IF a.state = "Expired" /\ c.trigger # "Expire" THEN "Expired"
    ELSE "InvalidTransition"

MutTargetState(c) ==                   \* a fifth state
    IF c.trigger = "Approve" THEN "Executed"
    ELSE IF c.trigger = "Reject" THEN "Rejected"
    ELSE "Expired"

TargetState(c) ==
    IF c.trigger = "Approve" THEN "Approved"
    ELSE IF c.trigger = "Reject" THEN "Rejected"
    ELSE "Expired"

MutWithDecision(a, c, now) ==          \* the decision time lands in the wrong field
    [a EXCEPT !.state = TargetState(c), !.decidedBy = c.by, !.reasoned = c.reasoned,
              !.expiresAt = now]

WithDecision(a, c, now) ==
    [a EXCEPT !.state = TargetState(c), !.decidedBy = c.by, !.reasoned = c.reasoned,
              !.decidedAt = now]

Apply(a, c, now) ==
    LET kind == TransitionRefusal(a, c, now)
        decided == WithDecision(a, c, now)
        type == IF c.trigger = "Expire" THEN "ApprovalExpired" ELSE "ApprovalDecided"
    IN  IF kind = "None"
        THEN [refusal |-> kind, approval |-> decided,
              event |-> Event(type, decided, c.by, now, kind)]
        ELSE [refusal |-> kind, approval |-> a,
              event |-> Event("ApprovalRefused", a, c.by, now, kind)]

\* Approve, Reject and Expire of class Approval: no acknowledged hash is passed.
ApproveCommand(by, reasoned) == [trigger |-> "Approve", by |-> by, reasoned |-> reasoned, ack |-> None]
RejectCommand(by, reasoned) == [trigger |-> "Reject", by |-> by, reasoned |-> reasoned, ack |-> None]
ExpireCommand == [trigger |-> "Expire", by |-> None, reasoned |-> FALSE, ack |-> None]

-----------------------------------------------------------------------------
(* Approval.Rehydrate: which stored rows enter the domain again.           *)

Contradicts(row) ==
    \/ row.state \in {"Approved", "Rejected"} /\ row.decidedBy = None
    \/ row.state = "Rejected" /\ ~row.reasoned
    \/ row.state \in {"Expired", "PendingApproval"} /\ row.decidedBy # None
    \/ row.state # "PendingApproval" /\ row.decidedAt = None

RehydrateRefusal(row) ==
    IF row.packet \in Uncorrelated THEN "CorrelationIdRequired"
    ELSE IF row.proposedBy = None THEN "ProposerIdentityRequired"
    ELSE IF Contradicts(row) THEN "InconsistentRecord"
    ELSE "None"

-----------------------------------------------------------------------------
(* ExecutionGate.Authorize.                                                *)

MutAuthorizeRefusal(a) ==              \* the gate trusts the decision-time checks
    IF a.state = "Expired" THEN "Expired"
    ELSE IF a.state # "Approved" THEN "NotApproved"
    ELSE "None"

MutAuthorizeUnverified(a) ==           \* the gate does not hash the packet again
    IF a.state = "Expired" THEN "Expired"
    ELSE IF a.state # "Approved" THEN "NotApproved"
    ELSE IF a.decidedBy = None THEN "ApproverIdentityRequired"
    ELSE IF IsSameIdentity(a.decidedBy, a.proposedBy) THEN "SegregationOfDuties"
    ELSE "None"

AuthorizeRefusal(a) ==
    IF a.state = "Expired" THEN "Expired"
    ELSE IF a.state # "Approved" THEN "NotApproved"
    ELSE IF a.decidedBy = None THEN "ApproverIdentityRequired"
    ELSE IF IsSameIdentity(a.decidedBy, a.proposedBy) THEN "SegregationOfDuties"
    ELSE IF ~VerifyEvidenceIntegrity(a) THEN "EvidencePacketMismatch"
    ELSE "None"

Authorize(a, now) ==
    LET kind == AuthorizeRefusal(a)
        type == IF kind = "None" THEN "ExecutionAuthorized" ELSE "ApprovalRefused"
    IN  [refusal |-> kind, approval |-> a, event |-> Event(type, a, a.decidedBy, now, kind)]

=============================================================================
