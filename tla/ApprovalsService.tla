-------------------------- MODULE ApprovalsService --------------------------
(***************************************************************************)
(* The approvals service: POST /v1/approvals and POST                      *)
(* /v1/approvals/{id}/decision over the in-memory approval store.  Each    *)
(* call is a process that runs on its own thread; the steps below are the  *)
(* stretches of a handler between two accesses to something shared (the    *)
(* store, the audit list, the clock), so any interleaving the service can  *)
(* show is an interleaving of these actions.  A caller may go away, and    *)
(* every store call then throws before it does anything (Abort).           *)
(***************************************************************************)
EXTENDS ApprovalDomain, FiniteSets

CONSTANTS
    InFlight,       \* how many calls may be open at once
    Horizon         \* bound: the clock stops here

ASSUME ServiceAssumption == InFlight \in Nat /\ Horizon \in Nat

\* A call raises at most one proposal, and the Guid it draws is its own.
Calls == Ids

VARIABLES
    now,            \* the injected TimeProvider
    store,          \* InMemoryApprovalStore: id -> approval
    audit,          \* the audit list; each event with the call that wrote it
    pc,             \* where each call is
    approval,       \* the handler's local copy of the approval
    command,        \* the decision the request asks for
    result,         \* the domain result the handler carries over its awaits
    answer          \* the response that was returned

vars == <<now, store, audit, pc, approval, command, result, answer>>
locals == <<approval, command, result>>

PC == {"Idle", "StoreProposal", "AuditProposal", "CheckExpiry", "StoreExpiry",
       "AuditExpiry", "Apply", "AuditDecision", "StoreDecision", "Done"}

Answer == [status: {0, 200, 201, 400, 403, 404, 409, 410},
           error: RefusalKind \cup {"EvidenceRequired", "IdentityNotAccepted", "Forbidden",
                                    "ExpiryRequired", "NotFound", "InvalidDecision", "Aborted"}]

ASSUME NullAnswerAssumption == None \notin Answer

AuditRecord == [call: Calls, event: AuditEvent]

TypeOK ==
    /\ now \in 0..Horizon
    /\ store \in [Ids -> ApprovalRecord \cup {None}]
    /\ audit \subseteq AuditRecord
    /\ pc \in [Calls -> PC]
    /\ approval \in [Calls -> ApprovalRecord \cup {None}]
    /\ command \in [Calls -> Command \cup {None}]
    /\ result \in [Calls -> TransitionResult \cup {None}]
    /\ answer \in [Calls -> Answer \cup {None}]

Init ==
    /\ now = 0
    /\ store = [i \in Ids |-> None]
    /\ audit = {}
    /\ pc = [h \in Calls |-> "Idle"]
    /\ approval = [h \in Calls |-> None]
    /\ command = [h \in Calls |-> None]
    /\ result = [h \in Calls |-> None]
    /\ answer = [h \in Calls |-> None]

-----------------------------------------------------------------------------
Reply(status, error) == [status |-> status, error |-> error]

\* ApprovalEndpoints.StatusFor.
StatusFor(kind) ==
    IF kind \in {"SegregationOfDuties", "InvalidTransition", "NotYetExpired"} THEN 409
    ELSE IF kind = "Expired" THEN 410
    ELSE 400

Goto(h, from, to) == pc[h] = from /\ pc' = [pc EXCEPT ![h] = to]

\* Leave the handler with an answer; its locals go out of scope.
Return(h, reply) ==
    /\ pc' = [pc EXCEPT ![h] = "Done"]
    /\ answer' = [answer EXCEPT ![h] = reply]
    /\ approval' = [approval EXCEPT ![h] = None]
    /\ command' = [command EXCEPT ![h] = None]
    /\ result' = [result EXCEPT ![h] = None]

Arrive(h) ==
    /\ pc[h] = "Idle"
    /\ Cardinality({c \in Calls : pc[c] \notin {"Idle", "Done"}}) < InFlight

\* The store's operations.
CreateAsync(a) == store' = [store EXCEPT ![a.id] = IF @ = None THEN a ELSE @]
UpdateAsync(a) == store' = [store EXCEPT ![a.id] = a]
AppendAuditAsync(h, e) == audit' = audit \cup {[call |-> h, event |-> e]}

-----------------------------------------------------------------------------
(* CreateAsync: the early returns in the handler's order, then Propose.    *)

CreateDefects == {"NoRole", "NoBody", "IdentityMember", "NoPacket", "NoExpiry"}

CreateError(defects, by) ==
    IF "NoRole" \in defects THEN Reply(403, "Forbidden")
    ELSE IF "NoBody" \in defects THEN Reply(400, "EvidenceRequired")
    ELSE IF "IdentityMember" \in defects THEN Reply(400, "IdentityNotAccepted")
    ELSE IF by = None THEN Reply(403, "Forbidden")
    ELSE IF "NoPacket" \in defects THEN Reply(400, "EvidenceRequired")
    ELSE IF "NoExpiry" \in defects THEN Reply(400, "ExpiryRequired")
    ELSE None

CreateBegin(h) ==
    /\ Arrive(h)
    /\ \E by \in Oid \cup {None}, defects \in SUBSET CreateDefects,
          packet \in Packets, expiresAt \in 0..Horizon :
         LET error == CreateError(defects, by)
             kind  == ProposeRefusal(packet, by, expiresAt, now)
             a     == Proposal(h, packet, by, expiresAt, now)
         IN  \/ /\ error # None
                /\ Return(h, error)
             \/ /\ error = None /\ kind # "None"
                /\ Return(h, Reply(StatusFor(kind), kind))
             \/ /\ error = None /\ kind = "None"
                /\ pc' = [pc EXCEPT ![h] = "StoreProposal"]
                /\ approval' = [approval EXCEPT ![h] = a]
                /\ result' = [result EXCEPT ![h] =
                     [refusal |-> kind, approval |-> a,
                      event |-> Event("ApprovalRequested", a, by, now, kind)]]
                /\ UNCHANGED <<command, answer>>
    /\ UNCHANGED <<now, store, audit>>

CreateStore(h) ==
    /\ Goto(h, "StoreProposal", "AuditProposal")
    /\ CreateAsync(approval[h])
    /\ UNCHANGED <<now, audit, locals, answer>>

CreateAudit(h) ==
    /\ pc[h] = "AuditProposal"
    /\ AppendAuditAsync(h, result[h].event)
    /\ Return(h, Reply(201, "None"))
    /\ UNCHANGED <<now, store>>

-----------------------------------------------------------------------------
(* DecideAsync.                                                            *)

DecideDefects == {"NoRole", "IdentityMember"}

DecideError(defects, read, by) ==
    IF "NoRole" \in defects THEN Reply(403, "Forbidden")
    ELSE IF read = None THEN Reply(404, "NotFound")
    ELSE IF "IdentityMember" \in defects THEN Reply(400, "IdentityNotAccepted")
    ELSE IF by = None THEN Reply(403, "Forbidden")
    ELSE None

\* GetAsync and the early returns that follow it.  A decision the code does not
\* recognise is the command None: it is refused only after the expiry check.
DecideBegin(h) ==
    /\ Arrive(h)
    /\ \E id \in Ids, by \in Oid \cup {None}, defects \in SUBSET DecideDefects,
          reasoned \in BOOLEAN :
       \E c \in {ApproveCommand(by, reasoned), RejectCommand(by, reasoned), None} :
         LET error == DecideError(defects, store[id], by)
         IN  \/ /\ error # None
                /\ Return(h, error)
             \/ /\ error = None
                /\ pc' = [pc EXCEPT ![h] = "CheckExpiry"]
                /\ approval' = [approval EXCEPT ![h] = store[id]]
                /\ command' = [command EXCEPT ![h] = c]
                /\ UNCHANGED <<result, answer>>
    /\ UNCHANGED <<now, store, audit>>

\* The clock is read here, and read again inside Apply: two steps.  Expire reads
\* it once more, but a clock that has passed expiresAt stays past it.
DecideCheckExpiry(h) ==
    /\ pc[h] = "CheckExpiry"
    /\ \/ /\ HasPassedExpiry(approval[h], now) /\ approval[h].state = "PendingApproval"
          /\ pc' = [pc EXCEPT ![h] = "StoreExpiry"]
          /\ result' = [result EXCEPT ![h] = Apply(approval[h], ExpireCommand, now)]
       \/ /\ ~(HasPassedExpiry(approval[h], now) /\ approval[h].state = "PendingApproval")
          /\ pc' = [pc EXCEPT ![h] = "Apply"]
          /\ UNCHANGED result
    /\ UNCHANGED <<now, store, audit, approval, command, answer>>

ExpireStore(h) ==
    /\ Goto(h, "StoreExpiry", "AuditExpiry")
    /\ IF result[h].refusal = "None" THEN UpdateAsync(result[h].approval) ELSE UNCHANGED store
    /\ UNCHANGED <<now, audit, locals, answer>>

ExpireAudit(h) ==
    /\ pc[h] = "AuditExpiry"
    /\ AppendAuditAsync(h, result[h].event)
    /\ Return(h, Reply(410, "Expired"))
    /\ UNCHANGED <<now, store>>

DecideApply(h) ==
    /\ pc[h] = "Apply"
    /\ \/ /\ command[h] = None
          /\ Return(h, Reply(400, "InvalidDecision"))
       \/ /\ command[h] # None
          /\ pc' = [pc EXCEPT ![h] = "AuditDecision"]
          /\ result' = [result EXCEPT ![h] = Apply(approval[h], command[h], now)]
          /\ UNCHANGED <<approval, command, answer>>
    /\ UNCHANGED <<now, store, audit>>

MutDecideAudit(h) ==       \* only refusals are audited before the record is stored
    /\ pc[h] = "AuditDecision"
    /\ \/ /\ result[h].refusal # "None"
          /\ AppendAuditAsync(h, result[h].event)
          /\ Return(h, Reply(StatusFor(result[h].refusal), result[h].refusal))
       \/ /\ result[h].refusal = "None"
          /\ pc' = [pc EXCEPT ![h] = "StoreDecision"]
          /\ UNCHANGED <<locals, answer, audit>>
    /\ UNCHANGED <<now, store>>

MutDecideAuditSilent(h) == \* a refused decision leaves no audit record
    /\ pc[h] = "AuditDecision"
    /\ \/ /\ result[h].refusal # "None"
          /\ UNCHANGED audit
          /\ Return(h, Reply(StatusFor(result[h].refusal), result[h].refusal))
       \/ /\ result[h].refusal = "None"
          /\ AppendAuditAsync(h, result[h].event)
          /\ pc' = [pc EXCEPT ![h] = "StoreDecision"]
          /\ UNCHANGED <<locals, answer>>
    /\ UNCHANGED <<now, store>>

\* The audit record is appended for refusals and decisions alike, and before the
\* decision is stored.
DecideAudit(h) ==
    /\ pc[h] = "AuditDecision"
    /\ AppendAuditAsync(h, result[h].event)
    /\ \/ /\ result[h].refusal # "None"
          /\ Return(h, Reply(StatusFor(result[h].refusal), result[h].refusal))
       \/ /\ result[h].refusal = "None"
          /\ pc' = [pc EXCEPT ![h] = "StoreDecision"]
          /\ UNCHANGED <<locals, answer>>
    /\ UNCHANGED <<now, store>>

DecideStore(h) ==
    /\ pc[h] = "StoreDecision"
    /\ UpdateAsync(result[h].approval)
    /\ Return(h, Reply(200, "None"))
    /\ UNCHANGED <<now, audit>>

-----------------------------------------------------------------------------
\* ThrowIfCancellationRequested, at the head of every store call.
Abort(h) ==
    /\ pc[h] \in {"StoreProposal", "AuditProposal", "StoreExpiry", "AuditExpiry",
                  "AuditDecision", "StoreDecision"}
    /\ Return(h, Reply(0, "Aborted"))
    /\ UNCHANGED <<now, store, audit>>

Tick ==
    /\ now < Horizon
    /\ now' = now + 1
    /\ UNCHANGED <<store, audit, pc, locals, answer>>

Step(h) ==
    \/ CreateStore(h) \/ CreateAudit(h)
    \/ DecideCheckExpiry(h) \/ ExpireStore(h) \/ ExpireAudit(h)
    \/ DecideApply(h) \/ DecideAudit(h) \/ DecideStore(h)

Next ==
    \/ \E h \in Calls : CreateBegin(h) \/ DecideBegin(h) \/ Step(h) \/ Abort(h)
    \/ Tick

Spec == Init /\ [][Next]_vars

-----------------------------------------------------------------------------
(* Safety.                                                                 *)

Stored == {i \in Ids : store[i] # None}
Decided(a) == a.state \in {"Approved", "Rejected"}

\* A decision that reached the store was taken by a second person, whatever the
\* spelling of the two object ids, and before the proposal expired, however late it
\* was written (guards of ApprovalStateMachine.FromPending, carried across the awaits
\* of DecideAsync).
SegregationOfDuties ==
    \A i \in Stored : Decided(store[i]) =>
        /\ store[i].decidedBy \in Oid
        /\ Person[store[i].decidedBy] # Person[store[i].proposedBy]
        /\ store[i].createdAt <= store[i].decidedAt
        /\ store[i].decidedAt < store[i].expiresAt

\* A decision in the store is already in the audit list, with the same decider, time,
\* outcome and evidence hash: DecideAsync appends before it updates, and neither a
\* cancelled call nor a concurrent one can leave a decision nobody recorded.
DecisionIsAudited ==
    \A i \in Stored : Decided(store[i]) =>
        \E r \in audit :
            /\ r.event.type = "ApprovalDecided" /\ r.event.id = i
            /\ r.event.actor = store[i].decidedBy /\ r.event.state = store[i].state
            /\ r.event.at = store[i].decidedAt /\ r.event.hash = store[i].hash

\* A call that was answered by the domain (created, decided, or refused by the state
\* machine) has its own audit record, and the record tells the same outcome
\* (approval-api.md invariant 3, for the calls that reach the domain).
AnswerIsAudited ==
    \A h \in Calls : answer[h] # None =>
        /\ answer[h].status = 201 => \E r \in audit : r.call = h /\ r.event.type = "ApprovalRequested"
        /\ answer[h].status = 200 => \E r \in audit : r.call = h /\ r.event.type = "ApprovalDecided"
        /\ answer[h].status \in {409, 410} =>
             \E r \in audit : r.call = h /\ r.event.type \in {"ApprovalRefused", "ApprovalExpired"}

\* Whatever the store holds can be read back (Approval.Rehydrate refuses no record the state
\* machine wrote), and the execution gate, which repeats the decision-time checks, agrees
\* with it: it authorises exactly the approved ones.
GateAgrees ==
    \A i \in Stored :
        /\ RehydrateRefusal(store[i]) = "None"
        /\ (AuthorizeRefusal(store[i]) = "None") <=> (store[i].state = "Approved")

\* No write, however stale the copy it was computed from, changes who proposed what, on
\* which evidence and until when; and no stored proposal disappears.
ProvenanceIsFixed ==
    [][\A i \in Stored :
          /\ store'[i] # None
          /\ store'[i].proposedBy = store[i].proposedBy
          /\ store'[i].packet = store[i].packet /\ store'[i].hash = store[i].hash
          /\ store'[i].createdAt = store[i].createdAt
          /\ store'[i].expiresAt = store[i].expiresAt]_vars

\* A terminal state is final (ApprovalState.cs: "That answer is final the moment it is
\* recorded"): no later write, by a call that read it earlier, changes it.
TerminalIsFinal ==
    [][\A i \in Stored : store[i].state \in Terminal => store'[i] = store[i]]_vars

\* After a 410 the proposal is not Pending any more (ApprovalEndpoints.cs: "leaving the
\* proposal Pending after a 410 would mean the fact that it expired exists only in the
\* reader's head").
GoneIsRecorded ==
    \A r \in audit : answer[r.call] # None /\ answer[r.call].status = 410 =>
        store[r.event.id].state # "PendingApproval"

=============================================================================
