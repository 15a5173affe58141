----------------------- MODULE ApprovalsServiceProofs -----------------------
(***************************************************************************)
(* Proofs about ApprovalsService, for any number of calls, identities and  *)
(* packets and any bound on the clock: what races can never do, although   *)
(* the store has no optimistic concurrency.                                *)
(***************************************************************************)
EXTENDS ApprovalsService, ApprovalDomainProofs

USE DEF Calls

\* What each program counter promises about the handler's locals.
LocalsOK(h) ==
    /\ pc[h] \in {"StoreProposal", "AuditProposal"} => approval[h] # None /\ result[h] # None
    /\ pc[h] \in {"CheckExpiry", "Apply"} => approval[h] # None
    /\ pc[h] \in {"StoreExpiry", "AuditExpiry", "AuditDecision", "StoreDecision"} => result[h] # None

\* Type correctness needs to know which locals are set where.
TypeInv == TypeOK /\ \A h \in Calls : LocalsOK(h)

LEMMA ReplyTyped ==
    /\ \A k \in RefusalKind : Reply(StatusFor(k), k) \in Answer
    /\ Reply(200, "None") \in Answer /\ Reply(201, "None") \in Answer
    /\ Reply(410, "Expired") \in Answer /\ Reply(400, "InvalidDecision") \in Answer
    /\ Reply(0, "Aborted") \in Answer
    /\ \A d, by : CreateError(d, by) \in Answer \cup {None}
    /\ \A d, a, by : DecideError(d, a, by) \in Answer \cup {None}
  BY DEF Reply, StatusFor, Answer, RefusalKind, CreateError, DecideError

LEMMA ReturnTyped ==
    ASSUME NEW h \in Calls, NEW reply \in Answer, TypeInv, Return(h, reply)
    PROVE  /\ pc' \in [Calls -> PC] /\ answer' \in [Calls -> Answer \cup {None}]
           /\ approval' \in [Calls -> ApprovalRecord \cup {None}]
           /\ command' \in [Calls -> Command \cup {None}]
           /\ result' \in [Calls -> TransitionResult \cup {None}]
           /\ \A g \in Calls : LocalsOK(g)'
  <1>1. /\ pc' \in [Calls -> PC] /\ answer' \in [Calls -> Answer \cup {None}]
        /\ approval' \in [Calls -> ApprovalRecord \cup {None}]
        /\ command' \in [Calls -> Command \cup {None}]
        /\ result' \in [Calls -> TransitionResult \cup {None}]
    BY DEF Return, TypeInv, TypeOK, PC
  <1>2. ASSUME NEW g \in Calls PROVE LocalsOK(g)'
    BY DEF Return, TypeInv, TypeOK, LocalsOK
  <1> QED
    BY <1>1, <1>2

LEMMA CommandsTyped ==
    /\ \A by \in Oid \cup {None}, b \in BOOLEAN :
          ApproveCommand(by, b) \in Command /\ RejectCommand(by, b) \in Command
          /\ WellFormed(ApproveCommand(by, b)) /\ WellFormed(RejectCommand(by, b))
          /\ ApproveCommand(by, b).trigger # "Expire" /\ RejectCommand(by, b).trigger # "Expire"
    /\ ExpireCommand \in Command /\ WellFormed(ExpireCommand)
  BY DEF ApproveCommand, RejectCommand, ExpireCommand, Command, WellFormed

LEMMA RequestTyped ==
    ASSUME NEW id \in Ids, NEW packet \in Packets, NEW by \in Oid \cup {None},
           NEW e \in 0..Horizon, NEW t \in 0..Horizon,
           ProposeRefusal(packet, by, e, t) = "None"
    PROVE  LET a == Proposal(id, packet, by, e, t)
               r == [refusal |-> "None", approval |-> a,
                     event |-> Event("ApprovalRequested", a, by, t, "None")]
           IN  /\ a \in ApprovalRecord /\ r \in TransitionResult
               /\ Sound(a) /\ a.state = "PendingApproval" /\ a.createdAt = t /\ a.id = id
  <1> DEFINE a == Proposal(id, packet, by, e, t)
  <1>1. a \in ApprovalRecord /\ Sound(a) /\ a.state = "PendingApproval" /\ a.createdAt = t /\ a.id = id
    BY ProposalSound
  <1>2. "None" \in RefusalKind /\ by \in Oid \cup {None} /\ t \in Nat
    BY DEF RefusalKind
  <1> HIDE DEF a
  <1>3. Event("ApprovalRequested", a, by, t, "None") \in AuditEvent
    BY <1>1, <1>2 DEF Event, AuditEvent, ApprovalRecord
  <1> QED
    BY <1>1, <1>2, <1>3 DEF TransitionResult, a

-----------------------------------------------------------------------------
(* Type correctness.                                                       *)

LEMMA TypeInit == Init => TypeInv
  BY ServiceAssumption DEF Init, TypeInv, TypeOK, LocalsOK, PC

LEMMA TypeNext == TypeInv /\ [Next]_vars => TypeInv'
  <1> SUFFICES ASSUME TypeInv, [Next]_vars PROVE TypeInv'
    OBVIOUS
  <1>a. TypeOK /\ \A g \in Calls : LocalsOK(g)
    BY DEF TypeInv
  <1>1. ASSUME NEW h \in Calls, CreateBegin(h) PROVE TypeInv'
    <2> PICK by \in Oid \cup {None}, defects \in SUBSET CreateDefects,
             packet \in Packets, expiresAt \in 0..Horizon :
          LET error == CreateError(defects, by)
              kind  == ProposeRefusal(packet, by, expiresAt, now)
              a     == Proposal(h, packet, by, expiresAt, now)
          IN  \/ error # None /\ Return(h, error)
              \/ error = None /\ kind # "None" /\ Return(h, Reply(StatusFor(kind), kind))
              \/ /\ error = None /\ kind = "None"
                 /\ pc' = [pc EXCEPT ![h] = "StoreProposal"]
                 /\ approval' = [approval EXCEPT ![h] = a]
                 /\ result' = [result EXCEPT ![h] =
                      [refusal |-> kind, approval |-> a,
                       event |-> Event("ApprovalRequested", a, by, now, kind)]]
                 /\ UNCHANGED <<command, answer>>
      BY <1>1 DEF CreateBegin
    <2> DEFINE error == CreateError(defects, by)
               kind  == ProposeRefusal(packet, by, expiresAt, now)
               a     == Proposal(h, packet, by, expiresAt, now)
    <2>0. UNCHANGED <<now, store, audit>>
      BY <1>1 DEF CreateBegin
    <2>1. CASE error # None /\ Return(h, error)
      <3>1. error \in Answer
        BY <2>1, ReplyTyped
      <3> QED
        BY <2>0, <2>1, <3>1, <1>a, ReturnTyped DEF TypeInv, TypeOK
    <2>2. CASE kind # "None" /\ Return(h, Reply(StatusFor(kind), kind))
      <3>1. kind \in RefusalKind
        BY DEF ProposeRefusal, RefusalKind
      <3>2. Reply(StatusFor(kind), kind) \in Answer
        BY <3>1, ReplyTyped
      <3> QED
        BY <2>0, <2>2, <3>2, <1>a, ReturnTyped DEF TypeInv, TypeOK
    <2>3. CASE /\ kind = "None"
               /\ pc' = [pc EXCEPT ![h] = "StoreProposal"]
               /\ approval' = [approval EXCEPT ![h] = a]
               /\ result' = [result EXCEPT ![h] =
                    [refusal |-> kind, approval |-> a,
                     event |-> Event("ApprovalRequested", a, by, now, kind)]]
               /\ UNCHANGED <<command, answer>>
      <3> DEFINE r == [refusal |-> kind, approval |-> a,
                       event |-> Event("ApprovalRequested", a, by, now, kind)]
      <3>1. a \in ApprovalRecord /\ r \in TransitionResult
        BY <2>3, <1>a, RequestTyped DEF TypeOK
      <3>2. /\ pc' = [pc EXCEPT ![h] = "StoreProposal"] /\ approval' = [approval EXCEPT ![h] = a]
            /\ result' = [result EXCEPT ![h] = r] /\ UNCHANGED <<command, answer>>
        BY <2>3
      <3> HIDE DEF a, r, kind
      <3> QED
        BY <2>0, <3>1, <3>2, <1>a, NullAssumption DEF TypeInv, TypeOK, LocalsOK, PC
    <2> QED
      BY <2>1, <2>2, <2>3
  <1>2. ASSUME NEW h \in Calls, DecideBegin(h) PROVE TypeInv'
    <2> PICK id \in Ids, by \in Oid \cup {None}, defects \in SUBSET DecideDefects,
             reasoned \in BOOLEAN :
          \E c \in {ApproveCommand(by, reasoned), RejectCommand(by, reasoned), None} :
            LET error == DecideError(defects, store[id], by)
            IN  \/ error # None /\ Return(h, error)
                \/ /\ error = None
                   /\ pc' = [pc EXCEPT ![h] = "CheckExpiry"]
                   /\ approval' = [approval EXCEPT ![h] = store[id]]
                   /\ command' = [command EXCEPT ![h] = c]
                   /\ UNCHANGED <<result, answer>>
      BY <1>2 DEF DecideBegin
    <2> PICK c \in {ApproveCommand(by, reasoned), RejectCommand(by, reasoned), None} :
            LET error == DecideError(defects, store[id], by)
            IN  \/ error # None /\ Return(h, error)
                \/ /\ error = None
                   /\ pc' = [pc EXCEPT ![h] = "CheckExpiry"]
                   /\ approval' = [approval EXCEPT ![h] = store[id]]
                   /\ command' = [command EXCEPT ![h] = c]
                   /\ UNCHANGED <<result, answer>>
      OBVIOUS
    <2> DEFINE error == DecideError(defects, store[id], by)
    <2>0. UNCHANGED <<now, store, audit>>
      BY <1>2 DEF DecideBegin
    <2>1. CASE error # None /\ Return(h, error)
      <3>1. error \in Answer
        BY <2>1, ReplyTyped
      <3> QED
        BY <2>0, <2>1, <3>1, <1>a, ReturnTyped DEF TypeInv, TypeOK
    <2>2. CASE /\ error = None
               /\ pc' = [pc EXCEPT ![h] = "CheckExpiry"]
               /\ approval' = [approval EXCEPT ![h] = store[id]]
               /\ command' = [command EXCEPT ![h] = c]
               /\ UNCHANGED <<result, answer>>
      <3>1. store[id] \in ApprovalRecord
        <4>1. store[id] # None
          BY <2>2, NullAnswerAssumption, ReplyTyped DEF DecideError, Reply, Answer
        <4> QED
          BY <4>1, <1>a DEF TypeOK
      <3>2. c \in Command \cup {None}
        BY CommandsTyped
      <3> QED
        BY <2>0, <2>2, <3>1, <3>2, <1>a, NullAssumption DEF TypeInv, TypeOK, LocalsOK, PC
    <2> QED
      BY <2>1, <2>2
  <1>3. ASSUME NEW h \in Calls, CreateStore(h) PROVE TypeInv'
    <2>1. approval[h] \in ApprovalRecord
      BY <1>3, <1>a DEF CreateStore, Goto, TypeOK, LocalsOK
    <2>2. store' \in [Ids -> ApprovalRecord \cup {None}]
      BY <1>3, <1>a, <2>1 DEF CreateStore, CreateAsync, TypeOK, ApprovalRecord
    <2> QED
      BY <1>3, <1>a, <2>2 DEF CreateStore, Goto, TypeInv, TypeOK, LocalsOK, PC, locals
  <1>4. ASSUME NEW h \in Calls, CreateAudit(h) PROVE TypeInv'
    <2>1. result[h] \in TransitionResult
      BY <1>4, <1>a DEF CreateAudit, TypeOK, LocalsOK
    <2>2. audit' \subseteq AuditRecord
      BY <1>4, <1>a, <2>1 DEF CreateAudit, AppendAuditAsync, TypeOK, AuditRecord, TransitionResult
    <2> QED
      BY <1>4, <1>a, <2>2, ReplyTyped, ReturnTyped DEF CreateAudit, TypeInv, TypeOK
  <1>5. ASSUME NEW h \in Calls, DecideCheckExpiry(h) PROVE TypeInv'
    <2>1. approval[h] \in ApprovalRecord
      BY <1>5, <1>a DEF DecideCheckExpiry, TypeOK, LocalsOK
    <2>2. Apply(approval[h], ExpireCommand, now) \in TransitionResult
      BY <2>1, <1>a, CommandsTyped, ApplyTyped DEF TypeOK
    <2> QED
      BY <1>5, <1>a, <2>1, <2>2, NullAssumption DEF DecideCheckExpiry, TypeInv, TypeOK, LocalsOK, PC
  <1>6. ASSUME NEW h \in Calls, ExpireStore(h) PROVE TypeInv'
    <2>1. result[h] \in TransitionResult
      BY <1>6, <1>a DEF ExpireStore, Goto, TypeOK, LocalsOK
    <2>2. store' \in [Ids -> ApprovalRecord \cup {None}]
      BY <1>6, <1>a, <2>1 DEF ExpireStore, UpdateAsync, TypeOK, ApprovalRecord, TransitionResult
    <2> QED
      BY <1>6, <1>a, <2>2 DEF ExpireStore, Goto, TypeInv, TypeOK, LocalsOK, PC, locals
  <1>7. ASSUME NEW h \in Calls, ExpireAudit(h) PROVE TypeInv'
    <2>1. result[h] \in TransitionResult
      BY <1>7, <1>a DEF ExpireAudit, TypeOK, LocalsOK
    <2>2. audit' \subseteq AuditRecord
      BY <1>7, <1>a, <2>1 DEF ExpireAudit, AppendAuditAsync, TypeOK, AuditRecord, TransitionResult
    <2> QED
      BY <1>7, <1>a, <2>2, ReplyTyped, ReturnTyped DEF ExpireAudit, TypeInv, TypeOK
  <1>8. ASSUME NEW h \in Calls, DecideApply(h) PROVE TypeInv'
    <2>1. CASE command[h] = None /\ Return(h, Reply(400, "InvalidDecision"))
      BY <1>8, <1>a, <2>1, ReplyTyped, ReturnTyped DEF DecideApply, TypeInv, TypeOK
    <2>2. CASE /\ command[h] # None
               /\ pc' = [pc EXCEPT ![h] = "AuditDecision"]
               /\ result' = [result EXCEPT ![h] = Apply(approval[h], command[h], now)]
               /\ UNCHANGED <<approval, command, answer>>
      <3>1. approval[h] \in ApprovalRecord /\ command[h] \in Command
        BY <1>8, <1>a, <2>2 DEF DecideApply, TypeOK, LocalsOK
      <3>2. Apply(approval[h], command[h], now) \in TransitionResult
        BY <3>1, <1>a, ApplyTyped DEF TypeOK
      <3> QED
        BY <1>8, <1>a, <2>2, <3>2, NullAssumption DEF DecideApply, TypeInv, TypeOK, LocalsOK, PC
    <2> QED
      BY <1>8, <2>1, <2>2 DEF DecideApply
  <1>9. ASSUME NEW h \in Calls, DecideAudit(h) PROVE TypeInv'
    <2>1. result[h] \in TransitionResult
      BY <1>9, <1>a DEF DecideAudit, TypeOK, LocalsOK
    <2>2. audit' \subseteq AuditRecord
      BY <1>9, <1>a, <2>1 DEF DecideAudit, AppendAuditAsync, TypeOK, AuditRecord, TransitionResult
    <2>3. CASE Return(h, Reply(StatusFor(result[h].refusal), result[h].refusal))
      <3>1. result[h].refusal \in RefusalKind
        BY <2>1 DEF TransitionResult
      <3> QED
        BY <1>9, <1>a, <2>2, <2>3, <3>1, ReplyTyped, ReturnTyped DEF DecideAudit, TypeInv, TypeOK
    <2>4. CASE pc' = [pc EXCEPT ![h] = "StoreDecision"] /\ UNCHANGED <<locals, answer>>
      BY <1>9, <1>a, <2>1, <2>2, <2>4, NullAssumption
         DEF DecideAudit, TypeInv, TypeOK, LocalsOK, PC, locals
    <2> QED
      BY <1>9, <2>3, <2>4 DEF DecideAudit
  <1>10. ASSUME NEW h \in Calls, DecideStore(h) PROVE TypeInv'
    <2>1. result[h] \in TransitionResult
      BY <1>10, <1>a DEF DecideStore, TypeOK, LocalsOK
    <2>2. store' \in [Ids -> ApprovalRecord \cup {None}]
      BY <1>10, <1>a, <2>1 DEF DecideStore, UpdateAsync, TypeOK, ApprovalRecord, TransitionResult
    <2> QED
      BY <1>10, <1>a, <2>2, ReplyTyped, ReturnTyped DEF DecideStore, TypeInv, TypeOK
  <1>11. ASSUME NEW h \in Calls, Abort(h) PROVE TypeInv'
    BY <1>11, <1>a, ReplyTyped, ReturnTyped DEF Abort, TypeInv, TypeOK
  <1>12. ASSUME Tick PROVE TypeInv'
    BY <1>12, <1>a, ServiceAssumption DEF Tick, TypeInv, TypeOK, LocalsOK, locals
  <1>13. CASE UNCHANGED vars
    BY <1>13, <1>a DEF vars, TypeInv, TypeOK, LocalsOK
  <1> QED
    BY <1>1, <1>2, <1>3, <1>4, <1>5, <1>6, <1>7, <1>8, <1>9, <1>10, <1>11, <1>12, <1>13
       DEF Next, Step

\* Every variable keeps its type, and a handler never uses a local it has not set
\* (every step of CreateAsync and DecideAsync).
THEOREM TypeCorrect == Spec => []TypeOK
  <1>1. TypeInv => TypeOK
    BY DEF TypeInv
  <1> QED
    BY <1>1, TypeInit, TypeNext, PTL DEF Spec

-----------------------------------------------------------------------------
(* Safety.  The invariants are not inductive: a record in the store was    *)
(* computed by some handler from a copy it read earlier.  The              *)
(* strengthening says that every copy in flight is sound too, and that a   *)
(* decision about to be stored is already in the audit list.               *)

CopyOK(a) == Sound(a) /\ a.createdAt <= now

\* The event of result r tells the decision in its record.
Tells(r) ==
    /\ Decided(r.approval)
    /\ r.event.type = "ApprovalDecided" /\ r.event.id = r.approval.id
    /\ r.event.actor = r.approval.decidedBy /\ r.event.state = r.approval.state
    /\ r.event.at = r.approval.decidedAt /\ r.event.hash = r.approval.hash

Held(h) ==
    /\ approval[h] # None => CopyOK(approval[h])
    /\ command[h] # None => WellFormed(command[h]) /\ command[h].trigger # "Expire"
    /\ result[h] # None => CopyOK(result[h].approval)
    /\ pc[h] = "StoreProposal" => approval[h].state = "PendingApproval"
    /\ pc[h] = "StoreExpiry" /\ result[h].refusal = "None" => result[h].approval.state = "Expired"
    /\ pc[h] = "AuditDecision" /\ result[h].refusal = "None" => Tells(result[h])
    /\ pc[h] = "StoreDecision" =>
         Tells(result[h]) /\ [call |-> h, event |-> result[h].event] \in audit

StoreOK == \A i \in Stored : CopyOK(store[i]) /\ store[i].id = i

SafeInv == TypeInv /\ StoreOK /\ (\A h \in Calls : Held(h)) /\ DecisionIsAudited

LEMMA SafeInit == Init => SafeInv
  BY TypeInit DEF Init, SafeInv, StoreOK, Held, DecisionIsAudited, Stored

\* A step that leaves the clock, the store and the audit list alone, and the locals of
\* every other call, has only its own locals to answer for.
LEMMA LocalStep ==
    ASSUME SafeInv, TypeInv', NEW h \in Calls, UNCHANGED <<now, store, audit>>, Held(h)',
           \A g \in Calls \ {h} : /\ pc'[g] = pc[g] /\ approval'[g] = approval[g]
                                  /\ command'[g] = command[g] /\ result'[g] = result[g]
    PROVE  SafeInv'
  <1>1. ASSUME NEW g \in Calls PROVE Held(g)'
    BY DEF SafeInv, Held, CopyOK, Tells, Decided
  <1>2. StoreOK' /\ DecisionIsAudited'
    BY DEF SafeInv, StoreOK, DecisionIsAudited, Stored, CopyOK
  <1> QED
    BY <1>1, <1>2 DEF SafeInv

\* Returning drops the locals, so nothing is held any more.
LEMMA ReturnHeld ==
    ASSUME SafeInv, NEW h \in Calls, NEW reply \in Answer, Return(h, reply)
    PROVE  /\ Held(h)'
           /\ \A g \in Calls \ {h} : /\ pc'[g] = pc[g] /\ approval'[g] = approval[g]
                                     /\ command'[g] = command[g] /\ result'[g] = result[g]
  <1>1. TypeOK
    BY DEF SafeInv, TypeInv
  <1> QED
    BY <1>1 DEF Return, Held, TypeOK

\* The other calls keep what they hold when the audit list only grows.
LEMMA OthersHeld ==
    ASSUME SafeInv, NEW h \in Calls, now' = now, audit \subseteq audit',
           NEW g \in Calls \ {h},
           pc'[g] = pc[g], approval'[g] = approval[g], command'[g] = command[g],
           result'[g] = result[g]
    PROVE  Held(g)'
  BY DEF SafeInv, Held, CopyOK, Tells, Decided

\* Writing a sound record under its id keeps the store sound, and audited if the
\* decision it carries, if any, is in the audit list.
LEMMA WriteOK ==
    ASSUME SafeInv, NEW a \in ApprovalRecord, CopyOK(a), now' = now, audit \subseteq audit',
           store' = [store EXCEPT ![a.id] = a],
           Decided(a) => \E r \in audit :
               /\ r.event.type = "ApprovalDecided" /\ r.event.id = a.id
               /\ r.event.actor = a.decidedBy /\ r.event.state = a.state
               /\ r.event.at = a.decidedAt /\ r.event.hash = a.hash
    PROVE  StoreOK' /\ DecisionIsAudited'
  <1>1. a.id \in Ids /\ store \in [Ids -> ApprovalRecord \cup {None}]
    BY DEF ApprovalRecord, SafeInv, TypeInv, TypeOK
  <1>2. StoreOK'
    BY <1>1 DEF SafeInv, StoreOK, Stored, CopyOK
  <1>3. DecisionIsAudited'
    <2> SUFFICES ASSUME NEW i \in Ids, store'[i] # None, Decided(store'[i])
                 PROVE  \E r \in audit' :
                          /\ r.event.type = "ApprovalDecided" /\ r.event.id = i
                          /\ r.event.actor = store'[i].decidedBy /\ r.event.state = store'[i].state
                          /\ r.event.at = store'[i].decidedAt /\ r.event.hash = store'[i].hash
      BY DEF DecisionIsAudited, Stored, Decided
    <2>1. CASE i = a.id
      BY <1>1, <2>1
    <2>2. CASE i # a.id
      <3>1. store'[i] = store[i]
        BY <1>1, <2>2
      <3> QED
        BY <3>1 DEF SafeInv, DecisionIsAudited, Stored
    <2> QED
      BY <2>1, <2>2
  <1> QED
    BY <1>2, <1>3

\* Appending an audit record keeps the store sound and audited.
LEMMA AppendOK ==
    ASSUME SafeInv, now' = now, store' = store, audit \subseteq audit'
    PROVE  StoreOK' /\ DecisionIsAudited'
  <1>1. StoreOK'
    BY DEF SafeInv, StoreOK, Stored, CopyOK
  <1>2. DecisionIsAudited'
    BY DEF SafeInv, DecisionIsAudited, Stored
  <1> QED
    BY <1>1, <1>2

LEMMA SafeNext == SafeInv /\ [Next]_vars => SafeInv'
  <1> SUFFICES ASSUME SafeInv, [Next]_vars PROVE SafeInv'
    OBVIOUS
  <1>a. TypeInv /\ TypeOK /\ \A g \in Calls : LocalsOK(g) /\ Held(g)
    BY DEF SafeInv, TypeInv
  <1>b. TypeInv' /\ TypeOK'
    BY <1>a, TypeNext DEF TypeInv
  <1>c. now \in Nat
    BY <1>a DEF TypeOK
  <1>1. ASSUME NEW h \in Calls, CreateBegin(h) PROVE SafeInv'
    <2> PICK by \in Oid \cup {None}, defects \in SUBSET CreateDefects,
             packet \in Packets, expiresAt \in 0..Horizon :
          LET error == CreateError(defects, by)
              kind  == ProposeRefusal(packet, by, expiresAt, now)
              a     == Proposal(h, packet, by, expiresAt, now)
          IN  \/ error # None /\ Return(h, error)
              \/ error = None /\ kind # "None" /\ Return(h, Reply(StatusFor(kind), kind))
              \/ /\ error = None /\ kind = "None"
                 /\ pc' = [pc EXCEPT ![h] = "StoreProposal"]
                 /\ approval' = [approval EXCEPT ![h] = a]
                 /\ result' = [result EXCEPT ![h] =
                      [refusal |-> kind, approval |-> a,
                       event |-> Event("ApprovalRequested", a, by, now, kind)]]
                 /\ UNCHANGED <<command, answer>>
      BY <1>1 DEF CreateBegin
    <2> DEFINE error == CreateError(defects, by)
               kind  == ProposeRefusal(packet, by, expiresAt, now)
               a     == Proposal(h, packet, by, expiresAt, now)
    <2>0. UNCHANGED <<now, store, audit>>
      BY <1>1 DEF CreateBegin
    <2>1. CASE error # None /\ Return(h, error)
      <3>1. error \in Answer
        BY <2>1, ReplyTyped
      <3> QED
        BY <2>0, <2>1, <3>1, <1>b, ReturnHeld, LocalStep
    <2>2. CASE kind # "None" /\ Return(h, Reply(StatusFor(kind), kind))
      <3>1. kind \in RefusalKind
        BY DEF ProposeRefusal, RefusalKind
      <3>2. Reply(StatusFor(kind), kind) \in Answer
        BY <3>1, ReplyTyped
      <3> QED
        BY <2>0, <2>2, <3>2, <1>b, ReturnHeld, LocalStep
    <2>3. CASE /\ kind = "None"
               /\ pc' = [pc EXCEPT ![h] = "StoreProposal"]
               /\ approval' = [approval EXCEPT ![h] = a]
               /\ result' = [result EXCEPT ![h] =
                    [refusal |-> kind, approval |-> a,
                     event |-> Event("ApprovalRequested", a, by, now, kind)]]
               /\ UNCHANGED <<command, answer>>
      <3> DEFINE r == [refusal |-> kind, approval |-> a,
                       event |-> Event("ApprovalRequested", a, by, now, kind)]
      <3>1. Sound(a) /\ a.createdAt = now /\ a.state = "PendingApproval"
        BY <2>3, <1>c, ServiceAssumption, ProposalSound
      <3>2. /\ pc' = [pc EXCEPT ![h] = "StoreProposal"] /\ approval' = [approval EXCEPT ![h] = a]
            /\ result' = [result EXCEPT ![h] = r] /\ UNCHANGED <<command, answer>>
            /\ r.approval = a
        BY <2>3
      <3> HIDE DEF a, r, kind
      <3>3. Held(h)'
        <4>1. /\ pc'[h] = "StoreProposal" /\ approval'[h] = a /\ result'[h] = r
              /\ command'[h] = command[h] /\ now' = now
          BY <2>0, <3>2, <1>a DEF TypeOK
        <4>2. a.createdAt <= now
          BY <3>1, <1>c
        <4> QED
          BY <3>1, <3>2, <4>1, <4>2, <1>a DEF Held, CopyOK
      <3> QED
        BY <2>0, <3>2, <3>3, <1>a, <1>b, LocalStep DEF TypeOK
    <2> QED
      BY <2>1, <2>2, <2>3
  <1>2. ASSUME NEW h \in Calls, DecideBegin(h) PROVE SafeInv'
    <2> PICK id \in Ids, by \in Oid \cup {None}, defects \in SUBSET DecideDefects,
             reasoned \in BOOLEAN :
          \E c \in {ApproveCommand(by, reasoned), RejectCommand(by, reasoned), None} :
            LET error == DecideError(defects, store[id], by)
            IN  \/ error # None /\ Return(h, error)
                \/ /\ error = None
                   /\ pc' = [pc EXCEPT ![h] = "CheckExpiry"]
                   /\ approval' = [approval EXCEPT ![h] = store[id]]
                   /\ command' = [command EXCEPT ![h] = c]
                   /\ UNCHANGED <<result, answer>>
      BY <1>2 DEF DecideBegin
    <2> PICK c \in {ApproveCommand(by, reasoned), RejectCommand(by, reasoned), None} :
            LET error == DecideError(defects, store[id], by)
            IN  \/ error # None /\ Return(h, error)
                \/ /\ error = None
                   /\ pc' = [pc EXCEPT ![h] = "CheckExpiry"]
                   /\ approval' = [approval EXCEPT ![h] = store[id]]
                   /\ command' = [command EXCEPT ![h] = c]
                   /\ UNCHANGED <<result, answer>>
      OBVIOUS
    <2> DEFINE error == DecideError(defects, store[id], by)
    <2>0. UNCHANGED <<now, store, audit>>
      BY <1>2 DEF DecideBegin
    <2>1. CASE error # None /\ Return(h, error)
      <3>1. error \in Answer
        BY <2>1, ReplyTyped
      <3> QED
        BY <2>0, <2>1, <3>1, <1>b, ReturnHeld, LocalStep
    <2>2. CASE /\ error = None
               /\ pc' = [pc EXCEPT ![h] = "CheckExpiry"]
               /\ approval' = [approval EXCEPT ![h] = store[id]]
               /\ command' = [command EXCEPT ![h] = c]
               /\ UNCHANGED <<result, answer>>
      <3>1. store[id] # None
        BY <2>2, NullAnswerAssumption, ReplyTyped DEF DecideError, Reply, Answer
      <3>2. CopyOK(store[id])
        BY <3>1 DEF SafeInv, StoreOK, Stored
      <3>3. c # None => WellFormed(c) /\ c.trigger # "Expire"
        BY CommandsTyped
      <3>4. Held(h)'
        BY <2>0, <2>2, <3>2, <3>3, <1>a DEF TypeOK, Held, CopyOK
      <3> QED
        BY <2>0, <2>2, <3>4, <1>a, <1>b, LocalStep DEF TypeOK
    <2> QED
      BY <2>1, <2>2
  <1>3. ASSUME NEW h \in Calls, CreateStore(h) PROVE SafeInv'
    <2>1. /\ approval[h] \in ApprovalRecord /\ CopyOK(approval[h])
          /\ approval[h].state = "PendingApproval" /\ approval[h].id \in Ids
      BY <1>3, <1>a DEF CreateStore, Goto, TypeOK, LocalsOK, Held, ApprovalRecord
    <2>2. StoreOK' /\ DecisionIsAudited'
      <3>1. CASE store[approval[h].id] = None
        BY <1>3, <2>1, <3>1, <1>a, WriteOK DEF CreateStore, CreateAsync, Decided, TypeOK
      <3>2. CASE store[approval[h].id] # None
        <4>1. store' = store
          BY <1>3, <2>1, <3>2, <1>a DEF CreateStore, CreateAsync, TypeOK
        <4> QED
          BY <1>3, <4>1, AppendOK DEF CreateStore
      <3> QED
        BY <3>1, <3>2
    <2>3. ASSUME NEW g \in Calls PROVE Held(g)'
      BY <1>3, <1>a DEF CreateStore, Goto, locals, TypeOK, Held, CopyOK, Tells, Decided
    <2> QED
      BY <2>2, <2>3, <1>b DEF SafeInv
  <1>4. ASSUME NEW h \in Calls, CreateAudit(h) PROVE SafeInv'
    <2>1. now' = now /\ store' = store /\ audit \subseteq audit' /\ Return(h, Reply(201, "None"))
      BY <1>4 DEF CreateAudit, AppendAuditAsync
    <2>2. ASSUME NEW g \in Calls PROVE Held(g)'
      BY <2>1, ReplyTyped, ReturnHeld, OthersHeld
    <2> QED
      BY <2>1, <2>2, <1>b, AppendOK DEF SafeInv
  <1>5. ASSUME NEW h \in Calls, DecideCheckExpiry(h) PROVE SafeInv'
    <2>1. /\ approval[h] \in ApprovalRecord /\ CopyOK(approval[h])
          /\ UNCHANGED <<now, store, audit, approval, command>>
      BY <1>5, <1>a DEF DecideCheckExpiry, TypeOK, LocalsOK, Held
    <2>2. Held(h)'
      <3> DEFINE r == Apply(approval[h], ExpireCommand, now)
      <3>1. CopyOK(r.approval) /\ (r.refusal = "None" => r.approval.state = "Expired")
        BY <2>1, <1>c, CommandsTyped, ApplySound DEF CopyOK, ExpireCommand
      <3> HIDE DEF r
      <3>2. CASE pc' = [pc EXCEPT ![h] = "StoreExpiry"] /\ result' = [result EXCEPT ![h] = r]
        BY <2>1, <3>1, <3>2, <1>a DEF TypeOK, Held, CopyOK
      <3>3. CASE pc' = [pc EXCEPT ![h] = "Apply"] /\ UNCHANGED result
        BY <2>1, <3>3, <1>a DEF TypeOK, Held, CopyOK
      <3> QED
        BY <1>5, <3>2, <3>3 DEF DecideCheckExpiry, r
    <2>3. ASSUME NEW g \in Calls \ {h} PROVE pc'[g] = pc[g] /\ result'[g] = result[g]
      BY <1>5, <1>a DEF DecideCheckExpiry, TypeOK
    <2> QED
      BY <2>1, <2>2, <2>3, <1>b, LocalStep
  <1>6. ASSUME NEW h \in Calls, ExpireStore(h) PROVE SafeInv'
    <2>1. result[h] \in TransitionResult /\ CopyOK(result[h].approval)
      BY <1>6, <1>a DEF ExpireStore, Goto, TypeOK, LocalsOK, Held
    <2>2. StoreOK' /\ DecisionIsAudited'
      <3>1. CASE result[h].refusal = "None"
        <4>1. result[h].approval.state = "Expired" /\ result[h].approval \in ApprovalRecord
          BY <1>6, <2>1, <3>1, <1>a DEF ExpireStore, Goto, Held, TransitionResult
        <4> QED
          BY <1>6, <2>1, <3>1, <4>1, WriteOK DEF ExpireStore, UpdateAsync, Decided
      <3>2. CASE result[h].refusal # "None"
        BY <1>6, <3>2, AppendOK DEF ExpireStore
      <3> QED
        BY <3>1, <3>2
    <2>3. ASSUME NEW g \in Calls PROVE Held(g)'
      BY <1>6, <1>a DEF ExpireStore, Goto, locals, TypeOK, Held, CopyOK, Tells, Decided
    <2> QED
      BY <2>2, <2>3, <1>b DEF SafeInv
  <1>7. ASSUME NEW h \in Calls, ExpireAudit(h) PROVE SafeInv'
    <2>1. now' = now /\ store' = store /\ audit \subseteq audit' /\ Return(h, Reply(410, "Expired"))
      BY <1>7 DEF ExpireAudit, AppendAuditAsync
    <2>2. ASSUME NEW g \in Calls PROVE Held(g)'
      BY <2>1, ReplyTyped, ReturnHeld, OthersHeld
    <2> QED
      BY <2>1, <2>2, <1>b, AppendOK DEF SafeInv
  <1>8. ASSUME NEW h \in Calls, DecideApply(h) PROVE SafeInv'
    <2>0. UNCHANGED <<now, store, audit>>
      BY <1>8 DEF DecideApply
    <2>1. CASE command[h] = None /\ Return(h, Reply(400, "InvalidDecision"))
      BY <2>0, <2>1, <1>b, ReplyTyped, ReturnHeld, LocalStep
    <2>2. CASE /\ command[h] # None
               /\ pc' = [pc EXCEPT ![h] = "AuditDecision"]
               /\ result' = [result EXCEPT ![h] = Apply(approval[h], command[h], now)]
               /\ UNCHANGED <<approval, command, answer>>
      <3> DEFINE r == Apply(approval[h], command[h], now)
      <3>1. /\ approval[h] \in ApprovalRecord /\ command[h] \in Command
            /\ CopyOK(approval[h]) /\ WellFormed(command[h]) /\ command[h].trigger # "Expire"
        BY <1>8, <1>a, <2>2 DEF DecideApply, TypeOK, LocalsOK, Held
      <3>2. CopyOK(r.approval) /\ (r.refusal = "None" => Tells(r))
        BY <3>1, <1>c, ApplySound DEF CopyOK, Tells, Decided
      <3> HIDE DEF r
      <3>3. result' = [result EXCEPT ![h] = r]
        BY <2>2 DEF r
      <3>4. Held(h)'
        BY <2>0, <2>2, <3>2, <3>3, <1>a DEF TypeOK, Held, CopyOK, Tells, Decided
      <3> QED
        BY <2>0, <2>2, <3>4, <1>a, <1>b, LocalStep DEF TypeOK
    <2> QED
      BY <1>8, <2>1, <2>2 DEF DecideApply
  <1>9. ASSUME NEW h \in Calls, DecideAudit(h) PROVE SafeInv'
    <2>1. /\ now' = now /\ store' = store /\ audit \subseteq audit'
          /\ [call |-> h, event |-> result[h].event] \in audit'
      BY <1>9 DEF DecideAudit, AppendAuditAsync
    <2>2. ASSUME NEW g \in Calls PROVE Held(g)'
      <3>1. CASE Return(h, Reply(StatusFor(result[h].refusal), result[h].refusal))
        <4>1. result[h].refusal \in RefusalKind
          BY <1>9, <1>a DEF DecideAudit, TypeOK, LocalsOK, TransitionResult
        <4> QED
          BY <2>1, <3>1, <4>1, ReplyTyped, ReturnHeld, OthersHeld
      <3>2. CASE /\ result[h].refusal = "None"
                 /\ pc' = [pc EXCEPT ![h] = "StoreDecision"] /\ UNCHANGED <<locals, answer>>
        <4>1. CASE g = h
          BY <1>9, <2>1, <3>2, <4>1, <1>a DEF DecideAudit, locals, TypeOK, Held, CopyOK, Tells, Decided
        <4>2. CASE g # h
          BY <2>1, <3>2, <4>2, <1>a, OthersHeld DEF locals, TypeOK
        <4> QED
          BY <4>1, <4>2
      <3> QED
        BY <1>9, <3>1, <3>2 DEF DecideAudit
    <2> QED
      BY <2>1, <2>2, <1>b, AppendOK DEF SafeInv
  <1>10. ASSUME NEW h \in Calls, DecideStore(h) PROVE SafeInv'
    <2> DEFINE a == result[h].approval
    <2>1. /\ result[h] \in TransitionResult /\ a \in ApprovalRecord /\ CopyOK(a)
          /\ Tells(result[h]) /\ [call |-> h, event |-> result[h].event] \in audit
      BY <1>10, <1>a DEF DecideStore, TypeOK, LocalsOK, Held, TransitionResult
    <2>2. now' = now /\ audit' = audit /\ Return(h, Reply(200, "None"))
          /\ store' = [store EXCEPT ![a.id] = a]
      BY <1>10 DEF DecideStore, UpdateAsync
    <2>3. StoreOK' /\ DecisionIsAudited'
      <3>1. \E r \in audit :
               /\ r.event.type = "ApprovalDecided" /\ r.event.id = a.id
               /\ r.event.actor = a.decidedBy /\ r.event.state = a.state
               /\ r.event.at = a.decidedAt /\ r.event.hash = a.hash
        BY <2>1 DEF Tells
      <3> HIDE DEF a
      <3> QED
        BY <2>1, <2>2, <3>1, WriteOK
    <2>4. ASSUME NEW g \in Calls PROVE Held(g)'
      BY <2>2, ReplyTyped, ReturnHeld, OthersHeld
    <2> QED
      BY <2>3, <2>4, <1>b DEF SafeInv
  <1>11. ASSUME NEW h \in Calls, Abort(h) PROVE SafeInv'
    BY <1>11, <1>b, ReplyTyped, ReturnHeld, LocalStep DEF Abort
  <1>12. ASSUME Tick PROVE SafeInv'
    <2>1. now' = now + 1 /\ UNCHANGED <<store, audit, pc, approval, command, result>>
      BY <1>12 DEF Tick, locals
    <2>2. ASSUME NEW a \in ApprovalRecord, CopyOK(a) PROVE CopyOK(a)'
      BY <2>1, <2>2, <1>c DEF CopyOK, Sound, ApprovalRecord
    <2>3. StoreOK' /\ DecisionIsAudited'
      BY <2>1, <2>2, <1>a DEF SafeInv, StoreOK, DecisionIsAudited, Stored, TypeOK
    <2>4. ASSUME NEW g \in Calls PROVE Held(g)'
      <3>1. /\ approval[g] # None => approval[g] \in ApprovalRecord
            /\ result[g] # None => result[g].approval \in ApprovalRecord
        BY <1>a DEF TypeOK, TransitionResult
      <3> QED
        BY <2>1, <2>2, <3>1, <1>a DEF Held, Tells, Decided
    <2> QED
      BY <2>3, <2>4, <1>b DEF SafeInv
  <1>13. CASE UNCHANGED vars
    <2>1. StoreOK' /\ DecisionIsAudited'
      BY <1>13, AppendOK DEF vars
    <2>2. ASSUME NEW g \in Calls PROVE Held(g)'
      BY <1>13, <1>a DEF vars, Held, CopyOK, Tells, Decided
    <2> QED
      BY <2>1, <2>2, <1>b DEF SafeInv
  <1> QED
    BY <1>1, <1>2, <1>3, <1>4, <1>5, <1>6, <1>7, <1>8, <1>9, <1>10, <1>11, <1>12, <1>13
       DEF Next, Step

LEMMA SafeInvariant == Spec => []SafeInv
  BY SafeInit, SafeNext, PTL DEF Spec

\* Whatever the interleaving, a stored decision was taken by a second person inside the
\* proposal's lifetime (the guards of ApprovalStateMachine.FromPending).
THEOREM Segregation == Spec => []SegregationOfDuties
  <1>1. SafeInv => SegregationOfDuties
    BY DEF SafeInv, StoreOK, Stored, CopyOK, Sound, SegregationOfDuties, Decided
  <1> QED
    BY <1>1, SafeInvariant, PTL

\* Whatever the interleaving, and wherever a call is cut off, a stored decision has its
\* audit record (DecideAsync appends before it updates).
THEOREM Audited == Spec => []DecisionIsAudited
  <1>1. SafeInv => DecisionIsAudited
    BY DEF SafeInv
  <1> QED
    BY <1>1, SafeInvariant, PTL

\* The decision-time checks imply the gate's and the row check's on every stored record
\* (ExecutionGate.Authorize and Approval.Rehydrate against FromPending).
THEOREM GateAndRowAgree == Spec => []GateAgrees
  <1>1. SafeInv => GateAgrees
    <2> SUFFICES ASSUME SafeInv PROVE GateAgrees
      OBVIOUS
    <2>1. ASSUME NEW i \in Stored PROVE store[i] \in ApprovalRecord /\ Sound(store[i])
      BY DEF SafeInv, TypeInv, TypeOK, StoreOK, Stored, CopyOK
    <2> QED
      BY <2>1, SoundRoundTrips DEF GateAgrees
  <1> QED
    BY <1>1, SafeInvariant, PTL

-----------------------------------------------------------------------------
(* What an answer says is in the audit list.                               *)

Logged(h, types, log) == \E r \in log : r.call = h /\ r.event.type \in types

\* The audit record that an answer of this status implies.
Implied(h, status, log) ==
    /\ status = 201 => Logged(h, {"ApprovalRequested"}, log)
    /\ status = 200 => Logged(h, {"ApprovalDecided"}, log)
    /\ status \in {409, 410} => Logged(h, {"ApprovalRefused", "ApprovalExpired"}, log)

\* The event a call carries towards the audit list is of the kind its answer will claim.
Bears(h) ==
    /\ pc[h] \in {"StoreProposal", "AuditProposal"} => result[h].event.type = "ApprovalRequested"
    /\ pc[h] \in {"StoreExpiry", "AuditExpiry"} =>
         result[h].event.type \in {"ApprovalRefused", "ApprovalExpired"}
    /\ pc[h] = "AuditDecision" /\ result[h].refusal # "None" => result[h].event.type = "ApprovalRefused"
    /\ answer[h] # None => Implied(h, answer[h].status, audit)

AnswerInv == \A h \in Calls : Bears(h)

LEMMA AnswerFacts == AnswerInv => AnswerIsAudited
  BY DEF AnswerInv, Bears, Implied, Logged, AnswerIsAudited

LEMMA ApplyEvent ==
    ASSUME NEW a, NEW c, NEW t
    PROVE  /\ Apply(a, c, t).refusal # "None" => Apply(a, c, t).event.type = "ApprovalRefused"
           /\ c.trigger = "Expire" => Apply(a, c, t).event.type \in {"ApprovalRefused", "ApprovalExpired"}
  BY DEF Apply, Event

\* The errors the handlers return before the domain has anything to audit.
LEMMA UnauditedStatus ==
    ASSUME NEW h, NEW log
    PROVE  /\ Implied(h, Reply(400, "InvalidDecision").status, log)
           /\ Implied(h, Reply(0, "Aborted").status, log)
           /\ \A d, by : CreateError(d, by) # None => Implied(h, CreateError(d, by).status, log)
           /\ \A d, a, by : DecideError(d, a, by) # None => Implied(h, DecideError(d, a, by).status, log)
           /\ \A packet, by, e, t :
                LET kind == ProposeRefusal(packet, by, e, t)
                IN  kind # "None" => Implied(h, Reply(StatusFor(kind), kind).status, log)
  <1>1. ASSUME NEW s \in {0, 400, 403, 404} PROVE Implied(h, s, log)
    BY DEF Implied
  <1>2. ASSUME NEW s, NEW e PROVE Reply(s, e).status = s
    BY DEF Reply
  <1>3. ASSUME NEW d, NEW by, CreateError(d, by) # None PROVE CreateError(d, by).status \in {400, 403}
    BY <1>3 DEF CreateError, Reply
  <1>4. ASSUME NEW d, NEW a, NEW by, DecideError(d, a, by) # None
        PROVE  DecideError(d, a, by).status \in {400, 403, 404}
    BY <1>4 DEF DecideError, Reply
  <1>5. ASSUME NEW packet, NEW by, NEW e, NEW t, ProposeRefusal(packet, by, e, t) # "None"
        PROVE  StatusFor(ProposeRefusal(packet, by, e, t)) = 400
    BY <1>5 DEF ProposeRefusal, StatusFor
  <1> QED
    BY <1>1, <1>2, <1>3, <1>4, <1>5

\* A step of call h over an audit list that only grows: the others bear what they bore.
LEMMA OthersBear ==
    ASSUME AnswerInv, NEW h \in Calls, audit \subseteq audit', Bears(h)',
           \A g \in Calls \ {h} : /\ pc'[g] = pc[g] /\ result'[g] = result[g] /\ answer'[g] = answer[g]
    PROVE  AnswerInv'
  <1>1. ASSUME NEW g \in Calls \ {h} PROVE Bears(g)'
    BY DEF AnswerInv, Bears, Implied, Logged
  <1> QED
    BY <1>1 DEF AnswerInv

LEMMA ReturnBears ==
    ASSUME TypeOK, AnswerInv, NEW h \in Calls, NEW reply, audit \subseteq audit',
           Implied(h, reply.status, audit'), Return(h, reply)
    PROVE  AnswerInv'
  <1>1. /\ pc'[h] = "Done" /\ answer'[h] = reply
        /\ \A g \in Calls \ {h} : /\ pc'[g] = pc[g] /\ result'[g] = result[g] /\ answer'[g] = answer[g]
    BY DEF TypeOK, Return
  <1>2. Bears(h)'
    BY <1>1 DEF Bears
  <1> QED
    BY <1>1, <1>2, OthersBear

LEMMA AnswerNext == SafeInv /\ AnswerInv /\ [Next]_vars => AnswerInv'
  <1> SUFFICES ASSUME SafeInv, AnswerInv, [Next]_vars PROVE AnswerInv'
    OBVIOUS
  <1>a. TypeOK /\ \A h \in Calls : Bears(h) /\ Held(h)
    BY DEF SafeInv, TypeInv, AnswerInv
  <1>1. ASSUME NEW h \in Calls, CreateBegin(h) PROVE AnswerInv'
    <2> PICK by \in Oid \cup {None}, defects \in SUBSET CreateDefects,
             packet \in Packets, expiresAt \in 0..Horizon :
          LET error == CreateError(defects, by)
              kind  == ProposeRefusal(packet, by, expiresAt, now)
              a     == Proposal(h, packet, by, expiresAt, now)
          IN  \/ error # None /\ Return(h, error)
              \/ error = None /\ kind # "None" /\ Return(h, Reply(StatusFor(kind), kind))
              \/ /\ error = None /\ kind = "None"
                 /\ pc' = [pc EXCEPT ![h] = "StoreProposal"]
                 /\ approval' = [approval EXCEPT ![h] = a]
                 /\ result' = [result EXCEPT ![h] =
                      [refusal |-> kind, approval |-> a,
                       event |-> Event("ApprovalRequested", a, by, now, kind)]]
                 /\ UNCHANGED <<command, answer>>
      BY <1>1 DEF CreateBegin
    <2> DEFINE error == CreateError(defects, by)
               kind  == ProposeRefusal(packet, by, expiresAt, now)
               a     == Proposal(h, packet, by, expiresAt, now)
               r     == [refusal |-> kind, approval |-> a,
                         event |-> Event("ApprovalRequested", a, by, now, kind)]
    <2>0. audit' = audit
      BY <1>1 DEF CreateBegin
    <2>1. CASE error # None /\ Return(h, error)
      BY <2>0, <2>1, <1>a, UnauditedStatus, ReturnBears
    <2>2. CASE kind # "None" /\ Return(h, Reply(StatusFor(kind), kind))
      BY <2>0, <2>2, <1>a, UnauditedStatus, ReturnBears
    <2>3. CASE /\ pc' = [pc EXCEPT ![h] = "StoreProposal"]
               /\ result' = [result EXCEPT ![h] = r] /\ UNCHANGED answer
      <3>1. r.event.type = "ApprovalRequested"
        BY DEF Event
      <3> HIDE DEF r
      <3>2. Bears(h)'
        BY <2>0, <2>3, <3>1, <1>a DEF Bears, TypeOK
      <3> QED
        BY <2>0, <2>3, <3>2, <1>a, OthersBear DEF TypeOK
    <2> QED
      BY <2>1, <2>2, <2>3
  <1>2. ASSUME NEW h \in Calls, DecideBegin(h) PROVE AnswerInv'
    <2>0. audit' = audit
      BY <1>2 DEF DecideBegin
    <2>1. CASE \E d, a, by : DecideError(d, a, by) # None /\ Return(h, DecideError(d, a, by))
      BY <2>0, <2>1, <1>a, UnauditedStatus, ReturnBears
    <2>2. CASE pc' = [pc EXCEPT ![h] = "CheckExpiry"] /\ UNCHANGED <<result, answer>>
      <3>1. Bears(h)'
        BY <2>0, <2>2, <1>a DEF Bears, TypeOK
      <3> QED
        BY <2>0, <2>2, <3>1, <1>a, OthersBear DEF TypeOK
    <2> QED
      BY <1>2, <2>1, <2>2 DEF DecideBegin
  <1>3. ASSUME NEW h \in Calls, CreateStore(h) PROVE AnswerInv'
    <2>1. Bears(h)'
      BY <1>3, <1>a DEF CreateStore, Goto, Bears, TypeOK, locals
    <2> QED
      BY <1>3, <2>1, <1>a, OthersBear DEF CreateStore, Goto, TypeOK, locals
  <1>4. ASSUME NEW h \in Calls, CreateAudit(h) PROVE AnswerInv'
    <2>1. [call |-> h, event |-> result[h].event] \in audit' /\ audit \subseteq audit'
      BY <1>4 DEF CreateAudit, AppendAuditAsync
    <2>2. result[h].event.type = "ApprovalRequested"
      BY <1>4, <1>a DEF CreateAudit, Bears
    <2>3. Implied(h, Reply(201, "None").status, audit')
      BY <2>1, <2>2 DEF Implied, Logged, Reply
    <2> QED
      BY <1>4, <2>1, <2>3, <1>a, ReturnBears DEF CreateAudit
  <1>5. ASSUME NEW h \in Calls, DecideCheckExpiry(h) PROVE AnswerInv'
    <2> DEFINE r == Apply(approval[h], ExpireCommand, now)
    <2>1. r.event.type \in {"ApprovalRefused", "ApprovalExpired"}
      BY ApplyEvent DEF ExpireCommand
    <2>2. \/ pc' = [pc EXCEPT ![h] = "StoreExpiry"] /\ result' = [result EXCEPT ![h] = r]
          \/ pc' = [pc EXCEPT ![h] = "Apply"] /\ UNCHANGED result
      BY <1>5 DEF DecideCheckExpiry
    <2>3. UNCHANGED <<audit, answer>>
      BY <1>5 DEF DecideCheckExpiry
    <2> HIDE DEF r
    <2>4. Bears(h)'
      BY <2>1, <2>2, <2>3, <1>a DEF Bears, TypeOK
    <2> QED
      BY <2>2, <2>3, <2>4, <1>a, OthersBear DEF TypeOK
  <1>6. ASSUME NEW h \in Calls, ExpireStore(h) PROVE AnswerInv'
    <2>1. Bears(h)'
      BY <1>6, <1>a DEF ExpireStore, Goto, Bears, TypeOK, locals
    <2> QED
      BY <1>6, <2>1, <1>a, OthersBear DEF ExpireStore, Goto, TypeOK, locals
  <1>7. ASSUME NEW h \in Calls, ExpireAudit(h) PROVE AnswerInv'
    <2>1. [call |-> h, event |-> result[h].event] \in audit' /\ audit \subseteq audit'
      BY <1>7 DEF ExpireAudit, AppendAuditAsync
    <2>2. result[h].event.type \in {"ApprovalRefused", "ApprovalExpired"}
      BY <1>7, <1>a DEF ExpireAudit, Bears
    <2>3. Implied(h, Reply(410, "Expired").status, audit')
      BY <2>1, <2>2 DEF Implied, Logged, Reply
    <2> QED
      BY <1>7, <2>1, <2>3, <1>a, ReturnBears DEF ExpireAudit
  <1>8. ASSUME NEW h \in Calls, DecideApply(h) PROVE AnswerInv'
    <2>0. audit' = audit
      BY <1>8 DEF DecideApply
    <2>1. CASE Return(h, Reply(400, "InvalidDecision"))
      BY <2>0, <2>1, <1>a, UnauditedStatus, ReturnBears
    <2>2. CASE /\ pc' = [pc EXCEPT ![h] = "AuditDecision"]
               /\ result' = [result EXCEPT ![h] = Apply(approval[h], command[h], now)]
               /\ UNCHANGED answer
      <3> DEFINE r == Apply(approval[h], command[h], now)
      <3>1. r.refusal # "None" => r.event.type = "ApprovalRefused"
        BY ApplyEvent
      <3>2. result' = [result EXCEPT ![h] = r]
        BY <2>2
      <3> HIDE DEF r
      <3>3. Bears(h)'
        BY <2>0, <2>2, <3>1, <3>2, <1>a DEF Bears, TypeOK
      <3> QED
        BY <2>0, <2>2, <3>2, <3>3, <1>a, OthersBear DEF TypeOK
    <2> QED
      BY <1>8, <2>1, <2>2 DEF DecideApply
  <1>9. ASSUME NEW h \in Calls, DecideAudit(h) PROVE AnswerInv'
    <2>1. [call |-> h, event |-> result[h].event] \in audit' /\ audit \subseteq audit'
      BY <1>9 DEF DecideAudit, AppendAuditAsync
    <2>2. CASE /\ result[h].refusal # "None"
               /\ Return(h, Reply(StatusFor(result[h].refusal), result[h].refusal))
      <3>1. result[h].event.type = "ApprovalRefused"
        BY <1>9, <2>2, <1>a DEF DecideAudit, Bears
      <3>2. Implied(h, Reply(StatusFor(result[h].refusal), result[h].refusal).status, audit')
        BY <2>1, <3>1 DEF Implied, Logged, Reply, StatusFor
      <3> QED
        BY <2>1, <2>2, <3>2, <1>a, ReturnBears
    <2>3. CASE pc' = [pc EXCEPT ![h] = "StoreDecision"] /\ UNCHANGED <<locals, answer>>
      <3>1. Bears(h)'
        BY <2>1, <2>3, <1>a DEF Bears, Implied, Logged, TypeOK, locals
      <3> QED
        BY <2>1, <2>3, <3>1, <1>a, OthersBear DEF TypeOK, locals
    <2> QED
      BY <1>9, <2>2, <2>3 DEF DecideAudit
  <1>10. ASSUME NEW h \in Calls, DecideStore(h) PROVE AnswerInv'
    <2>1. [call |-> h, event |-> result[h].event] \in audit /\ result[h].event.type = "ApprovalDecided"
      BY <1>10, <1>a DEF DecideStore, Held, Tells
    <2>2. Implied(h, Reply(200, "None").status, audit)
      BY <2>1 DEF Implied, Logged, Reply
    <2> QED
      BY <1>10, <2>2, <1>a, ReturnBears DEF DecideStore
  <1>11. ASSUME NEW h \in Calls, Abort(h) PROVE AnswerInv'
    BY <1>11, <1>a, UnauditedStatus, ReturnBears DEF Abort
  <1>12. CASE Tick \/ UNCHANGED vars
    BY <1>12 DEF Tick, vars, locals, AnswerInv, Bears
  <1> QED
    BY <1>1, <1>2, <1>3, <1>4, <1>5, <1>6, <1>7, <1>8, <1>9, <1>10, <1>11, <1>12 DEF Next, Step

\* Whatever the interleaving, a call that the domain answered has its own audit record, of
\* the kind its answer claims: created, decided, or refused (AppendAuditAsync on every path
\* of CreateAsync and DecideAsync that ends in 201, 200, 409 or 410).
THEOREM AnswersAreAudited == Spec => []AnswerIsAudited
  <1>1. Init => AnswerInv
    BY DEF Init, AnswerInv, Bears
  <1> QED
    BY <1>1, AnswerNext, AnswerFacts, SafeInvariant, PTL DEF Spec

-----------------------------------------------------------------------------
(* Who proposed what, on which evidence and until when.                    *)

SameProposal(a, b) ==
    /\ b # None
    /\ b.proposedBy = a.proposedBy /\ b.packet = a.packet /\ b.hash = a.hash
    /\ b.createdAt = a.createdAt /\ b.expiresAt = a.expiresAt

\* A copy that a decision works on is of the proposal stored under its id, however many
\* writes there have been since it was read.
Derived(h) ==
    /\ pc[h] \in {"CheckExpiry", "Apply"} => SameProposal(approval[h], store[approval[h].id])
    /\ pc[h] \in {"StoreExpiry", "AuditExpiry", "AuditDecision", "StoreDecision"} =>
         SameProposal(result[h].approval, store[result[h].approval.id])

DerivedInv == \A h \in Calls : Derived(h)

KeepsProposals == \A i \in Stored : SameProposal(store[i], store'[i])

LEMMA UpdateKeeps ==
    ASSUME TypeOK, NEW a \in ApprovalRecord, SameProposal(a, store[a.id]), UpdateAsync(a)
    PROVE  KeepsProposals
  <1>1. a.id \in Ids /\ a # None
    BY NullAssumption DEF ApprovalRecord
  <1> QED
    BY <1>1 DEF TypeOK, UpdateAsync, KeepsProposals, SameProposal, Stored

LEMMA StepKeeps == ASSUME SafeInv, DerivedInv, [Next]_vars PROVE KeepsProposals
  <1>a. TypeOK /\ \A h \in Calls : Derived(h) /\ LocalsOK(h)
    BY DEF SafeInv, TypeInv, DerivedInv
  <1>b. ASSUME store' = store PROVE KeepsProposals
    BY <1>b DEF KeepsProposals, SameProposal, Stored
  <1>1. ASSUME NEW h \in Calls, CreateStore(h) PROVE KeepsProposals
    <2>1. approval[h] \in ApprovalRecord
      BY <1>1, <1>a DEF CreateStore, Goto, TypeOK, LocalsOK
    <2>2. \A i \in Stored : store'[i] = store[i]
      BY <1>1, <1>a, <2>1 DEF CreateStore, CreateAsync, TypeOK, Stored, ApprovalRecord
    <2> QED
      BY <2>2 DEF KeepsProposals, SameProposal, Stored
  <1>2. ASSUME NEW h \in Calls, ExpireStore(h) PROVE KeepsProposals
    <2>1. result[h].approval \in ApprovalRecord
      BY <1>2, <1>a DEF ExpireStore, Goto, TypeOK, LocalsOK, TransitionResult
    <2>2. SameProposal(result[h].approval, store[result[h].approval.id])
      BY <1>2, <1>a DEF ExpireStore, Goto, Derived
    <2> QED
      BY <1>2, <2>1, <2>2, <1>a, <1>b, UpdateKeeps DEF ExpireStore
  <1>3. ASSUME NEW h \in Calls, DecideStore(h) PROVE KeepsProposals
    <2>1. result[h].approval \in ApprovalRecord
      BY <1>3, <1>a DEF DecideStore, TypeOK, LocalsOK, TransitionResult
    <2>2. SameProposal(result[h].approval, store[result[h].approval.id])
      BY <1>3, <1>a DEF DecideStore, Derived
    <2> QED
      BY <1>3, <2>1, <2>2, <1>a, UpdateKeeps DEF DecideStore
  <1> QED
    BY <1>1, <1>2, <1>3, <1>b DEF Next, Step, Tick, vars, CreateBegin, DecideBegin, CreateAudit,
       DecideCheckExpiry, ExpireAudit, DecideApply, DecideAudit, Abort

\* Every copy stays derived over a step that keeps the proposals and the call's own locals.
LEMMA StillDerived ==
    ASSUME SafeInv, DerivedInv, KeepsProposals, NEW h \in Calls,
           pc'[h] = pc[h], approval'[h] = approval[h], result'[h] = result[h]
    PROVE  Derived(h)'
  <1>1. TypeOK /\ LocalsOK(h) /\ Derived(h)
    BY DEF SafeInv, TypeInv, DerivedInv
  <1>2. ASSUME NEW a \in ApprovalRecord, SameProposal(a, store[a.id]) PROVE SameProposal(a, store'[a.id])
    <2>1. a.id \in Stored
      BY <1>2 DEF SameProposal, Stored, ApprovalRecord
    <2> QED
      BY <1>2, <2>1 DEF KeepsProposals, SameProposal
  <1>3. CASE pc[h] \in {"CheckExpiry", "Apply"}
    <2>1. approval[h] \in ApprovalRecord
      BY <1>1, <1>3 DEF TypeOK, LocalsOK
    <2> QED
      BY <1>1, <1>2, <1>3, <2>1 DEF Derived, SameProposal
  <1>4. CASE pc[h] \in {"StoreExpiry", "AuditExpiry", "AuditDecision", "StoreDecision"}
    <2>1. result[h].approval \in ApprovalRecord
      BY <1>1, <1>4 DEF TypeOK, LocalsOK, TransitionResult
    <2> QED
      BY <1>1, <1>2, <1>4, <2>1 DEF Derived, SameProposal
  <1> QED
    BY <1>3, <1>4 DEF Derived

\* One call moves: it alone has to be shown derived.
LEMMA DerivedStep ==
    ASSUME SafeInv, DerivedInv, KeepsProposals, NEW h \in Calls, Derived(h)',
           \A g \in Calls \ {h} : pc'[g] = pc[g] /\ approval'[g] = approval[g] /\ result'[g] = result[g]
    PROVE  DerivedInv'
  BY StillDerived DEF DerivedInv

LEMMA ReturnDerived ==
    ASSUME SafeInv, DerivedInv, KeepsProposals, NEW h \in Calls, NEW reply, Return(h, reply)
    PROVE  DerivedInv'
  <1>1. /\ pc'[h] = "Done"
        /\ \A g \in Calls \ {h} : pc'[g] = pc[g] /\ approval'[g] = approval[g] /\ result'[g] = result[g]
    BY DEF Return, SafeInv, TypeInv, TypeOK
  <1>2. Derived(h)'
    BY <1>1 DEF Derived
  <1> QED
    BY <1>1, <1>2, DerivedStep

LEMMA DerivedNext == SafeInv /\ DerivedInv /\ [Next]_vars => DerivedInv'
  <1> SUFFICES ASSUME SafeInv, DerivedInv, [Next]_vars PROVE DerivedInv'
    OBVIOUS
  <1>a. TypeOK /\ \A h \in Calls : Derived(h) /\ LocalsOK(h)
    BY DEF SafeInv, TypeInv, DerivedInv
  <1>b. KeepsProposals
    BY StepKeeps
  <1>1. ASSUME NEW h \in Calls, CreateBegin(h) PROVE DerivedInv'
    <2>1. CASE \E reply : Return(h, reply)
      BY <2>1, <1>b, ReturnDerived
    <2>2. CASE \E a, r : /\ pc' = [pc EXCEPT ![h] = "StoreProposal"]
                         /\ approval' = [approval EXCEPT ![h] = a]
                         /\ result' = [result EXCEPT ![h] = r]
      <3>1. Derived(h)'
        BY <2>2, <1>a DEF Derived, TypeOK
      <3> QED
        BY <2>2, <3>1, <1>a, <1>b, DerivedStep DEF TypeOK
    <2> QED
      BY <1>1, <2>1, <2>2 DEF CreateBegin
  <1>2. ASSUME NEW h \in Calls, DecideBegin(h) PROVE DerivedInv'
    <2>1. CASE \E reply : Return(h, reply)
      BY <2>1, <1>b, ReturnDerived
    <2>2. CASE /\ pc' = [pc EXCEPT ![h] = "CheckExpiry"] /\ UNCHANGED <<result, store>>
               /\ \E id \in Ids : store[id] # None /\ approval' = [approval EXCEPT ![h] = store[id]]
      <3>1. PICK id \in Ids : store[id] # None /\ approval' = [approval EXCEPT ![h] = store[id]]
        BY <2>2
      <3>2. store[id].id = id
        BY <3>1 DEF SafeInv, StoreOK, Stored
      <3>3. pc'[h] = "CheckExpiry" /\ approval'[h] = store[id] /\ store' = store
        BY <2>2, <3>1, <1>a DEF TypeOK
      <3>4. Derived(h)'
        BY <3>1, <3>2, <3>3 DEF Derived, SameProposal
      <3> QED
        BY <2>2, <3>1, <3>4, <1>a, <1>b, DerivedStep DEF TypeOK
    <2>3. ASSUME NEW d, NEW a, NEW by, DecideError(d, a, by) = None PROVE a # None
      BY <2>3, NullAnswerAssumption, ReplyTyped DEF DecideError, Reply, Answer
    <2> QED
      BY <1>2, <2>1, <2>2, <2>3 DEF DecideBegin
  <1>3. ASSUME NEW h \in Calls, CreateStore(h) PROVE DerivedInv'
    <2>1. Derived(h)'
      BY <1>3, <1>a DEF CreateStore, Goto, Derived, TypeOK
    <2> QED
      BY <1>3, <2>1, <1>a, <1>b, DerivedStep DEF CreateStore, Goto, locals, TypeOK
  <1>4. ASSUME NEW h \in Calls, DecideCheckExpiry(h) PROVE DerivedInv'
    <2>1. approval[h] \in ApprovalRecord /\ SameProposal(approval[h], store[approval[h].id])
          /\ UNCHANGED <<store, approval>>
      BY <1>4, <1>a DEF DecideCheckExpiry, TypeOK, LocalsOK, Derived
    <2> DEFINE r == Apply(approval[h], ExpireCommand, now)
    <2>2. SameProposal(r.approval, store[r.approval.id])
      BY <2>1, <1>a, CommandsTyped, ApplyKeeps DEF SameProposal, TypeOK
    <2>3. \/ pc' = [pc EXCEPT ![h] = "StoreExpiry"] /\ result' = [result EXCEPT ![h] = r]
          \/ pc' = [pc EXCEPT ![h] = "Apply"] /\ UNCHANGED result
      BY <1>4 DEF DecideCheckExpiry
    <2> HIDE DEF r
    <2>4. Derived(h)'
      BY <2>1, <2>2, <2>3, <1>a DEF Derived, TypeOK
    <2> QED
      BY <2>1, <2>3, <2>4, <1>a, <1>b, DerivedStep DEF TypeOK
  <1>5. ASSUME NEW h \in Calls, ExpireStore(h) PROVE DerivedInv'
    <2>1. pc[h] = "StoreExpiry" /\ pc' = [pc EXCEPT ![h] = "AuditExpiry"] /\ UNCHANGED <<approval, result>>
      BY <1>5 DEF ExpireStore, Goto, locals
    <2>2. /\ result[h].approval \in ApprovalRecord
          /\ SameProposal(result[h].approval, store[result[h].approval.id])
      BY <2>1, <1>a DEF TypeOK, LocalsOK, TransitionResult, Derived
    <2>3. result[h].approval.id \in Stored
      BY <2>2 DEF SameProposal, Stored, ApprovalRecord
    <2>4. SameProposal(result[h].approval, store'[result[h].approval.id])
      BY <2>2, <2>3, <1>b DEF KeepsProposals, SameProposal
    <2>5. Derived(h)'
      BY <2>1, <2>4, <1>a DEF Derived, TypeOK
    <2> QED
      BY <2>1, <2>5, <1>a, <1>b, DerivedStep DEF TypeOK
  <1>6. ASSUME NEW h \in Calls, DecideApply(h) PROVE DerivedInv'
    <2>1. CASE \E reply : Return(h, reply)
      BY <2>1, <1>b, ReturnDerived
    <2>2. CASE /\ command[h] # None /\ pc' = [pc EXCEPT ![h] = "AuditDecision"]
               /\ result' = [result EXCEPT ![h] = Apply(approval[h], command[h], now)]
               /\ UNCHANGED <<approval, store>>
      <3>1. /\ approval[h] \in ApprovalRecord /\ command[h] \in Command /\ now \in Nat
            /\ SameProposal(approval[h], store[approval[h].id])
        BY <1>6, <2>2, <1>a DEF DecideApply, TypeOK, LocalsOK, Derived
      <3> DEFINE r == Apply(approval[h], command[h], now)
      <3>2. SameProposal(r.approval, store[r.approval.id])
        BY <3>1, ApplyKeeps DEF SameProposal
      <3>3. result' = [result EXCEPT ![h] = r]
        BY <2>2
      <3> HIDE DEF r
      <3>4. Derived(h)'
        BY <2>2, <3>2, <3>3, <1>a DEF Derived, TypeOK
      <3> QED
        BY <2>2, <3>3, <3>4, <1>a, <1>b, DerivedStep DEF TypeOK
    <2> QED
      BY <1>6, <2>1, <2>2 DEF DecideApply
  <1>7. ASSUME NEW h \in Calls, DecideAudit(h) PROVE DerivedInv'
    <2>1. CASE \E reply : Return(h, reply)
      BY <2>1, <1>b, ReturnDerived
    <2>2. CASE pc' = [pc EXCEPT ![h] = "StoreDecision"] /\ UNCHANGED <<approval, result, store>>
      <3>1. Derived(h)'
        BY <1>7, <2>2, <1>a DEF DecideAudit, Derived, TypeOK
      <3> QED
        BY <2>2, <3>1, <1>a, <1>b, DerivedStep DEF TypeOK
    <2> QED
      BY <1>7, <2>1, <2>2 DEF DecideAudit, locals
  <1>8. ASSUME NEW h \in Calls, CreateAudit(h) \/ ExpireAudit(h) \/ DecideStore(h) \/ Abort(h)
        PROVE  DerivedInv'
    <2>1. \E reply : Return(h, reply)
      BY <1>8 DEF CreateAudit, ExpireAudit, DecideStore, Abort
    <2> QED
      BY <2>1, <1>b, ReturnDerived
  <1>9. CASE Tick \/ UNCHANGED vars
    <2>1. UNCHANGED <<pc, approval, result>>
      BY <1>9 DEF Tick, vars, locals
    <2> QED
      BY <2>1, <1>b, StillDerived DEF DerivedInv
  <1> QED
    BY <1>1, <1>2, <1>3, <1>4, <1>5, <1>6, <1>7, <1>8, <1>9 DEF Next, Step

\* No write, however stale the copy it was computed from, changes who proposed what, on which
\* evidence and until when, and no stored proposal disappears (the store's CreateAsync, which
\* does not overwrite, and UpdateAsync, which does).
THEOREM ProvenanceKept == Spec => ProvenanceIsFixed
  <1>1. Init => DerivedInv
    BY DEF Init, DerivedInv, Derived
  <1>2. SafeInv /\ DerivedInv /\ [Next]_vars =>
          [\A i \in Stored :
              /\ store'[i] # None
              /\ store'[i].proposedBy = store[i].proposedBy
              /\ store'[i].packet = store[i].packet /\ store'[i].hash = store[i].hash
              /\ store'[i].createdAt = store[i].createdAt
              /\ store'[i].expiresAt = store[i].expiresAt]_vars
    BY StepKeeps DEF KeepsProposals, SameProposal
  <1> QED
    BY <1>1, <1>2, DerivedNext, SafeInvariant, PTL DEF Spec, ProvenanceIsFixed

=============================================================================
