----------------------- MODULE ApprovalAggregateProofs -----------------------
(***************************************************************************)
(* Proofs about ApprovalAggregate, for every set of identities and packets *)
(* and every choice of alterable fields.                                   *)
(***************************************************************************)
EXTENDS ApprovalAggregate, ApprovalDomainProofs

\* The hash is never recomputed: it stays the one of the packet first proposed.
Anchored ==
    /\ (row = None) <=> (proposed = None)
    /\ row = None => authorizations = {}
    /\ row # None => row.hash = proposed.hash /\ row.proposedBy = proposed.proposedBy
    /\ proposed # None => proposed.hash = Digest[proposed.packet]
    /\ \A a \in authorizations :
         /\ a.hash = Digest[a.packet] /\ a.hash = proposed.hash
         /\ a.decidedBy # None /\ Person[a.decidedBy] # Person[a.proposedBy]

AggInv == TypeOK /\ Anchored

\* What the gate has checked when it authorises.
LEMMA GatePassed ==
    ASSUME NEW a \in ApprovalRecord, NEW t, Authorize(a, t).refusal = "None"
    PROVE  /\ a.state = "Approved" /\ a.decidedBy # None /\ a.hash = Digest[a.packet]
           /\ Person[a.decidedBy] # Person[a.proposedBy]
  <1>1. AuthorizeRefusal(a) = "None"
    BY DEF Authorize
  <1> QED
    BY <1>1 DEF AuthorizeRefusal, IsSameIdentity, VerifyEvidenceIntegrity

LEMMA AggInit == Init => AggInv
  BY AggregateAssumption DEF Init, AggInv, TypeOK, Anchored

LEMMA AggNext == AggInv /\ [Next]_vars => AggInv'
  <1> SUFFICES ASSUME AggInv, [Next]_vars PROVE AggInv'
    OBVIOUS
  <1>a. TypeOK /\ Anchored /\ now \in Nat
    BY AggregateAssumption DEF AggInv, TypeOK
  <1>1. CASE Propose
    <2>1. PICK id \in Ids, packet \in Packets, by \in Oid \cup {None}, e \in 0..Horizon :
            /\ ProposeRefusal(packet, by, e, now) = "None"
            /\ row' = Proposal(id, packet, by, e, now)
      BY <1>1 DEF Propose
    <2>2. row' \in ApprovalRecord /\ Sound(row')
      BY <2>1, <1>a, AggregateAssumption, ProposalSound
    <2>3. row' # None /\ row'.hash = Digest[row'.packet] /\ proposed' = row'
      BY <1>1, <2>2, NullAssumption DEF Propose, Sound
    <2>4. authorizations' = {} /\ now' = now
      BY <1>1, <1>a DEF Propose, Anchored
    <2> QED
      BY <2>2, <2>3, <2>4, <1>a DEF AggInv, TypeOK, Anchored
  <1>2. ASSUME NEW c \in Command, Transition(c) PROVE AggInv'
    <2>1. row \in ApprovalRecord
      BY <1>2, <1>a DEF Transition, TypeOK
    <2>2. /\ row' \in ApprovalRecord /\ row'.hash = row.hash /\ row'.proposedBy = row.proposedBy
      BY <1>2, <2>1, <1>a, ApplyKeeps DEF Transition
    <2> QED
      BY <1>2, <2>1, <2>2, <1>a, NullAssumption DEF Transition, AggInv, TypeOK, Anchored
  <1>3. CASE Execute
    <2>1. row \in ApprovalRecord
      BY <1>3, <1>a DEF Execute, TypeOK
    <2>2. /\ row.decidedBy # None /\ row.hash = Digest[row.packet]
          /\ Person[row.decidedBy] # Person[row.proposedBy]
      BY <1>3, <2>1, GatePassed DEF Execute
    <2> QED
      BY <1>3, <2>1, <2>2, <1>a DEF Execute, AggInv, TypeOK, Anchored
  <1>4. CASE Alter
    <2>1. row \in ApprovalRecord
      BY <1>4, <1>a DEF Alter, TypeOK
    <2>2. /\ row' \in ApprovalRecord /\ row'.hash = row.hash /\ row'.proposedBy = row.proposedBy
      BY <1>4, <2>1 DEF Alter, ApprovalRecord
    <2> QED
      BY <1>4, <2>1, <2>2, <1>a, NullAssumption DEF Alter, AggInv, TypeOK, Anchored
  <1>5. CASE Tick
    BY <1>5, <1>a, AggregateAssumption DEF Tick, AggInv, TypeOK, Anchored
  <1>6. CASE UNCHANGED vars
    BY <1>6, <1>a DEF vars, AggInv, TypeOK, Anchored
  <1> QED
    BY <1>1, <1>2, <1>3, <1>4, <1>5, <1>6 DEF Next

LEMMA AggInvariant == Spec => []AggInv
  BY AggInit, AggNext, PTL DEF Spec

\* The stored row and every authorization stay well typed (Propose, Apply, Rehydrate and
\* Authorize).
THEOREM AggregateTypeCorrect == Spec => []TypeOK
  <1>1. AggInv => TypeOK
    BY DEF AggInv
  <1> QED
    BY <1>1, AggInvariant, PTL

\* Whatever is rewritten at rest, only the evidence that was proposed is ever authorised
\* (EvidencePacketHash and VerifyEvidenceIntegrity).
THEOREM EvidenceAuthorized == Spec => []AuthorizedEvidenceIsProposed
  <1>1. AggInv => AuthorizedEvidenceIsProposed
    <2> SUFFICES ASSUME AggInv, NEW a \in authorizations
                 PROVE  a.packet = proposed.packet /\ a.hash = proposed.hash
      BY DEF AuthorizedEvidenceIsProposed
    <2>1. a \in ApprovalRecord /\ proposed \in ApprovalRecord
      BY DEF AggInv, TypeOK, Anchored
    <2>2. Digest[a.packet] = Digest[proposed.packet] /\ a.hash = proposed.hash
      BY <2>1, NullAssumption DEF AggInv, Anchored
    <2> QED
      BY <2>1, <2>2, CollisionFree DEF ApprovalRecord
  <1> QED
    BY <1>1, AggInvariant, PTL

\* Whoever wrote the row, nobody's own proposal is authorised on their own approval
\* (ExecutionGate.Authorize).
THEOREM SelfAuthorizationImpossible == Spec => []NoSelfAuthorization
  <1>1. AggInv => NoSelfAuthorization
    BY DEF AggInv, Anchored, NoSelfAuthorization
  <1> QED
    BY <1>1, AggInvariant, PTL

-----------------------------------------------------------------------------
(* The lifetime of a decision.                                             *)

Decided(a) ==
    /\ proposed # None /\ a.createdAt = proposed.createdAt /\ a.expiresAt = proposed.expiresAt
    /\ a.createdAt <= now
    /\ a.state = "Approved" =>
         a.decidedAt \in Nat /\ a.createdAt <= a.decidedAt /\ a.decidedAt < a.expiresAt

\* The row keeps the proposal's two instants, so the only decision it can hold was taken
\* between them; an authorization is a copy of such a row.
Lifetimes ==
    /\ row # None => Decided(row)
    /\ \A a \in authorizations : Decided(a) /\ a.state = "Approved"

LEMMA LifetimesNext ==
    ASSUME "state" \notin Alterable
    PROVE  AggInv /\ Lifetimes /\ [Next]_vars => Lifetimes'
  <1> SUFFICES ASSUME AggInv, Lifetimes, [Next]_vars PROVE Lifetimes'
    OBVIOUS
  <1>a. TypeOK /\ Anchored /\ now \in Nat
    BY AggregateAssumption DEF AggInv, TypeOK
  <1>1. CASE Propose
    <2>1. PICK id \in Ids, packet \in Packets, by \in Oid \cup {None}, e \in 0..Horizon :
            row' = Proposal(id, packet, by, e, now)
      BY <1>1 DEF Propose
    <2>2. row'.state = "PendingApproval" /\ row'.createdAt = now /\ row' = proposed'
      BY <1>1, <2>1 DEF Propose, Proposal
    <2>3. authorizations' = {} /\ now' = now
      BY <1>1, <1>a DEF Propose, Anchored
    <2> QED
      BY <2>2, <2>3, <1>a DEF Lifetimes, Decided
  <1>2. ASSUME NEW c \in Command, Transition(c) PROVE Lifetimes'
    <2>1. row \in ApprovalRecord /\ row # None /\ Decided(row)
      BY <1>2, <1>a DEF Transition, TypeOK, Lifetimes
    <2>2. UNCHANGED <<now, proposed, authorizations>> /\ row' = Apply(row, c, now).approval
      BY <1>2 DEF Transition
    <2>3. row'.createdAt = row.createdAt /\ row'.expiresAt = row.expiresAt
      BY <2>1, <2>2, <1>a, ApplyKeeps
    <2>4. CASE TransitionRefusal(row, c, now) = "None"
      <3>1. row' = WithDecision(row, c, now)
        BY <2>2, <2>4 DEF Apply
      <3>2. row'.state = TargetState(c) /\ row'.decidedAt = now
        BY <3>1, <2>1, <1>a, WithDecisionTyped
      <3>3. row'.state = "Approved" => now < row.expiresAt
        BY <3>2, <2>1, <2>4, <1>a, PassedGuards DEF TargetState
      <3> QED
        BY <2>1, <2>2, <2>3, <3>2, <3>3, <1>a DEF Lifetimes, Decided
    <2>5. CASE TransitionRefusal(row, c, now) # "None"
      <3>1. row' = row
        BY <2>2, <2>5 DEF Apply
      <3> QED
        BY <3>1, <2>1, <2>2 DEF Lifetimes, Decided
    <2> QED
      BY <2>4, <2>5
  <1>3. CASE Execute
    <2>1. row \in ApprovalRecord /\ Decided(row)
      BY <1>3, <1>a DEF Execute, TypeOK, Lifetimes
    <2>2. row.state = "Approved"
      BY <1>3, <2>1, GatePassed DEF Execute
    <2> QED
      BY <1>3, <2>1, <2>2 DEF Execute, Lifetimes, Decided
  <1>4. CASE Alter
    <2>1. row \in ApprovalRecord /\ Decided(row)
      BY <1>4, <1>a DEF Alter, TypeOK, Lifetimes
    <2>2. /\ row'.state = row.state /\ row'.decidedAt = row.decidedAt
          /\ row'.createdAt = row.createdAt /\ row'.expiresAt = row.expiresAt
      BY <1>4, <2>1 DEF Alter, ApprovalRecord
    <2> QED
      BY <1>4, <2>1, <2>2 DEF Alter, Lifetimes, Decided
  <1>5. CASE Tick
    <2>1. row # None => row.createdAt \in Nat
      BY <1>a DEF TypeOK, ApprovalRecord
    <2>2. \A a \in authorizations : a.createdAt \in Nat
      BY <1>a DEF TypeOK, ApprovalRecord
    <2> QED
      BY <1>5, <1>a, <2>1, <2>2 DEF Tick, Lifetimes, Decided
  <1>6. CASE UNCHANGED vars
    BY <1>6 DEF vars, Lifetimes, Decided
  <1> QED
    BY <1>1, <1>2, <1>3, <1>4, <1>5, <1>6 DEF Next

\* While the state machine is the only author of the state, whatever else is rewritten at
\* rest, an authorised decision was taken inside its proposal's lifetime: not before it
\* was raised and strictly before it expired (HasPassedExpiry in FromPending).
THEOREM DecisionInTime ==
    ASSUME "state" \notin Alterable
    PROVE  Spec => []AuthorizedInTime
  <1>1. Init => Lifetimes
    BY DEF Init, Lifetimes
  <1>2. Lifetimes => AuthorizedInTime
    BY DEF Lifetimes, Decided, AuthorizedInTime
  <1> QED
    BY <1>1, <1>2, LifetimesNext, AggInvariant, PTL DEF Spec

-----------------------------------------------------------------------------
(* Refinement.                                                             *)

\* While the state machine is the only author of the state, the aggregate implements the
\* abstract lifecycle: terminal states are final and only "Approved" is authorised
\* (ApprovalStateMachine.Apply and ExecutionGate.Authorize).
THEOREM Refinement ==
    ASSUME "state" \notin Alterable
    PROVE  Spec => ImplementsLifecycle
  <1>1. Init => Lifecycle!Init
    BY DEF Init, Lifecycle!Init
  <1>2. AggInv /\ [Next]_vars => [Lifecycle!Next]_(Lifecycle!vars)
    <2> SUFFICES ASSUME AggInv, [Next]_vars PROVE [Lifecycle!Next]_(Lifecycle!vars)
      OBVIOUS
    <2> USE DEF Lifecycle!Next, Lifecycle!vars, Lifecycle!Propose, Lifecycle!Settle, Lifecycle!Authorise
    <2>a. TypeOK /\ Anchored /\ now \in Nat
      BY AggregateAssumption DEF AggInv, TypeOK
    <2>1. CASE Propose
      <3>1. PICK id \in Ids, packet \in Packets, by \in Oid \cup {None}, e \in 0..Horizon :
              /\ ProposeRefusal(packet, by, e, now) = "None"
              /\ row' = Proposal(id, packet, by, e, now)
        BY <2>1 DEF Propose
      <3>2. row' \in ApprovalRecord /\ row'.state = "PendingApproval"
        BY <3>1, <2>a, AggregateAssumption, ProposalSound
      <3>3. row = None /\ row' # None /\ authorizations' = authorizations
        BY <2>1, <3>2, NullAssumption DEF Propose
      <3> QED
        BY <3>2, <3>3
    <2>2. ASSUME NEW c \in Command, Transition(c) PROVE [Lifecycle!Next]_(Lifecycle!vars)
      <3>1. row \in ApprovalRecord /\ row # None
        BY <2>2, <2>a DEF Transition, TypeOK
      <3>2. row' \in ApprovalRecord /\ (row' # row => row.state = "PendingApproval" /\ row'.state \in Terminal)
        BY <2>2, <3>1, <2>a, ApplyKeeps DEF Transition
      <3>3. row' # None /\ authorizations' = authorizations
        BY <2>2, <3>2, NullAssumption DEF Transition
      <3> QED
        BY <3>1, <3>2, <3>3 DEF Terminal
    <2>3. CASE Execute
      <3>1. row \in ApprovalRecord /\ row # None /\ row' = row
        BY <2>3, <2>a DEF Execute, TypeOK
      <3>2. row.state = "Approved" /\ authorizations' # {}
        BY <2>3, <3>1, GatePassed DEF Execute
      <3> QED
        BY <3>1, <3>2
    <2>4. CASE Alter
      <3>1. row \in ApprovalRecord /\ row # None
        BY <2>4, <2>a DEF Alter, TypeOK
      <3>2. row' \in ApprovalRecord /\ row'.state = row.state /\ authorizations' = authorizations
        BY <2>4, <3>1 DEF Alter, ApprovalRecord
      <3> QED
        BY <3>1, <3>2, NullAssumption
    <2>5. CASE Tick
      BY <2>5 DEF Tick
    <2>6. CASE UNCHANGED vars
      BY <2>6 DEF vars
    <2> QED
      BY <2>1, <2>2, <2>3, <2>4, <2>5, <2>6 DEF Next
  <1> QED
    BY <1>1, <1>2, AggInvariant, PTL DEF Spec, ImplementsLifecycle, Lifecycle!Spec

=============================================================================
