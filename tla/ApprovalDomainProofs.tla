------------------------ MODULE ApprovalDomainProofs ------------------------
(***************************************************************************)
(* Facts about the approval domain's operators, for every set of           *)
(* identities and packets: what Propose, Apply, Rehydrate and the gate     *)
(* return for a sound record.                                              *)
(***************************************************************************)
EXTENDS ApprovalDomain, TLAPS

\* A record as only the state machine writes it.
Sound(a) ==
    /\ a.hash = Digest[a.packet] /\ a.packet \notin Uncorrelated
    /\ a.state \in {"Approved", "Rejected"} =>
         /\ a.decidedBy \in Oid /\ Person[a.decidedBy] # Person[a.proposedBy]
         /\ a.decidedAt \in Nat
         /\ a.createdAt <= a.decidedAt /\ a.decidedAt < a.expiresAt
    /\ a.state = "Rejected" => a.reasoned
    /\ a.state = "Expired" => a.decidedBy = None /\ a.decidedAt \in Nat
    /\ a.state = "PendingApproval" => a.decidedBy = None

\* The commands the endpoints build: a decision names its decider, an expiry nobody.
WellFormed(c) == (c.trigger = "Expire") => (c.by = None /\ ~c.reasoned)

LEMMA ProposalSound ==
    ASSUME NEW id \in Ids, NEW packet \in Packets, NEW by \in Oid \cup {None},
           NEW expiresAt \in Nat, NEW t \in Nat,
           ProposeRefusal(packet, by, expiresAt, t) = "None"
    PROVE  LET a == Proposal(id, packet, by, expiresAt, t)
           IN  a \in ApprovalRecord /\ Sound(a) /\ a.state = "PendingApproval"
               /\ a.createdAt = t /\ a.id = id
  <1>1. packet \notin Uncorrelated /\ by \in Oid
    BY DEF ProposeRefusal
  <1>2. Digest[packet] \in Hashes
    BY DEF Hashes
  <1> QED
    BY <1>1, <1>2 DEF Proposal, ApprovalRecord, ApprovalState, Terminal, Sound

LEMMA RefusalTyped ==
    ASSUME NEW a, NEW c, NEW t
    PROVE  TransitionRefusal(a, c, t) \in RefusalKind
  BY DEF TransitionRefusal, FromPending, DecisionRefusal, RefusalKind

\* What an accepted transition has passed.
LEMMA PassedGuards ==
    ASSUME NEW a \in ApprovalRecord, NEW c \in Command, NEW t \in Nat,
           TransitionRefusal(a, c, t) = "None"
    PROVE  /\ a.state = "PendingApproval"
           /\ c.trigger = "Expire" => t >= a.expiresAt
           /\ c.trigger # "Expire" =>
                /\ c.by \in Oid /\ t < a.expiresAt
                /\ Person[c.by] # Person[a.proposedBy]
                /\ c.trigger = "Reject" => c.reasoned
                /\ a.hash = Digest[a.packet]
  <1>1. a.expiresAt \in Nat /\ c.by \in Oid \cup {None}
    BY DEF ApprovalRecord, Command
  <1>2. a.state = "PendingApproval" /\ FromPending(a, c, t) = "None"
    BY DEF TransitionRefusal
  <1>3. CASE c.trigger = "Expire"
    BY <1>1, <1>2, <1>3 DEF FromPending, HasPassedExpiry
  <1>4. CASE c.trigger # "Expire"
    BY <1>1, <1>2, <1>4
       DEF FromPending, DecisionRefusal, HasPassedExpiry, IsSameIdentity, VerifyEvidenceIntegrity
  <1> QED
    BY <1>2, <1>3, <1>4

LEMMA WithDecisionTyped ==
    ASSUME NEW a \in ApprovalRecord, NEW c \in Command, NEW t \in Nat
    PROVE  LET d == WithDecision(a, c, t)
           IN  /\ d \in ApprovalRecord
               /\ d.id = a.id /\ d.packet = a.packet /\ d.hash = a.hash
               /\ d.proposedBy = a.proposedBy /\ d.createdAt = a.createdAt
               /\ d.expiresAt = a.expiresAt
               /\ d.state = TargetState(c) /\ d.decidedBy = c.by
               /\ d.reasoned = c.reasoned /\ d.decidedAt = t
  BY DEF WithDecision, TargetState, ApprovalRecord, ApprovalState, Terminal, Command

LEMMA ApplyTyped ==
    ASSUME NEW a \in ApprovalRecord, NEW c \in Command, NEW t \in Nat
    PROVE  Apply(a, c, t) \in TransitionResult
  <1> DEFINE d == WithDecision(a, c, t)
             kind == TransitionRefusal(a, c, t)
  <1>1. d \in ApprovalRecord
    BY WithDecisionTyped
  <1>2. kind \in RefusalKind
    BY RefusalTyped
  <1>3. ASSUME NEW r \in ApprovalRecord, NEW k \in RefusalKind,
               NEW type \in {"ApprovalExpired", "ApprovalDecided", "ApprovalRefused"}
        PROVE  Event(type, r, c.by, t, k) \in AuditEvent
    BY <1>3 DEF Event, AuditEvent, ApprovalRecord, Command
  <1> HIDE DEF d, kind
  <1>4. CASE kind = "None"
    <2>1. Apply(a, c, t) =
            [refusal |-> kind, approval |-> d,
             event |-> Event(IF c.trigger = "Expire" THEN "ApprovalExpired" ELSE "ApprovalDecided",
                             d, c.by, t, kind)]
      BY <1>4 DEF Apply, d, kind
    <2> QED
      BY <1>1, <1>2, <1>3, <2>1 DEF TransitionResult
  <1>5. CASE kind # "None"
    <2>1. Apply(a, c, t) =
            [refusal |-> kind, approval |-> a, event |-> Event("ApprovalRefused", a, c.by, t, kind)]
      BY <1>5 DEF Apply, kind
    <2> QED
      BY <1>2, <1>3, <2>1 DEF TransitionResult
  <1> QED
    BY <1>4, <1>5

\* Apply only ever changes the state, the decider, the reason and the decision time.
LEMMA ApplyKeeps ==
    ASSUME NEW a \in ApprovalRecord, NEW c \in Command, NEW t \in Nat
    PROVE  LET d == Apply(a, c, t).approval
           IN  /\ d \in ApprovalRecord /\ d.id = a.id /\ d.packet = a.packet
               /\ d.hash = a.hash /\ d.proposedBy = a.proposedBy
               /\ d.createdAt = a.createdAt /\ d.expiresAt = a.expiresAt
               /\ d # a => a.state = "PendingApproval" /\ d.state \in Terminal
  <1>1. CASE TransitionRefusal(a, c, t) = "None"
    <2>1. Apply(a, c, t).approval = WithDecision(a, c, t)
      BY <1>1 DEF Apply
    <2>2. TargetState(c) \in Terminal
      BY DEF TargetState, Terminal
    <2> QED
      BY <1>1, <2>1, <2>2, PassedGuards, WithDecisionTyped
  <1>2. CASE TransitionRefusal(a, c, t) # "None"
    BY <1>2 DEF Apply
  <1> QED
    BY <1>1, <1>2

\* Apply keeps a sound record sound, never touches what was proposed, and the event it
\* hands back tells the state and the decider of the record it returns.
LEMMA ApplySound ==
    ASSUME NEW a \in ApprovalRecord, NEW c \in Command, NEW t \in Nat,
           Sound(a), WellFormed(c), a.createdAt <= t
    PROVE  LET r == Apply(a, c, t)
           IN  /\ Sound(r.approval)
               /\ r.approval.id = a.id /\ r.approval.createdAt = a.createdAt
               /\ r.refusal = "None" /\ c.trigger # "Expire" =>
                    /\ r.approval.state \in {"Approved", "Rejected"}
                    /\ r.event.type = "ApprovalDecided" /\ r.event.id = a.id
                    /\ r.event.actor = r.approval.decidedBy
                    /\ r.event.state = r.approval.state
                    /\ r.event.at = r.approval.decidedAt
                    /\ r.event.hash = r.approval.hash
               /\ r.refusal # "None" => r.approval = a /\ r.event.type = "ApprovalRefused"
               /\ r.refusal = "None" /\ c.trigger = "Expire" =>
                    r.approval.state = "Expired" /\ r.event.type = "ApprovalExpired"
  <1> DEFINE d == WithDecision(a, c, t)
             kind == TransitionRefusal(a, c, t)
             type == IF c.trigger = "Expire" THEN "ApprovalExpired" ELSE "ApprovalDecided"
  <1>1. CASE kind # "None"
    BY <1>1 DEF Apply, Event
  <1>2. CASE kind = "None"
    <2>1. Apply(a, c, t) =
            [refusal |-> "None", approval |-> d, event |-> Event(type, d, c.by, t, "None")]
      BY <1>2 DEF Apply
    <2>2. /\ d.id = a.id /\ d.packet = a.packet /\ d.hash = a.hash
          /\ d.proposedBy = a.proposedBy /\ d.createdAt = a.createdAt
          /\ d.expiresAt = a.expiresAt
          /\ d.state = TargetState(c) /\ d.decidedBy = c.by
          /\ d.reasoned = c.reasoned /\ d.decidedAt = t
      BY WithDecisionTyped
    <2>3. Sound(d)
      BY <1>2, <2>2, PassedGuards DEF Sound, TargetState, WellFormed, Command
    <2>4. c.trigger # "Expire" => d.state \in {"Approved", "Rejected"}
      BY <2>2 DEF TargetState, Command
    <2>5. c.trigger = "Expire" => d.state = "Expired"
      BY <2>2 DEF TargetState
    <2> HIDE DEF d
    <2> QED
      BY <2>1, <2>2, <2>3, <2>4, <2>5 DEF Event
  <1> QED
    BY <1>1, <1>2

\* A sound record can always be read back, and the gate authorises exactly the approved
\* ones: the checks made at decision time imply the ones repeated at the gate.
LEMMA SoundRoundTrips ==
    ASSUME NEW a \in ApprovalRecord, Sound(a)
    PROVE  /\ RehydrateRefusal(a) = "None"
           /\ (AuthorizeRefusal(a) = "None") <=> (a.state = "Approved")
  <1>1. a.state \in {"PendingApproval", "Approved", "Rejected", "Expired"} /\ a.proposedBy \in Oid
    BY DEF ApprovalRecord, ApprovalState, Terminal
  <1>2. RehydrateRefusal(a) = "None"
    BY <1>1, DomainAssumption DEF RehydrateRefusal, Contradicts, Sound
  <1>3. (AuthorizeRefusal(a) = "None") <=> (a.state = "Approved")
    BY <1>1, DomainAssumption
       DEF AuthorizeRefusal, Sound, IsSameIdentity, VerifyEvidenceIntegrity
  <1> QED
    BY <1>2, <1>3

=============================================================================
