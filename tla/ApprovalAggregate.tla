-------------------------- MODULE ApprovalAggregate --------------------------
(***************************************************************************)
(* One approval through its whole life, from proposal to the execution     *)
(* gate, used as the domain assembly is meant to be used: read the stored  *)
(* row, Rehydrate it, apply one command or ask the gate, write the row     *)
(* back.  The domain does not assume "records survive round-trips          *)
(* unaltered" (ExecutionGate.cs), so between two operations something      *)
(* other than the state machine may rewrite the fields in Alterable.       *)
(***************************************************************************)
EXTENDS ApprovalDomain

CONSTANTS
    Alterable,      \* fields of the stored row that others may rewrite
    Horizon         \* bound: the clock stops here

ASSUME AggregateAssumption ==
    /\ Alterable \subseteq {"packet", "state", "decidedBy"}
    /\ Horizon \in Nat

\* SHA-256 over an unambiguous encoding: different packets have different hashes.
ASSUME CollisionFree == \A p, q \in Packets : Digest[p] = Digest[q] => p = q

VARIABLES
    now,
    row,            \* the stored document, None before the proposal
    proposed,       \* the proposal as it was raised
    authorizations  \* the ExecutionAuthorizations issued, by the row they were issued for

vars == <<now, row, proposed, authorizations>>

TypeOK ==
    /\ now \in 0..Horizon
    /\ row \in ApprovalRecord \cup {None}
    /\ proposed \in ApprovalRecord \cup {None}
    /\ authorizations \subseteq ApprovalRecord

Init == now = 0 /\ row = None /\ proposed = None /\ authorizations = {}

Propose ==
    /\ row = None
    /\ \E id \in Ids, packet \in Packets, by \in Oid \cup {None}, expiresAt \in 0..Horizon :
         /\ ProposeRefusal(packet, by, expiresAt, now) = "None"
         /\ row' = Proposal(id, packet, by, expiresAt, now)
    /\ proposed' = row'
    /\ UNCHANGED <<now, authorizations>>

\* Rehydrate, Apply, and write back what Apply returned.
Transition(c) ==
    /\ c.trigger = "Expire" => c = ExpireCommand
    /\ row # None /\ RehydrateRefusal(row) = "None"
    /\ row' = Apply(row, c, now).approval
    /\ UNCHANGED <<now, proposed, authorizations>>

\* Rehydrate and ask the gate.
Execute ==
    /\ row # None /\ RehydrateRefusal(row) = "None"
    /\ Authorize(row, now).refusal = "None"
    /\ authorizations' = authorizations \cup {row}
    /\ UNCHANGED <<now, row, proposed>>

\* The row changes at rest.
Alter ==
    /\ row # None
    /\ \/ "packet" \in Alterable /\ \E p \in Packets : row' = [row EXCEPT !.packet = p]
       \/ "state" \in Alterable /\ \E s \in ApprovalState : row' = [row EXCEPT !.state = s]
       \/ "decidedBy" \in Alterable /\ \E o \in Oid \cup {None} : row' = [row EXCEPT !.decidedBy = o]
    /\ UNCHANGED <<now, proposed, authorizations>>

Tick == now < Horizon /\ now' = now + 1 /\ UNCHANGED <<row, proposed, authorizations>>

Next == Propose \/ (\E c \in Command : Transition(c)) \/ Execute \/ Alter \/ Tick

Spec == Init /\ [][Next]_vars

-----------------------------------------------------------------------------
(* Safety.                                                                 *)

\* What is authorised is what was proposed: the packet an authorization carries is the
\* one hashed when the proposal was raised, although the stored packet may change and
\* change back any number of times before the decision and before the gate
\* (EvidencePacketHash, checked in FromPending and again in ExecutionGate.Authorize).
AuthorizedEvidenceIsProposed ==
    \A a \in authorizations : a.packet = proposed.packet /\ a.hash = proposed.hash

\* Whoever wrote the row, no authorization names one person as proposer and approver,
\* or no approver at all (ExecutionGate.Authorize; Rehydrate admits such a row).
NoSelfAuthorization ==
    \A a \in authorizations :
        a.decidedBy # None /\ Person[a.decidedBy] # Person[a.proposedBy]

\* With the state machine as the only author of the state, the authorised decision was
\* taken inside the proposal's lifetime.
AuthorizedInTime ==
    \A a \in authorizations : proposed.createdAt <= a.decidedAt /\ a.decidedAt < proposed.expiresAt

(* Refinement: while nobody else writes the state, the aggregate is an     *)
(* approval in the sense of ApprovalLifecycle, terminal states final and   *)
(* all.                                                                    *)
Lifecycle ==
    INSTANCE ApprovalLifecycle WITH
        state <- IF row = None THEN "None" ELSE row.state,
        authorised <- authorizations # {}

\* The aggregate implements the abstract lifecycle: one question, answered at most
\* once, authorised only while the answer is "Approved".
ImplementsLifecycle == Lifecycle!Spec

=============================================================================
