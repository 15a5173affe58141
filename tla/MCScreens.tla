----------------------------- MODULE MCScreens -----------------------------
(* One approver's browser and one person deciding elsewhere, over one       *)
(* proposal.  The two clocks agree.                                        *)
EXTENDS ApprovalScreens, TLC

CONSTANTS s1, i1, p1

MCSessions == {s1}
MCIds == {i1}
MCOid == {"alice", "bob", "carol"}
MCPerson == [o \in MCOid |-> o]
MCPackets == {p1}
MCDigest == [p \in MCPackets |-> 1]
MCIdentity == (s1 :> "bob")
MCIsApprover == (s1 :> TRUE)
MCSkew == (s1 :> 0)
MCElsewhere == {ApproveCommand("carol", FALSE), RejectCommand("carol", TRUE)}
MCRaised ==
    [i \in MCIds |-> [id |-> i, packet |-> p1, hash |-> 1, state |-> "PendingApproval",
                      proposedBy |-> "alice", decidedBy |-> None, reasoned |-> FALSE,
                      createdAt |-> 0, expiresAt |-> 1, decidedAt |-> None]]
=============================================================================
