---------------------------- MODULE MCApprovals ----------------------------
(* Small instance of ApprovalsService: "alice" and "ALICE" are two          *)
(* spellings of one person's object id.                                     *)
EXTENDS ApprovalsService, TLC

CONSTANTS c1, c2, c3, p1, p2

MCIds == {c1, c2, c3}
MCOid == {"alice", "ALICE", "bob"}
MCPerson == [o \in MCOid |-> IF o = "bob" THEN 2 ELSE 1]
MCPackets == {p1, p2}
MCUncorrelated == {p2}
MCDigest == [p \in MCPackets |-> p]

Symmetry == Permutations(MCIds)
=============================================================================
