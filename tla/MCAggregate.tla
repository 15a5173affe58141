---------------------------- MODULE MCAggregate ----------------------------
(* Small instance of ApprovalAggregate.                                     *)
EXTENDS ApprovalAggregate

CONSTANTS a1, p1, p2, p3

MCOid == {"alice", "ALICE", "bob"}
MCPerson == [o \in MCOid |-> IF o = "bob" THEN 2 ELSE 1]
MCPackets == {p1, p2, p3}
MCDigest == [p \in MCPackets |-> p]
=============================================================================
