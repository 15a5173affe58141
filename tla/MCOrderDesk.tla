---------------------------- MODULE MCOrderDesk ----------------------------
(* A small instance of OrderDesk: an order, the same order with another     *)
(* size, and one that halts, answered in either shape.                      *)
EXTENDS OrderDesk

CONSTANTS a1

MCIds == {a1}
MCExpiresAt == [i \in MCIds |-> 1]
MCOid == {"anonymous-development-caller", "carol", "dave", "erin"}
MCFold == [o \in MCOid |-> o]
MCDeciders == {"carol"}
MCTokens == {None, "carol", "dave", "erin"}
MCRoles == [o \in MCOid |-> IF o = "carol" THEN {"Proposer", "Executor"}
                         ELSE IF o = "dave" THEN {"Proposer"} ELSE {}]
MCShapes == {"Flat", "Nested"}

MCPolicy ==
    [approved |-> {1, 2}, maxParticipation |-> 200000, maxSpread |-> 2500,
     darkMinimum |-> 150, maxNotional |-> 220000, impact |-> 50]

MCTicket(i, n, d) ==
    [order |-> [id |-> i, side |-> "Buy", quantity |-> n, limit |-> 1002],
     quotes |-> {[venue |-> IF d THEN 2 ELSE 1, dark |-> d, mid |-> 1000, spread |-> 2,
                  liquidity |-> 1000, fee |-> 0]}]

\* The routable preset, edited once, and the preset that halts.
MCTickets == {MCTicket("o1", 100, FALSE), MCTicket("o1", 200, FALSE), MCTicket("o2", 100, TRUE)}
=============================================================================
