------------------------------ MODULE MCRouter ------------------------------
(* Two route calls and two editors over an empty catalog and one with both  *)
(* vendors, a deployment of the first of them down.                         *)
EXTENDS RouterService, TLC

CONSTANTS h1, h2, e1, e2, v1, v2

MCCalls == {h1, h2}
MCEditors == {e1, e2}
MCVendors == {v1, v2}
MCRegions == {"east"}

MCModel(d, t, c, a, v) == [deployment |-> d, tier |-> t, cost |-> c, available |-> a, vendor |-> v]

MCCatalog ==
    {MCModel(1, Economy, 1, FALSE, v1), MCModel(2, Standard, 3, TRUE, v2),
     MCModel(3, Economy, 1, TRUE, v1)}

MCConfiguration(c, s) == [catalog |-> c, seeded |-> s]
MCConfigurations ==
    {MCConfiguration(MCCatalog, TRUE), MCConfiguration(MCCatalog, FALSE), MCConfiguration({}, TRUE)}

MCRequest(c, k) ==
    [tokens |-> 28000, multiStep |-> FALSE, retrieval |-> FALSE, toolCalls |-> FALSE,
     ceiling |-> c, classification |-> k, region |-> None]

MCRequests == {MCRequest(4, 1)}

MCSeed ==
    [approved |-> {v1}, maxClass |-> (v1 :> 2), regions |-> {}, maxCost |-> 9,
     permitsRestricted |-> FALSE, version |-> 1]

MCNoUpdate ==
    [approved |-> None, maxClass |-> None, regions |-> None, maxCost |-> None,
     permitsRestricted |-> None]

\* Swap the vendor, add the second one, approve it and forget its limit, promise Restricted
\* data.
MCUpdates ==
    {[MCNoUpdate EXCEPT !.approved = {v2}, !.maxClass = (v2 :> 1)],
     [MCNoUpdate EXCEPT !.approved = {v1, v2}, !.maxClass = (v1 :> 3 @@ v2 :> 2)],
     [MCNoUpdate EXCEPT !.approved = {v1, v2}],
     [MCNoUpdate EXCEPT !.permitsRestricted = TRUE]}

Symmetry == Permutations(MCCalls) \cup Permutations(MCEditors)
=============================================================================
