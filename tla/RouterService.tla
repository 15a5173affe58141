--------------------------- MODULE RouterService ---------------------------
(***************************************************************************)
(* The router service: POST /v1/route over a catalog that configuration    *)
(* may reload, a policy set that approvers edit while requests are in      *)
(* flight (InMemoryPolicySetRepository), and the store of routing          *)
(* decisions in Cosmos.  A route call reads the catalog, the policy set    *)
(* and the store in that order, each in a step of its own.  The service    *)
(* may restart: the policy sets are in memory and start again from the     *)
(* configured seed, the decision records are not.                          *)
(***************************************************************************)
EXTENDS RoutingDecisions, Sequences

CONSTANTS
    Calls,          \* route requests
    Editors,        \* approvers editing the policy set
    Configurations, \* what the options may hold: a catalog, and whether they name the seeded set
    Requests,       \* request bodies
    Seed,           \* the policy set the service starts from
    Updates,        \* partial updates: a field is None when it is not supplied
    MaxVersion,     \* bound: no edit is accepted at this version
    MaxRestarts     \* bound: how often the service restarts

\* PolicySetUpdate: a partial update; the version it expects is an argument of UpdateAsync.
PolicySetUpdate ==
    [approved: (SUBSET Vendors) \cup {None},
     maxClass: (UNION {[V -> Classifications] : V \in SUBSET Vendors}) \cup {None},
     regions: (SUBSET Regions) \cup {None}, maxCost: Nat \cup {None},
     permitsRestricted: BOOLEAN \cup {None}]

ASSUME RouterAssumption ==
    /\ \A c \in Configurations : c.catalog \subseteq Model /\ c.seeded \in BOOLEAN
    /\ Requests \subseteq Request /\ Updates \subseteq PolicySetUpdate
    /\ Seed \in PolicySet /\ Validate(Seed) = None
    /\ MaxVersion \in Nat /\ MaxRestarts \in Nat

VARIABLES
    catalog,        \* options.CurrentValue.Catalog
    seeded,         \* whether options.CurrentValue.Policy still names the seeded set
    policy,         \* the repository's current policy set
    run,            \* how often the service has restarted
    history,        \* history[run]: the repository's log of accepted changes, oldest first;
                    \* the logs of earlier runs are kept for the properties only
    decisions,      \* the routing decision records
    pc,             \* where each route call is
    request,        \* its body
    models,         \* the catalog it read
    governing,      \* the policy set it read
    answer,         \* its response
    viewed,         \* the policy set each editor has on screen, and the run it came from
    floor           \* the policy version in force when the call arrived

vars == <<catalog, seeded, policy, run, history, decisions, pc, request, models, governing,
          answer, viewed, floor>>
repository == <<policy, run, history>>
locals == <<request, models, governing, floor>>

Init ==
    /\ \E c \in Configurations : c.seeded /\ catalog = c.catalog /\ seeded = c.seeded
    /\ policy = Seed
    /\ run = 0
    /\ history = [n \in 0..MaxRestarts |-> <<>>]
    /\ decisions = {}
    /\ pc = [h \in Calls |-> "Idle"]
    /\ request = [h \in Calls |-> None]
    /\ models = [h \in Calls |-> {}]
    /\ governing = [h \in Calls |-> None]
    /\ answer = [h \in Calls |-> None]
    /\ viewed = [e \in Editors |-> None]
    /\ floor = [h \in Calls |-> None]

-----------------------------------------------------------------------------
(* RouteRequestHandler.HandleAsync.                                        *)

Reply(status, decision) == [status |-> status, decision |-> decision]

\* Leave the handler with an answer; its locals go out of scope.
Return(h, reply) ==
    /\ pc' = [pc EXCEPT ![h] = "Done"]
    /\ answer' = [answer EXCEPT ![h] = reply]
    /\ request' = [request EXCEPT ![h] = None]
    /\ models' = [models EXCEPT ![h] = {}]
    /\ governing' = [governing EXCEPT ![h] = None]
    /\ floor' = [floor EXCEPT ![h] = None]

\* Everything before the policy set is read.  The role filter, the correlation id and the
\* validator each end the call; then the catalog is read, once.
RouteBegin(h) ==
    /\ pc[h] = "Idle"
    /\ \/ \E status \in {403, 400} : Return(h, Reply(status, None))
       \/ /\ catalog = {}
          /\ Return(h, Reply(503, None))
       \/ /\ catalog # {}
          /\ pc' = [pc EXCEPT ![h] = "ReadPolicy"]
          /\ request' \in {[request EXCEPT ![h] = body] : body \in Requests}
          /\ models' = [models EXCEPT ![h] = catalog]
          /\ floor' = [floor EXCEPT ![h] = policy.version]
          /\ UNCHANGED <<answer, governing>>
    /\ UNCHANGED <<catalog, seeded, repository, decisions, viewed>>

MutRouteReadPolicy(h) ==   \* the policy set is resolved once and kept
    /\ pc[h] = "ReadPolicy"
    /\ pc' = [pc EXCEPT ![h] = "Save"]
    /\ governing' = [governing EXCEPT ![h] = Seed]
    /\ UNCHANGED <<catalog, seeded, repository, decisions, request, models, floor, answer, viewed>>

\* GetAsync under the repository's lock, for the set the options name now.
RouteReadPolicy(h) ==
    /\ pc[h] = "ReadPolicy"
    /\ \/ /\ ~seeded
          /\ Return(h, Reply(503, None))
       \/ /\ seeded
          /\ pc' = [pc EXCEPT ![h] = "Save"]
          /\ governing' = [governing EXCEPT ![h] = policy]
          /\ UNCHANGED <<request, models, floor, answer>>
    /\ UNCHANGED <<catalog, seeded, repository, decisions, viewed>>

\* The row SaveAsync writes: its id is a fresh Guid, so the call stands for it.
\* The row keeps the hints and the decision with its classification and ceiling; its
\* run, request, models and floor are kept for the properties only.
Record(h) ==
    [id |-> h, run |-> run, request |-> request[h], models |-> models[h], floor |-> floor[h],
     decision |-> Plan(request[h], models[h], governing[h])]

\* Plan, save, map the outcome: the catalog the status is judged on is the one the call
\* read, whatever configuration holds by now.
RouteSave(h) ==
    /\ pc[h] = "Save"
    /\ decisions' = decisions \cup {Record(h)}
    /\ LET decision == Record(h).decision
       IN  Return(h, Reply(StatusFor(decision, models[h]), decision))
    /\ UNCHANGED <<catalog, seeded, repository, viewed>>

MutRouteSaveFails(h) ==    \* the failure is logged and the decision returned anyway
    /\ pc[h] = "Save"
    /\ Return(h, Reply(200, Record(h).decision))
    /\ UNCHANGED <<catalog, seeded, repository, decisions, viewed>>

\* The Cosmos write throws, having written the row or not: the call ends in a 500.
RouteSaveFails(h) ==
    /\ pc[h] = "Save"
    /\ decisions' \in {decisions, decisions \cup {Record(h)}}
    /\ Return(h, Reply(500, None))
    /\ UNCHANGED <<catalog, seeded, repository, viewed>>

-----------------------------------------------------------------------------
(* InMemoryPolicySetRepository.                                            *)

\* An editor loads the policy set, and edits what it sees.
EditorView(e) ==
    /\ viewed' = [viewed EXCEPT ![e] = [run |-> run, set |-> policy]]
    /\ UNCHANGED <<catalog, seeded, repository, decisions, pc, locals, answer>>

Supplied(new, old) == IF new = None THEN old ELSE new

Proposed(current, u) ==
    [approved |-> Supplied(u.approved, current.approved),
     maxClass |-> Supplied(u.maxClass, current.maxClass),
     regions  |-> Supplied(u.regions, current.regions),
     maxCost  |-> Supplied(u.maxCost, current.maxCost),
     permitsRestricted |-> Supplied(u.permitsRestricted, current.permitsRestricted),
     version  |-> current.version + 1]

MutUpdateAccepted(expectedVersion, u) ==      \* the last write wins
    Validate(Proposed(policy, u)) = None

\* Otherwise UpdateAsync throws (conflict before validation) and stores nothing.
UpdateAccepted(expectedVersion, u) ==
    /\ policy.version = expectedVersion
    /\ Validate(Proposed(policy, u)) = None

\* UpdateAsync, whole, under the lock.  The editor's view is the state it edited.
UpdateAsync(e, u) ==
    /\ viewed[e] # None
    /\ policy.version < MaxVersion
    /\ viewed' = [viewed EXCEPT ![e] = None]
    /\ \/ /\ UpdateAccepted(viewed[e].set.version, u)
          /\ policy' = Proposed(policy, u)
          /\ history' = [history EXCEPT ![run] = Append(@, Proposed(policy, u))]
          /\ UNCHANGED run
       \/ /\ ~UpdateAccepted(viewed[e].set.version, u)
          /\ UNCHANGED repository
    /\ UNCHANGED <<catalog, seeded, decisions, pc, locals, answer>>

\* IOptionsMonitor: configuration is reloaded under the running service.
Reload ==
    /\ \E c \in Configurations : catalog' = c.catalog /\ seeded' = c.seeded
    /\ UNCHANGED <<repository, decisions, pc, locals, answer, viewed>>

\* The process is replaced.  Its calls are cut off without an answer, the repository is
\* seeded from the configuration again, which then names the set that was seeded; Cosmos
\* keeps its rows and an editor keeps its page.
Restart ==
    /\ run < MaxRestarts
    /\ run' = run + 1
    /\ policy' = Seed
    /\ seeded' = TRUE
    /\ pc' = [h \in Calls |-> IF pc[h] = "Idle" THEN "Idle" ELSE "Done"]
    /\ request' = [h \in Calls |-> None]
    /\ models' = [h \in Calls |-> {}]
    /\ governing' = [h \in Calls |-> None]
    /\ floor' = [h \in Calls |-> None]
    /\ UNCHANGED <<catalog, history, decisions, answer, viewed>>

Route(h) == RouteBegin(h) \/ RouteReadPolicy(h) \/ RouteSave(h) \/ RouteSaveFails(h)

Next ==
    \/ \E h \in Calls : Route(h)
    \/ \E e \in Editors : EditorView(e) \/ (\E u \in Updates : UpdateAsync(e, u))
    \/ Reload
    \/ Restart

Spec == Init /\ [][Next]_vars

-----------------------------------------------------------------------------
(* Properties.                                                             *)

\* The policy set a run of the service had under a version number.
InForce(n, version) ==
    IF version = Seed.version THEN Seed ELSE history[n][version - Seed.version]

\* Every record, replayed against the version it pins, obeys it: the model it selected was
\* up in the catalog the call read, its vendor approved for that classification and region,
\* its cost within both ceilings (RoutingDecision.cs: a record that "appears to violate the
\* policy in force" is what the pin exists to prevent), however far the policy has moved.
\* The version means what it meant in the run that wrote the record: after a restart the
\* numbers start again, and the record does not say which run it is from.
PinnedVersionGoverns ==
    \A r \in decisions :
        LET p == InForce(r.run, r.decision.version)
            m == r.decision.selected
        IN  /\ r.decision.version - Seed.version \in 0..Len(history[r.run])
            /\ m # None =>
                 /\ m \in r.models /\ m.available
                 /\ m.vendor \in p.approved
                 /\ r.request.classification <= p.maxClass[m.vendor]
                 /\ p.regions = {} \/ r.request.region \in p.regions \cup {None}
                 /\ m.cost <= p.maxCost /\ m.cost <= r.request.ceiling

\* A call that arrives after a policy change was accepted is never decided under an older
\* version: the change takes effect "without a redeploy" and at once (ModelCatalog.cs), as
\* long as the service does not restart.
NoStaleGovernance ==
    \A r \in decisions :
        /\ r.floor <= r.decision.version
        /\ r.run = run => r.decision.version <= policy.version

\* An answer that carries a decision is that of a stored record: nothing is routed, denied
\* or refused off the record, whatever the store does and whenever the service restarts.
AnsweredIsRecorded ==
    \A h \in Calls : answer[h] # None /\ answer[h].decision # None =>
        \E r \in decisions : r.id = h /\ r.decision = answer[h].decision

\* The repository's log is the whole story of a run: one entry per version, without a gap,
\* the last one current, and every version servable as declared (seed and edits alike).
HistoryIsComplete ==
    /\ policy = IF history[run] = <<>> THEN Seed ELSE history[run][Len(history[run])]
    /\ \A n \in 0..run, i \in 1..MaxVersion : i <= Len(history[n]) =>
         /\ history[n][i].version = Seed.version + i
         /\ DOMAIN history[n][i].maxClass = history[n][i].approved
         /\ history[n][i].permitsRestricted =>
              \E v \in history[n][i].approved : history[n][i].maxClass[v] = Restricted

\* An edit is accepted only from an editor that was looking at the very policy set it
\* replaces: no approver's change is overwritten unseen (PolicySetUpdate.ExpectedVersion).
\* The one exception is a page kept open over a restart, whose version number may by then
\* belong to another set.
NoLostUpdate ==
    [][policy' # policy /\ run' = run =>
         \E e \in Editors : /\ viewed[e] # None /\ viewed'[e] = None
                            /\ viewed[e].run = run => viewed[e].set = policy]_vars

=============================================================================
