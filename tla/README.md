# A TLA+ model of the Foundry capital markets router

The repository is a set of .NET services, and a browser UI over two of them,
for a capital markets desk in which agents propose and people decide. This
directory models the parts that decide something: who may approve what, which
model a request is routed to, where an order may be sent, which alert is
reviewed first, and what an approver's or a desk's screen makes of all that
while requests are lost and others act. Every definition is a translation of
C# or TypeScript under `src/src/`; `PROJECT.json` names the lines each one
stands for.

## 1. Inventory

| Part | State | Operations | Correct when |
|---|---|---|---|
| Approval domain (`Fcmr.Approvals.Domain`) | none: immutable records | `Propose`, `Rehydrate`, `Apply` (approve, reject, expire), `ExecutionGate.Authorize` | one question, answered once, by a second person, in time, on the evidence that was hashed |
| Approvals service (`approvals-service`) | approval store, audit list | create, decide, list, get | stored decisions keep the domain's promises although calls overlap; nothing is decided off the record |
| Routing decisions (`Fcmr.Router.Decisions`) | none | score, gate, select, plan, validate | governance first, then the nearest affordable tier; every refusal for cause |
| Policy set repository (same assembly) | current policy set, change history | list, get, update, history | no edit is lost, no version is missing from the history |
| Router service (`router-service`) | routing decision records; reloading options | `POST /v1/route` | every answer is a record, and every record is explicable by the policy version it pins |
| Order routing domain (`Fcmr.OrderRouting.Domain`) | none | evaluate venues, plan a route, `SimulatedOms.Execute` | inside policy, nobody sent to a worse price, refused without valid authority |
| Order routing service (`orderrouting-service`) | proposals, executed ids | propose, get, execute | one fill per proposal, of what was approved, one proposal per approval |
| Surveillance lane (`Fcmr.Surveillance.Domain`, service) | none | rank alerts, measure the queue, draft and apply an escalation | the queue depends on what was submitted and not on when it came back, and says what is missing |
| Research lane (`Fcmr.Research.Domain`, service) | none | retrieve, screen, attribute | no claim without a source the caller may see |
| Shared service defaults | ambient correlation id | adopt correlation id, authorise, guard the platform, health, telemetry | one id per request chain |
| Approvals screens (`webui`) | a query cache per browser, the screen shown, a refusal | poll, open, leave, retry, decide | never bars what the service allows, decides once unless an answer was lost, catches up |
| Order routing screen (`webui`) | ticket, proposal, looked-up approval, execution shown | propose, look up, execute, leave, try again | what is filled is what was shown, once, in the name of who decided |
| Demo data, infrastructure, scripts | | | not runtime logic of the system |

How they interact: the services do not call each other in this revision. A
router answer, an approval and an execution are joined by the correlation id
and by the ids the caller carries from one to the next; the execution endpoint
receives an approval id and its expiry in its body and takes the approver from
the caller's token. The desk's screen is that caller: it takes an approval from
one service and carries it to the other. Inside a service, requests run
concurrently on the thread pool and share in-memory stores whose single
operations are atomic (`ConcurrentDictionary`, a lock, an immutable list swap);
nothing makes a *sequence* of them atomic.

What is hard to test there:

- two decisions of one approval overlap: read, decide and write are separate;
- the clock moves between two reads of it in one handler;
- a caller goes away between the audit append and the store write;
- a stored row is not what was written (evidence, state or decider altered);
- a policy set changes while a request that read it is being planned;
- two approvers edit the policy set from the same view;
- the decision store fails, having written or not;
- two executions of one proposal pass the OMS together;
- an order is proposed again after somebody read the first proposal;
- a restart forgets policy versions and executed proposals, while records of
  routing decisions and the pages open in browsers survive;
- an answer is lost after the deed is done, and the desk or the approver tries
  again;
- one approval comes back with a second proposal, or was never granted;
- an answer cannot be drawn, while an execution is under way;
- a screen judges a cached copy of an approval while somebody decides it;
- an execution and a new proposal are under way together;
- assessments come back in any order, some not at all;
- rounding, ties and closed boundaries in scores, costs, ceilings and expiries.

`PROJECT.json` lists them under `hazards`, each at its line, with the
properties aimed at it.

## 2. Modules

| Module | Models | Built on |
|---|---|---|
| `ApprovalDomain` | the approval domain as operators on records | |
| `ApprovalLifecycle` | abstract: what an approval promises | |
| `ApprovalAggregate` | one approval through the domain, its row altered at rest; implements `ApprovalLifecycle` | `ApprovalDomain` |
| `ApprovalsService` | overlapping create and decide calls | `ApprovalDomain` |
| `RoutingDecisions` | score, gate, selection, plan, status, validation as operators | |
| `Surveillance` | scores, ranking, gaps, quality report as operators | |
| `RouterService` | route calls, policy edits, reloads, a failing store, restarts | `RoutingDecisions` |
| `BestExecution` | cost model, boundaries, winner, OMS refusals as operators | |
| `Planners` | one decision of each lane for every question of a bounded space, against what it promises | `RoutingDecisions`, `BestExecution`, `Surveillance` |
| `OrderRoutingService` | proposing, reviewing and executing concurrently | `BestExecution` |
| `ApprovalScreens` | browsers with their query caches over the approvals service | `ApprovalDomain` |
| `OrderDesk` | the order routing screen over the order routing and approvals services | `BestExecution` |
| `Null` | the value `None` the routing modules share | |
| `MC...` | instances for TLC: constants and symmetry, no behaviour | the module named |
| `...Proofs` | theorems and their lemmas | the module named |

Definitions whose name starts with `Mut` are not part of any specification.
Each is a plausible mistake in the definition that follows it and is kept to
show that a property notices it.

### Approvals

An approval is a record with the fields of the class `Approval`. Prose is
dropped (a reason is the Boolean `reasoned`, a refusal its kind), the order of
the guards is kept. Object ids are kept as spelled, because the code compares
them case-insensitively and trimmed: `Person[o]` is the id after folding, and
the instances have two spellings of one person. The evidence hash is the
constant `Digest`; only `ApprovalAggregate` assumes it to be collision free.

In `ApprovalsService` a call is a process. `DecideAsync` is cut at each access
to something shared:

| Action | Handler code |
|---|---|
| `CreateBegin` | role filter, body checks, `Approval.Propose` |
| `CreateStore`, `CreateAudit` | `CreateAsync`, then `AppendAuditAsync` and 201 |
| `DecideBegin` | role filter, `GetAsync`, body and identity checks |
| `DecideCheckExpiry` | `HasPassedExpiry` on the first clock reading |
| `ExpireStore`, `ExpireAudit` | the recorded expiry: store, then audit and 410 |
| `DecideApply` | the decision parsed, `Apply` on the second clock reading |
| `DecideAudit` | audit record, and the answer if it was refused |
| `DecideStore` | `UpdateAsync`, 200 |
| `Abort` | `ThrowIfCancellationRequested` at the head of a store call |
| `Tick` | the injected `TimeProvider`; assumed not to run backwards |

Listing and reading approvals change nothing and have no action. Audit events
form a set, each with the call that appended it: the code never reads the
order of the list.

`ApprovalAggregate` is the domain alone, as an executing service would use it:
read the row, `Rehydrate`, one command or the gate, write back. `Alter`
rewrites the fields in `Alterable` between two operations, because
`ExecutionGate` says it does not assume "records survive round-trips
unaltered".

### Routing

Scores are ten-thousandths, costs are whole units, a deployment is its rank in
ordinal name order (the last tie-break), and a catalog is a set of models. Two
of them may share a name: configuration is not checked for that. `OrderBy ...
ThenBy ... First` is a chain of filters. `RoundedEighth` rounds halves to even
as `Math.Round` does; the code computes in binary floating point, where a half
may fall to the other neighbour. Evaluating both for every token count up to
saturation and all eight combinations of hints finds the same tier each time,
so no property can tell the difference.

`RouterService` splits `HandleAsync` where it touches shared state: the
catalog snapshot, the policy set under the repository's lock, the save. The
same call may fail at the save, with or without the row written. Editors
follow the contract of `PolicySetUpdate`: they send the version they looked
at. No endpoint of the service edits a policy set in this revision; the
repository's interface is modelled as it is meant to be called. `Reload` is
`IOptionsMonitor`: any catalog, and a policy name that may not be the seeded
one. `Restart` is the process starting again: the repository is built anew from
the configured seed with version one, calls under way are gone, decision
records (Cosmos) stay and so do editors' pages. A record belongs to the run
that wrote it, because version numbers start again; `history[run]` keeps each
run's log for the properties.

### Order routing

Prices are ten-thousandths, basis points hundredths, participation millionths:
the units the code rounds to, so `RoundDiv` is `Math.Round(..., ToEven)` at
exactly the places the code has it. The share count and the notional ceiling
are scaled down to stay inside TLC's 32-bit integers; rates are the defaults.

In `OrderRoutingService` an execution finds the proposal, asks the OMS and the
clock, and marks, in three steps. `Propose` is one step because it touches the
store once. `Review` is a person reading a proposal; `known` remembers what
the caller of an execution had read. `Approvals` is what the approvals service
has on record, id, state and expiry. An execution's body carries an id and an
expiry copied from such a record, as `ExecutionPanel` does it, and says nothing
of the state; the service reads no approval.

### Surveillance

A score is in hundredths before the code rounds it to tenths. Alerts and
assessments are sequences, because the code's dictionary keeps the last
assessment of an alert and LINQ's sort is stable. The sort is modelled by its
result: an alert stands behind as many others as `Before`, the chain of
`OrderByDescending`, `ThenBy` and stability, puts ahead of it. Rationale and
evidence are what the code tests of them: there or not. `Planners` asks the
three pure decisions of the system one question each and compares the answer
with a promise stated without the algorithm.

### Approvals screens

A query of the cache is a record: `data`, `failed`, and `fetch`, which is idle,
sent or answered but not yet arrived. TanStack Query is outside the repository
and modelled from how the hooks use it: data is shown while a fetch is under
way, an error is kept beside old data, mounting and polling leave a fetch that
is under way alone, invalidation replaces it. Retries are off, as
`QueryProvider` says.

| Action | Code |
|---|---|
| `Open`, `Leave` | the link of a queue row; navigation away, which unmounts the detail and its refusal |
| `FetchList` | `usePendingApprovals`: the interval, the request, the answer or a failure |
| `FetchDetail` | `useApproval`, which is not polled |
| `Retry` | the button of `AsyncBoundary` |
| `Decide` | `onDecide`, through the buttons of `DecisionPanel` as last rendered |
| `ServiceRead`, `ServiceDecide` | `DecideAsync`: the read and everything after it |
| `Answered`, `Broken` | the mutation's success or failure; a broken connection may leave the request to be served or not |
| `DecideElsewhere` | another person's decision |

`renderedAt` is the clock of the last rendering: the panel reads it then and
not when a button is pressed. The role and identity checks of the service are
not repeated: a session without either has no live button.

### Order routing screen

The variables are the `useState`s of `OrderRoutingRoute` and `ExecutionPanel`,
without the failure messages, which only show.
A request is sent, served and settled in steps of its own; the ticket and the
panel wait separately. The UI sends no correlation id, so each proposal
request gets a fresh one. `Broken` is a request whose answer never arrives,
with the service having seen it or not; `Leave` unmounts the route and what it
awaits finds nobody. `Restart` empties the proposal store. An approval is what
the desk sees of it: state, decider, expiry. The services run as they do with
enforcement off (no token), or with one token, whose app roles `Roles` gives;
`OrderRoutingService` has the interleavings inside them.

`shape` is the shape of the rows in which an answer lists the venues
considered. The service of this revision sends them flat
(`OrderRoutingEndpoints.Considered`); the screen declares and reads them nested
(`ConsideredTable`). A flat row throws while it is drawn, so `ProposalSettles`
has two outcomes: `Drawn`, for a failed request or an answer of the declared
shape, and `Undrawable`, where `ErrorBoundary` takes the place of every screen
(`crashed`), the route is unmounted as by `Leave`, and only its button,
`TryAgain`, mounts it anew. With flat rows the desk gets as far as its first
answer. The rest of the screen's code runs, and is checked, for nested ones.

## 3. Runs

| Run | What it asks |
|---|---|
| `approvals` | Do the store and the audit list stay consistent while calls overlap, are cancelled, and the clock moves? Yes: a second person in time, every stored decision audited, every row readable, the gate in agreement, provenance fixed. |
| `approvals_race` | Is a recorded decision final? **No**, see findings. |
| `approvals_gone` | Has a proposal left Pending after a 410? **No**, see findings. |
| `aggregate` | With evidence and decider altered at will: is what is authorised what was proposed, in time, by a second person, and is the whole an `ApprovalLifecycle`? Yes. |
| `planners` | Does the model planner choose the nearest permitted, affordable model, turn away only for cause, ignore excluded models, never serve a higher ceiling worse, account for every model and map to the right status? Is a proposed route inside the policy, does no quote around the same mid that is beyond objection have a better price, and does one more venue never hurt? Is the alert queue the same in whatever order things arrive, honest about what is missing, and its recall too? Yes. |
| `router` | Do records obey the version they pin, is no request decided under a version older than its arrival, is every answer recorded, and is no policy edit lost, a restart included? Yes. |
| `order_routing` | One fill per proposal, on a second person's live authority, and refusals that burn nothing? Yes. |
| `order_routing_review` | Is the fill what its approver read? **No**, see findings. |
| `order_routing_reuse` | Is an approval used once? **No**, see findings. |
| `order_routing_unapproved` | Does a fill rest on an approval that was granted? **No**, see findings. |
| `approval_screens` | Is what the screens bar refused by the service too, does the service accept a second decision of one visit only after a request of it failed, does a settled proposal leave the queue, does an accepted decision show? Yes. |
| `order_desk` | Over lost answers, retries, re-proposals and a restart: is a fill what was shown, once, in the name of who decided, is an execution shown beside another proposal only if the two overlapped, and does every wait end, with answers that can be drawn and with answers that cannot? Yes. |

### Bounds

- `approvals`: three calls, two open at a time, clock 0..2, two packets (one
  without a correlation id), three spellings of two people. A race of two
  needs the proposal's creation first, hence three calls; the clock has an
  instant before, at and after an expiry. Calls are symmetric.
- `aggregate`: one approval (approvals share nothing), three packets, clock
  0..3, evidence and decider rewritten. Rewriting the state as well would make
  the refinement false by assumption; that `NoSelfAuthorization` survives it is
  proved, for every set of altered fields.
- `planners`: every catalog of one or two models over three tiers, two costs,
  two vendors, up and down, under one name or two, with or without a third; policy shapes of which
  half are rejected before use; token counts just below and at both tier
  boundaries; ceilings below, between and above costs. Every non-empty set of
  ten quotes against eighty orders at and around the dark-pool minimum, the
  participation limit, the spread limit, the notional ceiling and the limit
  price. Alerts in and out of order and repeated, against every sequence of up
  to three of seven assessments, scores equal only after rounding.
- `router`: two calls, two editors, one request, an empty catalog and one with
  both vendors and a deployment down, four updates of which two are invalid
  from the seed, versions 1..3, one restart: enough for an edit or a restart
  between any two reads of a call, for a stale editor, and for a version number
  reached in both runs.
- `order_routing`: two executions of one order, two correlation ids, two
  approvals, clock 0..1: one authority is over from the start, the other expires
  under an execution already under way. The three runs beside it have what
  their question needs: the order resubmitted at another size; two orders and
  one approval; one order and one rejected record.
- `approval_screens`: one browser, one proposal, two decisions of which any
  may come from elsewhere, expiry at 1 on a clock 0..1. Two decisions are what
  an overlap needs; browsers share nothing but the service, so one, with
  somebody deciding elsewhere, stands for any of several.
- `order_desk`: four requests, one approval that lapses at 1, an order, the
  same order at another size and one that halts; no token, the token of
  somebody who may both propose and execute, of a proposer only, and one without
  a role; rows of both shapes. Four requests are a proposal, a lookup, an execution and one
  more: a retry, or a re-proposal under the execution.

Deadlock is allowed where every call may be over and the clock at its bound;
`router` and `approval_screens` cannot stop: configuration may always reload,
and the queue is polled for ever.

### Fairness

`approval_screens` assumes weak fairness of the queue's polling and of each
fetch: the interval timer fires, and `fetch` resolves or rejects. Which of the
two is left open every time, so a fetch may fail for ever. Nobody has to click,
and a decision may stay under way.

`order_desk` assumes weak fairness of the end of each await, with an answer or
without: a browser gives a request up. The services owe no answer, and the desk
no click.

## 4. What is proved

Every safety property, action property and refinement that a passing run checks
is also a theorem of its specification, for every value of the constants that
satisfies the assumptions in the modules: any number of calls, people, packets,
models, policy edits, restarts, venues, alerts, and any clock.

| Module | Theorem | Property |
|---|---|---|
| `ApprovalsServiceProofs` | `TypeCorrect` | `TypeOK` |
| | `Segregation` | `SegregationOfDuties` |
| | `Audited` | `DecisionIsAudited` |
| | `GateAndRowAgree` | `GateAgrees` |
| | `AnswersAreAudited` | `AnswerIsAudited` |
| | `ProvenanceKept` | `ProvenanceIsFixed` (action) |
| `ApprovalAggregateProofs` | `AggregateTypeCorrect` | `TypeOK` |
| | `EvidenceAuthorized` | `AuthorizedEvidenceIsProposed` |
| | `SelfAuthorizationImpossible` | `NoSelfAuthorization` |
| | `DecisionInTime` | `AuthorizedInTime`, if `state` is not alterable |
| | `Refinement` | `ImplementsLifecycle`, if `state` is not alterable |
| `RouterServiceProofs` | `LogIsComplete` | `HistoryIsComplete` |
| | `PinGoverns` | `PinnedVersionGoverns` |
| | `NeverStale` | `NoStaleGovernance` |
| | `AnswersAreRecorded` | `AnsweredIsRecorded` |
| | `NoEditIsLost` | `NoLostUpdate` (action) |
| `OrderRoutingProofs` | `SingleUse` | `FilledOnce` |
| | `RefusalBurnsNothing` | `ExecutedIsFilled` |
| | `OnAuthority` | `FilledOnAuthority` |
| `OrderDeskProofs` | `ShownIsFilled` | `FilledAsShown` |
| | `RetryIsSafe` | `RetryNeverFillsTwice` |
| | `DeciderIsBehindFill` | `DeciderIsOnRecord` |
| | `OutcomeBesideItsProposal` | `StaleOnlyWhenOverlapping` |
| `ApprovalScreensProofs` | `SecondDecisionNeedsFailure` | `DecidesAgainOnlyAfterFailure` |
| | `BlocksNothingAllowed` | `BlockedIsRefused` |
| `PlannersProofs` | `ServesBest` | `BestPermitted` |
| | `TurnsAwayForCause` | `TurnedAwayForCause` |
| | `ExcludedHaveNoSay` | `GovernanceFirst` |
| | `MoneyHelps` | `MoreMoneyNeverHurts` |
| | `RecordAccountsForAll` | `EveryModelAccounted` |
| | `StatusIsTrue` | `StatusTellsWhy` |
| | `ProposesWithinPolicy` | `WithinPolicy` |
| | `ProposesBestPrice` | `BestPriceAtItsMid` |
| | `VenuesHelp` | `MoreVenuesNeverHurt` |
| | `CompleteMeansAll` | `CompletenessIsHonest` |
| | `FullRecallMissesNothing` | `RecallIsHonest` |
| | `QueueIsStable` | `ArrivalOrderIsImmaterial` |

`ApprovalDomainProofs` holds what the approval modules share: lemmas about the
domain's operators (`ProposalSound`, `ApplySound`, `ApplyKeeps`,
`SoundRoundTrips`).

### The arguments

**Approvals service.** A stored decision is sound only because the record a
handler carries across its awaits was sound when it was computed, so the
invariant must speak about handlers. `SafeInv` says that every stored record is
`Sound` (proposer, hash and decision fit together), that every handler holds,
at each point of its program, a sound record of the same provenance as the
stored one, and, past the audit append, that the event it is about to store is
in the audit list. Stale copies are then harmless for these properties: whatever
order the writes land in, each of them writes a sound and audited record. It is
exactly finality (`TerminalIsFinal`) that this argument does not give, and that
does not hold. `AnswerInv` adds that the event a handler carries towards the
audit list is of the kind its answer will claim, and `DerivedInv` that the
record it carries is of the proposal stored under the same id, however many
writes there were since it was read, which is why no write changes provenance.

**Aggregate.** `AggInv` says that no operation touches hash and proposer, so
evidence that hashes to the stored hash is the evidence proposed; that step
alone uses `CollisionFree`. Being in time (`Lifetimes`: a row that is decided
was decided before its expiry) and implementing the lifecycle rest on the state
machine having been the one to write the state, hence their hypothesis;
evidence and decider may be rewritten.

**Router service.** `Repository` couples the set in force with the log of its
run, entry by entry. `CallsInv` says that a call past its reads holds a policy
set that its run's log has under its version number, and that every record is
what `Plan` makes of its request under that set; edits, reloads and restarts
then cannot change what a record pins, because logs only grow and a restart
opens a new one. That `Plan` obeys the set is a lemma about the operators
(`SelectedIsUsable`). `EditorsInv` says the same of what editors look at: in
one run, equal version numbers mean equal sets, so a check on the number is a
check on the set. It is a check on the number only, hence the exception for
pages kept open over a restart.

**Order routing service.** The invariant couples each call's program counter
with its locals: a call that is to be marked holds a proposal and an authority
that `ExecuteRefusal` has accepted at the time stamped on the fill. What the
authority claims of an approval is nowhere compared with one, so no invariant
could give `ApprovalIsSingleUse` or `FilledOnApproval`.

**Order desk.** A request lives on after the panel that sent it, so the
invariants are about requests in flight. `RouteInv`: the correlation id of
every proposal anywhere (stored, shown, in a request, in an answer, filled) is
that of the one request that it was made for, so it names the proposal, and the
marks cover the fills of the proposals held. A retry meets a mark, or, after a
restart, a store without the proposal. `RecordInv`: a copy of an approval that
names a decider, in the panel or in a request, names the one on record for
good. `ScreenInv` follows which requests were under way together; unmounting,
by `Leave` or by an answer that cannot be drawn, leaves no request that the
screen waits for, so both are one lemma (`NobodyWaits`).

**Approvals screens.** An approval that has left Pending never returns to it,
although a late write may replace one decision by another. `StoreInv` and
`CallsInv` keep that together with what is under way, `CacheInv` relates every
cached detail, shown or on its way, to the store: a copy is of the same proposal, and a
settled copy means a settled approval. `VisitInv` says of one visit that no
decision is sent while another is awaited, and that once one has been recorded
and did not end in a failure, every later one is doomed to be refused.

**Planners.** The three decisions are pure, so the invariants (`ModelInv`,
`RouteInv`, `TriageInv`) only say that an answer is the operators' value for a
well-formed question, and the work is in lemmas about the operators:

- `GateIsPolicy`: for a policy set that `Validate` accepts, the chain of
  exclusions lets a model through exactly when the set permits it; without
  validation that is false.
- `PoolIsNearest`, `ChosenIsBest`: the chain of filters in `Choose` finds the
  best in the order that `BestPermitted` describes by a distance. That anything
  comes first at all is the well-foundedness of `<` (`Least`).
- `RicherIsServed`: more money, for any amount.
- `ChosenIsFirst`: the chosen model is the first by cost and then by name, which
  is what a reason "same tier" amounts to.
- `RoundDivBound`: rounding to even errs by half a unit at most, which is where
  `WithinPolicy` gets its half units.
- `RoundDivMonotone`, `CheaperIsBetter`: around one mid, less cost after rounding
  is no worse a price after rounding, for either side; `RoundDivWithin`,
  `UnobjectionableIsClear`: what keeps a limit unrounded keeps it rounded. With
  `LeastCost` and `WinnerIsCheapest`, the cheapest of finitely many quotes by
  counting how many cost less, this is `BestPriceAtItsMid`: the planner compares
  costs, the property prices, and neither mentions the other.
- `PlacesAreTaken`: in a sort by counting no two alerts have the same place, so
  by the pigeonhole principle (`FS_Injection`) every place is taken by one. This
  replaces an induction over the batch. `RankedPlaces` and `MovedRanked` draw
  the conclusions for a queue and for a rearranged one.

### Assumptions

Each is an `ASSUME` that TLC evaluates for the instances it checks.

| Assumption | Says | Because |
|---|---|---|
| `CollisionFree` | `Digest` is injective | SHA-256 |
| `RouterAssumption` | catalogs, requests and updates have their types; the seed is valid | the repository's constructor validates it |
| `RoutingNullAssumption` | `None` is none of the models and kinds | null is not a value of these types |
| `UnboundedAssumption` | the mark for a venue without liquidity exceeds the participation limit | the code uses a fraction of `decimal.MaxValue` |
| `PlannersAssumption` | questions have their types, quotes are finitely many | they are lists in the code |
| `ScreensAssumption` | ids name the proposals raised and are not the name of a screen | |

The others give bounds and sets their types.

### Only model-checked

Liveness is beyond the prover: `QueueConverges` and `DecisionShows` of the
screens, `WaitsEnd` of the desk. The properties under Findings do not hold.

## 5. Findings

1. `approvals_race`: two overlapping decisions both answer 200 and the later
   write replaces the first, an approval turned into a rejection included.
   `ApprovalState.cs` calls the answer "final the moment it is recorded". The
   store's `UpdateAsync` has no version to check.
2. `approvals_gone`: the expiry falls between the handler's reading of the
   clock and the state machine's. The caller gets 410 and the proposal stays
   Pending, which the handler's comment rules out.
3. `order_routing_review`: a proposal's id is derived from its order's and
   saving overwrites, so an execution can fill something its approver never
   read.
4. `order_routing_reuse`: the service marks a proposal as executed and never an
   approval as used, and does not ask what an approval was granted for. One
   approval, presented with two proposals, fills both. Endpoint and store call
   an approval single-use.
5. `order_routing_unapproved`: the request carries an approval's id, approver
   and expiry, and not what was decided. A second person who sends a rejected
   record has the order filled. The execution panel says, twice, that the
   service refuses a record that is not approved.

Observations, read off the code or met in the models, and not run:

- A call refused by `Propose` or with an unrecognised decision leaves no audit
  record although `approval-api.md` says that every call writes one.
- `Routed` and `Downgraded` are reported also when the tier is above the
  indicated one, or below it for lack of an available model rather than for
  the ceiling, contrary to their comments in `ModelTier.cs`.
- `OrderRoutingRoute` clears the execution when a proposal is asked for, so
  that no stale fill stands beside a fresh proposal; an execution answered
  after that still puts one there. `StaleOnlyWhenOverlapping` says that this is
  the only way.
- The rows of `considered` are sent flat and read nested, so that drawing any
  proposal or halt of this service throws (`OrderRoutingScreen.tsx:184` against
  `OrderRoutingEndpoints.cs:282`). The error boundary then replaces the order
  screen until somebody presses Try again, and stays when another screen is
  opened, although it is there so that "one broken screen does not blank the
  whole application". An execution under way at that moment is never reported to
  the desk. The tests draw rows of the declared shape.
- An order without a limit price is planned with limit zero, and its notional
  with it. A sell order is then within its limit at any price and is proposed;
  the service's README says of an unpriced order that it halts
  (`orderrouting-service/README.md:46`). A buy order is stopped by the limit,
  except at a mid of zero.
- A quote whose mid is zero has no spread cost and is not held to the spread
  tolerance (`BestExecutionEvaluator.cs:128`), so it may win. The service's
  validator does not look at what a quote says.
- Venues are compared by cost in basis points of their own mid. Between quotes
  around different mids the one with the worse price may win.
- A model as dear as the selected one and later by name is rejected "at a higher
  projected cost" (`TierSelector.cs:171`).
- A catalog may name a deployment twice. A record, and the status made from it,
  then cannot tell the two apart.
- After a broken connection an approver may decide again, and if both requests
  are served the service may accept both, by finding 1.
- With enforcement on, the approver is the token's holder, who on this screen
  is also the proposer: a signed-in desk can never have its own proposal
  filled. The role filter's 403 has no `executed` member and shows nothing.
- After a 409 the detail is not fetched again, so the buttons stay live over a
  settled proposal until the screen is left. The text for a 410 says that the
  proposal will never execute, which finding 1 can make untrue.
- `ApprovalDetail` says that a missing evidence packet blocks the decision
  panel; nothing passes that on to it.
- Policy versions carry no run: a page left open over a restart may overwrite a
  policy set its editor has not seen, if the new run has reached the same
  number.
- The alert queue does depend on arrival when an alert or an assessment is
  submitted twice; `ArrivalOrderIsImmaterial` is about batches without
  repetition, a condition that `SurveillanceEndpoints.cs:62` does not make.

## 6. Left out, and why

- SHA-256 and the canonical encoding of an evidence packet: a constant.
- Token validation, the platform guard, telemetry, health: framework code or
  I/O without state. A missing role and a token without an object id do end
  calls in the models.
- The injection detector and all rationale text: string matching and wording.
- The escalation gate, the research lane and correlation ids: see the plan.
- Of the web UI: rendering, the menu, placeholders of unfinished screens, the
  generated API types, garbage collection of the query cache, and jumps
  through the browser's history from one detail to another.
- Demo data, infrastructure and scripts never run with the system. By lines
  they dominate the repository's JavaScript: `scripts/bootstrap-repo.mjs` is
  222 lines that unpack an archive of 13,800 lines, copies of the repository's
  own files, and `scripts/diagrams/` is drawing data and its renderer. The
  logic of the system is the C# and the web UI, and that is what is modelled.
- Durability of approvals and proposals: they are in memory only, and a
  restart loses them whole.

## 7. Plan

1. The escalation gate and its application to an alert.
2. The research lane: attribution, retrieval order, what a caller may see.
3. Correlation ids: adoption from header and body, generation, conflict.
4. Proofs: type correctness of the router, the order routing service and the
   two screens; the lemmas on `TierSelector` shared by the router's and the
   planners' proofs in one place.
