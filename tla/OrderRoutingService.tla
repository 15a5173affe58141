------------------------ MODULE OrderRoutingService ------------------------
(***************************************************************************)
(* The order routing service: proposing a route, reading a proposal and    *)
(* executing one, over the in-memory proposal store.  Proposing touches    *)
(* the store once; executing reads it, asks the clock and marks it, so two *)
(* executions, and a new proposal for the same order, can fall in between. *)
(***************************************************************************)
EXTENDS BestExecution

CONSTANTS
    Executions,     \* POST /v1/executions calls
    Orders,         \* order bodies; an order's id is its field id
    Quotes,         \* venue quotes a request may carry
    Correlations,   \* correlation ids
    Reviewers,      \* the people who read a proposal before they have it executed
    Approvals,      \* records of the approvals service: id, state and expiry
    Horizon         \* bound: the clock stops here

ASSUME OrderRoutingAssumption ==
    /\ Horizon \in Nat /\ Reviewers \subseteq Oid
    /\ \A o \in Orders : o.quantity \in Nat \ {0} /\ o.side \in {"Buy", "Sell"}
    /\ \A a \in Approvals : a.expiresAt \in Nat

OrderIds == {o.id : o \in Orders}

VARIABLES
    now,            \* the injected TimeProvider
    proposals,      \* InMemoryProposalStore._proposals
    executed,       \* InMemoryProposalStore._executed
    pc,             \* where each execution call is
    caller,         \* the object id on the call's token
    auth,           \* the authorisation it builds
    found,          \* the proposal it found
    fill,           \* the fill it computed, and returned when it is Done with 201
    status,         \* its response
    reviewed,       \* reviewed[o][i]: the terms of proposal i as o last read them
    known           \* what the caller had reviewed when it asked for the execution

vars == <<now, proposals, executed, pc, caller, auth, found, fill, status, reviewed, known>>
request == <<caller, auth, known>>

Init ==
    /\ now = 0
    /\ proposals = [i \in OrderIds |-> None]
    /\ executed = {}
    /\ pc = [x \in Executions |-> "Idle"]
    /\ caller = [x \in Executions |-> None]
    /\ auth = [x \in Executions |-> None]
    /\ found = [x \in Executions |-> None]
    /\ fill = [x \in Executions |-> None]
    /\ status = [x \in Executions |-> None]
    /\ reviewed = [o \in Oid |-> [i \in OrderIds |-> None]]
    /\ known = [x \in Executions |-> None]

-----------------------------------------------------------------------------
\* ProposeAsync.  A body the validator or the correlation check refuses (400) and a halted
\* order (422) leave everything as it is.
Propose ==
    \E order \in Orders, quotes \in (SUBSET Quotes) \ {{}}, by \in Oid, c \in Correlations :
        /\ HaltedBy(order, quotes) = {}
        /\ proposals' = [proposals EXCEPT ![order.id] = Proposal(order, quotes, by, c)]
        /\ UNCHANGED <<now, executed, pc, request, found, fill, status, reviewed>>

\* What an approver sees and a fill repeats.
Terms(p) == [venue |-> p.venue, quantity |-> p.quantity, price |-> p.price]

\* Get, by the person who will approve the route.
Review(o, i) ==
    /\ proposals[i] # None
    /\ reviewed' = [reviewed EXCEPT ![o][i] = Terms(proposals[i])]
    /\ UNCHANGED <<now, proposals, executed, pc, request, found, fill, status>>

Return(x, code) ==
    /\ pc' = [pc EXCEPT ![x] = "Done"]
    /\ status' = [status EXCEPT ![x] = code]

\* A refusal; the call's locals go out of scope.
Refuse(x, code) ==
    /\ Return(x, code)
    /\ caller' = [caller EXCEPT ![x] = None]
    /\ auth' = [auth EXCEPT ![x] = None]
    /\ known' = [known EXCEPT ![x] = None]
    /\ found' = [found EXCEPT ![x] = None]
    /\ fill' = [fill EXCEPT ![x] = None]

\* ExecuteAsync up to the authorisation: the proposal is the stored one, and the approver is
\* the caller's token.  The correlation is what the body says, and so are the approval's id
\* and expiry, which ExecutionPanel copies from the record it looked up.  Of that record's
\* state the body says nothing.
ExecuteFind(x) ==
    /\ pc[x] = "Idle"
    /\ \E o \in Oid, i \in OrderIds :
         \/ \E code \in {403, 400} : Refuse(x, code)      \* no role, no body
         \/ /\ proposals[i] = None
            /\ Refuse(x, 404)
         \/ /\ proposals[i] # None
            /\ \/ auth' = [auth EXCEPT ![x] = None]
               \/ \E a \in Approvals, c \in Correlations :
                    auth' = [auth EXCEPT ![x] =
                        [approvalId |-> a.id, proposalId |-> i, correlation |-> c,
                         approvedBy |-> o, expiresAt |-> a.expiresAt]]
            /\ caller' = [caller EXCEPT ![x] = o]
            /\ known' = [known EXCEPT ![x] = reviewed[o][i]]
            /\ found' = [found EXCEPT ![x] = proposals[i]]
            /\ pc' = [pc EXCEPT ![x] = "Check"]
            /\ UNCHANGED <<fill, status>>
    /\ UNCHANGED <<now, proposals, executed, reviewed>>

MutExecuteCheck(x) ==      \* the proposal is marked before the approval is looked at
    /\ pc[x] = "Check"
    /\ executed' = executed \cup {found[x].id}
    /\ \/ /\ ExecuteRefusal(found[x], auth[x], now) # None
          /\ Refuse(x, 403)
       \/ /\ ExecuteRefusal(found[x], auth[x], now) = None
          /\ Return(x, 201)
          /\ fill' = [fill EXCEPT ![x] = Execution(found[x], auth[x], now)]
          /\ UNCHANGED <<request, found>>
    /\ UNCHANGED <<now, proposals, reviewed>>

\* SimulatedOms.Execute at the clock's time: 403, or a fill not yet returned.
ExecuteCheck(x) ==
    /\ pc[x] = "Check"
    /\ \/ /\ ExecuteRefusal(found[x], auth[x], now) # None
          /\ Refuse(x, 403)
       \/ /\ ExecuteRefusal(found[x], auth[x], now) = None
          /\ pc' = [pc EXCEPT ![x] = "Mark"]
          /\ fill' = [fill EXCEPT ![x] = Execution(found[x], auth[x], now)]
          /\ UNCHANGED <<status, request, found>>
    /\ UNCHANGED <<now, proposals, executed, reviewed>>

MutExecuteMark(x) ==       \* the mark is an insert whose result nobody looks at
    /\ pc[x] = "Mark"
    /\ executed' = executed \cup {found[x].id}
    /\ Return(x, 201)
    /\ UNCHANGED <<now, proposals, request, found, fill, reviewed>>

\* TryMarkExecuted: one atomic TryAdd; 409 when the id is already there.
ExecuteMark(x) ==
    /\ pc[x] = "Mark"
    /\ \/ /\ found[x].id \in executed
          /\ Refuse(x, 409)
          /\ UNCHANGED executed
       \/ /\ found[x].id \notin executed
          /\ executed' = executed \cup {found[x].id}
          /\ Return(x, 201)
          /\ UNCHANGED <<request, found, fill>>
    /\ UNCHANGED <<now, proposals, reviewed>>

Tick ==
    /\ now < Horizon
    /\ now' = now + 1
    /\ UNCHANGED <<proposals, executed, pc, request, found, fill, status, reviewed>>

Next ==
    \/ Propose
    \/ \E o \in Reviewers, i \in OrderIds : Review(o, i)
    \/ \E x \in Executions : ExecuteFind(x) \/ ExecuteCheck(x) \/ ExecuteMark(x)
    \/ Tick

Spec == Init /\ [][Next]_vars

-----------------------------------------------------------------------------
(* Properties.                                                             *)

Filled == {x \in Executions : status[x] = 201}

\* A proposal id is filled at most once, however many executions of it are in flight and
\* however often its order is proposed again (TryMarkExecuted).
FilledOnce == \A x, y \in Filled : found[x].id = found[y].id => x = y

\* A proposal counts as executed exactly when some call returned a fill for it: an
\* execution that is refused burns nothing.
ExecutedIsFilled == executed = {found[x].id : x \in Filled}

\* A fill was asked for by somebody other than the proposer, whatever the case of their
\* object ids, on an authorisation of the same request chain that had not expired when the
\* OMS looked at the clock.
FilledOnAuthority ==
    \A x \in Filled :
        /\ Fold[caller[x]] # Fold[found[x].proposedBy]
        /\ auth[x].correlation = fill[x].correlation
        /\ fill[x].executedAt < auth[x].expiresAt

\* No approval is used twice (OrderRoutingEndpoints.cs and ProposalStore.cs: "An approval is
\* single-use").
ApprovalIsSingleUse ==
    \A x, y \in Filled : auth[x].approvalId = auth[y].approvalId => x = y

\* A fill rests on an approval that was granted (ExecutionPanel.tsx: a record that "is not
\* approved" is refused by the service).
FilledOnApproval ==
    \A x \in Filled : \E a \in Approvals : a.id = auth[x].approvalId /\ a.state = "Approved"

\* The fill is the thing its approver had read (ProposalStore.cs: otherwise "the approval
\* would verify and the fill would not be the thing approved").
FillIsWhatWasReviewed ==
    \A x \in Filled : known[x] # None => Terms(fill[x]) = known[x]

=============================================================================
