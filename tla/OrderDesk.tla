----------------------------- MODULE OrderDesk -----------------------------
(***************************************************************************)
(* The web UI's order routing screen: an order ticket, the proposal or     *)
(* halt it led to, and the panel that looks up an approval and has the     *)
(* proposal executed, over the order routing and approvals services.  Each *)
(* request is sent, served and answered in steps of its own, and the       *)
(* ticket and the panel do not wait for each other.  A service handler is  *)
(* one step here; OrderRoutingService has its interleavings.               *)
(*                                                                         *)
(* The venues an answer lists are flat rows as the service sends them, and *)
(* nested evaluations as the screen declares and reads them.  Drawing a    *)
(* flat row throws, and the shell's error boundary takes the screen's      *)
(* place: of the service at this commit, no answer gets further than that. *)
(* The rest of the screen is modelled for answers of the declared shape.   *)
(***************************************************************************)
EXTENDS BestExecution, Sequences

CONSTANTS
    Tickets,        \* what the ticket may hold: an order and its venue quotes
    Ids,            \* approval ids
    Deciders,       \* who decides approvals, on screens of their own
    Tokens,         \* the token the UI may hold: an object id, or None (enforcement off)
    Roles,          \* Roles[o]: the app roles on the token of o, of Proposer and Executor
    Anonymous,      \* the proposer of a request without a token
    Shapes,         \* the shapes of a row of considered: "Flat", "Nested"
    MaxCalls,       \* bound: how many requests the desk makes
    ExpiresAt,      \* ExpiresAt[i]: when approval i lapses
    Horizon         \* bound: the clock stops here

ASSUME OrderDeskAssumption ==
    /\ Deciders \subseteq Oid /\ Anonymous \in Oid /\ Tokens \subseteq Oid \cup {None}
    /\ Roles \in [Oid -> SUBSET {"Proposer", "Executor"}]
    /\ Shapes \subseteq {"Flat", "Nested"}
    /\ ExpiresAt \in [Ids -> Nat] /\ MaxCalls \in Nat /\ Horizon \in Nat
    /\ \A t \in Tickets : t.order.quantity \in Nat /\ t.order.side \in {"Buy", "Sell"}

VARIABLES
    now,            \* the services' clock
    token,          \* the UI's token, the same throughout
    shape,          \* the shape of the rows the service sends, the same throughout
    approvals,      \* the approvals service's records, as far as the desk uses them
    proposals,      \* the order routing service's proposals
    executed,       \* the proposal ids it has marked executed
    fills,          \* the fills it has returned, with the requests they answered
    submitting, result, execution,  \* OrderRoutingRoute, but for the failure it shows
    lookup, busy,                               \* ExecutionPanel
    crashed,        \* the ErrorBoundary's error: it stands in the place of every screen
    calls           \* the desk's requests, in the order they were made

services == <<now, token, shape, approvals, proposals, executed, fills>>
panel == <<lookup, busy>>
route == <<submitting, result, execution, panel>>
vars == <<services, route, crashed, calls>>

OrderIds == {t.order.id : t \in Tickets}

Halt == [status |-> "Halted"]
Proposed(p) == [status |-> "Proposed", proposal |-> p]

\* Only a proposal has an execution panel; isHalt tells it from a halt.
executable(r) == r # None /\ r # Halt

Init ==
    /\ now = 0
    /\ token \in Tokens /\ shape \in Shapes
    /\ approvals = [i \in Ids |-> [id |-> i, state |-> "PendingApproval", decidedBy |-> None,
                                   expiresAt |-> ExpiresAt[i]]]
    /\ proposals = [i \in OrderIds |-> None]
    /\ executed = {} /\ fills = {}
    /\ submitting = FALSE /\ result = None /\ execution = None
    /\ lookup = None /\ busy = FALSE
    /\ crashed = FALSE
    /\ calls = <<>>

-----------------------------------------------------------------------------
(* The desk's clicks.                                                      *)

\* A request.  desk and panel say whether the components that wait for it are still mounted;
\* overlap, of an execution, that a proposal was under way at the same time.
Call(kind, body) ==
    [kind |-> kind, body |-> body, at |-> "Sent", answer |-> None,
     desk |-> TRUE, panel |-> kind # "Propose", overlap |-> kind = "Execute" /\ submitting]

\* A request that nobody waits for and the service is done with.
Over == [kind |-> "Over", body |-> None, at |-> "Over", answer |-> None,
         desk |-> FALSE, panel |-> FALSE, overlap |-> FALSE]

Kept(call) == IF call.desk \/ call.at = "Sent" THEN call ELSE Over

Add(call, before) == Len(before) < MaxCalls /\ calls' = Append(before, call)

MutPropose(ticket) ==                \* the fill of the last proposal is left on the screen
    /\ ~crashed /\ ~submitting
    /\ submitting' = TRUE
    /\ Add(Call("Propose", ticket),
           [c \in DOMAIN calls |-> [calls[c] EXCEPT !.overlap = @ \/ calls[c].kind = "Execute"]])
    /\ UNCHANGED <<services, result, execution, panel, crashed>>

\* propose, up to its await.  The result stays, and so does the panel under it.
Propose(ticket) ==
    /\ ~crashed /\ ~submitting
    /\ submitting' = TRUE /\ execution' = None
    /\ Add(Call("Propose", ticket),
           [c \in DOMAIN calls |-> [calls[c] EXCEPT !.overlap = @ \/ calls[c].kind = "Execute"]])
    /\ UNCHANGED <<services, result, panel, crashed>>

\* look, up to its await.
Look(i) ==
    /\ executable(result) /\ ~busy
    /\ busy' = TRUE /\ lookup' = None
    /\ Add(Call("Look", i), calls)
    /\ UNCHANGED <<services, submitting, result, execution, crashed>>

MutApproval(record) ==               \* a record nobody decided is sent with a placeholder
    [approvalId |-> record.id, expiresAt |-> record.expiresAt,
     approvedBy |-> IF record.decidedBy = None THEN CHOOSE d \in Deciders : TRUE ELSE record.decidedBy]

\* The approval the panel forwards, field for field: nobody is the blank approver.
Approval(record) ==
    [approvalId |-> record.id, expiresAt |-> record.expiresAt, approvedBy |-> record.decidedBy]

\* execute and run, up to the await: with the approval looked up, or without one.
Execute(approval) ==
    /\ executable(result) /\ ~busy
    /\ approval = None \/ (lookup # None /\ approval = Approval(lookup))
    /\ busy' = TRUE
    /\ Add(Call("Execute", [proposal |-> result.proposal, approval |-> approval]), calls)
    /\ UNCHANGED <<services, submitting, result, execution, lookup, crashed>>

\* The route and its panel are unmounted: what they wait for will find nobody.
Unmount(requests) ==
    /\ submitting' = FALSE /\ result' = None /\ execution' = None
    /\ lookup' = None /\ busy' = FALSE
    /\ calls' = [c \in DOMAIN calls |-> Kept([requests[c] EXCEPT !.desk = FALSE, !.panel = FALSE])]
    /\ UNCHANGED services

\* Another screen is opened, and left again.  The error boundary is outside the routes: it
\* stays.
Leave == Unmount(calls) /\ UNCHANGED crashed

\* The boundary's only button: the route is mounted anew.
TryAgain ==
    /\ crashed
    /\ crashed' = FALSE
    /\ UNCHANGED <<services, route, calls>>

-----------------------------------------------------------------------------
(* The services.                                                           *)

\* An answer to request c; Error stands for every status the client throws on.
Error == [status |-> "Error"]

Answer(c, answer) ==
    calls' = [calls EXCEPT ![c] = Kept([@ EXCEPT !.at = "Answered", !.answer = answer])]

\* RequireAppRoleFilter.
Lacks(role) == token # None /\ role \notin Roles[token]

\* ProposeAsync.  The UI sends no correlation id, so each request is given a new one: its
\* number.  A token without the role, or a ticket the validator refuses, is an error.
ServeProposal(c) ==
    /\ calls[c].kind = "Propose" /\ calls[c].at = "Sent"
    /\ LET t  == calls[c].body
           by == IF token = None THEN Anonymous ELSE token
           p  == Proposal(t.order, t.quotes, by, c)
           refused == Lacks("Proposer") \/ t.order.quantity = 0
       IN  \/ /\ refused
              /\ Answer(c, Error)
              /\ UNCHANGED proposals
           \/ /\ ~refused /\ HaltedBy(t.order, t.quotes) # {}
              /\ Answer(c, Halt)
              /\ UNCHANGED proposals
           \/ /\ ~refused /\ HaltedBy(t.order, t.quotes) = {}
              /\ proposals' = [proposals EXCEPT ![t.order.id] = p]
              /\ Answer(c, Proposed(p))
    /\ UNCHANGED <<now, token, shape, approvals, executed, fills>>

\* GET /v1/approvals/{id}.
ServeLook(c) ==
    /\ calls[c].kind = "Look" /\ calls[c].at = "Sent"
    /\ Answer(c, approvals[calls[c].body])
    /\ UNCHANGED services

\* The authorisation ExecuteAsync builds: the approver is the token's, or what the body says
\* where enforcement is off, and a blank one is none at all.
Authorization(request) ==
    LET approvedBy == IF token # None THEN token ELSE request.approval.approvedBy
    IN  IF request.approval = None \/ approvedBy = None THEN None
        ELSE [approvalId |-> request.approval.approvalId, proposalId |-> request.proposal.id,
              correlation |-> request.proposal.correlation, approvedBy |-> approvedBy,
              expiresAt |-> request.approval.expiresAt]

\* ExecuteAsync.  The role filter's 403 has no body the screen knows; a proposal the service
\* does not hold is an error.
ServeExecution(c) ==
    /\ calls[c].kind = "Execute" /\ calls[c].at = "Sent"
    /\ LET request == calls[c].body
           stored  == proposals[request.proposal.id]
           auth    == Authorization(request)
           refused == ExecuteRefusal(stored, auth, now)
       IN  \/ /\ Lacks("Executor")
              /\ Answer(c, [status |-> "Forbidden"])
              /\ UNCHANGED <<executed, fills>>
           \/ /\ ~Lacks("Executor") /\ stored = None
              /\ Answer(c, Error)
              /\ UNCHANGED <<executed, fills>>
           \/ /\ ~Lacks("Executor") /\ stored # None
              /\ refused # None \/ stored.id \in executed
              /\ Answer(c, [status |-> "Refused"])
              /\ UNCHANGED <<executed, fills>>
           \/ /\ ~Lacks("Executor") /\ stored # None
              /\ refused = None /\ stored.id \notin executed
              /\ executed' = executed \cup {stored.id}
              /\ fills' = fills \cup {[call |-> c, request |-> request, proposal |-> stored,
                                       execution |-> Execution(stored, auth, now)]}
              /\ Answer(c, [status |-> "Executed"])
    /\ UNCHANGED <<now, token, shape, approvals, proposals>>

\* Somebody decides an approval, or it lapses undecided.
DecideApproval(i) ==
    /\ approvals[i].state = "PendingApproval"
    /\ \/ /\ now < ExpiresAt[i]
          /\ \E d \in Deciders, s \in {"Approved", "Rejected"} :
               approvals' = [approvals EXCEPT ![i].state = s, ![i].decidedBy = d]
       \/ /\ now >= ExpiresAt[i]
          /\ approvals' = [approvals EXCEPT ![i].state = "Expired"]
    /\ UNCHANGED <<now, token, shape, proposals, executed, fills, route, crashed, calls>>

MutRestart ==                        \* the proposals are durable, the marks are not
    /\ executed' = {}
    /\ UNCHANGED <<now, token, shape, approvals, proposals, fills, route, crashed, calls>>

\* The order routing service starts again with an empty InMemoryProposalStore.
Restart ==
    /\ proposals' = [i \in OrderIds |-> None]
    /\ executed' = {}
    /\ UNCHANGED <<now, token, shape, approvals, fills, route, crashed, calls>>

Serve(c) ==
    /\ ServeProposal(c) \/ ServeLook(c) \/ ServeExecution(c)
    /\ UNCHANGED <<route, crashed>>

-----------------------------------------------------------------------------
(* The awaits return.                                                      *)

\* The desk's part in request c is over; when the panel goes too, so is the panel's part in
\* every other.
Done(c, left, unmounts) ==
    calls' = [k \in DOMAIN calls |->
                Kept(IF k = c THEN [left EXCEPT !.desk = FALSE, !.panel = FALSE]
                     ELSE [calls[k] EXCEPT !.panel = @ /\ ~unmounts])]

\* The rest of propose: the answer is drawn, or there is none and the result is cleared.
Drawn(c, left, answer) ==
    /\ answer = Error \/ shape = "Nested"
    /\ submitting' = FALSE
    /\ LET proposed == executable(answer) /\ answer # Error
       IN  /\ result' = IF answer = Error THEN None ELSE answer
           /\ lookup' = IF proposed THEN lookup ELSE None
           /\ busy' = (busy /\ proposed)
           /\ Done(c, left, ~proposed)
    /\ UNCHANGED <<services, execution, crashed>>

\* Or ConsideredTable throws on it, and the boundary replaces whatever screen is open.
Undrawable(c, left, answer) ==
    /\ answer # Error /\ shape = "Flat"
    /\ Unmount([calls EXCEPT ![c] = left])
    /\ crashed' = TRUE

ProposalSettles(c, left, answer) ==
    /\ calls[c].kind = "Propose"
    /\ Drawn(c, left, answer) \/ Undrawable(c, left, answer)

\* The rest of look, unless the panel it belongs to is gone.
LookSettles(c, left, answer) ==
    /\ calls[c].kind = "Look"
    /\ Done(c, left, FALSE)
    /\ \/ /\ calls[c].panel
          /\ lookup' = IF answer = Error THEN None ELSE answer
          /\ busy' = FALSE
       \/ /\ ~calls[c].panel
          /\ UNCHANGED panel
    /\ UNCHANGED <<services, submitting, result, execution, crashed>>

MutExecutionSettles(c, left, answer) ==      \* the panel is released by an answer, not by a failure
    /\ calls[c].kind = "Execute"
    /\ execution' = IF answer \in {Error, [status |-> "Forbidden"]} THEN None
                    ELSE [status |-> answer.status, overlap |-> calls[c].overlap,
                          correlation |-> calls[c].body.proposal.correlation]
    /\ busy' = (busy /\ (answer = Error \/ ~calls[c].panel))
    /\ Done(c, left, FALSE)
    /\ UNCHANGED <<services, submitting, result, lookup, crashed>>

\* The rest of run, for a desk that is still there, and of execute, for a panel that is.
ExecutionSettles(c, left, answer) ==
    /\ calls[c].kind = "Execute"
    /\ execution' = IF answer \in {Error, [status |-> "Forbidden"]} THEN None
                    ELSE [status |-> answer.status, overlap |-> calls[c].overlap,
                          correlation |-> calls[c].body.proposal.correlation]
    /\ busy' = (busy /\ ~calls[c].panel)
    /\ Done(c, left, FALSE)
    /\ UNCHANGED <<services, submitting, result, lookup, crashed>>

Settles(c, left, answer) ==
    /\ calls[c].desk
    /\ \/ ProposalSettles(c, left, answer)
       \/ LookSettles(c, left, answer)
       \/ ExecutionSettles(c, left, answer)

Arrives(c) == calls[c].at = "Answered" /\ Settles(c, calls[c], calls[c].answer)

\* The connection fails, which the client throws on: the service may never see the request,
\* or see it through.
Broken(c) == \E left \in {calls[c], [calls[c] EXCEPT !.at = "Answered"]} : Settles(c, left, Error)

Tick ==
    /\ now < Horizon
    /\ now' = now + 1
    /\ UNCHANGED <<token, shape, approvals, proposals, executed, fills, route, crashed, calls>>

Click ==
    \/ \E t \in Tickets : Propose(t)
    \/ \E i \in Ids : Look(i)
    \/ Execute(None) \/ (lookup # None /\ Execute(Approval(lookup)))
    \/ Leave
    \/ TryAgain

Next ==
    \/ Click
    \/ \E c \in DOMAIN calls : Serve(c) \/ Arrives(c) \/ Broken(c)
    \/ \E i \in Ids : DecideApproval(i)
    \/ Restart
    \/ Tick

\* An await comes to an end, with an answer or without: the browser gives a request up.
Fairness == \A c \in 1..MaxCalls : WF_vars(c \in DOMAIN calls /\ (Arrives(c) \/ Broken(c)))

Spec == Init /\ [][Next]_vars /\ Fairness

-----------------------------------------------------------------------------
(* Properties.                                                             *)

\* What is filled is what the desk showed when it asked, although the order may have been
\* proposed again, with other terms under the same proposal id, before the request is served
\* (SimulatedOms's correlation check, with the correlation id each proposal is given).
FilledAsShown == \A f \in fills : f.proposal = f.request.proposal

\* A proposal is filled once, however often the desk tries again after an answer that never
\* came, and whether or not the service restarted in between: the marks are lost with the
\* proposals they protect (ProposalStore.cs).
RetryNeverFillsTwice == \A f, g \in fills : f.proposal = g.proposal => f = g

\* The approver behind a fill is who decided the approval, on the approvals service's record:
\* never a placeholder, never the proposer, and not after the record lapsed, however old the
\* panel's copy of it is (ExecutionPanel.tsx: decidedAt and decidedByObjectId are "forwarded
\* as-is").  What was decided is not in the request: it may have been a rejection, which is
\* FilledOnApproval of OrderRoutingService.
DeciderIsOnRecord ==
    \A f \in fills :
        /\ f.request.approval # None
        /\ LET a == approvals[f.request.approval.approvalId]
           IN  /\ a.decidedBy \notin {None, f.proposal.proposedBy}
               /\ f.request.approval.approvedBy = a.decidedBy
               /\ f.execution.executedAt < a.expiresAt

\* What the screen says of an execution is about the proposal beside it, unless the execution
\* and a proposal were under way at the same time: propose clears what came before it ("a
\* stale fill left on screen beside a fresh proposal is the one arrangement of this page that
\* could be read as 'this order executed'", routes.tsx), but not what is still to come.
StaleOnlyWhenOverlapping ==
    (execution # None /\ ~execution.overlap) =>
        executable(result) /\ result.proposal.correlation = execution.correlation

\* No wait of the ticket or the panel lasts for ever, whatever fails and whatever else the
\* desk does meanwhile (the finally blocks of propose, look and execute): it ends with the
\* component live again, or unmounted, when nothing waits.  After a proposal that cannot be
\* drawn it is unmounted, and back only when somebody presses Try again, which nobody has to.
WaitsEnd ==
    /\ submitting ~> ~submitting
    /\ busy ~> ~busy

=============================================================================
