-------------------------- MODULE ApprovalScreens --------------------------
(***************************************************************************)
(* The web UI's approvals queue and approval detail, as one browser        *)
(* session per approver, over the approvals service.  Each session keeps a *)
(* query cache: the queue is polled, the detail is not, and both are shown *)
(* from the cache while a fetch is under way.  The service is the one of   *)
(* ApprovalsService, cut down to what a session can notice: a decision     *)
(* reads the record in one step and writes it in another.                  *)
(***************************************************************************)
EXTENDS ApprovalDomain, Integers, Sequences

CONSTANTS
    Sessions,       \* browser sessions
    Identity,       \* Identity[s]: the session's object id, None when there is none
    IsApprover,     \* IsApprover[s]: whether its roles include Approver
    Skew,           \* Skew[s]: how far its clock is ahead of the service's
    Elsewhere,      \* decisions made by other means than these sessions
    MaxCalls,       \* bound: how many decision requests are made
    Raised,         \* Raised[i]: the proposal behind an id, as it was raised
    Horizon         \* bound: the clock stops here

ASSUME ScreensAssumption ==
    /\ Identity \in [Sessions -> Oid \cup {None}] /\ IsApprover \in [Sessions -> BOOLEAN]
    /\ Skew \in [Sessions -> Int] /\ Elsewhere \subseteq Command
    /\ Raised \in [Ids -> {a \in ApprovalRecord : a.state = "PendingApproval" /\ a.decidedBy = None}]
    /\ \A i \in Ids : Raised[i].id = i
    /\ "Queue" \notin Ids
    /\ MaxCalls \in Nat /\ Horizon \in Nat

VARIABLES
    now,            \* the service's clock
    store,          \* the service's approvals
    screen,         \* the screen each session shows: the queue, or the detail of an id
    list,           \* its query ['approvals', 'PendingApproval']; data is a set of ids
    detail,         \* its queries ['approvals', id]; data is an ApprovalResponse
    renderedAt,     \* when its decision panel was last rendered
    refusal,        \* the status its detail screen reports as a refusal (0: no answer)
    calls           \* the decision requests, in the order they were made

vars == <<now, store, screen, list, detail, renderedAt, refusal, calls>>
service == <<now, store>>

\* What the screens use of an ApprovalResponse.
Response(a) == [state |-> a.state, proposedBy |-> a.proposedBy, expiresAt |-> a.expiresAt]

Pending == {i \in Ids : store[i].state = "PendingApproval"}

-----------------------------------------------------------------------------
(* A query of the cache (TanStack Query, as QueryProvider and useApprovals *)
(* configure it): no retries, always stale, at most one fetch at a time.   *)

Idle == [at |-> "Idle", value |-> None]
Sent == [at |-> "Sent", value |-> None]

Fresh == [data |-> None, failed |-> FALSE, fetch |-> Idle]

\* A query that never had data goes back to loading when it is fetched again.
Fetching(q) == [q EXCEPT !.fetch = Sent, !.failed = @ /\ q.data # None]

\* Mounting and polling leave a fetch that is under way alone.
Refresh(q) == IF q.fetch = Idle THEN Fetching(q) ELSE q

\* invalidateQueries and refetch start over, unless the first answer is still awaited.
Restart(q) == IF q.fetch # Idle /\ q.data = None THEN q ELSE Fetching(q)

\* toAsyncState; a single approval is never empty.
View(q, isEmpty) ==
    IF q.failed THEN "error"
    ELSE IF q.data = None THEN "loading"
    ELSE IF isEmpty THEN "empty"
    ELSE "ready"

ListView(s) == View(list[s], list[s].data = {})
DetailView(s, i) == View(detail[s][i], FALSE)

\* The rows a session sees when it shows the queue.
Rows(s) == IF ListView(s) = "ready" THEN list[s].data ELSE {}

-----------------------------------------------------------------------------
(* evaluateApproval: why a session may not decide, or None.                *)

Clock(s) == now + Skew[s]

MutEvaluateApproval(s, a, time) ==   \* the last moment before the expiry counts as past it
    IF ~IsApprover[s] THEN "MissingRole"
    ELSE IF Identity[s] = None THEN "UnknownIdentity"
    ELSE IF a.state # "PendingApproval" THEN "AlreadyDecided"
    ELSE IF a.proposedBy = Identity[s] THEN "SegregationOfDuties"
    ELSE IF a.expiresAt <= time + 1 THEN "Expired"
    ELSE None

evaluateApproval(s, a, time) ==
    IF ~IsApprover[s] THEN "MissingRole"
    ELSE IF Identity[s] = None THEN "UnknownIdentity"
    ELSE IF a.state # "PendingApproval" THEN "AlreadyDecided"
    ELSE IF a.proposedBy = Identity[s] THEN "SegregationOfDuties"
    ELSE IF a.expiresAt <= time THEN "Expired"
    ELSE None

-----------------------------------------------------------------------------
(* Navigation.  The routes mount one of the two screens at a time.         *)

Init ==
    /\ now = 0
    /\ store = Raised
    /\ screen \in [Sessions -> {"Queue"} \cup Ids]
    /\ list = [s \in Sessions |-> IF screen[s] = "Queue" THEN Fetching(Fresh) ELSE Fresh]
    /\ detail = [s \in Sessions |-> [i \in Ids |-> IF screen[s] = i THEN Fetching(Fresh) ELSE Fresh]]
    /\ renderedAt = [s \in Sessions |-> 0]
    /\ refusal = [s \in Sessions |-> None]
    /\ calls = <<>>

\* "Open evidence".
Open(s, i) ==
    /\ screen[s] = "Queue" /\ i \in Rows(s)
    /\ screen' = [screen EXCEPT ![s] = i]
    /\ detail' = [detail EXCEPT ![s][i] = Refresh(@)]
    /\ renderedAt' = [renderedAt EXCEPT ![s] = Clock(s)]
    /\ UNCHANGED <<service, list, refusal, calls>>

\* A request that nobody waits for and the service is done with.
Over == [session |-> None, at |-> "Over", here |-> FALSE]

Settle(c, request) ==
    [calls EXCEPT ![c] =
        IF /\ request.at \in {"Answered", "Lost"} /\ ~request.here
           /\ request.session = None \/ request.told # "Waiting"
        THEN Over ELSE request]

\* Requests this session's screen still waits for or has had answered.
Here(s) == {c \in DOMAIN calls : calls[c].session = s /\ calls[c].here}

\* The detail screen is unmounted: its refusal goes, and so does its interest in its calls.
Leave(s) ==
    /\ screen[s] # "Queue"
    /\ screen' = [screen EXCEPT ![s] = "Queue"]
    /\ list' = [list EXCEPT ![s] = Refresh(@)]
    /\ refusal' = [refusal EXCEPT ![s] = None]
    /\ calls' = [c \in DOMAIN calls |-> IF c \in Here(s)
                                THEN Settle(c, [calls[c] EXCEPT !.here = FALSE])[c] ELSE calls[c]]
    /\ renderedAt' = [renderedAt EXCEPT ![s] = 0]
    /\ UNCHANGED <<service, detail>>

-----------------------------------------------------------------------------
(* Fetching: the request goes out, the service answers it, and the answer  *)
(* arrives or does not.                                                    *)

MutPollList(s) ==                    \* only a queue without rows is polled
    /\ screen[s] = "Queue" /\ list[s].fetch = Idle /\ list[s].data \in {None, {}}
    /\ list' = [list EXCEPT ![s] = Refresh(@)]

\* refetchInterval of usePendingApprovals, while the queue is mounted, errors or not.
PollList(s) ==
    /\ screen[s] = "Queue" /\ list[s].fetch = Idle
    /\ list' = [list EXCEPT ![s] = Refresh(@)]

\* GET /v1/approvals?state=PendingApproval.
ServeList(s) ==
    /\ list[s].fetch = Sent
    /\ list' = [list EXCEPT ![s].fetch = [at |-> "Answered", value |-> Pending]]

\* The data is replaced, or kept beside an error.
Received(q) == [data |-> q.fetch.value, failed |-> FALSE, fetch |-> Idle]
Failed(q)   == [q EXCEPT !.failed = TRUE, !.fetch = Idle]

ListArrives(s) ==
    /\ list[s].fetch.at = "Answered"
    /\ \E q \in {Received(list[s]), Failed(list[s])} : list' = [list EXCEPT ![s] = q]

FetchList(s) ==
    /\ PollList(s) \/ ServeList(s) \/ ListArrives(s)
    /\ UNCHANGED <<service, screen, detail, renderedAt, refusal, calls>>

\* GET /v1/approvals/{id}.
ServeDetail(s, i) ==
    /\ detail[s][i].fetch = Sent
    /\ detail' = [detail EXCEPT ![s][i].fetch = [at |-> "Answered", value |-> Response(store[i])]]
    /\ UNCHANGED renderedAt

DetailArrives(s, i) ==
    /\ detail[s][i].fetch.at = "Answered"
    /\ \E q \in {Received(detail[s][i]), Failed(detail[s][i])} : detail' = [detail EXCEPT ![s][i] = q]
    /\ renderedAt' = IF screen[s] = i THEN [renderedAt EXCEPT ![s] = Clock(s)] ELSE renderedAt

FetchDetail(s, i) ==
    /\ ServeDetail(s, i) \/ DetailArrives(s, i)
    /\ UNCHANGED <<service, screen, list, refusal, calls>>

\* The Retry button of AsyncBoundary.
Retry(s) ==
    /\ \/ /\ screen[s] = "Queue" /\ ListView(s) = "error"
          /\ list' = [list EXCEPT ![s] = Restart(@)]
          /\ UNCHANGED detail
       \/ \E i \in Ids :
            /\ screen[s] = i /\ DetailView(s, i) = "error"
            /\ detail' = [detail EXCEPT ![s][i] = Restart(@)]
            /\ UNCHANGED list
    /\ UNCHANGED <<service, screen, renderedAt, refusal, calls>>

-----------------------------------------------------------------------------
(* Deciding.                                                               *)

Request(s, i, c) ==
    [session |-> s, id |-> i, command |-> c, here |-> s # None, told |-> "Waiting",
     at |-> "Sent", copy |-> None, status |-> None]

submitting(s) == \E c \in Here(s) : calls[c].told = "Waiting"

MutMayDecide(s, i) ==                \* the buttons stay live while a decision is under way
    /\ screen[s] = i /\ DetailView(s, i) = "ready"
    /\ evaluateApproval(s, detail[s][i].data, renderedAt[s]) = None

\* The buttons of DecisionPanel, as its last rendering left them.
MayDecide(s, i) ==
    /\ screen[s] = i /\ DetailView(s, i) = "ready"
    /\ evaluateApproval(s, detail[s][i].data, renderedAt[s]) = None
    /\ ~submitting(s)

\* Reject is live only with a reason, which Approve does without.
Commands(by) == {ApproveCommand(by, FALSE), RejectCommand(by, TRUE)}

\* onDecide.
Decide(s, i) ==
    /\ Len(calls) < MaxCalls
    /\ MayDecide(s, i)
    /\ \E command \in Commands(Identity[s]) : calls' = Append(calls, Request(s, i, command))
    /\ refusal' = [refusal EXCEPT ![s] = None]
    /\ UNCHANGED <<service, screen, list, detail, renderedAt>>

\* Somebody decides by other means, in another browser or without one.
DecideElsewhere(i) ==
    /\ Len(calls) < MaxCalls
    /\ \E command \in Elsewhere : calls' = Append(calls, Request(None, i, command))
    /\ UNCHANGED <<service, screen, list, detail, renderedAt, refusal>>

\* DecideAsync up to the record it works on.  The role filter and a token without an object
\* id end it; the sessions that get this far have both.
ServiceRead(c) ==
    /\ calls[c].at = "Sent"
    /\ calls' = [calls EXCEPT ![c].at = "Read", ![c].copy = store[calls[c].id]]
    /\ UNCHANGED <<service, screen, list, detail, renderedAt, refusal>>

StatusOf(kind) ==
    IF kind = "None" THEN 200
    ELSE IF kind \in {"SegregationOfDuties", "InvalidTransition", "NotYetExpired"} THEN 409
    ELSE IF kind = "Expired" THEN 410
    ELSE 400

\* The rest of DecideAsync: an overdue proposal is expired first, then the decision is
\* applied to the copy and written over whatever the store holds by now.
ServiceDecide(c) ==
    /\ calls[c].at = "Read"
    /\ LET copy    == calls[c].copy
           lapsed  == copy.state = "PendingApproval" /\ HasPassedExpiry(copy, now)
           current == IF lapsed THEN Apply(copy, ExpireCommand, now).approval ELSE copy
           decided == Apply(current, calls[c].command, now)
       IN  /\ store' = IF lapsed \/ decided.refusal = "None"
                       THEN [store EXCEPT ![copy.id] = decided.approval] ELSE store
           /\ calls' = Settle(c, [calls[c] EXCEPT !.at = "Answered", !.command = None, !.copy = None,
                                                  !.status = StatusOf(decided.refusal)])
    /\ UNCHANGED <<now, screen, list, detail, renderedAt, refusal>>

MutInvalidate(s) ==                  \* only the queue's own key is invalidated
    /\ list' = [list EXCEPT ![s] = IF screen[s] = "Queue" THEN Restart(@) ELSE @]
    /\ UNCHANGED detail

\* invalidateQueries(['approvals']): both keys match, and what is mounted is fetched again.
\* What is not mounted is stale already and is fetched when it is mounted.
Invalidate(s) ==
    /\ list' = [list EXCEPT ![s] = IF screen[s] = "Queue" THEN Restart(@) ELSE @]
    /\ detail' = [detail EXCEPT ![s] =
                    [i \in Ids |-> IF screen[s] = i THEN Restart(@[i]) ELSE @[i]]]

\* The answer reaches the session: onSuccess runs whether or not its screen is still there,
\* the refusal is shown only if it is.
Answered(c) ==
    /\ calls[c].session # None
    /\ calls[c].at = "Answered" /\ calls[c].told = "Waiting"
    /\ calls' = Settle(c, [calls[c] EXCEPT !.told = "Answer"])
    /\ LET s == calls[c].session
       IN  \/ /\ calls[c].status = 200
              /\ Invalidate(s)
              /\ UNCHANGED <<renderedAt, refusal>>
           \/ /\ calls[c].status # 200 /\ calls[c].here
              /\ refusal' = [refusal EXCEPT ![s] = calls[c].status]
              /\ renderedAt' = [renderedAt EXCEPT ![s] = Clock(s)]
              /\ UNCHANGED <<list, detail>>
           \/ /\ calls[c].status # 200 /\ ~calls[c].here
              /\ UNCHANGED <<list, detail, renderedAt, refusal>>
    /\ UNCHANGED <<service, screen>>

\* The connection fails: the session hears of it at once, the service may never see the
\* request, or see it through.
Broken(c) ==
    /\ calls[c].session # None /\ calls[c].told = "Waiting"
    /\ \E at \in {calls[c].at} \cup (IF calls[c].at = "Sent" THEN {"Lost"} ELSE {}) :
         calls' = Settle(c, [calls[c] EXCEPT !.told = "Failure", !.at = at])
    /\ LET s == calls[c].session
       IN  IF calls[c].here
           THEN /\ refusal' = [refusal EXCEPT ![s] = 0]
                /\ renderedAt' = [renderedAt EXCEPT ![s] = Clock(s)]
           ELSE UNCHANGED <<refusal, renderedAt>>
    /\ UNCHANGED <<service, screen, list, detail>>

Tick ==
    /\ now < Horizon
    /\ now' = now + 1
    /\ UNCHANGED <<store, screen, list, detail, renderedAt, refusal, calls>>

User(s) == Leave(s) \/ Retry(s) \/ (\E i \in Ids : Open(s, i) \/ Decide(s, i))

Decision(c) == ServiceRead(c) \/ ServiceDecide(c) \/ Answered(c)

Next ==
    \/ \E s \in Sessions : User(s) \/ FetchList(s) \/ (\E i \in Ids : FetchDetail(s, i))
    \/ \E i \in Ids : DecideElsewhere(i)
    \/ \E c \in DOMAIN calls : Decision(c) \/ Broken(c)
    \/ Tick

\* The interval timer fires, and a fetch is answered or fails.  Nobody is obliged to click,
\* and a decision may be under way for ever.
Fairness ==
    \A s \in Sessions : WF_vars(FetchList(s)) /\ \A i \in Ids : WF_vars(FetchDetail(s, i))

Spec == Init /\ [][Next]_vars /\ Fairness

-----------------------------------------------------------------------------
(* Properties.                                                             *)

\* The screens block nothing the service would allow, however old the copy they judge
\* (approvalRules.ts: "If this file were deleted, nothing would become approvable that is
\* not approvable now"): whatever a session's cached approval is blocked for, the service
\* refuses, read at the clock the session goes by.
BlockedIsRefused ==
    \A s \in Sessions, i \in Ids :
        /\ DetailView(s, i) = "ready"
        /\ evaluateApproval(s, detail[s][i].data, Clock(s)) # None
        => \/ ~IsApprover[s] \/ Identity[s] = None
           \/ \A c \in Commands(Identity[s]) :
                TransitionRefusal(store[i], c, IF Clock(s) > now THEN Clock(s) ELSE now) # "None"

\* The decisions of a session's screen, since it was opened, that the service has accepted:
\* told of it or not.
Recorded(s) == {c \in Here(s) : calls[c].status = 200}

\* Those it has been told of.
Accepted(s) == {c \in Recorded(s) : calls[c].told = "Answer"}

\* The service accepts two decisions of one visit only if the connection of the earlier one
\* failed: a lost answer puts the buttons back, the earlier decision goes on behind it, and
\* both may end in 200.  Nothing else lets an approver who stays decide twice, although the
\* service accepts decisions that overlap and the screen shows the old state until its
\* refetch arrives (DecisionPanel's submitting, and DecideAsync's check on a settled record).
DecidesAgainOnlyAfterFailure ==
    \A s \in Sessions : \A c, d \in Recorded(s) : c < d => calls[c].told = "Failure"

\* A proposal that is no longer pending leaves every queue that stays open: it is not
\* offered for a decision until somebody reloads (refetchInterval, 5 seconds), whatever
\* fetches fail on the way.
QueueConverges ==
    \A s \in Sessions, i \in Ids :
        (store[i].state # "PendingApproval" /\ screen[s] = "Queue")
            ~> (i \notin Rows(s) \/ screen[s] # "Queue")

\* An approver who is told that the decision was accepted, and stays, sees the proposal
\* decided, or an error instead of it: the buttons do not stay live over a settled proposal
\* (useDecideApproval.onSuccess).
DecisionShows ==
    \A s \in Sessions, i \in Ids :
        (Accepted(s) # {} /\ screen[s] = i)
            ~> \/ screen[s] # i
               \/ DetailView(s, i) = "error"
               \/ DetailView(s, i) = "ready" /\ detail[s][i].data.state # "PendingApproval"

=============================================================================
