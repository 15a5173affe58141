----------------------- MODULE ApprovalScreensProofs -----------------------
(***************************************************************************)
(* Proofs about ApprovalScreens, for any sessions, clocks, proposals and   *)
(* other deciders and any number of requests.                              *)
(***************************************************************************)
EXTENDS ApprovalScreens, ApprovalDomainProofs

-----------------------------------------------------------------------------
(* The service, as the sessions notice it.                                 *)

\* A copy of approval i: a decision never touches what was proposed.
AsRaised(i, a) ==
    /\ a \in ApprovalRecord /\ a.id = i
    /\ a.proposedBy = Raised[i].proposedBy /\ a.expiresAt = Raised[i].expiresAt

Settled(i) == store[i].state # "PendingApproval"

StoreInv ==
    /\ now \in Nat
    /\ DOMAIN store = Ids /\ \A i \in Ids : AsRaised(i, store[i])

\* A decision request, and what it has seen of the store.
IsRequest(x) ==
    /\ DOMAIN x = {"session", "id", "command", "here", "told", "at", "copy", "status"}
    /\ x.id \in Ids /\ x.here \in BOOLEAN
    /\ x.told \in {"Waiting", "Answer", "Failure"}
    /\ x.at \in {"Sent", "Read", "Answered", "Lost"}
    /\ x.at \in {"Sent", "Read"} => x.command \in Command
    /\ x.at = "Read" => AsRaised(x.id, x.copy)
    /\ x.at # "Answered" => x.status = None /\ x.told # "Answer"

Knows(x) ==
    /\ x.at = "Read" /\ x.copy.state # "PendingApproval" => Settled(x.id)
    /\ x.at = "Answered" /\ x.status = 200 => Settled(x.id)

CallsInv ==
    /\ \E n \in Nat : calls = [k \in 1..n |-> calls[k]]
    /\ \A k \in DOMAIN calls : calls[k] = Over \/ (IsRequest(calls[k]) /\ Knows(calls[k]))

\* A settled approval stays settled.
Forward == \A i \in Ids : Settled(i) => Settled(i)'

\* What DecideAsync does with the copy it has read.
Expiring(x) == x.copy.state = "PendingApproval" /\ HasPassedExpiry(x.copy, now)
Current(x) == IF Expiring(x) THEN Apply(x.copy, ExpireCommand, now).approval ELSE x.copy
Decided(x) == Apply(Current(x), x.command, now)

LEMMA SettledIsRefused ==
    ASSUME NEW a, a.state # "PendingApproval", NEW c, NEW t
    PROVE  /\ TransitionRefusal(a, c, t) \in {"Expired", "InvalidTransition"}
           /\ Apply(a, c, t).refusal \in {"Expired", "InvalidTransition"}
           /\ Apply(a, c, t).approval = a
  BY DEF Apply, TransitionRefusal

LEMMA AcceptedSettles ==
    ASSUME NEW a \in ApprovalRecord, NEW c \in Command, NEW t \in Nat,
           Apply(a, c, t).refusal = "None"
    PROVE  a.state = "PendingApproval" /\ Apply(a, c, t).approval.state \in Terminal
  <1>1. TransitionRefusal(a, c, t) = "None"
    BY DEF Apply
  <1>2. Apply(a, c, t).approval = WithDecision(a, c, t)
    BY <1>1 DEF Apply
  <1>3. TargetState(c) \in Terminal
    BY DEF TargetState, Terminal
  <1> QED
    BY <1>1, <1>2, <1>3, PassedGuards, WithDecisionTyped

LEMMA ExpireIsCommand == ExpireCommand \in Command
  BY DEF ExpireCommand, Command

\* What DecideAsync writes is settled, and a copy that was settled is refused.
LEMMA DecidedIsSettled ==
    ASSUME NEW x, IsRequest(x), x.at = "Read", now \in Nat
    PROVE  /\ AsRaised(x.id, Decided(x).approval)
           /\ Expiring(x) \/ Decided(x).refusal = "None" =>
                Decided(x).approval.state # "PendingApproval"
           /\ x.copy.state # "PendingApproval" => StatusOf(Decided(x).refusal) # 200
           /\ StatusOf(Decided(x).refusal) = 200 => Decided(x).refusal = "None"
  <1>1. x.copy \in ApprovalRecord /\ x.command \in Command /\ AsRaised(x.id, x.copy)
    BY DEF IsRequest, AsRaised
  <1>2. AsRaised(x.id, Current(x)) /\ (Expiring(x) => Current(x).state \in Terminal)
    <2>1. CASE ~Expiring(x)
      BY <1>1, <2>1 DEF Current
    <2>2. CASE Expiring(x)
      <3> DEFINE a == Apply(x.copy, ExpireCommand, now)
      <3>1. a.refusal = "None"
        BY <2>2 DEF Expiring, Apply, TransitionRefusal, FromPending, ExpireCommand
      <3>2. a.approval.state \in Terminal
        BY <1>1, <3>1, ExpireIsCommand, AcceptedSettles
      <3>3. AsRaised(x.id, a.approval)
        BY <1>1, ExpireIsCommand, ApplyKeeps DEF AsRaised
      <3> QED
        BY <2>2, <3>2, <3>3 DEF Current
    <2> QED
      BY <2>1, <2>2
  <1>3. Current(x) \in ApprovalRecord
    BY <1>2 DEF AsRaised
  <1>4. AsRaised(x.id, Decided(x).approval)
    BY <1>1, <1>2, <1>3, ApplyKeeps DEF AsRaised, Decided
  <1>5. Decided(x).refusal = "None" => Decided(x).approval.state # "PendingApproval"
    BY <1>1, <1>3, AcceptedSettles DEF Decided, Terminal
  <1>6. Expiring(x) => Decided(x).approval.state # "PendingApproval"
    BY <1>2, SettledIsRefused DEF Decided, Terminal
  <1>7. x.copy.state # "PendingApproval" => Decided(x).refusal \in {"Expired", "InvalidTransition"}
    BY SettledIsRefused DEF Decided, Current, Expiring
  <1>8. StatusOf("Expired") # 200 /\ StatusOf("InvalidTransition") # 200
    BY DEF StatusOf
  <1>9. StatusOf(Decided(x).refusal) = 200 => Decided(x).refusal = "None"
    BY DEF StatusOf
  <1> QED
    BY <1>4, <1>5, <1>6, <1>7, <1>8, <1>9

-----------------------------------------------------------------------------
(* The requests.                                                           *)

\* A request about a settled approval that the service has not accepted, and never will.
Doomed(x) ==
    \/ x.at \in {"Sent", "Lost"}
    \/ x.at = "Read" /\ x.copy.state # "PendingApproval"
    \/ x.at = "Answered" /\ x.status # 200

\* Request x, later on: it is forgotten, or it goes on as the same request.
Proceeds(x, y) ==
    y.here =>
      /\ x.here /\ y.session = x.session /\ y.id = x.id
      /\ y.told = "Waiting" => x.told = "Waiting"
      /\ Doomed(x) /\ Settled(x.id) => Doomed(y)

\* It is not the one whose acceptance the screen learns of in this step.
Quiet(x, y) ==
    y.here /\ y.told = "Answer" /\ y.status = 200 => x.told = "Answer" /\ x.status = 200

\* y takes the place of request c, unless nobody waits for it and it is over.
Turns(c, y) ==
    /\ DOMAIN calls' = DOMAIN calls
    /\ \A k \in DOMAIN calls \ {c} : calls'[k] = calls[k]
    /\ calls'[c] = y \/ (calls'[c] = Over /\ ~y.here)

LEMMA LeftRequest ==
    ASSUME NEW x, IsRequest(x)
    PROVE  LET y == [x EXCEPT !.here = FALSE]
           IN  /\ IsRequest(y) /\ ~y.here /\ y.id = x.id /\ y.at = x.at /\ y.copy = x.copy
               /\ y.status = x.status
  BY DEF IsRequest

LEMMA SettleTurns ==
    ASSUME NEW c \in DOMAIN calls, NEW y, calls' = Settle(c, y)
    PROVE  Turns(c, y)
  BY DEF Settle, Turns

\* Each handler of request c, as a rewriting of it.
\* The same request goes on.
Same(x, y) == IsRequest(y) /\ y.session = x.session /\ y.id = x.id /\ y.here = x.here

LEMMA ReadTurns ==
    ASSUME StoreInv, CallsInv, NEW c \in DOMAIN calls, ServiceRead(c)
    PROVE  /\ IsRequest(calls[c]) /\ calls[c].at = "Sent"
           /\ \E y : /\ Turns(c, y) /\ Same(calls[c], y) /\ y.told = calls[c].told
                     /\ y.at = "Read" /\ y.copy = store[y.id] /\ y.status = None
  <1> DEFINE x == calls[c]
             y == [x EXCEPT !.at = "Read", !.copy = store[x.id]]
  <1>1. x.at = "Sent" /\ IsRequest(x)
    BY DEF ServiceRead, CallsInv, Over
  <1>2. calls' = [calls EXCEPT ![c] = y]
    BY <1>1 DEF ServiceRead
  <1> HIDE DEF x
  <1>3. /\ Same(x, y) /\ y.told = x.told
        /\ y.at = "Read" /\ y.copy = store[y.id] /\ y.status = None
    BY <1>1 DEF IsRequest, Same, StoreInv
  <1> HIDE DEF y
  <1>4. Turns(c, y)
    BY <1>2 DEF Turns
  <1> QED
    BY <1>1, <1>3, <1>4 DEF x

LEMMA DecideTurns ==
    ASSUME StoreInv, CallsInv, NEW c \in DOMAIN calls, ServiceDecide(c)
    PROVE  LET x == calls[c]
           IN  /\ IsRequest(x) /\ x.at = "Read"
               /\ store' = IF Expiring(x) \/ Decided(x).refusal = "None"
                           THEN [store EXCEPT ![x.id] = Decided(x).approval] ELSE store
               /\ \E y : /\ Turns(c, y) /\ Same(x, y) /\ y.told = x.told
                         /\ y.at = "Answered" /\ y.status = StatusOf(Decided(x).refusal)
  <1> DEFINE x == calls[c]
             y == [x EXCEPT !.at = "Answered", !.command = None, !.copy = None,
                            !.status = StatusOf(Decided(x).refusal)]
  <1>1. x.at = "Read" /\ IsRequest(x)
    BY DEF ServiceDecide, CallsInv, Over
  <1>2. x.copy.id = x.id
    BY <1>1 DEF IsRequest, AsRaised
  <1>3. calls' = Settle(c, y)
    BY DEF ServiceDecide, Decided, Current, Expiring
  <1>4. store' = IF Expiring(x) \/ Decided(x).refusal = "None"
                 THEN [store EXCEPT ![x.copy.id] = Decided(x).approval] ELSE store
    BY DEF ServiceDecide, Decided, Current, Expiring
  <1> HIDE DEF x
  <1>5. /\ Same(x, y) /\ y.told = x.told
        /\ y.at = "Answered" /\ y.status = StatusOf(Decided(x).refusal)
    BY <1>1 DEF IsRequest, Same
  <1> HIDE DEF y
  <1>6. Turns(c, y)
    BY <1>3, SettleTurns
  <1> QED
    BY <1>1, <1>2, <1>4, <1>5, <1>6 DEF x

LEMMA AnsweredTurns ==
    ASSUME CallsInv, NEW c \in DOMAIN calls, Answered(c)
    PROVE  /\ IsRequest(calls[c]) /\ calls[c].at = "Answered" /\ calls[c].told = "Waiting"
           /\ \E y : /\ Turns(c, y) /\ Same(calls[c], y) /\ y.told = "Answer"
                     /\ y.at = "Answered" /\ y.status = calls[c].status
  <1> DEFINE x == calls[c]
             y == [x EXCEPT !.told = "Answer"]
  <1>1. x.at = "Answered" /\ x.told = "Waiting" /\ IsRequest(x) /\ calls' = Settle(c, y)
    BY DEF Answered, CallsInv, Over
  <1> HIDE DEF x
  <1>2. Same(x, y) /\ y.told = "Answer" /\ y.at = "Answered" /\ y.status = x.status
    BY <1>1 DEF IsRequest, Same
  <1> HIDE DEF y
  <1>3. Turns(c, y)
    BY <1>1, SettleTurns
  <1> QED
    BY <1>1, <1>2, <1>3 DEF x

LEMMA BrokenTurns ==
    ASSUME CallsInv, NEW c \in DOMAIN calls, Broken(c)
    PROVE  /\ IsRequest(calls[c]) /\ calls[c].told = "Waiting"
           /\ \E y : /\ Turns(c, y) /\ Same(calls[c], y) /\ y.told = "Failure"
                     /\ y.at = calls[c].at \/ y.at = "Lost"
                     /\ y.copy = calls[c].copy /\ y.status = calls[c].status
  <1> DEFINE x == calls[c]
  <1>1. IsRequest(x) /\ x.told = "Waiting"
    BY DEF Broken, CallsInv, Over
  <1>2. PICK at : /\ at = x.at \/ (x.at = "Sent" /\ at = "Lost")
                  /\ calls' = Settle(c, [x EXCEPT !.told = "Failure", !.at = at])
    BY DEF Broken
  <1> DEFINE y == [x EXCEPT !.told = "Failure", !.at = at]
  <1> HIDE DEF x
  <1>3. /\ Same(x, y) /\ y.told = "Failure" /\ y.at = at
        /\ y.copy = x.copy /\ y.status = x.status
    BY <1>1, <1>2 DEF IsRequest, Same
  <1>4. calls' = Settle(c, y)
    BY <1>2
  <1> HIDE DEF y
  <1>5. Turns(c, y)
    BY <1>4, SettleTurns
  <1> QED
    BY <1>1, <1>2, <1>3, <1>5 DEF x

LEMMA LeaveTurns ==
    ASSUME CallsInv, NEW s \in Sessions, Leave(s)
    PROVE  /\ DOMAIN calls' = DOMAIN calls
           /\ \A k \in DOMAIN calls \ Here(s) : calls'[k] = calls[k]
           /\ \A k \in Here(s) :
                IsRequest(calls[k]) /\ calls'[k] \in {Over, [calls[k] EXCEPT !.here = FALSE]}
  <1>1. \A k \in Here(s) : IsRequest(calls[k]) /\ k \in DOMAIN calls
    BY DEF Here, CallsInv, Over
  <1>2. \A k \in DOMAIN calls : \A y : Settle(k, y)[k] \in {Over, y}
    BY DEF Settle
  <1> QED
    BY <1>1, <1>2 DEF Leave

LEMMA AppendTo ==
    ASSUME NEW n \in Nat, NEW s, s = [k \in 1..n |-> s[k]], NEW x
    PROVE  LET t == Append(s, x)
           IN  t = [k \in 1..n+1 |-> t[k]] /\ t[n+1] = x /\ \A k \in 1..n : t[k] = s[k]
  <1> DEFINE S == {s[k] : k \in 1..n} \cup {x}
  <1>1. s \in [1..n -> S]
    OBVIOUS
  <1>2. s \in Seq(S) /\ Len(s) = n
    BY <1>1
  <1>3. x \in S
    OBVIOUS
  <1> HIDE DEF S
  <1> QED
    BY <1>2, <1>3

\* A step makes request x.
Makes(x) ==
    \E n \in Nat \ DOMAIN calls :
        /\ calls' = [k \in 1..n |-> calls'[k]] /\ DOMAIN calls' = DOMAIN calls \cup {n}
        /\ calls'[n] = x
        /\ \A k \in DOMAIN calls : k \in Nat /\ k < n /\ calls'[k] = calls[k]

LEMMA AppendMakes ==
    ASSUME CallsInv, NEW x, calls' = Append(calls, x)
    PROVE  Makes(x)
  <1>1. PICK n \in Nat : calls = [k \in 1..n |-> calls[k]]
    BY DEF CallsInv
  <1>2. DOMAIN calls = 1..n
    BY <1>1
  <1>3. /\ calls' = [k \in 1..n+1 |-> calls'[k]] /\ calls'[n+1] = x
        /\ \A k \in 1..n : calls'[k] = calls[k]
    BY <1>1, AppendTo
  <1>4. n + 1 \in Nat \ DOMAIN calls /\ DOMAIN calls' = DOMAIN calls \cup {n + 1}
    BY <1>2, <1>3
  <1> QED
    BY <1>2, <1>3, <1>4 DEF Makes

-----------------------------------------------------------------------------
(* What every step keeps of the store and of the requests.                 *)

LEMMA ServiceInit == Init => StoreInv /\ CallsInv
  <1> SUFFICES ASSUME Init PROVE StoreInv /\ CallsInv
    OBVIOUS
  <1>1. StoreInv
    BY ScreensAssumption DEF Init, StoreInv, AsRaised
  <1>2. calls = <<>> /\ DOMAIN calls = {} /\ calls = [k \in 1..0 |-> calls[k]]
    BY DEF Init
  <1> QED
    BY <1>1, <1>2 DEF CallsInv

LEMMA StoreNext ==
    ASSUME StoreInv, CallsInv, [Next]_vars
    PROVE  StoreInv' /\ Forward
  <1>1. ASSUME UNCHANGED store, now' \in Nat
        PROVE  StoreInv' /\ Forward
    BY <1>1 DEF StoreInv, Forward, Settled
  <1>2. ASSUME NEW c \in DOMAIN calls, ServiceDecide(c)
        PROVE  StoreInv' /\ Forward
    <2> DEFINE x == calls[c]
    <2>1. /\ IsRequest(x) /\ x.at = "Read"
          /\ store' = IF Expiring(x) \/ Decided(x).refusal = "None"
                      THEN [store EXCEPT ![x.id] = Decided(x).approval] ELSE store
      BY <1>2, DecideTurns
    <2>2. now' = now /\ now \in Nat
      BY <1>2 DEF ServiceDecide, StoreInv
    <2> HIDE DEF x
    <2>3. CASE ~(Expiring(x) \/ Decided(x).refusal = "None")
      BY <1>1, <2>1, <2>2, <2>3
    <2>4. CASE Expiring(x) \/ Decided(x).refusal = "None"
      <3>1. AsRaised(x.id, Decided(x).approval) /\ Decided(x).approval.state # "PendingApproval"
        BY <2>1, <2>2, <2>4, DecidedIsSettled
      <3>2. x.id \in Ids
        BY <2>1 DEF IsRequest
      <3>3. /\ DOMAIN store' = Ids /\ store'[x.id] = Decided(x).approval
            /\ \A i \in Ids \ {x.id} : store'[i] = store[i]
        BY <2>1, <2>4, <3>2 DEF StoreInv
      <3>4. ASSUME NEW i \in Ids
            PROVE  AsRaised(i, store'[i]) /\ (Settled(i) => store'[i].state # "PendingApproval")
        BY <3>1, <3>3 DEF StoreInv, Settled
      <3> QED
        BY <2>2, <3>3, <3>4 DEF StoreInv, Forward, Settled, AsRaised
    <2> QED
      BY <2>3, <2>4
  <1>3. ASSUME Tick
        PROVE  StoreInv' /\ Forward
    BY <1>1, <1>3 DEF Tick, StoreInv
  <1>4. ASSUME UNCHANGED service
        PROVE  StoreInv' /\ Forward
    BY <1>1, <1>4 DEF service, StoreInv
  <1> QED
    BY <1>2, <1>3, <1>4
       DEF Next, vars, service, User, Open, Leave, Retry, Decide, FetchList, FetchDetail,
           DecideElsewhere, Decision, ServiceRead, Answered, Broken

LEMMA KnowsKept ==
    ASSUME Forward, NEW x, IsRequest(x), Knows(x)
    PROVE  Knows(x)'
  BY DEF Forward, Knows, IsRequest

LEMMA NewRequest ==
    ASSUME NEW s, NEW i \in Ids, NEW command \in Command
    PROVE  LET x == Request(s, i, command)
           IN  /\ IsRequest(x) /\ x.session = s /\ x.id = i /\ x.at = "Sent"
               /\ x.told = "Waiting" /\ (x.here <=> s # None)
  BY DEF Request, IsRequest

LEMMA CommandsTyped ==
    ASSUME NEW s \in Sessions
    PROVE  Commands(Identity[s]) \subseteq Command
  <1>1. Identity[s] \in Oid \cup {None}
    BY ScreensAssumption
  <1> QED
    BY <1>1 DEF Commands, ApproveCommand, RejectCommand, Command

LEMMA MakesKeepsCalls ==
    ASSUME CallsInv, Forward, NEW x, IsRequest(x), x.at = "Sent", Makes(x)
    PROVE  CallsInv'
  <1>1. PICK n \in Nat \ DOMAIN calls :
          /\ calls' = [k \in 1..n |-> calls'[k]] /\ DOMAIN calls' = DOMAIN calls \cup {n}
          /\ calls'[n] = x /\ \A k \in DOMAIN calls : calls'[k] = calls[k]
    BY DEF Makes
  <1>2. Knows(x)'
    BY DEF Knows
  <1>3. ASSUME NEW k \in DOMAIN calls'
        PROVE  calls'[k] = Over \/ (IsRequest(calls'[k]) /\ Knows(calls[k])')
    <2>1. CASE k = n
      BY <1>1, <1>2, <2>1 DEF Knows, Settled
    <2>2. CASE k \in DOMAIN calls
      <3>1. calls'[k] = calls[k]
        BY <1>1, <2>2
      <3>2. calls[k] = Over \/ (IsRequest(calls[k]) /\ \A y : y = calls[k] => Knows(y)')
        BY <2>2, KnowsKept DEF CallsInv
      <3> QED
        BY <3>1, <3>2 DEF Knows, Settled
    <2> QED
      BY <1>1, <2>1, <2>2
  <1>4. \E m \in Nat : calls' = [k \in 1..m |-> calls'[k]]
    BY <1>1
  <1> QED
    BY <1>3, <1>4 DEF CallsInv, Over, IsRequest, AsRaised

\* A step that makes no request keeps CallsInv if each request is kept or is rewritten well.
LEMMA RewriteKeepsCalls ==
    ASSUME CallsInv, Forward, DOMAIN calls' = DOMAIN calls,
           calls' = [k \in DOMAIN calls |-> calls'[k]],
           \A k \in DOMAIN calls : \/ calls'[k] = calls[k] \/ calls'[k] = Over
                                   \/ IsRequest(calls'[k]) /\ Knows(calls[k])'
    PROVE  CallsInv'
  <1>1. ASSUME NEW k \in DOMAIN calls'
        PROVE  calls'[k] = Over \/ (IsRequest(calls'[k]) /\ Knows(calls[k])')
    <2>1. CASE calls'[k] = calls[k]
      <3>1. calls[k] = Over \/ (IsRequest(calls[k]) /\ \A y : y = calls[k] => Knows(y)')
        BY KnowsKept DEF CallsInv
      <3> QED
        BY <2>1, <3>1 DEF Knows, Settled
    <2> QED
      BY <2>1
  <1>2. \E m \in Nat : calls' = [k \in 1..m |-> calls'[k]]
    BY DEF CallsInv
  <1> QED
    BY <1>1, <1>2 DEF CallsInv, Over, IsRequest, AsRaised

LEMMA DecideMakes ==
    ASSUME CallsInv, NEW s \in Sessions, NEW i \in Ids, Decide(s, i)
    PROVE  \E command \in Command : Makes(Request(s, i, command))
  BY AppendMakes, CommandsTyped DEF Decide

LEMMA DecideElsewhereMakes ==
    ASSUME CallsInv, NEW i \in Ids, DecideElsewhere(i)
    PROVE  \E command \in Command : Makes(Request(None, i, command))
  BY AppendMakes, ScreensAssumption DEF DecideElsewhere

\* Turning one request c.
LEMMA TurnKeepsCalls ==
    ASSUME CallsInv, Forward, calls' = [k \in DOMAIN calls |-> calls'[k]],
           NEW c \in DOMAIN calls, NEW y, Turns(c, y), IsRequest(y), Knows(y)'
    PROVE  CallsInv'
  <1>1. ASSUME NEW k \in DOMAIN calls
        PROVE  \/ calls'[k] = calls[k] \/ calls'[k] = Over
               \/ IsRequest(calls'[k]) /\ Knows(calls[k])'
    BY DEF Turns, Knows, Settled
  <1>2. DOMAIN calls' = DOMAIN calls
    BY DEF Turns
  <1> QED
    BY <1>1, <1>2, RewriteKeepsCalls

LEMMA CallsNext ==
    ASSUME StoreInv, CallsInv, [Next]_vars
    PROVE  CallsInv'
  <1>1. StoreInv' /\ Forward
    BY StoreNext
  <1>2. ASSUME UNCHANGED calls
        PROVE  CallsInv'
    BY <1>1, <1>2, RewriteKeepsCalls DEF CallsInv
  <1>3. ASSUME NEW s \in Sessions, Leave(s)
        PROVE  CallsInv'
    <2>1. calls' = [k \in DOMAIN calls |-> calls'[k]]
      BY <1>3 DEF Leave
    <2>2. ASSUME NEW k \in Here(s)
          PROVE  calls'[k] = Over \/ (IsRequest(calls'[k]) /\ Knows(calls[k])')
      <3>1. IsRequest(calls[k]) /\ calls'[k] \in {Over, [calls[k] EXCEPT !.here = FALSE]}
        BY <1>3, <2>2, LeaveTurns
      <3>2. k \in DOMAIN calls /\ (calls[k] = Over \/ Knows(calls[k]))
        BY <2>2 DEF Here, CallsInv
      <3>3. calls[k] # Over
        BY <2>2 DEF Here, Over
      <3>4. \A x : x = calls[k] => Knows(x)'
        BY <1>1, <3>1, <3>2, <3>3, KnowsKept
      <3>5. CASE calls'[k] = [calls[k] EXCEPT !.here = FALSE]
        <4>1. /\ IsRequest(calls'[k]) /\ calls'[k].id = calls[k].id /\ calls'[k].at = calls[k].at
              /\ calls'[k].copy = calls[k].copy /\ calls'[k].status = calls[k].status
          BY <3>1, <3>5, LeftRequest
        <4> QED
          BY <3>4, <4>1 DEF Knows, Settled
      <3> QED
        BY <3>1, <3>5
    <2> QED
      BY <1>1, <1>3, <2>1, <2>2, LeaveTurns, RewriteKeepsCalls
  <1>4. ASSUME NEW s \in Sessions, NEW i \in Ids, Decide(s, i)
        PROVE  CallsInv'
    BY <1>1, <1>4, DecideMakes, NewRequest, MakesKeepsCalls
  <1>5. ASSUME NEW i \in Ids, DecideElsewhere(i)
        PROVE  CallsInv'
    BY <1>1, <1>5, DecideElsewhereMakes, NewRequest, MakesKeepsCalls
  <1>6. ASSUME NEW c \in DOMAIN calls, ServiceRead(c)
        PROVE  CallsInv'
    <2>1. PICK y : /\ Turns(c, y) /\ Same(calls[c], y)
                   /\ y.at = "Read" /\ y.copy = store[y.id]
      BY <1>6, ReadTurns
    <2>2. calls' = [k \in DOMAIN calls |-> calls'[k]] /\ store' = store
      BY <1>6 DEF ServiceRead, service
    <2>3. IsRequest(y) /\ Knows(y)'
      BY <2>1, <2>2 DEF Same, Knows, Settled
    <2> QED
      BY <1>1, <2>1, <2>2, <2>3, TurnKeepsCalls
  <1>7. ASSUME NEW c \in DOMAIN calls, ServiceDecide(c)
        PROVE  CallsInv'
    <2> DEFINE x == calls[c]
    <2>1. /\ IsRequest(x) /\ x.at = "Read"
          /\ store' = IF Expiring(x) \/ Decided(x).refusal = "None"
                      THEN [store EXCEPT ![x.id] = Decided(x).approval] ELSE store
      BY <1>7, DecideTurns
    <2>2. PICK y : /\ Turns(c, y) /\ Same(x, y)
                   /\ y.at = "Answered" /\ y.status = StatusOf(Decided(x).refusal)
      BY <1>7, DecideTurns
    <2>3. calls' = [k \in DOMAIN calls |-> calls'[k]]
      BY <1>7 DEF ServiceDecide, Settle
    <2> HIDE DEF x
    <2>4. y.status = 200 => store'[x.id].state # "PendingApproval"
      <3>1. x.id \in DOMAIN store /\ now \in Nat
        BY <2>1 DEF StoreInv, IsRequest
      <3>2. y.status = 200 =>
              Decided(x).refusal = "None" /\ Decided(x).approval.state # "PendingApproval"
        <4>1. /\ StatusOf(Decided(x).refusal) = 200 => Decided(x).refusal = "None"
              /\ Decided(x).refusal = "None" => Decided(x).approval.state # "PendingApproval"
          BY <2>1, <3>1, DecidedIsSettled
        <4> QED
          BY <2>2, <4>1
      <3>3. Decided(x).refusal = "None" => store'[x.id] = Decided(x).approval
        <4> DEFINE b == Decided(x).approval
        <4>1. Decided(x).refusal = "None" => store' = [store EXCEPT ![x.id] = b]
          BY <2>1
        <4>2. [store EXCEPT ![x.id] = b][x.id] = b
          BY <3>1
        <4> QED
          BY <4>1, <4>2, Zenon
      <3> QED
        BY <3>2, <3>3, Zenon
    <2>5. IsRequest(y) /\ Knows(y)'
      BY <2>2, <2>4 DEF Same, Knows, Settled
    <2> QED
      BY <1>1, <2>2, <2>3, <2>5, TurnKeepsCalls
  <1>8. ASSUME NEW c \in DOMAIN calls, Answered(c)
        PROVE  CallsInv'
    <2>1. IsRequest(calls[c]) /\ calls[c].at = "Answered"
      BY <1>8, AnsweredTurns
    <2>2. PICK y : /\ Turns(c, y) /\ Same(calls[c], y)
                   /\ y.at = "Answered" /\ y.status = calls[c].status
      BY <1>8, AnsweredTurns
    <2>3. calls' = [k \in DOMAIN calls |-> calls'[k]] /\ store' = store
      BY <1>8 DEF Answered, Settle, service
    <2>4. Knows(calls[c])
      BY <2>1 DEF CallsInv, Over
    <2>5. IsRequest(y) /\ Knows(y)'
      BY <2>1, <2>2, <2>3, <2>4 DEF Same, Knows, Settled
    <2> QED
      BY <1>1, <2>2, <2>3, <2>5, TurnKeepsCalls
  <1>9. ASSUME NEW c \in DOMAIN calls, Broken(c)
        PROVE  CallsInv'
    <2>1. IsRequest(calls[c])
      BY <1>9, BrokenTurns
    <2>2. PICK y : /\ Turns(c, y) /\ Same(calls[c], y)
                   /\ y.at = calls[c].at \/ y.at = "Lost"
                   /\ y.copy = calls[c].copy /\ y.status = calls[c].status
      BY <1>9, BrokenTurns
    <2>3. calls' = [k \in DOMAIN calls |-> calls'[k]] /\ store' = store
      BY <1>9 DEF Broken, Settle, service
    <2>4. Knows(calls[c])
      BY <2>1 DEF CallsInv, Over, IsRequest
    <2>5. IsRequest(y) /\ Knows(y)'
      BY <2>2, <2>3, <2>4 DEF Same, Knows, Settled
    <2> QED
      BY <1>1, <2>2, <2>3, <2>5, TurnKeepsCalls
  <1> QED
    BY <1>2, <1>3, <1>4, <1>5, <1>6, <1>7, <1>8, <1>9
       DEF Next, vars, User, Open, Retry, FetchList, FetchDetail, Decision, Tick

-----------------------------------------------------------------------------
(* One visit to a detail screen.                                           *)

\* The requests a screen takes part in are about the approval it shows, it waits for the
\* latest at most, and once it is told that one is accepted the later ones are doomed.
Visit(s) ==
    /\ \A c \in Here(s) : calls[c].id = screen[s]
    /\ \A c, d \in Here(s) : c < d => calls[c].told # "Waiting"
    /\ \A c \in Accepted(s), d \in Here(s) : c < d => Doomed(calls[d])

VisitInv == DOMAIN screen = Sessions /\ \A s \in Sessions : Visit(s)

\* A request that was accepted has settled the approval on screen.
LEMMA RecordedIsSettled ==
    ASSUME CallsInv, NEW s \in Sessions, Visit(s), NEW c \in Recorded(s)
    PROVE  /\ c \in Here(s) /\ c \in DOMAIN calls /\ IsRequest(calls[c]) /\ calls[c].at = "Answered"
           /\ calls[c].id = screen[s] /\ Settled(screen[s])
  <1>1. c \in Here(s) /\ c \in DOMAIN calls /\ calls[c].here /\ calls[c].status = 200
    BY DEF Recorded, Here
  <1>2. IsRequest(calls[c]) /\ Knows(calls[c])
    BY <1>1 DEF CallsInv, Over
  <1>3. calls[c].at = "Answered"
    BY <1>1, <1>2, DomainAssumption DEF IsRequest
  <1>4. calls[c].id = screen[s]
    BY <1>1 DEF Visit
  <1> QED
    BY <1>1, <1>2, <1>3, <1>4 DEF Knows

\* A step in which no request is made and no acceptance is learnt of.
LEMMA VisitKept ==
    ASSUME CallsInv, NEW s \in Sessions, Visit(s), screen'[s] = screen[s],
           DOMAIN calls' = DOMAIN calls,
           \A k \in DOMAIN calls : Proceeds(calls[k], calls'[k]) /\ Quiet(calls[k], calls'[k])
    PROVE  Visit(s)'
  <1>1. ASSUME NEW c \in Here(s)'
        PROVE  /\ c \in DOMAIN calls /\ c \in Here(s) /\ calls'[c].id = calls[c].id
               /\ calls'[c].told = "Waiting" => calls[c].told = "Waiting"
               /\ Doomed(calls[c]) /\ Settled(calls[c].id) => Doomed(calls'[c])
    BY DEF Here, Proceeds
  <1>2. ASSUME NEW c \in Accepted(s)'
        PROVE  c \in Accepted(s) /\ c \in Here(s)'
    BY <1>1 DEF Accepted, Recorded, Here, Quiet
  <1>3. ASSUME NEW c \in Accepted(s)', NEW d \in Here(s)', c < d
        PROVE  Doomed(calls'[d])
    <2>1. c \in Accepted(s) /\ d \in Here(s)
      BY <1>1, <1>2
    <2>2. Settled(screen[s]) /\ calls[d].id = screen[s]
      BY <2>1, RecordedIsSettled DEF Visit, Accepted
    <2>3. Doomed(calls[d])
      BY <1>3, <2>1 DEF Visit
    <2> QED
      BY <1>1, <2>2, <2>3
  <1>4. \A c \in Here(s)' : calls'[c].id = screen'[s]
    BY <1>1 DEF Visit
  <1>5. \A c, d \in Here(s)' : c < d => calls'[c].told # "Waiting"
    BY <1>1 DEF Visit
  <1> QED
    BY <1>3, <1>4, <1>5 DEF Visit, Doomed

\* Turning one request, without an acceptance.
LEMMA TurnKeepsVisit ==
    ASSUME CallsInv, NEW s \in Sessions, Visit(s), screen'[s] = screen[s],
           NEW c \in DOMAIN calls, NEW y, Turns(c, y), y.here \in BOOLEAN,
           Proceeds(calls[c], y), Quiet(calls[c], y)
    PROVE  Visit(s)'
  <1>1. ASSUME NEW k \in DOMAIN calls
        PROVE  Proceeds(calls[k], calls'[k]) /\ Quiet(calls[k], calls'[k])
    <2>1. CASE calls'[k] = calls[k]
      BY <2>1 DEF Proceeds, Quiet
    <2>2. CASE calls'[k] = Over
      BY <2>2 DEF Proceeds, Quiet, Over
    <2>3. CASE k = c /\ calls'[k] = y
      BY <2>3
    <2> QED
      BY <2>1, <2>2, <2>3 DEF Turns
  <1> QED
    BY <1>1, VisitKept DEF Turns

LEMMA NobodyHere ==
    ASSUME NEW s \in Sessions, Here(s)' = {}
    PROVE  Visit(s)'
  BY DEF Visit, Accepted, Recorded

\* A new request is of another screen, or of this one while nothing of it is under way.
LEMMA MakesKeepsVisit ==
    ASSUME CallsInv, NEW s \in Sessions, Visit(s), screen'[s] = screen[s], NEW x, Makes(x),
           IsRequest(x), x.at = "Sent",
           (x.here /\ x.session = s) => x.id = screen[s] /\ ~submitting(s)
    PROVE  Visit(s)'
  <1>1. PICK n \in Nat \ DOMAIN calls :
          /\ DOMAIN calls' = DOMAIN calls \cup {n} /\ calls'[n] = x
          /\ \A k \in DOMAIN calls : k \in Nat /\ k < n /\ calls'[k] = calls[k]
    BY DEF Makes
  <1>2. \A c \in Here(s)' : \/ c \in Here(s) /\ c \in DOMAIN calls /\ calls'[c] = calls[c]
                            \/ c = n /\ x.here /\ x.session = s
    BY <1>1 DEF Here
  <1>3. \A c \in Accepted(s)' : c \in Accepted(s) /\ c \in Here(s)'
    <2>1. x.told # "Answer"
      BY DEF IsRequest
    <2> QED
      BY <1>1, <1>2, <2>1 DEF Accepted, Recorded
  <1>4. \A c \in Here(s)' : calls'[c].id = screen'[s]
    BY <1>1, <1>2 DEF Visit
  <1>5. ASSUME NEW c \in Here(s)', NEW d \in Here(s)', c < d
        PROVE  calls'[c].told # "Waiting"
    <2>1. c # n
      BY <1>1, <1>2, <1>5
    <2>2. c \in Here(s) /\ calls'[c] = calls[c]
      BY <1>2, <2>1
    <2>3. CASE d = n
      BY <1>1, <1>2, <2>2, <2>3 DEF submitting
    <2>4. CASE d \in Here(s)
      BY <1>5, <2>2, <2>4 DEF Visit
    <2> QED
      BY <1>2, <2>3, <2>4
  <1>6. ASSUME NEW c \in Accepted(s)', NEW d \in Here(s)', c < d
        PROVE  Doomed(calls'[d])
    <2>1. CASE d = n
      BY <1>1, <2>1 DEF Doomed
    <2>2. CASE d \in Here(s) /\ calls'[d] = calls[d]
      BY <1>3, <1>6, <2>2 DEF Visit
    <2> QED
      BY <1>2, <2>1, <2>2
  <1> QED
    BY <1>4, <1>5, <1>6 DEF Visit, Doomed

\* The session learns of the answer to request c: it waited for no later one.
LEMMA AnsweredKeepsVisit ==
    ASSUME CallsInv, NEW s \in Sessions, Visit(s), screen'[s] = screen[s],
           NEW c \in DOMAIN calls, Answered(c)
    PROVE  Visit(s)'
  <1> DEFINE x == calls[c]
  <1>1. IsRequest(x) /\ x.at = "Answered" /\ x.told = "Waiting"
    BY AnsweredTurns
  <1>2. PICK y : /\ Turns(c, y) /\ Same(x, y) /\ y.told = "Answer"
                 /\ y.at = "Answered" /\ y.status = x.status
    BY AnsweredTurns
  <1>3. Proceeds(x, y) /\ (Doomed(x) => Doomed(y))
    BY <1>1, <1>2 DEF Proceeds, Same, Doomed
  <1>4. y.here \in BOOLEAN
    BY <1>2 DEF Same, IsRequest
  <1>5. CASE ~(x.here /\ x.status = 200)
    <2>1. Quiet(x, y)
      BY <1>2, <1>5 DEF Quiet, Same
    <2> QED
      BY <1>2, <1>3, <1>4, <2>1, TurnKeepsVisit
  <1>6. CASE x.session # s
    <2>1. \A k \in Here(s)' : k \in Here(s) /\ calls'[k] = calls[k]
      BY <1>2, <1>6 DEF Turns, Same, Here, Over
    <2>2. \A k \in Accepted(s)' : k \in Accepted(s) /\ k \in Here(s)'
      BY <2>1 DEF Accepted, Recorded
    <2> QED
      BY <2>1, <2>2 DEF Visit, Doomed
  <1>7. CASE x.here /\ x.status = 200 /\ x.session = s
    <2>1. c \in Here(s)
      BY <1>7 DEF Here
    <2>2. calls'[c] = y
      BY <1>2, <1>7 DEF Turns, Same
    <2>3. \A k \in Here(s)' : k \in Here(s) /\ (k # c => k \in DOMAIN calls /\ calls'[k] = calls[k])
      BY <1>2, <2>1 DEF Turns, Here
    <2>4. \A k \in Accepted(s)' : k = c \/ k \in Accepted(s)
      BY <2>3 DEF Accepted, Recorded
    <2>5. ASSUME NEW k \in Accepted(s)', NEW d \in Here(s)', k < d
          PROVE  Doomed(calls'[d])
      <3>1. k # c
        BY <1>1, <2>1, <2>3, <2>5 DEF Visit
      <3>2. Doomed(calls[d])
        BY <2>3, <2>4, <2>5, <3>1 DEF Visit
      <3> QED
        BY <1>3, <2>2, <2>3, <3>2
    <2>6. \A k \in Here(s)' : calls'[k].id = screen'[s]
      BY <1>2, <2>2, <2>3 DEF Visit, Same
    <2>7. \A k, d \in Here(s)' : k < d => calls'[k].told # "Waiting"
      BY <1>2, <2>2, <2>3 DEF Visit
    <2> QED
      BY <2>5, <2>6, <2>7 DEF Visit, Doomed
  <1> QED
    BY <1>5, <1>6, <1>7

LEMMA VisitNext ==
    ASSUME StoreInv, CallsInv, VisitInv, [Next]_vars
    PROVE  VisitInv'
  <1>1. ASSUME DOMAIN screen' = Sessions, \A s \in Sessions : Visit(s)'
        PROVE  VisitInv'
    BY <1>1 DEF VisitInv
  <1>2. ASSUME NEW s \in Sessions, UNCHANGED calls, screen'[s] = screen[s]
        PROVE  Visit(s)'
    BY <1>2, VisitKept DEF VisitInv, Proceeds, Quiet
  <1>3. ASSUME NEW s \in Sessions, NEW i \in Ids, Open(s, i)
        PROVE  VisitInv'
    <2>1. /\ UNCHANGED calls /\ screen[s] = "Queue" /\ DOMAIN screen' = Sessions
          /\ \A t \in Sessions \ {s} : screen'[t] = screen[t]
      BY <1>3 DEF Open, VisitInv
    <2>2. Here(s) = {}
      <3> SUFFICES ASSUME NEW c \in Here(s) PROVE FALSE
        OBVIOUS
      <3>1. IsRequest(calls[c]) /\ calls[c].id = "Queue"
        BY <2>1 DEF Here, CallsInv, Over, VisitInv, Visit
      <3> QED
        BY <3>1, ScreensAssumption DEF IsRequest
    <2>3. Here(s)' = {}
      BY <2>1, <2>2 DEF Here
    <2> QED
      BY <1>1, <1>2, <2>1, <2>3, NobodyHere
  <1>4. ASSUME NEW s \in Sessions, Leave(s)
        PROVE  VisitInv'
    <2>1. DOMAIN screen' = Sessions /\ \A t \in Sessions \ {s} : screen'[t] = screen[t]
      BY <1>4 DEF Leave, VisitInv
    <2>2. /\ DOMAIN calls' = DOMAIN calls
          /\ \A k \in DOMAIN calls \ Here(s) : calls'[k] = calls[k]
          /\ \A k \in Here(s) : ~calls'[k].here
      <3>1. ASSUME NEW k \in Here(s)
            PROVE  ~calls'[k].here
        <4>1. IsRequest(calls[k]) /\ calls'[k] \in {Over, [calls[k] EXCEPT !.here = FALSE]}
          BY <1>4, LeaveTurns
        <4>2. ~Over.here
          BY DEF Over
        <4>3. ~[calls[k] EXCEPT !.here = FALSE].here
          BY <4>1 DEF IsRequest
        <4> QED
          BY <4>1, <4>2, <4>3
      <3> QED
        BY <1>4, <3>1, LeaveTurns
    <2>3. Here(s)' = {}
      BY <2>2 DEF Here
    <2>4. ASSUME NEW k \in DOMAIN calls
          PROVE  Proceeds(calls[k], calls'[k]) /\ Quiet(calls[k], calls'[k])
      BY <2>2 DEF Proceeds, Quiet
    <2> QED
      BY <1>1, <2>1, <2>2, <2>3, <2>4, VisitKept, NobodyHere DEF VisitInv
  <1>5. ASSUME NEW s \in Sessions, NEW i \in Ids, Decide(s, i)
        PROVE  VisitInv'
    <2>1. PICK command \in Command : Makes(Request(s, i, command))
      BY <1>5, DecideMakes
    <2> DEFINE x == Request(s, i, command)
    <2>2. IsRequest(x) /\ x.session = s /\ x.id = i /\ x.at = "Sent"
      BY NewRequest
    <2>3. UNCHANGED screen /\ screen[s] = i /\ ~submitting(s)
      BY <1>5 DEF Decide, MayDecide
    <2> HIDE DEF x
    <2>4. ASSUME NEW t \in Sessions
          PROVE  Visit(t)'
      BY <2>1, <2>2, <2>3, MakesKeepsVisit DEF VisitInv, x
    <2> QED
      BY <1>1, <2>3, <2>4 DEF VisitInv
  <1>6. ASSUME NEW i \in Ids, DecideElsewhere(i)
        PROVE  VisitInv'
    <2>1. PICK command \in Command : Makes(Request(None, i, command))
      BY <1>6, DecideElsewhereMakes
    <2> DEFINE x == Request(None, i, command)
    <2>2. IsRequest(x) /\ x.at = "Sent" /\ ~x.here
      BY NewRequest
    <2>3. UNCHANGED screen
      BY <1>6 DEF DecideElsewhere
    <2> HIDE DEF x
    <2>4. ASSUME NEW t \in Sessions
          PROVE  Visit(t)'
      BY <2>1, <2>2, <2>3, MakesKeepsVisit DEF VisitInv, x
    <2> QED
      BY <1>1, <2>3, <2>4 DEF VisitInv
  <1>7. ASSUME NEW c \in DOMAIN calls, NEW y, Turns(c, y), Same(calls[c], y), UNCHANGED screen,
               Proceeds(calls[c], y), Quiet(calls[c], y)
        PROVE  VisitInv'
    <2>1. y.here \in BOOLEAN
      BY <1>7 DEF Same, IsRequest
    <2> QED
      BY <1>1, <1>7, <2>1, TurnKeepsVisit DEF VisitInv
  <1>8. ASSUME NEW c \in DOMAIN calls, ServiceRead(c)
        PROVE  VisitInv'
    <2>1. IsRequest(calls[c]) /\ calls[c].at = "Sent"
      BY <1>8, ReadTurns
    <2>2. PICK y : /\ Turns(c, y) /\ Same(calls[c], y) /\ y.told = calls[c].told
                   /\ y.at = "Read" /\ y.copy = store[y.id] /\ y.status = None
      BY <1>8, ReadTurns
    <2>3. Proceeds(calls[c], y)
      BY <2>1, <2>2 DEF Proceeds, Same, Doomed, Settled
    <2>4. Quiet(calls[c], y)
      BY <2>2, DomainAssumption DEF Quiet
    <2>5. UNCHANGED screen
      BY <1>8 DEF ServiceRead
    <2> QED
      BY <1>7, <2>2, <2>3, <2>4, <2>5
  <1>9. ASSUME NEW c \in DOMAIN calls, ServiceDecide(c)
        PROVE  VisitInv'
    <2> DEFINE x == calls[c]
    <2>1. IsRequest(x) /\ x.at = "Read"
      BY <1>9, DecideTurns
    <2>2. PICK y : /\ Turns(c, y) /\ Same(x, y) /\ y.told = x.told
                   /\ y.at = "Answered" /\ y.status = StatusOf(Decided(x).refusal)
      BY <1>9, DecideTurns
    <2> HIDE DEF x
    <2>3. x.copy.state # "PendingApproval" => y.status # 200
      BY <2>1, <2>2, DecidedIsSettled DEF StoreInv
    <2>4. Proceeds(x, y)
      BY <2>1, <2>2, <2>3 DEF Proceeds, Same, Doomed
    <2>5. Quiet(x, y)
      BY <2>1, <2>2 DEF Quiet, IsRequest
    <2>6. UNCHANGED screen
      BY <1>9 DEF ServiceDecide
    <2> QED
      BY <1>7, <2>2, <2>4, <2>5, <2>6 DEF x
  <1>10. ASSUME NEW c \in DOMAIN calls, Answered(c)
         PROVE  VisitInv'
    <2>1. UNCHANGED screen
      BY <1>10 DEF Answered
    <2> QED
      BY <1>1, <1>10, <2>1, AnsweredKeepsVisit DEF VisitInv
  <1>11. ASSUME NEW c \in DOMAIN calls, Broken(c)
         PROVE  VisitInv'
    <2>1. calls[c].told = "Waiting"
      BY <1>11, BrokenTurns
    <2>2. PICK y : /\ Turns(c, y) /\ Same(calls[c], y) /\ y.told = "Failure"
                   /\ y.at = calls[c].at \/ y.at = "Lost"
                   /\ y.copy = calls[c].copy /\ y.status = calls[c].status
      BY <1>11, BrokenTurns
    <2>3. Proceeds(calls[c], y) /\ Quiet(calls[c], y)
      BY <2>1, <2>2 DEF Proceeds, Quiet, Same, Doomed
    <2>4. UNCHANGED screen
      BY <1>11 DEF Broken
    <2> QED
      BY <1>7, <2>2, <2>3, <2>4
  <1>12. ASSUME UNCHANGED <<calls, screen>>
         PROVE  VisitInv'
    BY <1>1, <1>2, <1>12 DEF VisitInv
  <1> QED
    BY <1>3, <1>4, <1>5, <1>6, <1>8, <1>9, <1>10, <1>11, <1>12
       DEF Next, vars, User, Retry, FetchList, FetchDetail, Decision, Tick

\* The service accepts two decisions of one visit to a detail screen only if the connection
\* of the earlier one failed: DecisionPanel waits for its answer before it offers the buttons
\* again, and once that answer is 200 DecideAsync refuses every later request, which reads a
\* settled record, whoever else decides and however the answers and failures interleave.
THEOREM SecondDecisionNeedsFailure == Spec => []DecidesAgainOnlyAfterFailure
  <1>1. Init => VisitInv
    <2> SUFFICES ASSUME Init PROVE VisitInv
      OBVIOUS
    <2>1. DOMAIN calls = {} /\ DOMAIN screen = Sessions
      BY DEF Init
    <2>2. \A s \in Sessions : Here(s) = {}
      BY <2>1 DEF Here
    <2> QED
      BY <2>1, <2>2 DEF VisitInv, Visit, Accepted, Recorded
  <1>2. CallsInv /\ VisitInv => DecidesAgainOnlyAfterFailure
    <2> SUFFICES ASSUME CallsInv, VisitInv, NEW s \in Sessions,
                        NEW c \in Recorded(s), NEW d \in Recorded(s), c < d,
                        calls[c].told # "Failure"
                 PROVE  FALSE
      BY DEF DecidesAgainOnlyAfterFailure
    <2>1. /\ c \in Here(s) /\ IsRequest(calls[c])
          /\ d \in Here(s) /\ calls[d].at = "Answered" /\ calls[d].status = 200
      BY RecordedIsSettled DEF VisitInv, Recorded
    <2>2. calls[c].told = "Answer"
      BY <2>1 DEF VisitInv, Visit, IsRequest
    <2>3. Doomed(calls[d])
      BY <2>1, <2>2 DEF VisitInv, Visit, Accepted
    <2> QED
      BY <2>1, <2>3 DEF Doomed
  <1> QED
    BY <1>1, <1>2, ServiceInit, StoreNext, CallsNext, VisitNext, PTL DEF Spec

-----------------------------------------------------------------------------
(* The cache.                                                              *)

\* What was once true of approval i: its proposer and expiry always are, and if it was
\* settled it still is.
Copied(i, d) ==
    /\ d.proposedBy = Raised[i].proposedBy /\ d.expiresAt = Raised[i].expiresAt
    /\ d.state # "PendingApproval" => Settled(i)

IsQuery(i, q) ==
    /\ DOMAIN q = {"data", "failed", "fetch"}
    /\ q.data # None => Copied(i, q.data)
    /\ q.fetch.at = "Answered" => Copied(i, q.fetch.value)

CacheInv ==
    /\ DOMAIN detail = Sessions
    /\ \A s \in Sessions : DOMAIN detail[s] = Ids /\ \A i \in Ids : IsQuery(i, detail[s][i])

\* The ways a query is rewritten.
LEMMA FetchingQuery ==
    ASSUME NEW i, NEW q, IsQuery(i, q)
    PROVE  IsQuery(i, Fetching(q)) /\ IsQuery(i, Refresh(q)) /\ IsQuery(i, Restart(q))
  <1>1. IsQuery(i, Fetching(q))
    BY DEF IsQuery, Fetching, Sent
  <1> QED
    BY <1>1 DEF Refresh, Restart

LEMMA ArrivedQuery ==
    ASSUME NEW i, NEW q, IsQuery(i, q), q.fetch.at = "Answered"
    PROVE  IsQuery(i, Received(q)) /\ IsQuery(i, Failed(q))
  BY DEF IsQuery, Received, Failed, Idle

LEMMA ServedQuery ==
    ASSUME StoreInv, NEW i \in Ids, NEW q, IsQuery(i, q)
    PROVE  IsQuery(i, [q EXCEPT !.fetch = [at |-> "Answered", value |-> Response(store[i])]])
  <1>1. Copied(i, Response(store[i]))
    BY DEF StoreInv, AsRaised, Copied, Response, Settled
  <1> QED
    BY <1>1 DEF IsQuery

LEMMA QueryKept ==
    ASSUME Forward, NEW i \in Ids, NEW q, IsQuery(i, q)
    PROVE  IsQuery(i, q)'
  BY DEF Forward, IsQuery, Copied

LEMMA FreshQuery ==
    ASSUME NEW i
    PROVE  IsQuery(i, Fresh)
  BY DEF IsQuery, Fresh, Idle

\* A step that rewrites the queries of one session, well.
LEMMA RewriteKeepsCache ==
    ASSUME CacheInv, Forward, DOMAIN detail' = Sessions,
           \A s \in Sessions : DOMAIN detail'[s] = Ids,
           \A s \in Sessions, i \in Ids : IsQuery(i, detail'[s][i])
    PROVE  CacheInv'
  <1>1. ASSUME NEW s \in Sessions, NEW i \in Ids
        PROVE  IsQuery(i, detail[s][i])'
    <2>1. \A q : q = detail'[s][i] => IsQuery(i, q)'
      BY QueryKept
    <2> QED
      BY <2>1 DEF IsQuery, Copied, Settled
  <1> QED
    BY <1>1 DEF CacheInv

LEMMA OneQueryKeepsCache ==
    ASSUME CacheInv, Forward, NEW s \in Sessions, NEW i \in Ids, NEW q, IsQuery(i, q),
           detail' = [detail EXCEPT ![s][i] = q]
    PROVE  CacheInv'
  <1>1. /\ DOMAIN detail' = Sessions
        /\ \A t \in Sessions : DOMAIN detail'[t] = Ids
        /\ \A t \in Sessions, j \in Ids : detail'[t][j] = IF t = s /\ j = i THEN q ELSE detail[t][j]
    BY DEF CacheInv
  <1>2. ASSUME NEW t \in Sessions, NEW j \in Ids
        PROVE  IsQuery(j, detail'[t][j])
    BY <1>1 DEF CacheInv
  <1> QED
    BY <1>1, <1>2, RewriteKeepsCache

LEMMA CacheInit == Init => CacheInv
  <1> SUFFICES ASSUME Init PROVE CacheInv
    OBVIOUS
  <1>1. \A i : IsQuery(i, Fresh) /\ IsQuery(i, Fetching(Fresh))
    BY FreshQuery, FetchingQuery
  <1>2. /\ DOMAIN detail = Sessions /\ \A s \in Sessions : DOMAIN detail[s] = Ids
        /\ \A s \in Sessions, i \in Ids : detail[s][i] \in {Fresh, Fetching(Fresh)}
    BY DEF Init
  <1> QED
    BY <1>1, <1>2 DEF CacheInv

LEMMA CacheNext ==
    ASSUME StoreInv, CallsInv, CacheInv, [Next]_vars
    PROVE  CacheInv'
  <1>1. Forward
    BY StoreNext
  <1>2. ASSUME UNCHANGED detail
        PROVE  CacheInv'
    BY <1>1, <1>2, RewriteKeepsCache DEF CacheInv
  <1>3. ASSUME NEW s \in Sessions, NEW i \in Ids
        PROVE  IsQuery(i, detail[s][i])
    BY DEF CacheInv
  <1>4. ASSUME NEW s \in Sessions, NEW i \in Ids, Open(s, i)
        PROVE  CacheInv'
    <2>1. detail' = [detail EXCEPT ![s][i] = Refresh(detail[s][i])]
      BY <1>4 DEF Open
    <2> QED
      BY <1>1, <1>3, <2>1, FetchingQuery, OneQueryKeepsCache
  <1>5. ASSUME NEW s \in Sessions, NEW i \in Ids, FetchDetail(s, i)
        PROVE  CacheInv'
    <2> DEFINE q == detail[s][i]
               served == [q EXCEPT !.fetch = [at |-> "Answered", value |-> Response(store[i])]]
    <2>1. CASE ServeDetail(s, i)
      <3>1. detail' = [detail EXCEPT ![s][i] = served]
        BY <2>1 DEF ServeDetail
      <3>2. IsQuery(i, served)
        BY <1>3, ServedQuery
      <3> HIDE DEF served
      <3> QED
        BY <1>1, <3>1, <3>2, OneQueryKeepsCache
    <2>2. CASE DetailArrives(s, i)
      <3>1. q.fetch.at = "Answered" /\ \E r \in {Received(q), Failed(q)} :
                                         detail' = [detail EXCEPT ![s][i] = r]
        BY <2>2 DEF DetailArrives
      <3>2. IsQuery(i, Received(q)) /\ IsQuery(i, Failed(q))
        BY <1>3, <3>1, ArrivedQuery
      <3> QED
        BY <1>1, <3>1, <3>2, OneQueryKeepsCache
    <2> QED
      BY <1>5, <2>1, <2>2 DEF FetchDetail
  <1>6. ASSUME NEW s \in Sessions, Retry(s)
        PROVE  CacheInv'
    <2>1. ASSUME NEW i \in Ids, detail' = [detail EXCEPT ![s][i] = Restart(detail[s][i])]
          PROVE  CacheInv'
      BY <1>1, <1>3, <2>1, FetchingQuery, OneQueryKeepsCache
    <2> QED
      BY <1>2, <1>6, <2>1 DEF Retry
  <1>7. ASSUME NEW c \in DOMAIN calls, Answered(c)
        PROVE  CacheInv'
    <2>1. CASE \E s : Invalidate(s)
      <3>1. PICK s : Invalidate(s)
        BY <2>1
      <3>2. /\ DOMAIN detail' = Sessions
            /\ \A t \in Sessions : DOMAIN detail'[t] = Ids
            /\ \A t \in Sessions, i \in Ids :
                 detail'[t][i] \in {detail[t][i], Restart(detail[t][i])}
        BY <3>1 DEF Invalidate, CacheInv
      <3>3. ASSUME NEW t \in Sessions, NEW i \in Ids
            PROVE  IsQuery(i, detail'[t][i])
        BY <1>3, <3>2, FetchingQuery
      <3> QED
        BY <1>1, <3>2, <3>3, RewriteKeepsCache
    <2>2. CASE UNCHANGED detail
      BY <1>2, <2>2
    <2> QED
      BY <1>7, <2>1, <2>2 DEF Answered
  <1> QED
    BY <1>2, <1>4, <1>5, <1>6, <1>7
       DEF Next, vars, User, Leave, Decide, FetchList, DecideElsewhere, Decision, ServiceRead,
           ServiceDecide, Broken, Tick

\* evaluateApproval blocks nothing that DecideAsync would allow, however old the approval in
\* the session's cache and however wrong its clock: what the screen holds against a decision
\* is against it in the store too, by the later of the two clocks.
THEOREM BlocksNothingAllowed == Spec => []BlockedIsRefused
  <1>1. StoreInv /\ CacheInv => BlockedIsRefused
    <2> SUFFICES ASSUME StoreInv, CacheInv, NEW s \in Sessions, NEW i \in Ids,
                        DetailView(s, i) = "ready",
                        evaluateApproval(s, detail[s][i].data, Clock(s)) # None,
                        IsApprover[s], Identity[s] # None,
                        NEW c \in Commands(Identity[s])
                 PROVE  TransitionRefusal(store[i], c, IF Clock(s) > now THEN Clock(s) ELSE now)
                          # "None"
      BY DEF BlockedIsRefused
    <2> DEFINE d == detail[s][i].data
               a == store[i]
               t == IF Clock(s) > now THEN Clock(s) ELSE now
    <2>1. Copied(i, d)
      BY DEF DetailView, View, CacheInv, IsQuery
    <2>2. AsRaised(i, a) /\ a.expiresAt \in Nat
      BY DEF StoreInv, AsRaised, ApprovalRecord
    <2>3. t \in Int /\ t >= Clock(s) /\ Clock(s) \in Int
      BY ScreensAssumption DEF Clock, StoreInv
    <2>4. c.by = Identity[s] /\ c.trigger # "Expire"
      BY DEF Commands, ApproveCommand, RejectCommand
    <2>5. d.state # "PendingApproval" \/ d.proposedBy = Identity[s] \/ d.expiresAt <= Clock(s)
      BY DEF evaluateApproval
    <2>6. CASE a.state # "PendingApproval"
      BY <2>6, SettledIsRefused
    <2>7. CASE a.state = "PendingApproval"
      <3>1. a.proposedBy = Identity[s] \/ a.expiresAt <= Clock(s)
        BY <2>1, <2>2, <2>5, <2>7 DEF Copied, AsRaised, Settled
      <3>2. TransitionRefusal(a, c, t) = DecisionRefusal(a, c, t)
        BY <2>4, <2>7 DEF TransitionRefusal, FromPending
      <3>3. CASE a.expiresAt <= Clock(s)
        <4>1. HasPassedExpiry(a, t)
          BY <2>2, <2>3, <3>3 DEF HasPassedExpiry
        <4> QED
          BY <3>2, <4>1 DEF DecisionRefusal
      <3>4. CASE a.proposedBy = Identity[s]
        <4>1. IsSameIdentity(c.by, a.proposedBy)
          BY <2>4, <3>4 DEF IsSameIdentity
        <4> QED
          BY <3>2, <4>1 DEF DecisionRefusal
      <3> QED
        BY <3>1, <3>3, <3>4
    <2> QED
      BY <2>6, <2>7
  <1> QED
    BY <1>1, ServiceInit, CacheInit, StoreNext, CallsNext, CacheNext, PTL DEF Spec

=============================================================================
