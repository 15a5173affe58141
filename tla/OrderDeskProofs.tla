--------------------------- MODULE OrderDeskProofs ---------------------------
(***************************************************************************)
(* Proofs about OrderDesk, for any tickets, approvals, deciders and tokens *)
(* and any number of requests.                                             *)
(***************************************************************************)
EXTENDS OrderDesk, TLAPS

-----------------------------------------------------------------------------
(* Requests: how one looks, and what a step leaves of those made before.   *)

IsCall(x) ==
    /\ DOMAIN x = {"kind", "body", "at", "answer", "desk", "panel", "overlap"}
    /\ x.kind \in {"Propose", "Look", "Execute", "Over"}
    /\ x.at \in {"Sent", "Answered", "Over"}
    /\ x.desk \in BOOLEAN /\ x.panel \in BOOLEAN /\ x.overlap \in BOOLEAN
    /\ x.kind = "Over" => ~x.desk
    /\ x.kind = "Propose" => x.body \in Tickets
    /\ x.kind = "Look" => x.body \in Ids

Requests ==
    /\ \E n \in Nat : calls = [k \in 1..n |-> calls[k]]
    /\ \A k \in DOMAIN calls : IsCall(calls[k])

\* Request x, seen later as y: it is over, or it is the same request.
Later(x, y) ==
    /\ IsCall(y)
    /\ y.kind # "Over" =>
         /\ y.kind = x.kind /\ y.body = x.body
         /\ y.desk => x.desk
         /\ x.overlap => y.overlap
         /\ y.at = "Sent" => x.at = "Sent"

\* The same, and its answer has not changed either.
Waits(x, y) == Later(x, y) /\ (y.kind # "Over" => y.at = x.at /\ y.answer = x.answer)

\* A step makes request x, answers request c, or does neither.
Asks(x) ==
    \E n \in Nat \ DOMAIN calls :
        /\ DOMAIN calls' = DOMAIN calls \cup {n} /\ calls'[n] = x
        /\ \A k \in DOMAIN calls : Waits(calls[k], calls'[k])

Serves(c, answer) ==
    /\ DOMAIN calls' = DOMAIN calls
    /\ \A k \in DOMAIN calls \ {c} : Waits(calls[k], calls'[k])
    /\ Later(calls[c], calls'[c]) /\ calls'[c].at # "Sent"
    /\ calls'[c].kind # "Over" => calls'[c].at = "Answered" /\ calls'[c].answer = answer

Goes == DOMAIN calls' = DOMAIN calls /\ \A k \in DOMAIN calls : Waits(calls[k], calls'[k])

LEMMA KeptCall ==
    ASSUME NEW x, IsCall(x)
    PROVE  IsCall(Kept(x)) /\ (Kept(x) = x \/ (Kept(x) = Over /\ ~x.desk /\ x.at # "Sent"))
  BY DEF IsCall, Kept, Over

\* The two ways a request is rewritten.
LEMMA Unmounted ==
    ASSUME NEW x, IsCall(x)
    PROVE  LET y == [x EXCEPT !.desk = FALSE, !.panel = FALSE]
           IN  /\ IsCall(y) /\ y.kind = x.kind /\ y.body = x.body /\ y.at = x.at
               /\ y.answer = x.answer /\ ~y.desk /\ y.overlap = x.overlap
  BY DEF IsCall

LEMMA Answered ==
    ASSUME NEW x, IsCall(x), NEW answer
    PROVE  LET y == [x EXCEPT !.at = "Answered", !.answer = answer]
           IN  /\ IsCall(y) /\ y.kind = x.kind /\ y.body = x.body /\ y.at = "Answered"
               /\ y.answer = answer /\ y.desk = x.desk /\ y.overlap = x.overlap
  BY DEF IsCall

LEMMA AppendTo ==
    ASSUME NEW n \in Nat, NEW s, s = [k \in 1..n |-> s[k]], NEW x
    PROVE  LET t == Append(s, x)
           IN  t = [k \in 1..n+1 |-> t[k]] /\ t[n+1] = x /\ \A k \in 1..n : t[k] = s[k]
  <1> DEFINE S == {s[k] : k \in 1..n} \cup {x}
  <1>1. s \in [1..n -> S]
    OBVIOUS
  <1>2. s \in Seq(S) /\ Len(s) = n
    BY <1>1
  <1>3. x \in S
    OBVIOUS
  <1> HIDE DEF S
  <1> QED
    BY <1>2, <1>3

LEMMA AddAsks ==
    ASSUME Requests, NEW x, IsCall(x), NEW before, before = [k \in DOMAIN calls |-> before[k]],
           \A k \in DOMAIN calls : Waits(calls[k], before[k]), Add(x, before)
    PROVE  /\ Requests' /\ Asks(x)
           /\ \A k \in DOMAIN calls : calls'[k] = before[k]
  <1>1. PICK n \in Nat : calls = [k \in 1..n |-> calls[k]]
    BY DEF Requests
  <1>2. DOMAIN calls = 1..n
    BY <1>1
  <1>3. /\ calls' = [k \in 1..n+1 |-> calls'[k]] /\ calls'[n+1] = x
        /\ \A k \in 1..n : calls'[k] = before[k]
    BY <1>2, AppendTo DEF Add
  <1>4. n + 1 \in Nat \ DOMAIN calls /\ DOMAIN calls' = DOMAIN calls \cup {n + 1}
    BY <1>2, <1>3
  <1>5. \A k \in DOMAIN calls' : IsCall(calls'[k])
    BY <1>2, <1>3, <1>4 DEF Waits, Later
  <1> QED
    BY <1>2, <1>3, <1>4, <1>5 DEF Requests, Asks

LEMMA ProposeAsks ==
    ASSUME Requests, NEW t \in Tickets, Propose(t)
    PROVE  /\ Requests' /\ Asks(Call("Propose", t))
           /\ \A k \in DOMAIN calls' : calls'[k].kind = "Execute" => calls'[k].overlap
  <1> DEFINE before == [c \in DOMAIN calls |->
                          [calls[c] EXCEPT !.overlap = @ \/ calls[c].kind = "Execute"]]
             x == Call("Propose", t)
  <1>1. IsCall(x) /\ x.kind = "Propose"
    BY DEF Propose, Call, IsCall
  <1>2. ASSUME NEW k \in DOMAIN calls
        PROVE  Waits(calls[k], before[k]) /\ (before[k].kind = "Execute" => before[k].overlap)
    <2>1. IsCall(calls[k])
      BY DEF Requests
    <2>2. before[k] = [calls[k] EXCEPT !.overlap = calls[k].overlap \/ calls[k].kind = "Execute"]
      OBVIOUS
    <2> HIDE DEF before
    <2> QED
      BY <2>1, <2>2 DEF IsCall, Waits, Later
  <1>3. Add(x, before)
    BY DEF Propose
  <1>4. before = [k \in DOMAIN calls |-> before[k]]
    OBVIOUS
  <1> HIDE DEF before, x
  <1>5. Requests' /\ Asks(x) /\ \A k \in DOMAIN calls : calls'[k] = before[k]
    BY <1>1, <1>2, <1>3, <1>4, AddAsks
  <1>6. \A k \in DOMAIN calls' : calls'[k].kind = "Execute" => calls'[k].overlap
    BY <1>1, <1>2, <1>5 DEF Asks
  <1> QED
    BY <1>5, <1>6 DEF x

LEMMA WaitsSame == ASSUME Requests PROVE \A k \in DOMAIN calls : Waits(calls[k], calls[k])
  BY DEF Requests, Waits, Later

LEMMA LookAsks ==
    ASSUME Requests, NEW i \in Ids, Look(i)
    PROVE  Requests' /\ Asks(Call("Look", i)) /\ \A k \in DOMAIN calls : calls'[k] = calls[k]
  <1>1. IsCall(Call("Look", i))
    BY DEF Call, IsCall
  <1>2. calls = [k \in DOMAIN calls |-> calls[k]]
    BY DEF Requests
  <1> QED
    BY <1>1, <1>2, WaitsSame, AddAsks DEF Look

LEMMA ExecuteAsks ==
    ASSUME Requests, submitting \in BOOLEAN, NEW a, Execute(a)
    PROVE  LET x == Call("Execute", [proposal |-> result.proposal, approval |-> a])
           IN  Requests' /\ Asks(x) /\ \A k \in DOMAIN calls : calls'[k] = calls[k]
  <1>1. IsCall(Call("Execute", [proposal |-> result.proposal, approval |-> a]))
    BY DEF Call, IsCall
  <1>2. calls = [k \in DOMAIN calls |-> calls[k]]
    BY DEF Requests
  <1> QED
    BY <1>1, <1>2, WaitsSame, AddAsks DEF Execute

LEMMA UnmountGoes ==
    ASSUME Requests, NEW requests, DOMAIN requests = DOMAIN calls,
           \A k \in DOMAIN calls :
               requests[k] \in {calls[k], [calls[k] EXCEPT !.at = "Answered"]},
           Unmount(requests)
    PROVE  Requests' /\ Goes /\ \A k \in DOMAIN calls : ~calls'[k].desk
  <1>1. PICK n \in Nat : calls = [k \in 1..n |-> calls[k]]
    BY DEF Requests
  <1>2. DOMAIN calls = 1..n /\ DOMAIN calls' = 1..n
    BY <1>1 DEF Unmount
  <1>3. ASSUME NEW k \in DOMAIN calls PROVE Waits(calls[k], calls'[k]) /\ ~calls'[k].desk
    <2> DEFINE x == requests[k]
               y == [x EXCEPT !.desk = FALSE, !.panel = FALSE]
    <2>1. IsCall(calls[k]) /\ x \in {calls[k], [calls[k] EXCEPT !.at = "Answered"]}
      BY DEF Requests
    <2> HIDE DEF x
    <2>2. /\ IsCall(x) /\ x.kind = calls[k].kind /\ x.body = calls[k].body
          /\ x.overlap = calls[k].overlap /\ x.answer = calls[k].answer
          /\ x.at \in {calls[k].at, "Answered"}
      BY <2>1 DEF IsCall
    <2>3. /\ IsCall(y) /\ ~y.desk /\ y.kind = calls[k].kind /\ y.body = calls[k].body
          /\ y.overlap = calls[k].overlap /\ y.answer = calls[k].answer
          /\ y.at \in {calls[k].at, "Answered"}
      BY <2>2, Unmounted
    <2>4. calls'[k] = Kept(y)
      BY DEF Unmount, x
    <2> HIDE DEF y
    <2>5. CASE y.at = "Sent"
      BY <2>3, <2>4, <2>5, KeptCall DEF Waits, Later
    <2>6. CASE y.at # "Sent"
      <3>1. Kept(y) = Over
        BY <2>3, <2>6 DEF Kept
      <3> QED
        BY <2>4, <3>1 DEF Waits, Later, Over, IsCall
    <2> QED
      BY <2>5, <2>6
  <1>4. calls' = [k \in 1..n |-> calls'[k]]
    BY <1>2 DEF Unmount
  <1> QED
    BY <1>2, <1>3, <1>4 DEF Requests, Goes, Waits, Later

LEMMA LeaveGoes ==
    ASSUME Requests, Leave
    PROVE  Requests' /\ Goes /\ \A k \in DOMAIN calls : ~calls'[k].desk
  BY UnmountGoes DEF Leave

LEMMA UndrawableGoes ==
    ASSUME Requests, NEW c \in DOMAIN calls, NEW answer,
           NEW left \in {calls[c], [calls[c] EXCEPT !.at = "Answered"]}, Undrawable(c, left, answer)
    PROVE  Requests' /\ Goes /\ \A k \in DOMAIN calls : ~calls'[k].desk
  <1> DEFINE requests == [calls EXCEPT ![c] = left]
  <1>1. DOMAIN requests = DOMAIN calls /\ Unmount(requests)
    BY DEF Undrawable
  <1>2. \A k \in DOMAIN calls : requests[k] = IF k = c THEN left ELSE calls[k]
    BY DEF Requests
  <1> HIDE DEF requests
  <1> QED
    BY <1>1, <1>2, UnmountGoes

LEMMA AnswerServes ==
    ASSUME Requests, NEW c \in DOMAIN calls, calls[c].at = "Sent", NEW answer, Answer(c, answer)
    PROVE  Requests' /\ Serves(c, answer)
  <1>1. PICK n \in Nat : calls = [k \in 1..n |-> calls[k]]
    BY DEF Requests
  <1> DEFINE y == [calls[c] EXCEPT !.at = "Answered", !.answer = answer]
  <1>2. IsCall(y) /\ Later(calls[c], y) /\ y.at = "Answered" /\ y.answer = answer
    <2>1. IsCall(calls[c])
      BY DEF Requests
    <2> QED
      BY <2>1, Answered DEF IsCall, Later
  <1>3. calls' = [calls EXCEPT ![c] = Kept(y)]
    BY DEF Answer
  <1> HIDE DEF y
  <1>4. /\ DOMAIN calls = 1..n /\ calls' = [k \in 1..n |-> calls'[k]] /\ calls'[c] = Kept(y)
        /\ \A k \in DOMAIN calls \ {c} : calls'[k] = calls[k]
    BY <1>1, <1>3
  <1>5. Later(calls[c], calls'[c]) /\ calls'[c].at # "Sent"
    BY <1>2, <1>4, KeptCall DEF Later, Over
  <1>6. calls'[c].kind # "Over" => calls'[c].at = "Answered" /\ calls'[c].answer = answer
    BY <1>2, <1>4, KeptCall DEF Over
  <1>7. \A k \in DOMAIN calls' : IsCall(calls'[k])
    BY <1>4, <1>5 DEF Requests, Later
  <1> QED
    BY <1>4, <1>5, <1>6, <1>7, WaitsSame DEF Requests, Serves

LEMMA DoneGoes ==
    ASSUME Requests, NEW c \in DOMAIN calls, NEW unmounts \in BOOLEAN,
           NEW left \in {calls[c], [calls[c] EXCEPT !.at = "Answered"]}, Done(c, left, unmounts)
    PROVE  /\ Requests' /\ Goes /\ ~calls'[c].desk
  <1>1. PICK n \in Nat : calls = [k \in 1..n |-> calls[k]]
    BY DEF Requests
  <1>2. DOMAIN calls = 1..n /\ DOMAIN calls' = 1..n /\ calls' = [k \in 1..n |-> calls'[k]]
    BY <1>1 DEF Done
  <1>3. Waits(calls[c], calls'[c]) /\ ~calls'[c].desk
    <2> DEFINE y == [left EXCEPT !.desk = FALSE, !.panel = FALSE]
    <2>1. IsCall(calls[c]) /\ IsCall(left)
      BY DEF Requests, IsCall
    <2>2. /\ IsCall(y) /\ ~y.desk /\ y.kind = calls[c].kind /\ y.body = calls[c].body
          /\ y.overlap = calls[c].overlap /\ y.answer = calls[c].answer
          /\ y.at = left.at /\ left.at \in {calls[c].at, "Answered"}
      BY <2>1, Unmounted DEF IsCall
    <2>3. calls'[c] = Kept(y)
      BY DEF Done
    <2> HIDE DEF y
    <2>4. CASE y.at = "Sent"
      BY <2>2, <2>3, <2>4, KeptCall DEF Waits, Later
    <2>5. CASE y.at # "Sent"
      <3>1. Kept(y) = Over
        BY <2>2, <2>5 DEF Kept
      <3> QED
        BY <2>3, <3>1 DEF Waits, Later, Over, IsCall
    <2> QED
      BY <2>4, <2>5
  <1>4. ASSUME NEW k \in DOMAIN calls \ {c} PROVE Waits(calls[k], calls'[k])
    <2> DEFINE y == [calls[k] EXCEPT !.panel = calls[k].panel /\ ~unmounts]
    <2>1. IsCall(calls[k])
      BY DEF Requests
    <2>2. IsCall(y) /\ Waits(calls[k], y)
      BY <2>1 DEF IsCall, Waits, Later
    <2>3. calls'[k] = Kept(y)
      BY DEF Done
    <2> HIDE DEF y
    <2> QED
      BY <2>2, <2>3, KeptCall DEF Waits, Later, Over
  <1> QED
    BY <1>2, <1>3, <1>4 DEF Requests, Goes, Waits, Later

-----------------------------------------------------------------------------
(* Proposals: where one can be, and that its correlation id tells which it *)
(* is.                                                                     *)

Answering == {k \in DOMAIN calls : calls[k].kind = "Propose" /\ calls[k].at = "Answered"
                                   /\ executable(calls[k].answer) /\ calls[k].answer # Error}
Executing == {k \in DOMAIN calls : calls[k].kind = "Execute"}

Stored == {proposals[i] : i \in OrderIds} \ {None}
Displayed == IF executable(result) THEN {result.proposal} ELSE {}
InAnswers == {calls[k].answer.proposal : k \in Answering}
InBodies == {calls[k].body.proposal : k \in Executing}
InFills == {f.proposal : f \in fills} \cup {f.request.proposal : f \in fills}

\* Every proposal the services or the desk have anywhere.
Known == Stored \cup Displayed \cup InAnswers \cup InBodies \cup InFills

Proposer == IF token = None THEN Anonymous ELSE token

\* Request k has yet to be given its proposal.
Unserved(k) == calls[k].kind = "Propose" /\ calls[k].at = "Sent"

\* A proposal's correlation id is the number of the request that it was made for, which was
\* served once; so it names the proposal.
Traced ==
    /\ \A p \in Known : /\ p.correlation \in DOMAIN calls /\ ~Unserved(p.correlation)
                         /\ p.id \in OrderIds /\ p.proposedBy = Proposer
    /\ \A p, q \in Known : p.correlation = q.correlation => p = q

LEMMA AsksMoves ==
    ASSUME NEW x, Asks(x), x.at = "Sent"
    PROVE  /\ InAnswers' \subseteq InAnswers
           /\ InBodies' \subseteq InBodies \cup (IF x.kind = "Execute" THEN {x.body.proposal} ELSE {})
           /\ \A k \in DOMAIN calls : k \in DOMAIN calls' /\ (Unserved(k)' => Unserved(k))
  <1>1. PICK n \in Nat \ DOMAIN calls :
          /\ DOMAIN calls' = DOMAIN calls \cup {n} /\ calls'[n] = x
          /\ \A k \in DOMAIN calls : Waits(calls[k], calls'[k])
    BY DEF Asks
  <1>2. ASSUME NEW k \in Answering' PROVE k \in Answering /\ calls'[k].answer = calls[k].answer
    BY <1>1 DEF Answering, Waits, Later
  <1>3. ASSUME NEW k \in Executing', k # n PROVE k \in Executing /\ calls'[k].body = calls[k].body
    BY <1>1, <1>3 DEF Executing, Waits, Later
  <1>4. n \in Executing' => x.kind = "Execute"
    BY <1>1 DEF Executing
  <1>5. \A k \in DOMAIN calls : Unserved(k)' => Unserved(k)
    BY <1>1 DEF Unserved, Waits, Later
  <1>6. InAnswers' \subseteq InAnswers
    BY <1>2 DEF InAnswers
  <1>7. InBodies' \subseteq InBodies \cup (IF x.kind = "Execute" THEN {x.body.proposal} ELSE {})
    BY <1>1, <1>3, <1>4 DEF InBodies
  <1> QED
    BY <1>1, <1>5, <1>6, <1>7

LEMMA GoesMoves ==
    ASSUME Goes
    PROVE  /\ InAnswers' \subseteq InAnswers /\ InBodies' \subseteq InBodies
           /\ \A k \in DOMAIN calls : k \in DOMAIN calls' /\ (Unserved(k)' => Unserved(k))
  <1>1. ASSUME NEW k \in Answering' PROVE k \in Answering /\ calls'[k].answer = calls[k].answer
    BY DEF Goes, Answering, Waits, Later
  <1>2. ASSUME NEW k \in Executing' PROVE k \in Executing /\ calls'[k].body = calls[k].body
    BY DEF Goes, Executing, Waits, Later
  <1>3. \A k \in DOMAIN calls : Unserved(k)' => Unserved(k)
    BY DEF Goes, Unserved, Waits, Later
  <1> QED
    BY <1>1, <1>2, <1>3 DEF InAnswers, InBodies, Goes

LEMMA ServesMoves ==
    ASSUME NEW c \in DOMAIN calls, NEW answer, Serves(c, answer)
    PROVE  /\ InAnswers' \subseteq InAnswers \cup
                (IF calls[c].kind = "Propose" /\ executable(answer) /\ answer # Error
                 THEN {answer.proposal} ELSE {})
           /\ InBodies' \subseteq InBodies
           /\ ~Unserved(c)'
           /\ \A k \in DOMAIN calls : k \in DOMAIN calls' /\ (Unserved(k)' => Unserved(k))
  <1>1. ASSUME NEW k \in Answering', k # c PROVE k \in Answering /\ calls'[k].answer = calls[k].answer
    BY <1>1 DEF Serves, Answering, Waits, Later
  <1>2. c \in Answering' =>
          calls[c].kind = "Propose" /\ executable(answer) /\ answer # Error /\ calls'[c].answer = answer
    BY DEF Serves, Answering, Later, executable
  <1>3. ASSUME NEW k \in Executing' PROVE k \in Executing /\ calls'[k].body = calls[k].body
    BY DEF Serves, Executing, Waits, Later
  <1>4. \A k \in DOMAIN calls : Unserved(k)' => Unserved(k)
    BY DEF Serves, Unserved, Waits, Later
  <1>5. ~Unserved(c)'
    BY DEF Serves, Unserved
  <1> QED
    BY <1>1, <1>2, <1>3, <1>4, <1>5 DEF InAnswers, InBodies, Serves

LEMMA TracedKept ==
    ASSUME Traced, Known' \subseteq Known, token' = token,
           \A k \in DOMAIN calls : k \in DOMAIN calls' /\ (Unserved(k)' => Unserved(k))
    PROVE  Traced'
  BY DEF Traced, Proposer

-----------------------------------------------------------------------------
(* What is filled.                                                         *)

Typed ==
    /\ now \in Nat /\ submitting \in BOOLEAN /\ busy \in BOOLEAN
    /\ proposals = [i \in OrderIds |-> proposals[i]]

\* While the service holds a proposal that was filled, it holds its mark as well.
Marked ==
    \A f \in fills :
        /\ f.proposal # None
        /\ \A i \in OrderIds : proposals[i] = f.proposal => f.proposal.id \in executed

RouteInv == Typed /\ Requests /\ Traced /\ Marked /\ FilledAsShown /\ RetryNeverFillsTwice

\* What the desk does among its own: nothing is proposed or filled by it.
LEMMA DeskOnly ==
    ASSUME RouteInv, Typed', Requests', UNCHANGED <<token, proposals, executed, fills>>,
           Displayed' \subseteq Known, InAnswers' \subseteq InAnswers, InBodies' \subseteq Known,
           \A k \in DOMAIN calls : k \in DOMAIN calls' /\ (Unserved(k)' => Unserved(k))
    PROVE  RouteInv'
  <1>1. Stored' = Stored /\ InFills' = InFills
    BY DEF Stored, InFills
  <1>2. Known' \subseteq Known
    BY <1>1 DEF Known
  <1>3. Traced'
    BY <1>2, TracedKept DEF RouteInv
  <1> QED
    BY <1>3 DEF RouteInv, Marked, FilledAsShown, RetryNeverFillsTwice

LEMMA NoCalls == ASSUME Init PROVE DOMAIN calls = {}
  <1>1. calls \in Seq({}) /\ Len(calls) = 0
    BY DEF Init
  <1> QED
    BY <1>1

LEMMA RouteInit == Init => RouteInv
  <1> SUFFICES ASSUME Init PROVE RouteInv
    OBVIOUS
  <1>a. DOMAIN calls = {}
    BY NoCalls
  <1>b. proposals = [i \in OrderIds |-> proposals[i]]
    BY DEF Init
  <1>1. Typed /\ DOMAIN calls = {}
    BY <1>a, <1>b DEF Init, Typed
  <1>2. Requests
    <2>1. calls = [k \in 1..0 |-> calls[k]]
      BY DEF Init
    <2> QED
      BY <1>1, <2>1 DEF Requests
  <1>3. Known = {}
    BY <1>1 DEF Init, Known, Stored, Displayed, executable, InAnswers, Answering, InBodies, Executing,
                InFills
  <1> QED
    BY <1>1, <1>2, <1>3 DEF Init, RouteInv, Traced, Marked, FilledAsShown, RetryNeverFillsTwice

\* A step that leaves the proposals and what is known of them alone.
LEMMA RouteSame ==
    ASSUME RouteInv, now' \in Nat \/ now' = now,
           UNCHANGED <<token, proposals, executed, fills, submitting, result, busy, calls>>
    PROVE  RouteInv'
  <1>a. /\ Typed /\ Requests /\ InBodies \subseteq Known /\ Displayed \subseteq Known
    BY DEF RouteInv, Known
  <1>1. /\ Displayed' = Displayed /\ InAnswers' = InAnswers /\ InBodies' = InBodies /\ Typed'
        /\ \A k \in DOMAIN calls : Unserved(k)' = Unserved(k)
    BY <1>a DEF Displayed, executable, InAnswers, Answering, InBodies, Executing, Typed, Unserved
  <1>2. Requests'
    BY <1>a DEF Requests
  <1> QED
    BY <1>a, <1>1, <1>2, DeskOnly

LEMMA ClickRoute == ASSUME RouteInv, Click PROVE RouteInv'
  <1>a. Typed /\ Requests /\ InBodies \subseteq Known /\ Displayed \subseteq Known
    BY DEF RouteInv, Known
  <1>1. ASSUME NEW t \in Tickets, Propose(t) PROVE RouteInv'
    <2>1. Requests' /\ Asks(Call("Propose", t))
      BY <1>1, <1>a, ProposeAsks
    <2>2. Call("Propose", t).at = "Sent" /\ Call("Propose", t).kind = "Propose"
      BY DEF Call
    <2>3. Typed' /\ Displayed' = Displayed /\ UNCHANGED <<token, proposals, executed, fills>>
      BY <1>1, <1>a DEF Propose, services, Typed, Displayed, panel
    <2> QED
      BY <1>a, <2>1, <2>2, <2>3, AsksMoves, DeskOnly
  <1>2. ASSUME NEW i \in Ids, Look(i) PROVE RouteInv'
    <2>1. Requests' /\ Asks(Call("Look", i))
      BY <1>2, <1>a, LookAsks
    <2>2. Call("Look", i).at = "Sent" /\ Call("Look", i).kind = "Look"
      BY DEF Call
    <2>3. Typed' /\ Displayed' = Displayed /\ UNCHANGED <<token, proposals, executed, fills>>
      BY <1>2, <1>a DEF Look, services, Typed, Displayed
    <2> QED
      BY <1>a, <2>1, <2>2, <2>3, AsksMoves, DeskOnly
  <1>3. ASSUME NEW a, Execute(a) PROVE RouteInv'
    <2> DEFINE x == Call("Execute", [proposal |-> result.proposal, approval |-> a])
    <2>1. Requests' /\ Asks(x)
      BY <1>3, <1>a, ExecuteAsks DEF Typed
    <2>2. x.at = "Sent" /\ x.body.proposal = result.proposal
      BY DEF Call
    <2>3. Typed' /\ Displayed' = Displayed /\ UNCHANGED <<token, proposals, executed, fills>>
      BY <1>3, <1>a DEF Execute, services, Typed, Displayed
    <2>4. result.proposal \in Known
      BY <1>3, <1>a DEF Execute, Displayed
    <2> HIDE DEF x
    <2> QED
      BY <1>a, <2>1, <2>2, <2>3, <2>4, AsksMoves, DeskOnly
  <1>4. CASE Leave
    <2>1. Requests' /\ Goes
      BY <1>4, <1>a, LeaveGoes
    <2>2. Typed' /\ Displayed' = {} /\ UNCHANGED <<token, proposals, executed, fills>>
      BY <1>4, <1>a DEF Leave, Unmount, services, Typed, Displayed, executable
    <2> QED
      BY <1>a, <2>1, <2>2, GoesMoves, DeskOnly
  <1>5. CASE TryAgain
    <2>1. UNCHANGED <<now, token, proposals, executed, fills, submitting, result, busy, calls>>
      BY <1>5 DEF TryAgain, services, route, panel
    <2> QED
      BY <2>1, RouteSame
  <1> QED
    BY <1>1, <1>2, <1>3, <1>4, <1>5 DEF Click

LEMMA SettlesUnserved ==
    ASSUME NEW c, NEW left, NEW answer, Settles(c, left, answer)
    PROVE  UNCHANGED services
  BY DEF Settles, ProposalSettles, Drawn, Undrawable, Unmount, LookSettles, ExecutionSettles

LEMMA SettlesRoute ==
    ASSUME RouteInv, NEW c \in DOMAIN calls, NEW answer,
           answer = Error \/ (calls[c].at = "Answered" /\ answer = calls[c].answer),
           NEW left \in {calls[c], [calls[c] EXCEPT !.at = "Answered"]}, Settles(c, left, answer)
    PROVE  RouteInv'
  <1>a. Typed /\ Requests /\ InBodies \subseteq Known /\ Displayed \subseteq Known /\ InAnswers \subseteq Known
    BY DEF RouteInv, Known
  <1>b. UNCHANGED <<now, token, proposals, executed, fills>>
    BY SettlesUnserved DEF services
  <1>1. CASE calls[c].kind = "Propose" /\ Drawn(c, left, answer)
    <2>1. PICK unmounts \in BOOLEAN : Done(c, left, unmounts)
      BY <1>1 DEF Drawn
    <2>2. Requests' /\ Goes
      BY <2>1, <1>a, DoneGoes
    <2>3. Typed'
      BY <1>1, <1>a, <1>b DEF Drawn, Typed
    <2>4. Displayed' \subseteq Known
      <3>1. CASE answer = Error
        BY <1>1, <3>1 DEF Drawn, Displayed, executable
      <3>2. CASE answer # Error
        <4>1. result' = answer
          BY <1>1, <3>2 DEF Drawn
        <4>2. executable(answer) => c \in Answering
          BY <1>1, <3>2 DEF Answering
        <4> QED
          BY <4>1, <4>2, <3>2, <1>a DEF Displayed, InAnswers, executable
      <3> QED
        BY <3>1, <3>2
    <2> QED
      BY <1>a, <1>b, <2>2, <2>3, <2>4, GoesMoves, DeskOnly
  <1>2. CASE LookSettles(c, left, answer) \/ ExecutionSettles(c, left, answer)
    <2>1. Done(c, left, FALSE) /\ UNCHANGED <<submitting, result>>
      BY <1>2 DEF LookSettles, ExecutionSettles
    <2>2. Requests' /\ Goes
      BY <2>1, <1>a, DoneGoes
    <2>3. Typed' /\ Displayed' = Displayed
      BY <1>2, <2>1, <1>a, <1>b DEF LookSettles, ExecutionSettles, panel, Typed, Displayed, executable
    <2> QED
      BY <1>a, <1>b, <2>2, <2>3, GoesMoves, DeskOnly
  <1>3. CASE Undrawable(c, left, answer)
    <2>1. Requests' /\ Goes
      BY <1>3, <1>a, UndrawableGoes
    <2>2. Typed' /\ Displayed' = {}
      BY <1>3, <1>a, <1>b DEF Undrawable, Unmount, Typed, Displayed, executable
    <2> QED
      BY <1>a, <1>b, <2>1, <2>2, GoesMoves, DeskOnly
  <1> QED
    BY <1>1, <1>2, <1>3 DEF Settles, ProposalSettles

LEMMA ProposalFields ==
    ASSUME NEW o, NEW quotes, NEW by, NEW c
    PROVE  LET p == Proposal(o, quotes, by, c)
           IN  p.id = o.id /\ p.correlation = c /\ p.proposedBy = by
  BY DEF Proposal

\* A new proposal bears the number of its request, which no other bears.
LEMMA ServeProposalRoute ==
    ASSUME RouteInv, NEW c \in DOMAIN calls, ServeProposal(c), UNCHANGED <<submitting, result, busy>>
    PROVE  RouteInv'
  <1> DEFINE t == calls[c].body
             p == Proposal(t.order, t.quotes, Proposer, c)
  <1>a. Typed /\ Requests /\ InBodies \subseteq Known /\ Displayed \subseteq Known
    BY DEF RouteInv, Known
  <1>b. /\ calls[c].kind = "Propose" /\ calls[c].at = "Sent" /\ Displayed' = Displayed
        /\ UNCHANGED <<now, token, executed, fills>>
    BY DEF ServeProposal, Displayed
  <1>1. CASE (Answer(c, Error) \/ Answer(c, Halt)) /\ UNCHANGED proposals
    <2>1. PICK answer \in {Error, Halt} : Answer(c, answer)
      BY <1>1
    <2>2. Requests' /\ Serves(c, answer)
      BY <2>1, <1>a, <1>b, AnswerServes
    <2>3. ~(executable(answer) /\ answer # Error)
      BY <2>1 DEF executable
    <2>4. InAnswers' \subseteq InAnswers /\ InBodies' \subseteq InBodies
      BY <2>2, <2>3, ServesMoves
    <2>5. Typed'
      BY <1>1, <1>a, <1>b DEF Typed
    <2> QED
      BY <1>1, <1>a, <1>b, <2>2, <2>4, <2>5, ServesMoves, DeskOnly
  <1>2. CASE proposals' = [proposals EXCEPT ![t.order.id] = p] /\ Answer(c, Proposed(p))
    <2>1. Requests' /\ Serves(c, Proposed(p))
      BY <1>2, <1>a, <1>b, AnswerServes
    <2>2. t \in Tickets /\ t.order.id \in OrderIds
      BY <1>a, <1>b DEF Requests, IsCall, OrderIds
    <2>3. p.id \in OrderIds /\ p.correlation = c /\ p.proposedBy = Proposer
      BY <2>2, ProposalFields
    <2> HIDE DEF p, t
    <2>4. Proposed(p).proposal = p
      BY DEF Proposed
    <2>5. InAnswers' \subseteq InAnswers \cup {p} /\ InBodies' \subseteq InBodies
      BY <2>1, <2>4, ServesMoves
    <2>6. Stored' \subseteq Stored \cup {p} /\ Typed'
      BY <1>2, <1>a, <1>b, <2>2 DEF Stored, Typed
    <2>7. Known' \subseteq Known \cup {p}
      BY <1>b, <2>5, <2>6 DEF Known, InFills
    <2>8. \A q \in Known : q.correlation # c
      BY <1>b DEF RouteInv, Traced, Unserved
    <2>9. Traced'
      BY <1>b, <2>1, <2>3, <2>7, <2>8, ServesMoves DEF RouteInv, Traced, Proposer
    <2>10. \A f \in fills : f.proposal \in Known
      BY DEF Known, InFills
    <2>11. Marked'
      <3> SUFFICES ASSUME NEW f \in fills, NEW i \in OrderIds, proposals'[i] = f.proposal
                   PROVE  f.proposal.id \in executed
        BY <1>b DEF RouteInv, Marked
      <3>1. f.proposal # p
        BY <2>3, <2>8, <2>10
      <3>2. proposals[i] = f.proposal
        BY <1>2, <1>a, <3>1, <2>2 DEF Typed
      <3> QED
        BY <3>2 DEF RouteInv, Marked
    <2> QED
      BY <1>b, <2>1, <2>6, <2>9, <2>11 DEF RouteInv, FilledAsShown, RetryNeverFillsTwice
  <1> QED
    BY <1>1, <1>2 DEF ServeProposal, Proposer

\* SimulatedOms.Execute refuses unless all of this holds.
LEMMA Authorised ==
    ASSUME NEW stored, NEW auth, NEW t, ExecuteRefusal(stored, auth, t) = None
    PROVE  /\ auth # None /\ auth.correlation = stored.correlation
           /\ ~(t >= auth.expiresAt) /\ Fold[auth.approvedBy] # Fold[stored.proposedBy]
  <1>1. /\ "NoAuthorization" # None /\ "AuthorizationForDifferentProposal" # None
        /\ "CorrelationMismatch" # None /\ "AuthorizationExpired" # None
        /\ "SegregationOfDuties" # None
    BY BestExecutionAssumption DEF ExecutionRefusalReason
  <1> QED
    BY <1>1 DEF ExecuteRefusal

LEMMA ServeExecutionRoute ==
    ASSUME RouteInv, NEW c \in DOMAIN calls, ServeExecution(c), UNCHANGED <<submitting, result, busy>>
    PROVE  RouteInv'
  <1> DEFINE request == calls[c].body
             stored == proposals[request.proposal.id]
             auth == Authorization(request)
             f == [call |-> c, request |-> request, proposal |-> stored,
                   execution |-> Execution(stored, auth, now)]
  <1>a. Typed /\ Requests /\ InBodies \subseteq Known /\ Displayed \subseteq Known
    BY DEF RouteInv, Known
  <1>b. /\ calls[c].kind = "Execute" /\ calls[c].at = "Sent" /\ Displayed' = Displayed
        /\ UNCHANGED <<now, token, proposals>>
    BY DEF ServeExecution, Displayed
  <1>c. Typed' /\ Stored' = Stored
    BY <1>a, <1>b DEF Typed, Stored
  <1>d. ASSUME NEW answer, Answer(c, answer)
        PROVE  /\ Requests' /\ InAnswers' \subseteq InAnswers /\ InBodies' \subseteq InBodies
               /\ \A k \in DOMAIN calls : k \in DOMAIN calls' /\ (Unserved(k)' => Unserved(k))
    <2>1. Requests' /\ Serves(c, answer)
      BY <1>a, <1>b, <1>d, AnswerServes
    <2> QED
      BY <1>b, <2>1, ServesMoves
  <1>1. CASE UNCHANGED <<executed, fills>> /\
             (\E answer \in {Error, [status |-> "Forbidden"], [status |-> "Refused"]} : Answer(c, answer))
    BY <1>1, <1>a, <1>b, <1>c, <1>d, DeskOnly
  <1>2. CASE /\ stored # None /\ ExecuteRefusal(stored, auth, now) = None /\ stored.id \notin executed
             /\ executed' = executed \cup {stored.id} /\ fills' = fills \cup {f}
             /\ Answer(c, [status |-> "Executed"])
    <2>1. request.proposal \in InBodies
      BY <1>b DEF InBodies, Executing
    <2>2. request.proposal \in Known /\ request.proposal.id \in OrderIds
      BY <2>1, <1>a DEF RouteInv, Traced
    <2>3. stored \in Stored /\ stored \in Known
      BY <1>2, <2>2 DEF Stored, Known
    <2>4. auth # None /\ auth.correlation = stored.correlation
      BY <1>2, Authorised
    <2>5. request.proposal.correlation = stored.correlation
      BY <2>4 DEF Authorization
    \* The correlation ids agree, so the request and the store have the same proposal.
    <2>6. stored = request.proposal
      BY <2>2, <2>3, <2>5 DEF RouteInv, Traced
    \* It bears no mark, so it was not filled before.
    <2>7. \A g \in fills : g.proposal # stored
      BY <1>2, <2>2 DEF RouteInv, Marked
    <2>8. f.proposal = stored /\ f.request.proposal = stored
      BY <2>6
    <2> HIDE DEF f, stored, request, auth
    <2>9. InFills' \subseteq InFills \cup {stored}
      BY <1>2, <2>8 DEF InFills
    <2>10. Known' \subseteq Known
      BY <1>b, <1>c, <1>d, <1>2, <2>3, <2>9 DEF Known
    <2>11. Traced' /\ Requests'
      BY <1>b, <1>d, <1>2, <2>10, TracedKept DEF RouteInv
    <2>12. Marked'
      BY <1>2, <1>b, <2>8 DEF RouteInv, Marked
    <2>13. FilledAsShown' /\ RetryNeverFillsTwice'
      BY <1>2, <2>7, <2>8 DEF RouteInv, FilledAsShown, RetryNeverFillsTwice
    <2> QED
      BY <1>c, <2>11, <2>12, <2>13 DEF RouteInv
  <1> QED
    BY <1>1, <1>2 DEF ServeExecution

LEMMA RouteNext == RouteInv /\ [Next]_vars => RouteInv'
  <1> SUFFICES ASSUME RouteInv, [Next]_vars PROVE RouteInv'
    OBVIOUS
  <1>a. /\ Typed /\ Requests /\ InBodies \subseteq Known /\ Displayed \subseteq Known
    BY DEF RouteInv, Known
  <1>1. CASE Click
    BY <1>1, ClickRoute
  <1>2. ASSUME NEW c \in DOMAIN calls, Serve(c) PROVE RouteInv'
    <2>0. UNCHANGED <<submitting, result, busy>>
      BY <1>2 DEF Serve, route, panel
    <2>1. CASE ServeProposal(c)
      BY <2>0, <2>1, ServeProposalRoute
    <2>2. CASE ServeLook(c)
      <3>1. /\ calls[c].kind = "Look" /\ calls[c].at = "Sent" /\ Answer(c, approvals[calls[c].body])
            /\ UNCHANGED <<now, token, proposals, executed, fills>>
        BY <2>2 DEF ServeLook, services
      <3>2. Requests' /\ Serves(c, approvals[calls[c].body])
        BY <3>1, <1>a, AnswerServes
      <3>3. /\ InAnswers' \subseteq InAnswers /\ InBodies' \subseteq InBodies
            /\ \A k \in DOMAIN calls : k \in DOMAIN calls' /\ (Unserved(k)' => Unserved(k))
        BY <3>1, <3>2, ServesMoves
      <3>4. Typed' /\ Displayed' = Displayed
        BY <2>0, <3>1, <1>a DEF Typed, Displayed
      <3> QED
        BY <1>a, <3>1, <3>2, <3>3, <3>4, DeskOnly
    <2>3. CASE ServeExecution(c)
      BY <2>0, <2>3, ServeExecutionRoute
    <2> QED
      BY <1>2, <2>1, <2>2, <2>3 DEF Serve
  <1>3. ASSUME NEW c \in DOMAIN calls, Arrives(c) PROVE RouteInv'
    BY <1>3, SettlesRoute DEF Arrives
  <1>4. ASSUME NEW c \in DOMAIN calls, Broken(c) PROVE RouteInv'
    BY <1>4, SettlesRoute DEF Broken
  <1>5. ASSUME NEW i \in Ids, DecideApproval(i) PROVE RouteInv'
    BY <1>5, RouteSame DEF DecideApproval, route, panel
  <1>6. CASE Restart
    <2>1. /\ \A i \in OrderIds : proposals'[i] = None
          /\ UNCHANGED <<now, token, fills, submitting, result, busy, calls>>
      BY <1>6 DEF Restart, route, panel
    <2>2. Stored' = {} /\ Typed'
      BY <1>6, <1>a, <2>1 DEF Restart, Stored, Typed
    <2>3. /\ Displayed' = Displayed /\ InAnswers' = InAnswers /\ InBodies' = InBodies
          /\ InFills' = InFills /\ \A k \in DOMAIN calls : Unserved(k)' = Unserved(k)
      BY <2>1 DEF Displayed, executable, InAnswers, Answering, InBodies, Executing, InFills, Unserved
    <2>4. Known' \subseteq Known
      BY <2>2, <2>3 DEF Known
    <2>5. Traced' /\ Requests'
      BY <1>a, <2>1, <2>3, <2>4, TracedKept DEF RouteInv, Requests
    <2>6. Marked' /\ FilledAsShown' /\ RetryNeverFillsTwice'
      BY <2>1 DEF RouteInv, Marked, FilledAsShown, RetryNeverFillsTwice
    <2> QED
      BY <2>2, <2>5, <2>6 DEF RouteInv
  <1>7. CASE Tick
    BY <1>7, <1>a, RouteSame DEF Tick, Typed, route, panel
  <1>8. CASE UNCHANGED vars
    BY <1>8, RouteSame DEF vars, services, route, panel
  <1> QED
    BY <1>1, <1>2, <1>3, <1>4, <1>5, <1>6, <1>7, <1>8 DEF Next

LEMMA RouteInvariant == Spec => []RouteInv
  BY RouteInit, RouteNext, PTL DEF Spec

\* What is filled is what the desk had on its screen when it asked, whatever was proposed
\* under the same id in between (the correlation check of SimulatedOms.Execute, with the
\* correlation id that ProposeAsync gives each request).
THEOREM ShownIsFilled == Spec => []FilledAsShown
  <1>1. RouteInv => FilledAsShown
    BY DEF RouteInv
  <1> QED
    BY <1>1, RouteInvariant, PTL

\* However often the desk repeats a request whose answer it never saw, and however often the
\* service restarts in between, no proposal is filled twice: the in-memory marks are lost
\* only together with the proposals they guard (InMemoryProposalStore).
THEOREM RetryIsSafe == Spec => []RetryNeverFillsTwice
  <1>1. RouteInv => RetryNeverFillsTwice
    BY DEF RouteInv
  <1> QED
    BY <1>1, RouteInvariant, PTL

-----------------------------------------------------------------------------
(* What a fill rests on.                                                   *)

\* The approvals service's records: a decision, once made, is not made again.
Decisions ==
    /\ approvals = [i \in Ids |-> approvals[i]]
    /\ \A i \in Ids :
         /\ DOMAIN approvals[i] = {"id", "state", "decidedBy", "expiresAt"}
         /\ approvals[i].id = i /\ approvals[i].expiresAt = ExpiresAt[i]
         /\ approvals[i].state = "PendingApproval" => approvals[i].decidedBy = None

\* What somebody holds of approval i, however old: if it names a decider, so does the record.
Holds(i, decider, expiresAt) ==
    /\ i \in Ids /\ expiresAt = ExpiresAt[i]
    /\ decider # None => approvals[i].decidedBy = decider

Copy(r) == Holds(r.id, r.decidedBy, r.expiresAt)
Backed(a) == Holds(a.approvalId, a.approvedBy, a.expiresAt)

CallBacked(x) ==
    /\ x.kind = "Look" /\ x.at = "Answered" => Copy(x.answer)
    /\ x.kind = "Execute" /\ x.body.approval # None => Backed(x.body.approval)

FillBacked(f) ==
    /\ f.request.approval # None /\ Backed(f.request.approval)
    /\ f.request.approval.approvedBy \notin {None, f.proposal.proposedBy}
    /\ f.execution.executedAt < f.request.approval.expiresAt

RecordInv ==
    /\ Decisions
    /\ lookup # None => Copy(lookup)
    /\ \A k \in DOMAIN calls : CallBacked(calls[k])
    /\ \A f \in fills : FillBacked(f)

LEMMA RecordFacts == RecordInv => DeciderIsOnRecord
  BY DEF RecordInv, Decisions, FillBacked, Backed, Holds, DeciderIsOnRecord

LEMMA WaitsBacked ==
    ASSUME NEW x, NEW y, Waits(x, y), CallBacked(x)
    PROVE  CallBacked(y)
  BY DEF Waits, Later, CallBacked

\* A step of the desk: it may look at what it holds, and ask.
LEMMA RecordDesk ==
    ASSUME RecordInv, UNCHANGED <<approvals, fills>>, lookup' # None => Copy(lookup'),
           \A k \in DOMAIN calls' : CallBacked(calls'[k])
    PROVE  RecordInv'
  BY DEF RecordInv, Decisions, Copy, CallBacked, FillBacked, Backed, Holds

LEMMA AsksBacked ==
    ASSUME RecordInv, NEW x, CallBacked(x), Asks(x)
    PROVE  \A k \in DOMAIN calls' : CallBacked(calls'[k])
  BY WaitsBacked DEF RecordInv, Asks

LEMMA GoesBacked ==
    ASSUME RecordInv, Goes
    PROVE  \A k \in DOMAIN calls' : CallBacked(calls'[k])
  BY WaitsBacked DEF RecordInv, Goes

LEMMA ServesBacked ==
    ASSUME RecordInv, NEW c \in DOMAIN calls, NEW answer, Serves(c, answer),
           calls[c].kind = "Look" => Copy(answer)
    PROVE  \A k \in DOMAIN calls' : CallBacked(calls'[k])
  <1>1. ASSUME NEW k \in DOMAIN calls \ {c} PROVE CallBacked(calls'[k])
    BY WaitsBacked DEF RecordInv, Serves
  <1>2. CallBacked(calls'[c])
    BY DEF RecordInv, Serves, Later, CallBacked
  <1> QED
    BY <1>1, <1>2 DEF Serves

LEMMA RecordInit == Init => RecordInv
  <1> SUFFICES ASSUME Init PROVE RecordInv
    OBVIOUS
  <1>1. DOMAIN calls = {}
    BY NoCalls
  <1>2. Decisions
    BY DEF Init, Decisions
  <1> QED
    BY <1>1, <1>2 DEF Init, RecordInv

LEMMA ClickRecord == ASSUME RouteInv, RecordInv, Click PROVE RecordInv'
  <1>a. Typed /\ Requests
    BY DEF RouteInv
  <1>1. ASSUME NEW t \in Tickets, Propose(t) PROVE RecordInv'
    <2>1. Asks(Call("Propose", t)) /\ CallBacked(Call("Propose", t))
      BY <1>1, <1>a, ProposeAsks DEF Call, CallBacked
    <2> QED
      BY <1>1, <2>1, AsksBacked, RecordDesk DEF Propose, services, panel, RecordInv
  <1>2. ASSUME NEW i \in Ids, Look(i) PROVE RecordInv'
    <2>1. Asks(Call("Look", i)) /\ CallBacked(Call("Look", i))
      BY <1>2, <1>a, LookAsks DEF Call, CallBacked
    <2> QED
      BY <1>2, <2>1, AsksBacked, RecordDesk DEF Look, services
  <1>3. ASSUME NEW a, a = None \/ (lookup # None /\ a = Approval(lookup)), Execute(a) PROVE RecordInv'
    <2> DEFINE x == Call("Execute", [proposal |-> result.proposal, approval |-> a])
    <2>1. Asks(x)
      BY <1>3, <1>a, ExecuteAsks DEF Typed
    <2>2. a # None => Backed(a)
      BY <1>3 DEF RecordInv, Approval, Copy, Backed
    <2>3. x.kind = "Execute" /\ x.body.approval = a
      BY DEF Call
    <2> HIDE DEF x
    <2>4. CallBacked(x)
      BY <2>2, <2>3 DEF CallBacked
    <2> QED
      BY <1>3, <2>1, <2>4, AsksBacked, RecordDesk DEF Execute, services, RecordInv
  <1>4. CASE Leave
    BY <1>4, <1>a, LeaveGoes, GoesBacked, RecordDesk DEF Leave, Unmount, services
  <1>5. CASE TryAgain
    BY <1>5, RecordDesk DEF TryAgain, services, route, panel, RecordInv
  <1> QED
    BY <1>1, <1>2, <1>3, <1>4, <1>5 DEF Click

LEMMA SettlesRecord ==
    ASSUME RouteInv, RecordInv, NEW c \in DOMAIN calls, NEW answer,
           answer = Error \/ (calls[c].at = "Answered" /\ answer = calls[c].answer),
           NEW left \in {calls[c], [calls[c] EXCEPT !.at = "Answered"]}, Settles(c, left, answer)
    PROVE  RecordInv'
  <1>a. Requests /\ UNCHANGED <<approvals, fills>>
    BY SettlesUnserved DEF RouteInv, services
  <1>1. Undrawable(c, left, answer) \/ \E unmounts \in BOOLEAN : Done(c, left, unmounts)
    BY DEF Settles, ProposalSettles, Drawn, LookSettles, ExecutionSettles
  <1>2. \A k \in DOMAIN calls' : CallBacked(calls'[k])
    BY <1>1, <1>a, DoneGoes, UndrawableGoes, GoesBacked
  <1>3. lookup' # None => Copy(lookup')
    <2>1. CASE ProposalSettles(c, left, answer)
      BY <2>1 DEF ProposalSettles, Drawn, Undrawable, Unmount, RecordInv
    <2>2. CASE LookSettles(c, left, answer)
      BY <2>2 DEF LookSettles, RecordInv, CallBacked, panel
    <2>3. CASE ExecutionSettles(c, left, answer)
      BY <2>3 DEF ExecutionSettles, RecordInv
    <2> QED
      BY <2>1, <2>2, <2>3 DEF Settles
  <1> QED
    BY <1>a, <1>2, <1>3, RecordDesk

\* With a token the approver is the proposer, and SimulatedOms refuses; without one it is
\* whoever the panel's copy names.
LEMMA ServeExecutionRecord ==
    ASSUME RouteInv, RecordInv, NEW c \in DOMAIN calls, ServeExecution(c), UNCHANGED lookup
    PROVE  RecordInv'
  <1> DEFINE request == calls[c].body
             stored == proposals[request.proposal.id]
             auth == Authorization(request)
             f == [call |-> c, request |-> request, proposal |-> stored,
                   execution |-> Execution(stored, auth, now)]
  <1>a. /\ calls[c].kind = "Execute" /\ calls[c].at = "Sent" /\ Requests /\ now \in Nat
        /\ UNCHANGED <<now, token, proposals, approvals>>
    BY DEF ServeExecution, RouteInv, Typed
  <1>b. ASSUME NEW answer, Answer(c, answer) PROVE \A k \in DOMAIN calls' : CallBacked(calls'[k])
    BY <1>a, <1>b, AnswerServes, ServesBacked
  <1>1. CASE UNCHANGED <<executed, fills>> /\
             (\E answer \in {Error, [status |-> "Forbidden"], [status |-> "Refused"]} : Answer(c, answer))
    BY <1>1, <1>a, <1>b, RecordDesk DEF RecordInv
  <1>2. CASE /\ stored # None /\ ExecuteRefusal(stored, auth, now) = None
             /\ fills' = fills \cup {f} /\ Answer(c, [status |-> "Executed"])
    <2>1. stored.proposedBy = Proposer
      <3>1. request.proposal \in Known
        BY <1>a DEF Known, InBodies, Executing
      <3>2. stored \in Known
        BY <1>2, <3>1 DEF RouteInv, Traced, Known, Stored
      <3> QED
        BY <3>2 DEF RouteInv, Traced
    <2>2. auth # None /\ ~(now >= auth.expiresAt) /\ Fold[auth.approvedBy] # Fold[stored.proposedBy]
      BY <1>2, Authorised
    <2>3. /\ request.approval # None /\ auth.approvedBy # None
          /\ auth.approvedBy = (IF token # None THEN token ELSE request.approval.approvedBy)
          /\ auth.expiresAt = request.approval.expiresAt
      BY <2>2 DEF Authorization
    <2>4. token = None
      BY <2>1, <2>2, <2>3 DEF Proposer
    <2>5. Backed(request.approval)
      BY <1>a, <2>3 DEF RecordInv, CallBacked
    <2>6. request.approval.expiresAt \in Nat
      BY <2>5, OrderDeskAssumption DEF Backed, Holds
    <2>7. /\ f.request = request /\ f.proposal = stored /\ f.execution.executedAt = now
      BY DEF Execution
    <2> HIDE DEF f, request, stored, auth
    <2>8. FillBacked(f)
      BY <2>2, <2>3, <2>4, <2>5, <2>6, <2>7, <1>a DEF FillBacked
    <2>9. \A g \in fills' : FillBacked(g)
      BY <1>2, <2>8 DEF RecordInv
    <2> QED
      BY <1>2, <1>a, <1>b, <2>9 DEF RecordInv, Decisions, Copy, CallBacked, FillBacked, Backed, Holds
  <1> QED
    BY <1>1, <1>2 DEF ServeExecution

LEMMA RecordNext == RouteInv /\ RecordInv /\ [Next]_vars => RecordInv'
  <1> SUFFICES ASSUME RouteInv, RecordInv, [Next]_vars PROVE RecordInv'
    OBVIOUS
  <1>a. Requests
    BY DEF RouteInv
  <1>b. ASSUME UNCHANGED <<approvals, fills, lookup, calls>> PROVE RecordInv'
    BY <1>b, RecordDesk DEF RecordInv
  <1>1. CASE Click
    BY <1>1, ClickRecord
  <1>2. ASSUME NEW c \in DOMAIN calls, Serve(c) PROVE RecordInv'
    <2>0. UNCHANGED lookup
      BY <1>2 DEF Serve, route, panel
    <2>1. CASE ServeProposal(c)
      <3>1. /\ calls[c].kind = "Propose" /\ calls[c].at = "Sent" /\ UNCHANGED <<approvals, fills>>
            /\ \/ Answer(c, Error) \/ Answer(c, Halt)
               \/ \E p \in {Proposal(calls[c].body.order, calls[c].body.quotes, Proposer, c)} :
                    Answer(c, Proposed(p))
        BY <2>1 DEF ServeProposal, Proposer
      <3>2. ASSUME NEW answer, Answer(c, answer) PROVE \A k \in DOMAIN calls' : CallBacked(calls'[k])
        BY <3>1, <3>2, <1>a, AnswerServes, ServesBacked
      <3> QED
        BY <2>0, <3>1, <3>2, RecordDesk DEF RecordInv
    <2>2. CASE ServeLook(c)
      <3>1. /\ calls[c].kind = "Look" /\ calls[c].at = "Sent" /\ Answer(c, approvals[calls[c].body])
            /\ UNCHANGED <<approvals, fills>>
        BY <2>2 DEF ServeLook, services
      <3>2. calls[c].body \in Ids
        BY <3>1, <1>a DEF Requests, IsCall
      <3>3. Copy(approvals[calls[c].body])
        BY <3>2 DEF RecordInv, Decisions, Copy, Holds
      <3>4. \A k \in DOMAIN calls' : CallBacked(calls'[k])
        BY <3>1, <3>3, <1>a, AnswerServes, ServesBacked
      <3> QED
        BY <2>0, <3>1, <3>4, RecordDesk DEF RecordInv
    <2>3. CASE ServeExecution(c)
      BY <2>0, <2>3, ServeExecutionRecord
    <2> QED
      BY <1>2, <2>1, <2>2, <2>3 DEF Serve
  <1>3. ASSUME NEW c \in DOMAIN calls, Arrives(c) PROVE RecordInv'
    BY <1>3, SettlesRecord DEF Arrives
  <1>4. ASSUME NEW c \in DOMAIN calls, Broken(c) PROVE RecordInv'
    BY <1>4, SettlesRecord DEF Broken
  <1>5. ASSUME NEW i \in Ids, DecideApproval(i) PROVE RecordInv'
    <2>1. UNCHANGED <<fills, lookup, calls>>
      BY <1>5 DEF DecideApproval, route, panel
    <2>2. approvals[i].decidedBy = None
      BY <1>5 DEF DecideApproval, RecordInv, Decisions
    <2>3. \A j \in Ids \ {i} : approvals'[j] = approvals[j]
      BY <1>5 DEF DecideApproval, RecordInv, Decisions
    <2>4. Decisions'
      <3>1. CASE \E d \in Deciders, s \in {"Approved", "Rejected"} :
                   approvals' = [approvals EXCEPT ![i].state = s, ![i].decidedBy = d]
        <4>1. PICK d \in Deciders, s \in {"Approved", "Rejected"} :
                approvals' = [approvals EXCEPT ![i].state = s, ![i].decidedBy = d]
          BY <3>1
        <4>2. approvals' = [j \in Ids |-> approvals'[j]]
          BY <4>1 DEF RecordInv, Decisions
        <4>3. approvals'[i] = [[approvals[i] EXCEPT !.state = s] EXCEPT !.decidedBy = d]
          BY <4>1 DEF RecordInv, Decisions
        <4>4. /\ DOMAIN approvals'[i] = DOMAIN approvals[i] /\ approvals'[i].id = approvals[i].id
              /\ approvals'[i].expiresAt = approvals[i].expiresAt /\ approvals'[i].state = s
          BY <4>3 DEF RecordInv, Decisions
        <4> QED
          BY <2>3, <4>2, <4>4 DEF RecordInv, Decisions
      <3>2. CASE approvals' = [approvals EXCEPT ![i].state = "Expired"]
        BY <3>2 DEF RecordInv, Decisions
      <3> QED
        BY <1>5, <3>1, <3>2 DEF DecideApproval
    <2>5. ASSUME NEW j, NEW d, NEW e, Holds(j, d, e) PROVE Holds(j, d, e)'
      BY <2>2, <2>3, <2>5 DEF Holds
    <2> QED
      BY <2>1, <2>4, <2>5 DEF RecordInv, Copy, CallBacked, FillBacked, Backed
  <1>6. CASE Restart
    BY <1>6, <1>b DEF Restart, route, panel
  <1>7. CASE Tick
    BY <1>7, <1>b DEF Tick, route, panel
  <1>8. CASE UNCHANGED vars
    BY <1>8, <1>b DEF vars, services, route, panel
  <1> QED
    BY <1>1, <1>2, <1>3, <1>4, <1>5, <1>6, <1>7, <1>8 DEF Next

\* However old the panel's copy of an approval is, the approver behind a fill is the one the
\* approvals service has on record as having decided it, one way or the other: somebody
\* other than the proposer, on a record not lapsed when the order was filled (execute in
\* ExecutionPanel, ExecuteAsync and SimulatedOms.Execute).
THEOREM DeciderIsBehindFill == Spec => []DeciderIsOnRecord
  BY RecordInit, RecordNext, RecordFacts, RouteInvariant, PTL DEF Spec

-----------------------------------------------------------------------------
(* What the screen says of an execution.                                   *)

\* Requests the desk still waits for: proposals, and executions no proposal ran beside.
Proposing == {k \in DOMAIN calls : calls[k].kind = "Propose" /\ calls[k].desk}
Undisturbed == {k \in DOMAIN calls : calls[k].kind = "Execute" /\ calls[k].desk /\ ~calls[k].overlap}

\* The ticket waits for one proposal at a time; while it does, every execution is disturbed,
\* and until then the proposal shown is the one being executed.
ScreenInv ==
    /\ \A j, k \in Proposing : j = k
    /\ Proposing # {} => submitting
    /\ submitting => Undisturbed = {} /\ (execution # None => execution.overlap)
    /\ \A k \in Undisturbed : executable(result) /\ result.proposal = calls[k].body.proposal
    /\ StaleOnlyWhenOverlapping

LEMMA LaterScreen ==
    ASSUME NEW k \in DOMAIN calls, k \in DOMAIN calls', Requests, Later(calls[k], calls'[k])
    PROVE  /\ k \in Proposing' => k \in Proposing
           /\ k \in Undisturbed' => k \in Undisturbed /\ calls'[k].body = calls[k].body
  BY DEF Requests, IsCall, Later, Proposing, Undisturbed

\* A step that asks nothing and changes neither the screen nor the ticket.
LEMMA ScreenKept ==
    ASSUME ScreenInv, UNCHANGED <<submitting, result, execution>>, Requests,
           DOMAIN calls' = DOMAIN calls, \A k \in DOMAIN calls : Later(calls[k], calls'[k])
    PROVE  ScreenInv'
  <1>1. \A k \in Undisturbed' : k \in Undisturbed /\ calls'[k].body = calls[k].body
    BY LaterScreen DEF Undisturbed
  <1>2. Proposing' \subseteq Proposing
    BY LaterScreen DEF Proposing
  <1> QED
    BY <1>1, <1>2 DEF ScreenInv, StaleOnlyWhenOverlapping, executable

LEMMA ScreenInit == Init => ScreenInv
  <1> SUFFICES ASSUME Init PROVE ScreenInv
    OBVIOUS
  <1>1. DOMAIN calls = {}
    BY NoCalls
  <1>2. Proposing = {} /\ Undisturbed = {}
    BY <1>1 DEF Proposing, Undisturbed
  <1> QED
    BY <1>2 DEF Init, ScreenInv, StaleOnlyWhenOverlapping

\* The route is unmounted.
LEMMA NobodyWaits ==
    ASSUME NEW requests, Unmount(requests), Goes, \A k \in DOMAIN calls : ~calls'[k].desk
    PROVE  ScreenInv'
  <1>1. Proposing' = {} /\ Undisturbed' = {}
    BY DEF Goes, Proposing, Undisturbed
  <1> QED
    BY <1>1 DEF Unmount, ScreenInv, StaleOnlyWhenOverlapping

LEMMA ClickScreen == ASSUME RouteInv, ScreenInv, Click PROVE ScreenInv'
  <1>a. Typed /\ Requests
    BY DEF RouteInv
  <1>1. ASSUME NEW t \in Tickets, Propose(t) PROVE ScreenInv'
    <2>1. Asks(Call("Propose", t)) /\ \A k \in DOMAIN calls' : calls'[k].kind = "Execute" => calls'[k].overlap
      BY <1>1, <1>a, ProposeAsks
    <2>2. PICK n \in Nat \ DOMAIN calls :
            /\ DOMAIN calls' = DOMAIN calls \cup {n}
            /\ \A k \in DOMAIN calls : Waits(calls[k], calls'[k])
      BY <2>1 DEF Asks
    <2>3. ~submitting /\ submitting' /\ execution' = None
      BY <1>1 DEF Propose
    <2>4. Undisturbed' = {}
      BY <2>1 DEF Undisturbed
    <2>5. \A k \in Proposing' : k = n
      <3>1. Proposing = {}
        BY <2>3 DEF ScreenInv
      <3>2. \A k \in DOMAIN calls : k \notin Proposing'
        BY <2>2, <3>1, <1>a, LaterScreen DEF Waits
      <3> QED
        BY <2>2, <3>2 DEF Proposing
    <2> QED
      BY <2>3, <2>4, <2>5 DEF ScreenInv, StaleOnlyWhenOverlapping
  <1>2. ASSUME NEW i \in Ids, Look(i) PROVE ScreenInv'
    <2>1. Asks(Call("Look", i)) /\ \A k \in DOMAIN calls : calls'[k] = calls[k]
      BY <1>2, <1>a, LookAsks
    <2>2. Call("Look", i).kind = "Look"
      BY DEF Call
    <2>3. Proposing' = Proposing /\ Undisturbed' = Undisturbed
      BY <2>1, <2>2 DEF Asks, Proposing, Undisturbed
    <2>4. UNCHANGED <<submitting, result, execution>>
      BY <1>2 DEF Look
    <2>5. \A k \in Undisturbed : calls'[k] = calls[k]
      BY <2>1 DEF Undisturbed
    <2> QED
      BY <2>3, <2>4, <2>5 DEF ScreenInv, StaleOnlyWhenOverlapping, executable
  <1>3. ASSUME NEW a, Execute(a) PROVE ScreenInv'
    <2> DEFINE x == Call("Execute", [proposal |-> result.proposal, approval |-> a])
    <2>1. Asks(x) /\ \A k \in DOMAIN calls : calls'[k] = calls[k]
      BY <1>3, <1>a, ExecuteAsks DEF Typed
    <2>2. /\ x.kind = "Execute" /\ x.body.proposal = result.proposal
          /\ x.overlap = submitting
      BY <1>a DEF Call, Typed
    <2> HIDE DEF x
    <2>3. PICK n \in Nat \ DOMAIN calls : DOMAIN calls' = DOMAIN calls \cup {n} /\ calls'[n] = x
      BY <2>1 DEF Asks
    <2>4. Proposing' = Proposing
      BY <2>1, <2>2, <2>3 DEF Proposing
    <2>5. /\ Undisturbed' \subseteq Undisturbed \cup {n} /\ (submitting => n \notin Undisturbed')
          /\ \A k \in Undisturbed : calls'[k] = calls[k]
      BY <2>1, <2>2, <2>3 DEF Undisturbed
    <2>6. UNCHANGED <<submitting, result, execution>> /\ executable(result)
      BY <1>3 DEF Execute
    <2> QED
      BY <2>2, <2>3, <2>4, <2>5, <2>6 DEF ScreenInv, StaleOnlyWhenOverlapping, executable
  <1>4. CASE Leave
    <2>1. Goes /\ \A k \in DOMAIN calls : ~calls'[k].desk
      BY <1>4, <1>a, LeaveGoes
    <2> QED
      BY <1>4, <2>1, NobodyWaits DEF Leave
  <1>5. CASE TryAgain
    BY <1>5, <1>a, WaitsSame, ScreenKept DEF TryAgain, route, Waits
  <1> QED
    BY <1>1, <1>2, <1>3, <1>4, <1>5 DEF Click

LEMMA SettlesScreen ==
    ASSUME RouteInv, ScreenInv, NEW c \in DOMAIN calls, NEW answer,
           NEW left \in {calls[c], [calls[c] EXCEPT !.at = "Answered"]}, Settles(c, left, answer)
    PROVE  ScreenInv'
  <1>0. CASE Undrawable(c, left, answer)
    <2> DEFINE requests == [calls EXCEPT ![c] = left]
    <2>1. Goes /\ \A k \in DOMAIN calls : ~calls'[k].desk
      BY <1>0, UndrawableGoes DEF RouteInv
    <2>2. Unmount(requests)
      BY <1>0 DEF Undrawable
    <2> HIDE DEF requests
    <2> QED
      BY <2>1, <2>2, NobodyWaits
  <1> SUFFICES ASSUME ~Undrawable(c, left, answer) PROVE ScreenInv'
    BY <1>0
  <1>1. PICK unmounts \in BOOLEAN : Done(c, left, unmounts)
    BY DEF Settles, ProposalSettles, Drawn, LookSettles, ExecutionSettles
  <1>2. Requests /\ Goes /\ ~calls'[c].desk /\ calls[c].desk /\ IsCall(calls[c])
    BY <1>1, DoneGoes DEF RouteInv, Settles, Requests
  <1>3. /\ DOMAIN calls' = DOMAIN calls /\ \A k \in DOMAIN calls : Later(calls[k], calls'[k])
    BY <1>2 DEF Goes, Waits
  <1>4. \A k \in Undisturbed' : k \in Undisturbed /\ calls'[k].body = calls[k].body
    BY <1>2, <1>3, LaterScreen DEF Undisturbed
  <1>5. Proposing' \subseteq Proposing \ {c}
    BY <1>2, <1>3, LaterScreen DEF Proposing
  \* The one proposal waited for: nothing on the screen is undisturbed.
  <1>6. CASE ProposalSettles(c, left, answer)
    <2>1. c \in Proposing
      BY <1>2, <1>6 DEF ProposalSettles, Proposing
    <2>2. Proposing' = {} /\ Undisturbed' = {} /\ (execution # None => execution.overlap)
      BY <2>1, <1>4, <1>5 DEF ScreenInv
    <2>3. submitting' = FALSE /\ execution' = execution
      BY <1>6 DEF ProposalSettles, Drawn
    <2> QED
      BY <2>2, <2>3 DEF ScreenInv, StaleOnlyWhenOverlapping
  <1>7. CASE LookSettles(c, left, answer)
    BY <1>2, <1>3, <1>7, ScreenKept DEF LookSettles
  <1>8. CASE ExecutionSettles(c, left, answer)
    <2>1. UNCHANGED <<submitting, result>> /\ calls[c].kind = "Execute"
      BY <1>8 DEF ExecutionSettles
    <2>2. execution' # None => /\ execution'.overlap = calls[c].overlap
                               /\ execution'.correlation = calls[c].body.proposal.correlation
      BY <1>8 DEF ExecutionSettles
    <2>3. ~calls[c].overlap => c \in Undisturbed
      BY <2>1, <1>2 DEF Undisturbed
    <2>4. submitting => calls[c].overlap
      BY <2>3 DEF ScreenInv
    <2> QED
      BY <2>1, <2>2, <2>3, <2>4, <1>4, <1>5 DEF ScreenInv, StaleOnlyWhenOverlapping, executable
  <1> QED
    BY <1>6, <1>7, <1>8 DEF Settles

LEMMA ScreenNext == RouteInv /\ ScreenInv /\ [Next]_vars => ScreenInv'
  <1> SUFFICES ASSUME RouteInv, ScreenInv, [Next]_vars PROVE ScreenInv'
    OBVIOUS
  <1>a. Requests
    BY DEF RouteInv
  <1>b. ASSUME UNCHANGED <<submitting, result, execution, calls>> PROVE ScreenInv'
    BY <1>a, <1>b, WaitsSame, ScreenKept DEF Waits
  <1>1. CASE Click
    BY <1>1, ClickScreen
  <1>2. ASSUME NEW c \in DOMAIN calls, Serve(c) PROVE ScreenInv'
    <2>1. ASSUME NEW answer, calls[c].at = "Sent", Answer(c, answer)
          PROVE  DOMAIN calls' = DOMAIN calls /\ \A k \in DOMAIN calls : Later(calls[k], calls'[k])
      BY <2>1, <1>a, AnswerServes DEF Serves, Waits
    <2>2. calls[c].at = "Sent" /\ \E answer \in {Error, Halt, approvals[calls[c].body],
              Proposed(Proposal(calls[c].body.order, calls[c].body.quotes, Proposer, c)),
              [status |-> "Forbidden"], [status |-> "Refused"], [status |-> "Executed"]} :
                Answer(c, answer)
      BY <1>2 DEF Serve, ServeProposal, ServeLook, ServeExecution, Proposer
    <2> QED
      BY <1>2, <1>a, <2>1, <2>2, ScreenKept DEF Serve, route
  <1>3. ASSUME NEW c \in DOMAIN calls, Arrives(c) PROVE ScreenInv'
    BY <1>3, SettlesScreen DEF Arrives
  <1>4. ASSUME NEW c \in DOMAIN calls, Broken(c) PROVE ScreenInv'
    BY <1>4, SettlesScreen DEF Broken
  <1>5. ASSUME NEW i \in Ids, DecideApproval(i) PROVE ScreenInv'
    BY <1>5, <1>b DEF DecideApproval, route
  <1>6. CASE Restart
    BY <1>6, <1>b DEF Restart, route
  <1>7. CASE Tick
    BY <1>7, <1>b DEF Tick, route
  <1>8. CASE UNCHANGED vars
    BY <1>8, <1>b DEF vars, route
  <1> QED
    BY <1>1, <1>2, <1>3, <1>4, <1>5, <1>6, <1>7, <1>8 DEF Next

\* An execution's outcome is never beside another proposal than its own unless the two
\* requests overlapped: propose clears the outcome before it, whatever is lost, late or left
\* behind by a visit to another screen (propose, run and the unmount of OrderRoutingRoute).
THEOREM OutcomeBesideItsProposal == Spec => []StaleOnlyWhenOverlapping
  <1>1. ScreenInv => StaleOnlyWhenOverlapping
    BY DEF ScreenInv
  <1> QED
    BY <1>1, ScreenInit, ScreenNext, RouteInvariant, PTL DEF Spec

=============================================================================
