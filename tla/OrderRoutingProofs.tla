------------------------- MODULE OrderRoutingProofs -------------------------
(***************************************************************************)
(* Proofs about OrderRoutingService, for any number of executions, orders, *)
(* quotes and people: a proposal is filled at most once, and on authority. *)
(***************************************************************************)
EXTENDS OrderRoutingService, TLAPS

Total(f) == f = [x \in Executions |-> f[x]]

Typed ==
    /\ now \in Nat
    /\ pc \in [Executions -> {"Idle", "Check", "Mark", "Done"}]
    /\ Total(caller) /\ Total(auth) /\ Total(found) /\ Total(fill) /\ Total(status) /\ Total(known)

\* The authorisation a call builds names its own caller, whom the body cannot choose.
OwnAuthority(x) ==
    auth[x] # None => auth[x].approvedBy = caller[x] /\ auth[x].expiresAt \in Nat

\* What SimulatedOms.Execute accepted, and nothing has touched since.
Accepted(x) ==
    /\ Fold[caller[x]] # Fold[found[x].proposedBy]
    /\ auth[x].correlation = fill[x].correlation
    /\ fill[x].executedAt < auth[x].expiresAt

CallOK(x) ==
    /\ pc[x] # "Done" => status[x] = None
    /\ pc[x] = "Check" => OwnAuthority(x)
    /\ pc[x] = "Mark" \/ status[x] = 201 => Accepted(x)

SafeInv == Typed /\ (\A x \in Executions : CallOK(x)) /\ FilledOnce /\ ExecutedIsFilled

LEMMA SafeInit == Init => SafeInv
  <1> SUFFICES ASSUME Init PROVE SafeInv
    OBVIOUS
  <1>1. Typed
    BY DEF Init, Typed, Total
  <1>2. None # 201
    BY BestExecutionAssumption
  <1>3. Filled = {}
    BY <1>2 DEF Init, Filled
  <1>4. FilledOnce /\ ExecutedIsFilled
    BY <1>3 DEF Init, FilledOnce, ExecutedIsFilled
  <1>5. ASSUME NEW x \in Executions PROVE CallOK(x)
    BY <1>2 DEF Init, CallOK
  <1> QED
    BY <1>1, <1>4, <1>5 DEF SafeInv

\* A step of call x that fills nothing: the other calls and the marks stay as they are.
LEMMA NothingFilled ==
    ASSUME SafeInv, NEW x \in Executions, Typed', CallOK(x)', UNCHANGED executed,
           status[x] # 201, status'[x] # 201,
           \A y \in Executions \ {x} :
               /\ pc'[y] = pc[y] /\ caller'[y] = caller[y] /\ auth'[y] = auth[y]
               /\ found'[y] = found[y] /\ fill'[y] = fill[y] /\ status'[y] = status[y]
    PROVE  SafeInv'
  <1>1. ASSUME NEW y \in Executions PROVE CallOK(y)'
    BY DEF SafeInv, CallOK, OwnAuthority, Accepted
  <1>2. Filled' = Filled /\ \A y \in Filled : found'[y] = found[y]
    BY DEF Filled
  <1>3. FilledOnce'
    BY <1>2 DEF SafeInv, FilledOnce
  <1>4. {found'[y].id : y \in Filled'} = {found[y].id : y \in Filled}
    BY <1>2
  <1>5. ExecutedIsFilled'
    BY <1>4 DEF SafeInv, ExecutedIsFilled
  <1> QED
    BY <1>1, <1>3, <1>5 DEF SafeInv

LEMMA RefuseLocal ==
    ASSUME Typed, NEW x \in Executions, NEW code \in {400, 403, 404, 409}, Refuse(x, code),
           now' = now
    PROVE  /\ Typed' /\ CallOK(x)' /\ status'[x] # 201
           /\ \A y \in Executions \ {x} :
               /\ pc'[y] = pc[y] /\ caller'[y] = caller[y] /\ auth'[y] = auth[y]
               /\ found'[y] = found[y] /\ fill'[y] = fill[y] /\ status'[y] = status[y]
  <1>1. Typed'
    BY DEF Typed, Total, Refuse, Return
  <1>2. pc'[x] = "Done" /\ status'[x] = code
    BY DEF Typed, Total, Refuse, Return
  <1>3. CallOK(x)' /\ status'[x] # 201
    BY <1>2 DEF CallOK
  <1> QED
    BY <1>1, <1>3 DEF Typed, Total, Refuse, Return

LEMMA SafeNext == SafeInv /\ [Next]_vars => SafeInv'
  <1> SUFFICES ASSUME SafeInv, [Next]_vars PROVE SafeInv'
    OBVIOUS
  <1>a. Typed /\ None # 201
    BY BestExecutionAssumption DEF SafeInv
  <1>b. ASSUME NEW x \in Executions, pc[x] # "Done" PROVE status[x] # 201
    BY <1>a, <1>b DEF SafeInv, CallOK
  \* Steps that touch neither a call nor the marks.
  <1>c. ASSUME now' \in Nat, UNCHANGED <<executed, pc, request, found, fill, status>>
        PROVE  SafeInv'
    <2>1. Typed'
      BY <1>a, <1>c DEF Typed, Total, request
    <2>2. \A x \in Executions : CallOK(x)'
      BY <1>c DEF SafeInv, CallOK, OwnAuthority, Accepted, request
    <2>3. FilledOnce' /\ ExecutedIsFilled'
      BY <1>c DEF SafeInv, FilledOnce, ExecutedIsFilled, Filled
    <2> QED
      BY <2>1, <2>2, <2>3 DEF SafeInv
  <1>1. CASE Propose
    BY <1>1, <1>a, <1>c DEF Propose, Typed
  <1>2. ASSUME NEW o \in Reviewers, NEW i \in OrderIds, Review(o, i) PROVE SafeInv'
    BY <1>2, <1>a, <1>c DEF Review, Typed
  <1>3. ASSUME NEW x \in Executions, ExecuteFind(x) PROVE SafeInv'
    <2>0. pc[x] = "Idle" /\ status[x] # 201 /\ UNCHANGED <<now, executed>>
      BY <1>3, <1>b DEF ExecuteFind
    <2>1. CASE \E code \in {400, 403, 404} : Refuse(x, code)
      BY <2>0, <2>1, <1>a, RefuseLocal, NothingFilled
    <2>2. CASE ~(\E code \in {400, 403, 404} : Refuse(x, code))
      <3>1. PICK o \in Oid, i \in OrderIds :
              /\ \/ auth' = [auth EXCEPT ![x] = None]
                 \/ \E a \in Approvals, c \in Correlations :
                      auth' = [auth EXCEPT ![x] =
                          [approvalId |-> a.id, proposalId |-> i, correlation |-> c,
                           approvedBy |-> o, expiresAt |-> a.expiresAt]]
              /\ caller' = [caller EXCEPT ![x] = o]
              /\ known' = [known EXCEPT ![x] = reviewed[o][i]]
              /\ found' = [found EXCEPT ![x] = proposals[i]]
              /\ pc' = [pc EXCEPT ![x] = "Check"]
              /\ UNCHANGED <<fill, status>>
        BY <1>3, <2>2 DEF ExecuteFind
      <3>2. Typed'
        BY <3>1, <2>0, <1>a DEF Typed, Total
      <3>3. caller'[x] = o /\ pc'[x] = "Check" /\ status'[x] = status[x]
        BY <3>1, <1>a DEF Typed, Total
      <3>4. auth'[x] # None => auth'[x].approvedBy = o /\ auth'[x].expiresAt \in Nat
        <4>1. CASE auth' = [auth EXCEPT ![x] = None]
          BY <4>1, <1>a DEF Typed, Total
        <4>2. ASSUME NEW a \in Approvals, NEW c \in Correlations,
                     auth' = [auth EXCEPT ![x] =
                          [approvalId |-> a.id, proposalId |-> i, correlation |-> c,
                           approvedBy |-> o, expiresAt |-> a.expiresAt]]
              PROVE  auth'[x].approvedBy = o /\ auth'[x].expiresAt \in Nat
          <5>1. a.expiresAt \in Nat
            BY OrderRoutingAssumption
          <5> QED
            BY <4>2, <5>1, <1>a DEF Typed, Total
        <4> QED
          BY <3>1, <4>1, <4>2
      <3>5. CallOK(x)'
        BY <3>3, <3>4, <2>0 DEF CallOK, OwnAuthority, SafeInv
      <3>6. \A y \in Executions \ {x} :
               /\ pc'[y] = pc[y] /\ caller'[y] = caller[y] /\ auth'[y] = auth[y]
               /\ found'[y] = found[y] /\ fill'[y] = fill[y] /\ status'[y] = status[y]
        BY <3>1, <1>a DEF Typed, Total
      <3> QED
        BY <2>0, <3>2, <3>3, <3>5, <3>6, NothingFilled
    <2> QED
      BY <2>1, <2>2
  <1>4. ASSUME NEW x \in Executions, ExecuteCheck(x) PROVE SafeInv'
    <2>0. pc[x] = "Check" /\ status[x] # 201 /\ UNCHANGED <<now, executed>>
      BY <1>4, <1>b DEF ExecuteCheck
    <2>1. CASE Refuse(x, 403)
      BY <2>0, <2>1, <1>a, RefuseLocal, NothingFilled
    <2>2. CASE ~Refuse(x, 403)
      <3>1. /\ ExecuteRefusal(found[x], auth[x], now) = None
            /\ pc' = [pc EXCEPT ![x] = "Mark"]
            /\ fill' = [fill EXCEPT ![x] = Execution(found[x], auth[x], now)]
            /\ UNCHANGED <<status, request, found>>
        BY <1>4, <2>2 DEF ExecuteCheck
      <3>2. Typed'
        BY <3>1, <2>0, <1>a DEF Typed, Total, request
      <3>3. /\ auth[x] # None /\ OwnAuthority(x)
            /\ auth[x].correlation = found[x].correlation
            /\ ~(now >= auth[x].expiresAt)
            /\ Fold[auth[x].approvedBy] # Fold[found[x].proposedBy]
        <4>1. /\ "NoAuthorization" # None /\ "AuthorizationForDifferentProposal" # None
              /\ "CorrelationMismatch" # None /\ "AuthorizationExpired" # None
              /\ "SegregationOfDuties" # None
          BY BestExecutionAssumption DEF ExecutionRefusalReason
        <4>2. OwnAuthority(x)
          BY <2>0 DEF SafeInv, CallOK
        <4> QED
          BY <3>1, <4>1, <4>2 DEF ExecuteRefusal
      <3>4. /\ fill'[x].correlation = found[x].correlation /\ fill'[x].executedAt = now
            /\ pc'[x] = "Mark"
        BY <3>1, <1>a DEF Typed, Total, Execution
      <3>5. CallOK(x)'
        BY <3>1, <3>3, <3>4, <2>0, <1>a
           DEF CallOK, OwnAuthority, Accepted, request, Typed, SafeInv
      <3>6. \A y \in Executions \ {x} :
               /\ pc'[y] = pc[y] /\ caller'[y] = caller[y] /\ auth'[y] = auth[y]
               /\ found'[y] = found[y] /\ fill'[y] = fill[y] /\ status'[y] = status[y]
        BY <3>1, <1>a DEF Typed, Total, request
      <3> QED
        BY <2>0, <3>1, <3>2, <3>5, <3>6, NothingFilled
    <2> QED
      BY <2>1, <2>2
  <1>5. ASSUME NEW x \in Executions, ExecuteMark(x) PROVE SafeInv'
    <2>0. pc[x] = "Mark" /\ status[x] # 201 /\ now' = now
      BY <1>5, <1>b DEF ExecuteMark
    <2>1. CASE found[x].id \in executed
      BY <2>0, <2>1, <1>5, <1>a, RefuseLocal, NothingFilled DEF ExecuteMark
    <2>2. CASE found[x].id \notin executed
      <3>1. /\ executed' = executed \cup {found[x].id}
            /\ pc' = [pc EXCEPT ![x] = "Done"] /\ status' = [status EXCEPT ![x] = 201]
            /\ UNCHANGED <<request, found, fill>>
        BY <1>5, <2>2 DEF ExecuteMark, Return
      <3>2. Typed'
        BY <3>1, <2>0, <1>a DEF Typed, Total, request
      <3>3. ASSUME NEW y \in Executions PROVE CallOK(y)'
        BY <3>1, <2>0, <1>a DEF SafeInv, CallOK, OwnAuthority, Accepted, request, Typed, Total
      <3>4. Filled' = Filled \cup {x}
        BY <3>1, <1>a DEF Filled, Typed, Total
      \* The mark was not there, so no earlier fill is of this proposal.
      <3>5. \A y \in Filled : found[y].id # found[x].id
        BY <2>2 DEF SafeInv, ExecutedIsFilled
      <3>6. FilledOnce'
        BY <3>1, <3>4, <3>5 DEF SafeInv, FilledOnce
      <3>7. ExecutedIsFilled'
        BY <3>1, <3>4 DEF SafeInv, ExecutedIsFilled
      <3> QED
        BY <3>2, <3>3, <3>6, <3>7 DEF SafeInv
    <2> QED
      BY <2>1, <2>2
  <1>6. CASE Tick
    BY <1>6, <1>a, <1>c DEF Tick, Typed
  <1>7. CASE UNCHANGED vars
    BY <1>7, <1>a, <1>c DEF vars, request, Typed
  <1> QED
    BY <1>1, <1>2, <1>3, <1>4, <1>5, <1>6, <1>7 DEF Next

LEMMA SafeInvariant == Spec => []SafeInv
  BY SafeInit, SafeNext, PTL DEF Spec

\* However many executions of a proposal overlap and however often its order is proposed
\* again, it is filled at most once (TryMarkExecuted after SimulatedOms.Execute in
\* ExecuteAsync).
THEOREM SingleUse == Spec => []FilledOnce
  <1>1. SafeInv => FilledOnce
    BY DEF SafeInv
  <1> QED
    BY <1>1, SafeInvariant, PTL

\* A proposal is marked exactly when a call returned a fill for it: an execution that is
\* refused, at whichever of its checks, burns nothing, and none is filled without a mark
\* (TryMarkExecuted comes last in ExecuteAsync).
THEOREM RefusalBurnsNothing == Spec => []ExecutedIsFilled
  <1>1. SafeInv => ExecutedIsFilled
    BY DEF SafeInv
  <1> QED
    BY <1>1, SafeInvariant, PTL

\* Every fill has a second person behind it, on an authorisation of its request chain that
\* was alive when the OMS read the clock (the refusals of SimulatedOms.Execute).
THEOREM OnAuthority == Spec => []FilledOnAuthority
  <1>1. SafeInv => FilledOnAuthority
    BY DEF SafeInv, CallOK, Accepted, FilledOnAuthority, Filled
  <1> QED
    BY <1>1, SafeInvariant, PTL

=============================================================================
