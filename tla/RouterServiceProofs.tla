------------------------ MODULE RouterServiceProofs ------------------------
(***************************************************************************)
(* Proofs about RouterService, for any catalogs, policy sets and updates,  *)
(* any number of route calls, editors, edits and restarts.                 *)
(***************************************************************************)
EXTENDS RouterService, WellFoundedInduction, TLAPS

-----------------------------------------------------------------------------
(* What Plan selects.  TierSelector ends in First(): it needs a first.     *)

LEMMA Least ==
    ASSUME NEW S, S \subseteq Nat, S # {}
    PROVE  \E x \in S : \A y \in S : x <= y
  <1> DEFINE R == {p \in Nat \X Nat : p[1] < p[2]}
  <1>1. R = OpToRel(<, Nat)
    BY DEF OpToRel
  <1>2. IsWellFoundedOn(R, Nat)
    BY <1>1, NatLessThanWellFounded, Zenon
  <1>3. ASSUME NEW x \in Nat, NEW y \in Nat, <<y, x>> \notin R
        PROVE  x <= y
    BY <1>3
  <1> HIDE DEF R
  <1>4. \E x \in S : \A y \in S : ~(<<y, x>> \in R)
    BY <1>2, WFMin
  <1> QED
    BY <1>3, <1>4

\* Each of the filters leaves something of a non-empty set of models.
LEMMA FilterLeavesSome ==
    ASSUME NEW S, S \subseteq Model, S # {}
    PROVE  /\ Cheapest(S) # {} /\ Cheapest(S) \subseteq S
           /\ LowestTier(S) # {} /\ LowestTier(S) \subseteq S
           /\ HighestTier(S) # {} /\ HighestTier(S) \subseteq S
           /\ FirstByName(S) \in S
  <1>1. \A m \in S : m.cost \in Nat /\ m.tier \in {0, 1, 2} /\ m.deployment \in Nat
    BY DEF Model, Tiers, Economy, Standard, Premium
  <1>2. \E m \in S : \A n \in S : m.cost <= n.cost
    <2> DEFINE C == {m.cost : m \in S}
    <2>1. C \subseteq Nat /\ C # {}
      BY <1>1
    <2> HIDE DEF C
    <2>2. PICK x \in C : \A y \in C : x <= y
      BY <2>1, Least
    <2> QED
      BY <2>2 DEF C
  <1>3. \E m \in S : \A n \in S : m.deployment <= n.deployment
    <2> DEFINE C == {m.deployment : m \in S}
    <2>1. C \subseteq Nat /\ C # {}
      BY <1>1
    <2> HIDE DEF C
    <2>2. PICK x \in C : \A y \in C : x <= y
      BY <2>1, Least
    <2> QED
      BY <2>2 DEF C
  <1>4. \E m \in S : \A n \in S : m.tier <= n.tier
    BY <1>1
  <1>5. \E m \in S : \A n \in S : m.tier >= n.tier
    BY <1>1
  <1>6. FirstByName(S) \in S
    BY <1>3 DEF FirstByName
  <1> QED
    BY <1>2, <1>4, <1>5, <1>6 DEF Cheapest, LowestTier, HighestTier

LEMMA ChosenIsAffordable ==
    ASSUME NEW S, S \subseteq Model, S # {}, NEW indicated
    PROVE  Choose(S, indicated) \in S
  <1> DEFINE at    == {m \in S : m.tier = indicated}
             below == {m \in S : m.tier < indicated}
             pool  == IF at # {} THEN at ELSE IF below # {} THEN HighestTier(below) ELSE LowestTier(S)
  <1>1. pool # {} /\ pool \subseteq S
    <2>1. CASE at # {}
      BY <2>1
    <2>2. CASE at = {} /\ below # {}
      <3>1. below \subseteq Model
        OBVIOUS
      <3> HIDE DEF below
      <3>2. HighestTier(below) # {} /\ HighestTier(below) \subseteq below
        BY <2>2, <3>1, FilterLeavesSome
      <3> QED
        BY <2>2, <3>2 DEF below
    <2>3. CASE at = {} /\ below = {}
      BY <2>3, FilterLeavesSome
    <2> QED
      BY <2>1, <2>2, <2>3
  <1>2. Choose(S, indicated) = FirstByName(Cheapest(pool))
    BY DEF Choose
  <1> HIDE DEF pool
  <1>3. Cheapest(pool) # {} /\ Cheapest(pool) \subseteq pool
    BY <1>1, FilterLeavesSome
  <1> QED
    BY <1>1, <1>2, <1>3, FilterLeavesSome

\* A selected model is in the catalog, up, let through by the gate and within both ceilings.
LEMMA SelectedIsUsable ==
    ASSUME NEW body \in Request, NEW available, available \subseteq Model, NEW p \in PolicySet,
           Plan(body, available, p).selected # None
    PROVE  LET m == Plan(body, available, p).selected
           IN  /\ m \in available /\ m.available /\ Exclusion(m, p, body) = None
               /\ m.cost <= p.maxCost /\ m.cost <= body.ceiling
  <1> DEFINE eligible   == Eligible(available, p, body)
             ceiling    == Min2(body.ceiling, p.maxCost)
             affordable == {m \in eligible : m.available /\ m.cost <= ceiling}
             decided    == Select(Score(body), ceiling, eligible)
  <1>1. eligible # {} /\ Plan(body, available, p).selected = decided.selected
    BY DEF Plan, Governed, Refused
  <1>2. affordable # {} /\ decided.selected = Choose(affordable, IndicatedTier(Score(body)))
    BY <1>1 DEF Select
  <1>3. affordable \subseteq Model
    BY DEF Eligible
  <1> HIDE DEF affordable
  <1>4. decided.selected \in affordable
    BY <1>2, <1>3, ChosenIsAffordable
  <1>5. \A m \in affordable :
          m \in available /\ m.available /\ Exclusion(m, p, body) = None /\ m.cost <= ceiling
    BY DEF affordable, Eligible
  <1>6. \A x \in Nat : x <= ceiling => x <= p.maxCost /\ x <= body.ceiling
    BY DEF Min2, PolicySet, Request
  <1>7. \A m \in affordable : m.cost \in Nat
    BY <1>3 DEF Model
  <1> QED
    BY <1>1, <1>4, <1>5, <1>6, <1>7

LEMMA PinsItsPolicy ==
    ASSUME NEW body, NEW available, NEW p
    PROVE  Plan(body, available, p).version = p.version
  BY DEF Plan, Governed

-----------------------------------------------------------------------------
(* The repository.                                                         *)

\* What each run's log holds, and that the current set is the last of its run's log.
Repository ==
    /\ policy \in PolicySet /\ run \in 0..MaxRestarts
    /\ history \in [0..MaxRestarts -> Seq(PolicySet)]
    /\ \A n \in 0..MaxRestarts : n > run => history[n] = <<>>
    /\ \A n \in 0..MaxRestarts : \A i \in 1..Len(history[n]) :
         history[n][i].version = Seed.version + i /\ Validate(history[n][i]) = None
    /\ policy = IF Len(history[run]) = 0 THEN Seed ELSE history[run][Len(history[run])]

\* A step only ever adds to the logs.
Grows ==
    /\ run <= run'
    /\ \A n \in 0..MaxRestarts :
         /\ Len(history[n]) <= Len(history'[n])
         /\ \A i \in 1..Len(history[n]) : history'[n][i] = history[n][i]

LEMMA ProposedTyped ==
    ASSUME NEW p \in PolicySet, NEW u \in Updates
    PROVE  Proposed(p, u) \in PolicySet /\ Proposed(p, u).version = p.version + 1
  <1>1. u \in PolicySetUpdate
    BY RouterAssumption
  <1>2. /\ Supplied(u.approved, p.approved) \in SUBSET Vendors
        /\ Supplied(u.maxClass, p.maxClass) \in UNION {[V -> Classifications] : V \in SUBSET Vendors}
        /\ Supplied(u.regions, p.regions) \in SUBSET Regions
        /\ Supplied(u.maxCost, p.maxCost) \in Nat
        /\ Supplied(u.permitsRestricted, p.permitsRestricted) \in BOOLEAN
    <2> DEFINE MaxClass == UNION {[V -> Classifications] : V \in SUBSET Vendors}
    <2>1. /\ u.approved \in (SUBSET Vendors) \cup {None} /\ u.maxClass \in MaxClass \cup {None}
          /\ u.regions \in (SUBSET Regions) \cup {None} /\ u.maxCost \in Nat \cup {None}
          /\ u.permitsRestricted \in BOOLEAN \cup {None}
      BY <1>1 DEF PolicySetUpdate
    <2>2. /\ p.approved \in SUBSET Vendors /\ p.maxClass \in MaxClass /\ p.regions \in SUBSET Regions
          /\ p.maxCost \in Nat /\ p.permitsRestricted \in BOOLEAN
      BY DEF PolicySet
    <2> HIDE DEF MaxClass
    <2>3. ASSUME NEW T, NEW old \in T, NEW new \in T \cup {None}
          PROVE  Supplied(new, old) \in T
      BY DEF Supplied
    <2>4. Supplied(u.maxClass, p.maxClass) \in MaxClass
      BY <2>1, <2>2, <2>3
    <2> QED
      BY <2>1, <2>2, <2>3, <2>4 DEF MaxClass
  <1>3. p.version + 1 \in Nat
    BY DEF PolicySet
  <1> QED
    BY <1>2, <1>3 DEF Proposed, PolicySet

LEMMA RepositoryInit == Init => Repository
  <1> SUFFICES ASSUME Init PROVE Repository
    OBVIOUS
  <1>1. history = [n \in 0..MaxRestarts |-> <<>>] /\ run = 0 /\ policy = Seed
    BY DEF Init
  <1>2. <<>> \in Seq(PolicySet) /\ Len(<<>>) = 0
    OBVIOUS
  <1>3. \A n \in 0..MaxRestarts : history[n] = <<>>
    BY <1>1
  <1>4. history \in [0..MaxRestarts -> Seq(PolicySet)]
    BY <1>1, <1>2
  <1>5. 0 \in 0..MaxRestarts /\ Seed \in PolicySet
    BY RouterAssumption
  <1> QED
    BY <1>1, <1>2, <1>3, <1>4, <1>5 DEF Repository

\* The version is the seed's plus the number of edits since the service started.
Counts ==
    /\ policy.version = Seed.version + Len(history[run])
    /\ Len(history[run]) \in Nat /\ Seed.version \in Nat

LEMMA VersionCounts == Repository => Counts
  <1> SUFFICES ASSUME Repository PROVE Counts
    OBVIOUS
  <1>1. Len(history[run]) \in Nat /\ Seed.version \in Nat
    BY RouterAssumption DEF Repository, PolicySet
  <1>2. CASE Len(history[run]) = 0
    BY <1>1, <1>2 DEF Repository, Counts
  <1>3. CASE Len(history[run]) # 0
    BY <1>1, <1>3 DEF Repository, Counts
  <1> QED
    BY <1>1, <1>2, <1>3 DEF Counts

LEMMA EditKeepsLog ==
    ASSUME Repository, NEW u \in Updates, Validate(Proposed(policy, u)) = None,
           policy' = Proposed(policy, u), run' = run,
           history' = [history EXCEPT ![run] = Append(@, Proposed(policy, u))]
    PROVE  Repository' /\ Grows
  <1> DEFINE s == history[run]
             p == Proposed(policy, u)
  <1>1. run \in 0..MaxRestarts /\ s \in Seq(PolicySet) /\ run \in Int
    BY DEF Repository
  <1>2. p \in PolicySet /\ p.version = policy.version + 1
    BY ProposedTyped DEF Repository
  <1>3. policy.version = Seed.version + Len(s) /\ Len(s) \in Nat /\ Seed.version \in Nat
    BY VersionCounts DEF Counts
  <1>4. /\ history'[run] = Append(s, p)
        /\ \A n \in 0..MaxRestarts : n # run => history'[n] = history[n]
        /\ DOMAIN history' = 0..MaxRestarts
    BY <1>1 DEF Repository
  <1> HIDE DEF s, p
  <1>5. /\ Append(s, p) \in Seq(PolicySet) /\ Len(Append(s, p)) = Len(s) + 1
        /\ \A i \in 1..Len(s) : Append(s, p)[i] = s[i]
        /\ Append(s, p)[Len(s) + 1] = p
    BY <1>1, <1>2
  <1>6. history' \in [0..MaxRestarts -> Seq(PolicySet)]
    <2>1. \A n \in 0..MaxRestarts : history'[n] \in Seq(PolicySet)
      BY <1>4, <1>5 DEF Repository
    <2>2. history' = [n \in 0..MaxRestarts |-> history'[n]]
      BY <1>4 DEF Repository
    <2> QED
      BY <2>1, <2>2
  <1>7. ASSUME NEW n \in 0..MaxRestarts, NEW i \in 1..Len(history'[n])
        PROVE  history'[n][i].version = Seed.version + i /\ Validate(history'[n][i]) = None
    <2>1. CASE n # run
      BY <1>4, <2>1 DEF Repository
    <2>2. CASE n = run /\ i \in 1..Len(s)
      BY <1>1, <1>4, <1>5, <2>2 DEF Repository, s
    <2>3. CASE n = run /\ i = Len(s) + 1
      <3>1. history'[n][i] = p
        BY <1>4, <1>5, <2>3
      <3>2. p.version = Seed.version + (Len(s) + 1) /\ Validate(p) = None
        BY <1>2, <1>3 DEF p
      <3> QED
        BY <2>3, <3>1, <3>2
    <2>4. n = run => i \in 1..Len(s) \/ i = Len(s) + 1
      BY <1>3, <1>4, <1>5
    <2> QED
      BY <2>1, <2>2, <2>3, <2>4
  <1>8. \A n \in 0..MaxRestarts : n > run' => history'[n] = <<>>
    BY <1>1, <1>4 DEF Repository
  <1>9. policy' = history'[run'][Len(history'[run'])] /\ Len(history'[run']) # 0
    BY <1>3, <1>4, <1>5 DEF p
  <1>10. Repository'
    BY <1>1, <1>2, <1>6, <1>7, <1>8, <1>9 DEF Repository, p
  <1>11. ASSUME NEW n \in 0..MaxRestarts
         PROVE  /\ Len(history[n]) <= Len(history'[n])
                /\ \A i \in 1..Len(history[n]) : history'[n][i] = history[n][i]
    <2>1. Len(history[n]) \in Nat
      BY DEF Repository
    <2> QED
      BY <1>3, <1>4, <1>5, <2>1 DEF s
  <1> QED
    BY <1>1, <1>10, <1>11 DEF Grows

LEMMA RepositoryNext ==
    ASSUME Repository, [Next]_vars
    PROVE  Repository' /\ Grows
  <1>1. ASSUME UNCHANGED repository
        PROVE  Repository' /\ Grows
    BY <1>1 DEF repository, Repository, Grows
  <1>2. ASSUME NEW e \in Editors, NEW u \in Updates, UpdateAsync(e, u)
        PROVE  Repository' /\ Grows
    BY <1>1, <1>2, EditKeepsLog DEF UpdateAsync, UpdateAccepted
  <1>3. ASSUME Restart
        PROVE  Repository' /\ Grows
    <2>1. run' = run + 1 /\ policy' = Seed /\ history' = history /\ run < MaxRestarts
      BY <1>3 DEF Restart
    <2>2. run' \in 0..MaxRestarts /\ run' > run /\ run \in Int
      BY <2>1, RouterAssumption DEF Repository
    <2>3. history[run'] = <<>> /\ Seed \in PolicySet
      BY <2>2, RouterAssumption DEF Repository
    <2>4. \A n \in 0..MaxRestarts : n > run' => n > run
      BY <2>2
    <2>5. Grows
      BY <2>1, <2>2 DEF Grows, Repository
    <2> QED
      BY <2>1, <2>2, <2>3, <2>4, <2>5 DEF Repository
  <1> QED
    BY <1>1, <1>2, <1>3
       DEF Next, vars, repository, Route, RouteBegin, RouteReadPolicy, RouteSave, RouteSaveFails,
           EditorView, Reload

\* One log entry per version, without a gap, the last one current and every one servable:
\* whatever edits are accepted, refused or raced, and however often the service restarts,
\* InMemoryPolicySetRepository's log tells the whole story of each run.
THEOREM LogIsComplete == Spec => []HistoryIsComplete
  <1>1. Repository => HistoryIsComplete
    <2> SUFFICES ASSUME Repository PROVE HistoryIsComplete
      OBVIOUS
    <2>1. history[run] \in Seq(PolicySet) /\ run \in 0..MaxRestarts
      BY DEF Repository
    <2>2. Len(history[run]) = 0 <=> history[run] = <<>>
      BY <2>1
    <2>3. ASSUME NEW n \in 0..run, NEW i \in 1..MaxVersion, i <= Len(history[n])
          PROVE  /\ history[n][i].version = Seed.version + i
                 /\ DOMAIN history[n][i].maxClass = history[n][i].approved
                 /\ history[n][i].permitsRestricted =>
                      \E v \in history[n][i].approved : history[n][i].maxClass[v] = Restricted
      <3> DEFINE p == history[n][i]
      <3>1. n \in 0..MaxRestarts
        BY <2>1, RouterAssumption
      <3>2. history[n] \in Seq(PolicySet) /\ i \in 1..Len(history[n])
        BY <2>3, <3>1, RouterAssumption DEF Repository
      <3>3. p \in PolicySet /\ p.version = Seed.version + i /\ Validate(p) = None
        BY <3>1, <3>2 DEF Repository
      <3> HIDE DEF p
      <3>4. DOMAIN p.maxClass = p.approved
        BY <3>3, RoutingNullAssumption DEF Validate, PolicyValidationFailure
      <3>5. p.permitsRestricted => CanServeRestricted(p)
        BY <3>3, RoutingNullAssumption DEF Validate, PolicyValidationFailure
      <3>6. \A v \in DOMAIN p.maxClass : p.maxClass[v] \in 0..3
        BY <3>3 DEF PolicySet, Classifications
      <3>7. p.permitsRestricted => \E v \in p.approved : p.maxClass[v] = Restricted
        BY <3>5, <3>6 DEF CanServeRestricted, Restricted
      <3> QED
        BY <3>3, <3>4, <3>7 DEF p
    <2> QED
      BY <2>2, <2>3 DEF HistoryIsComplete, Repository
  <1> QED
    BY <1>1, RepositoryInit, RepositoryNext, PTL DEF Spec

-----------------------------------------------------------------------------
(* Calls and records.                                                      *)

\* p is the policy set that run n had under p's version number.
Governs(n, p) ==
    /\ p \in PolicySet /\ p.version - Seed.version \in 0..Len(history[n])
    /\ p = InForce(n, p.version)

\* A call that has arrived: the version then in force is its floor, and the set it reads is
\* one its own run had since.
Underway(h) ==
    /\ pc[h] \in {"ReadPolicy", "Save"} =>
         /\ request[h] \in Requests /\ models[h] \subseteq Model
         /\ floor[h] \in Nat /\ floor[h] <= policy.version
    /\ pc[h] = "Save" => Governs(run, governing[h]) /\ floor[h] <= governing[h].version

\* A record is what Plan says under the set its version names.
Written(r) ==
    /\ r.run \in 0..run /\ r.request \in Requests /\ r.models \subseteq Model
    /\ \E p \in PolicySet :
         /\ Governs(r.run, p) /\ r.floor <= p.version
         /\ r.decision = Plan(r.request, r.models, p)

CallsInv ==
    /\ catalog \subseteq Model
    /\ DOMAIN pc = Calls /\ DOMAIN request = Calls /\ DOMAIN models = Calls
    /\ DOMAIN governing = Calls /\ DOMAIN floor = Calls /\ DOMAIN answer = Calls
    /\ \A h \in Calls : Underway(h)
    /\ \A r \in decisions : Written(r)

\* The current set governs, and what governs still does after a step that adds to the logs.
LEMMA PolicyGoverns ==
    ASSUME Repository
    PROVE  Governs(run, policy)
  <1>1. /\ policy.version = Seed.version + Len(history[run])
        /\ Len(history[run]) \in Nat /\ Seed.version \in Nat
    BY VersionCounts DEF Counts
  <1>2. policy.version - Seed.version = Len(history[run]) /\ policy \in PolicySet
    BY <1>1 DEF Repository
  <1>3. policy = InForce(run, policy.version)
    <2>1. CASE Len(history[run]) = 0
      BY <1>1, <2>1 DEF InForce, Repository
    <2>2. CASE Len(history[run]) # 0
      <3>1. policy.version # Seed.version
        BY <1>1, <2>2
      <3> QED
        BY <1>2, <2>2, <3>1 DEF InForce, Repository
    <2> QED
      BY <2>1, <2>2
  <1> QED
    BY <1>1, <1>2, <1>3 DEF Governs

LEMMA GovernsKept ==
    ASSUME Repository, Repository', Grows, NEW n \in 0..run, NEW p, Governs(n, p)
    PROVE  /\ n \in 0..run'
           /\ p \in PolicySet /\ p.version - Seed.version \in 0..Len(history'[n])
           /\ p = IF p.version = Seed.version THEN Seed ELSE history'[n][p.version - Seed.version]
  <1> DEFINE k == p.version - Seed.version
  <1>1. n \in 0..MaxRestarts /\ n \in 0..run' /\ Seed.version \in Int /\ p.version \in Int
    BY RouterAssumption DEF Repository, Grows, Governs, PolicySet
  <1>2. /\ Len(history[n]) \in Nat /\ Len(history'[n]) \in Nat
        /\ Len(history[n]) <= Len(history'[n])
        /\ \A i \in 1..Len(history[n]) : history'[n][i] = history[n][i]
    BY <1>1 DEF Repository, Grows
  <1>3. k \in 0..Len(history'[n])
    BY <1>2 DEF Governs
  <1>4. p.version # Seed.version => k \in 1..Len(history[n])
    BY <1>1, <1>2 DEF Governs
  <1>5. p.version # Seed.version => p = history'[n][k]
    BY <1>2, <1>4 DEF Governs, InForce
  <1> QED
    BY <1>1, <1>3, <1>5 DEF Governs, InForce

LEMMA WrittenKept ==
    ASSUME Repository, Repository', Grows, NEW r, Written(r)
    PROVE  Written(r)'
  <1>1. PICK p \in PolicySet :
          /\ Governs(r.run, p) /\ r.floor <= p.version
          /\ r.decision = Plan(r.request, r.models, p)
    BY DEF Written
  <1>2. r.run \in 0..run' /\ Governs(r.run, p)'
    BY <1>1, GovernsKept DEF Written, Governs, InForce
  <1> QED
    BY <1>1, <1>2 DEF Written

\* A step that does not touch a call, in a run that goes on.
LEMMA UnderwayKept ==
    ASSUME Repository, Repository', Grows, run' = run, NEW h \in Calls, Underway(h),
           pc'[h] = pc[h], request'[h] = request[h], models'[h] = models[h],
           floor'[h] = floor[h], governing'[h] = governing[h]
    PROVE  Underway(h)'
  <1>1. run \in 0..MaxRestarts /\ run \in 0..run
    BY DEF Repository
  <1>2. policy.version <= policy'.version
    <2>1. /\ policy.version = Seed.version + Len(history[run])
          /\ Len(history[run]) \in Nat /\ Seed.version \in Nat
      BY VersionCounts DEF Counts
    <2>2. policy'.version = Seed.version + Len(history'[run]) /\ Len(history'[run]) \in Nat
      <3>1. Counts'
        BY VersionCounts, PTL
      <3> QED
        BY <3>1 DEF Counts
    <2>3. Len(history[run]) <= Len(history'[run])
      BY <1>1 DEF Grows
    <2> QED
      BY <2>1, <2>2, <2>3
  <1>3. policy.version \in Nat /\ policy'.version \in Nat
    BY DEF Repository, PolicySet
  <1>4. pc[h] = "Save" => Governs(run, governing[h])'
    BY <1>1, GovernsKept DEF Underway, Governs, InForce
  <1> QED
    BY <1>2, <1>3, <1>4 DEF Underway

LEMMA ReturnEnds ==
    ASSUME CallsInv, NEW h \in Calls, NEW reply, Return(h, reply)
    PROVE  /\ DOMAIN pc' = Calls /\ DOMAIN request' = Calls /\ DOMAIN models' = Calls
           /\ DOMAIN governing' = Calls /\ DOMAIN floor' = Calls /\ DOMAIN answer' = Calls
           /\ pc'[h] = "Done" /\ answer'[h] = reply
           /\ \A k \in Calls \ {h} :
                /\ pc'[k] = pc[k] /\ request'[k] = request[k] /\ models'[k] = models[k]
                /\ governing'[k] = governing[k] /\ floor'[k] = floor[k] /\ answer'[k] = answer[k]
  BY DEF CallsInv, Return

LEMMA RecordWritten ==
    ASSUME Repository, NEW h \in Calls, Underway(h), pc[h] = "Save"
    PROVE  Written(Record(h))
  <1>1. run \in 0..run
    BY DEF Repository
  <1>2. governing[h] \in PolicySet
    BY DEF Underway, Governs
  <1> QED
    BY <1>1, <1>2 DEF Written, Record, Underway

LEMMA CallsInit == Init => CallsInv
  BY RouterAssumption DEF Init, CallsInv, Underway

LEMMA CallsNext ==
    ASSUME Repository, CallsInv, [Next]_vars
    PROVE  CallsInv'
  <1>1. Repository' /\ Grows
    BY RepositoryNext
  <1>2. \A r \in decisions : Written(r)'
    BY <1>1, WrittenKept DEF CallsInv
  <1>3. ASSUME UNCHANGED <<pc, request, models, governing, floor, answer, decisions>>,
               run' = run, catalog' \subseteq Model
        PROVE  CallsInv'
    BY <1>1, <1>2, <1>3, UnderwayKept DEF CallsInv
  <1>4. ASSUME NEW h \in Calls, RouteBegin(h)
        PROVE  CallsInv'
    <2>1. UNCHANGED <<catalog, policy, run, history, decisions>>
      BY <1>4 DEF RouteBegin, repository
    <2>2. CASE \E reply : Return(h, reply)
      BY <1>1, <1>2, <2>1, <2>2, ReturnEnds, UnderwayKept DEF CallsInv, Underway
    <2>3. CASE ~(\E reply : Return(h, reply))
      <3>1. PICK body \in Requests :
              /\ pc' = [pc EXCEPT ![h] = "ReadPolicy"]
              /\ request' = [request EXCEPT ![h] = body]
              /\ models' = [models EXCEPT ![h] = catalog]
              /\ floor' = [floor EXCEPT ![h] = policy.version]
              /\ UNCHANGED <<answer, governing>>
        BY <1>4, <2>3 DEF RouteBegin
      <3>2. Underway(h)'
        BY <2>1, <3>1 DEF CallsInv, Underway, Repository, PolicySet
      <3>3. \A k \in Calls \ {h} : Underway(k)'
        BY <1>1, <2>1, <3>1, UnderwayKept DEF CallsInv
      <3> QED
        BY <1>2, <2>1, <3>1, <3>2, <3>3 DEF CallsInv
    <2> QED
      BY <2>2, <2>3
  <1>5. ASSUME NEW h \in Calls, RouteReadPolicy(h)
        PROVE  CallsInv'
    <2>1. UNCHANGED <<catalog, policy, run, history, decisions>>
      BY <1>5 DEF RouteReadPolicy, repository
    <2>2. CASE \E reply : Return(h, reply)
      BY <1>1, <1>2, <2>1, <2>2, ReturnEnds, UnderwayKept DEF CallsInv, Underway
    <2>3. CASE ~(\E reply : Return(h, reply))
      <3>1. /\ pc[h] = "ReadPolicy" /\ pc' = [pc EXCEPT ![h] = "Save"]
            /\ governing' = [governing EXCEPT ![h] = policy]
            /\ UNCHANGED <<request, models, floor, answer>>
        BY <1>5, <2>3 DEF RouteReadPolicy
      <3>2. Governs(run, policy)'
        BY <2>1, PolicyGoverns DEF Governs, InForce
      <3>3. Underway(h)'
        BY <2>1, <3>1, <3>2 DEF CallsInv, Underway
      <3>4. \A k \in Calls \ {h} : Underway(k)'
        BY <1>1, <2>1, <3>1, UnderwayKept DEF CallsInv
      <3> QED
        BY <1>2, <2>1, <3>1, <3>3, <3>4 DEF CallsInv
    <2> QED
      BY <2>2, <2>3
  <1>6. ASSUME NEW h \in Calls, RouteSave(h) \/ RouteSaveFails(h)
        PROVE  CallsInv'
    <2>1. UNCHANGED <<catalog, policy, run, history>> /\ pc[h] = "Save"
      BY <1>6 DEF RouteSave, RouteSaveFails, repository
    <2>2. PICK reply : Return(h, reply)
      BY <1>6 DEF RouteSave, RouteSaveFails
    <2>3. decisions' \subseteq decisions \cup {Record(h)}
      BY <1>6 DEF RouteSave, RouteSaveFails
    <2>4. ASSUME NEW r, r = Record(h)
          PROVE  Written(r)'
      BY <1>1, <2>1, <2>4, RecordWritten, WrittenKept DEF CallsInv
    <2>5. \A r \in decisions' : Written(r)'
      BY <1>2, <2>3, <2>4
    <2> QED
      BY <1>1, <2>1, <2>2, <2>5, ReturnEnds, UnderwayKept DEF CallsInv, Underway
  <1>7. ASSUME Restart
        PROVE  CallsInv'
    BY <1>2, <1>7 DEF Restart, CallsInv, Underway
  <1>8. ASSUME Reload
        PROVE  CallsInv'
    BY <1>3, <1>8, RouterAssumption DEF Reload, repository, locals
  <1>9. ASSUME NEW e \in Editors, EditorView(e) \/ (\E u \in Updates : UpdateAsync(e, u))
        PROVE  CallsInv'
    BY <1>3, <1>9 DEF EditorView, UpdateAsync, repository, locals, CallsInv
  <1>10. ASSUME UNCHANGED vars
         PROVE  CallsInv'
    BY <1>3, <1>10 DEF vars, CallsInv
  <1> QED
    BY <1>4, <1>5, <1>6, <1>7, <1>8, <1>9, <1>10 DEF Next, Route

\* Every record of every run is what Plan said under the policy set its version names, so
\* the model it selected obeys that set: however the policy moved while the call was under
\* way or since, replaying a RoutingDecision against the version it pins finds no breach.
THEOREM PinGoverns == Spec => []PinnedVersionGoverns
  <1>1. CallsInv => PinnedVersionGoverns
    <2> SUFFICES ASSUME CallsInv, NEW r \in decisions
                 PROVE  LET p == InForce(r.run, r.decision.version)
                            m == r.decision.selected
                        IN  /\ r.decision.version - Seed.version \in 0..Len(history[r.run])
                            /\ m # None =>
                                 /\ m \in r.models /\ m.available
                                 /\ m.vendor \in p.approved
                                 /\ r.request.classification <= p.maxClass[m.vendor]
                                 /\ p.regions = {} \/ r.request.region \in p.regions \cup {None}
                                 /\ m.cost <= p.maxCost /\ m.cost <= r.request.ceiling
      BY DEF PinnedVersionGoverns
    <2>1. PICK p \in PolicySet :
            Governs(r.run, p) /\ r.decision = Plan(r.request, r.models, p)
      BY DEF CallsInv, Written
    <2>2. r.request \in Request /\ r.models \subseteq Model
      BY RouterAssumption DEF CallsInv, Written
    <2>3. r.decision.version = p.version
      BY <2>1, PinsItsPolicy
    <2>4. ASSUME NEW m \in Model, Exclusion(m, p, r.request) = None
          PROVE  /\ m.vendor \in p.approved
                 /\ r.request.classification <= p.maxClass[m.vendor]
                 /\ p.regions = {} \/ r.request.region \in p.regions \cup {None}
      <3>1. /\ ~RegionBarred(p, r.request) /\ m.vendor \in p.approved
            /\ m.vendor \in DOMAIN p.maxClass /\ ~(r.request.classification > p.maxClass[m.vendor])
        BY <2>4, RoutingNullAssumption DEF Exclusion, ExclusionKind
      <3>2. p.maxClass[m.vendor] \in 0..3 /\ r.request.classification \in 0..3
        BY <2>2, <3>1 DEF PolicySet, Request, Classifications
      <3> QED
        BY <3>1, <3>2 DEF RegionBarred
    <2>5. r.decision.selected # None =>
            LET m == r.decision.selected
            IN  /\ m \in r.models /\ m.available /\ Exclusion(m, p, r.request) = None
                /\ m.cost <= p.maxCost /\ m.cost <= r.request.ceiling
      BY <2>1, <2>2, SelectedIsUsable
    <2> QED
      BY <2>1, <2>2, <2>3, <2>4, <2>5 DEF Governs
  <1> QED
    BY <1>1, RepositoryInit, RepositoryNext, CallsInit, CallsNext, PTL DEF Spec

\* No call is decided under a version older than the one in force when it arrived, nor under
\* one its run has not reached: an edit that was accepted takes effect at once.
THEOREM NeverStale == Spec => []NoStaleGovernance
  <1>1. Repository /\ CallsInv => NoStaleGovernance
    <2> SUFFICES ASSUME Repository, CallsInv, NEW r \in decisions
                 PROVE  /\ r.floor <= r.decision.version
                        /\ r.run = run => r.decision.version <= policy.version
      BY DEF NoStaleGovernance
    <2>1. PICK p \in PolicySet :
            /\ Governs(r.run, p) /\ r.floor <= p.version
            /\ r.decision = Plan(r.request, r.models, p)
      BY DEF CallsInv, Written
    <2>2. r.decision.version = p.version
      BY <2>1, PinsItsPolicy
    <2>3. /\ policy.version = Seed.version + Len(history[run])
          /\ Len(history[run]) \in Nat /\ Seed.version \in Nat
      BY VersionCounts DEF Counts
    <2>4. p.version \in Nat /\ p.version - Seed.version \in 0..Len(history[r.run])
      BY <2>1 DEF Governs, PolicySet
    <2> QED
      BY <2>1, <2>2, <2>3, <2>4
  <1> QED
    BY <1>1, RepositoryInit, RepositoryNext, CallsInit, CallsNext, PTL DEF Spec

-----------------------------------------------------------------------------
(* Answers and editors.                                                    *)

AnswersInv == DOMAIN answer = Calls /\ AnsweredIsRecorded

LEMMA AnswersNext ==
    ASSUME AnswersInv, [Next]_vars
    PROVE  AnswersInv'
  <1>1. ASSUME UNCHANGED answer, decisions \subseteq decisions'
        PROVE  AnswersInv'
    BY <1>1 DEF AnswersInv, AnsweredIsRecorded
  <1>2. ASSUME NEW h \in Calls, NEW status, Return(h, Reply(status, None)),
               decisions \subseteq decisions'
        PROVE  AnswersInv'
    <2>1. /\ DOMAIN answer' = Calls /\ answer'[h].decision = None
          /\ \A k \in Calls \ {h} : answer'[k] = answer[k]
      BY <1>2 DEF AnswersInv, Return, Reply
    <2> QED
      BY <1>2, <2>1 DEF AnswersInv, AnsweredIsRecorded
  <1>3. ASSUME NEW h \in Calls, RouteSave(h)
        PROVE  AnswersInv'
    <2>1. /\ DOMAIN answer' = Calls /\ answer'[h].decision = Record(h).decision
          /\ \A k \in Calls \ {h} : answer'[k] = answer[k]
      BY <1>3 DEF AnswersInv, RouteSave, Return, Reply
    <2>2. decisions' = decisions \cup {Record(h)} /\ Record(h).id = h
      BY <1>3 DEF RouteSave, Record
    <2>3. ASSUME NEW k \in Calls, answer'[k] # None, answer'[k].decision # None
          PROVE  \E r \in decisions' : r.id = k /\ r.decision = answer'[k].decision
      BY <2>1, <2>2, <2>3 DEF AnswersInv, AnsweredIsRecorded
    <2> QED
      BY <2>1, <2>3 DEF AnswersInv, AnsweredIsRecorded
  <1>4. ASSUME NEW h \in Calls, RouteBegin(h)
        PROVE  AnswersInv'
    BY <1>1, <1>2, <1>4 DEF RouteBegin
  <1>5. ASSUME NEW h \in Calls, RouteReadPolicy(h)
        PROVE  AnswersInv'
    BY <1>1, <1>2, <1>5 DEF RouteReadPolicy
  <1>6. ASSUME NEW h \in Calls, RouteSaveFails(h)
        PROVE  AnswersInv'
    BY <1>2, <1>6 DEF RouteSaveFails
  <1>7. ASSUME Restart \/ Reload \/ UNCHANGED vars
               \/ \E e \in Editors : EditorView(e) \/ (\E u \in Updates : UpdateAsync(e, u))
        PROVE  AnswersInv'
    BY <1>1, <1>7 DEF Restart, Reload, vars, EditorView, UpdateAsync
  <1> QED
    BY <1>3, <1>4, <1>5, <1>6, <1>7 DEF Next, Route

\* Nothing is routed, denied or refused off the record: RouteRequestHandler answers with a
\* decision only after SaveAsync has returned, and neither a failed write nor a restart
\* takes a record away.
THEOREM AnswersAreRecorded == Spec => []AnsweredIsRecorded
  <1>1. Init => AnswersInv
    BY DEF Init, AnswersInv, AnsweredIsRecorded
  <1>2. AnswersInv => AnsweredIsRecorded
    BY DEF AnswersInv
  <1> QED
    BY <1>1, <1>2, AnswersNext, PTL DEF Spec

\* What an editor has on screen is a set that some run had, under its own number.
EditorsInv ==
    /\ DOMAIN viewed = Editors
    /\ \A e \in Editors : viewed[e] # None =>
         viewed[e].run \in 0..run /\ Governs(viewed[e].run, viewed[e].set)

LEMMA EditorsNext ==
    ASSUME Repository, EditorsInv, [Next]_vars
    PROVE  EditorsInv'
  <1>1. Repository' /\ Grows
    BY RepositoryNext
  <1>2. ASSUME NEW n \in 0..run, NEW p, Governs(n, p)
        PROVE  n \in 0..run' /\ Governs(n, p)'
    BY <1>1, <1>2, GovernsKept DEF Governs, InForce
  <1>3. ASSUME DOMAIN viewed' = Editors,
               \A e \in Editors : viewed'[e] \in {None, viewed[e]}
        PROVE  EditorsInv'
    BY <1>2, <1>3 DEF EditorsInv
  <1>4. ASSUME NEW e \in Editors, EditorView(e)
        PROVE  EditorsInv'
    <2>1. /\ DOMAIN viewed' = Editors
          /\ viewed'[e].run = run /\ viewed'[e].set = policy
          /\ \A d \in Editors \ {e} : viewed'[d] = viewed[d]
          /\ UNCHANGED repository
      BY <1>4 DEF EditorView, EditorsInv
    <2>2. run \in 0..run /\ Governs(run, policy)
      BY PolicyGoverns DEF Repository
    <2>3. Governs(viewed[e].run, viewed[e].set)' /\ viewed'[e].run \in 0..run'
      BY <2>1, <2>2 DEF repository, Governs, InForce
    <2>4. ASSUME NEW d \in Editors \ {e}, viewed'[d] # None
          PROVE  viewed'[d].run \in 0..run' /\ Governs(viewed[d].run, viewed[d].set)'
      BY <1>2, <2>1, <2>4 DEF EditorsInv, Governs, InForce
    <2> QED
      BY <2>1, <2>3, <2>4 DEF EditorsInv
  <1>5. ASSUME NEW e \in Editors, NEW u \in Updates, UpdateAsync(e, u)
        PROVE  EditorsInv'
    BY <1>3, <1>5 DEF UpdateAsync, EditorsInv
  <1> QED
    BY <1>3, <1>4, <1>5
       DEF Next, vars, EditorsInv, Route, RouteBegin, RouteReadPolicy, RouteSave, RouteSaveFails,
           Reload, Restart

\* No approver's edit is overwritten unseen: while the service runs, UpdateAsync replaces a
\* policy set only for an editor who was looking at that very set.
THEOREM NoEditIsLost == Spec => NoLostUpdate
  <1> DEFINE Seen == policy' # policy /\ run' = run =>
                       \E e \in Editors : /\ viewed[e] # None /\ viewed'[e] = None
                                          /\ viewed[e].run = run => viewed[e].set = policy
  <1>1. ASSUME Repository, EditorsInv, [Next]_vars
        PROVE  [Seen]_vars
    <2>1. ASSUME NEW e \in Editors, NEW u \in Updates, UpdateAsync(e, u), policy' # policy
          PROVE  /\ viewed[e] # None /\ viewed'[e] = None
                 /\ viewed[e].run = run => viewed[e].set = policy
      <3>1. viewed[e] # None /\ viewed'[e] = None /\ policy.version = viewed[e].set.version
        BY <1>1, <2>1 DEF UpdateAsync, UpdateAccepted, repository, EditorsInv
      <3>2. policy = InForce(run, policy.version)
        BY <1>1, PolicyGoverns DEF Governs
      <3>3. viewed[e].set = InForce(viewed[e].run, viewed[e].set.version)
        BY <1>1, <3>1 DEF EditorsInv, Governs
      <3> QED
        BY <3>1, <3>2, <3>3
    <2>2. Restart => run' # run
      BY <1>1 DEF Restart, Repository
    <2> QED
      BY <1>1, <2>1, <2>2
         DEF Next, vars, repository, Route, RouteBegin, RouteReadPolicy, RouteSave,
             RouteSaveFails, EditorView, Reload
  <1>2. Init => EditorsInv
    BY DEF Init, EditorsInv
  <1> QED
    BY <1>1, <1>2, RepositoryInit, RepositoryNext, EditorsNext, PTL DEF Spec, NoLostUpdate

=============================================================================
