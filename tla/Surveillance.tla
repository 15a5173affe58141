---------------------------- MODULE Surveillance ----------------------------
(***************************************************************************)
(* The surveillance lane's queue (Fcmr.Surveillance.Domain) as operators:  *)
(* the ranking of a batch of alerts from the assessments that came back,   *)
(* what is missing from it, and the quality measured over it.              *)
(*                                                                         *)
(* An alert is its id's rank in ordinal order.  An assessment has a score  *)
(* in hundredths, a rationale or none and a number of evidence items.      *)
(***************************************************************************)
EXTENDS Integers, FiniteSets, Sequences
F == INSTANCE Functions

MaxScore == 10000

AlertAssessment == [alert: Nat, score: 0..MaxScore, rationale: BOOLEAN, evidence: Nat]

\* AlertAssessment.RiskScore: rounded to tenths, halves to even.
RiskScore(assessment) ==
    LET tenths == assessment.score \div 10
        rest   == assessment.score % 10
    IN  IF rest < 5 \/ (rest = 5 /\ tenths % 2 = 0) THEN tenths ELSE tenths + 1

\* The assessments of alert a; the last one supersedes the others.
Of(a, assessments) == {k \in DOMAIN assessments : assessments[k].alert = a}

Latest(a, assessments) ==
    assessments[CHOOSE k \in Of(a, assessments) : \A l \in Of(a, assessments) : l <= k]

MutGaps(alerts, assessments) ==      \* a rationale is taken for evidence
    {[alert |-> a, deficiency |-> d] :
        a \in {b \in F!Range(alerts) : Of(b, assessments) = {}}, d \in {"NotScored"}}
    \cup
    {[alert |-> a, deficiency |-> d] :
        a \in {b \in F!Range(alerts) : Of(b, assessments) # {} /\ ~Latest(b, assessments).rationale},
        d \in {"MissingRationale"}}

\* TriageBatch.Gaps, without its order.
Gaps(alerts, assessments) ==
    {g \in [alert: F!Range(alerts), deficiency: {"NotScored", "MissingRationale", "MissingEvidence"}] :
        LET scored == Of(g.alert, assessments) # {}
        IN  \/ g.deficiency = "NotScored" /\ ~scored
            \/ g.deficiency = "MissingRationale" /\ scored /\ ~Latest(g.alert, assessments).rationale
            \/ g.deficiency = "MissingEvidence" /\ scored /\ Latest(g.alert, assessments).evidence = 0}

\* The submissions that are ranked, by their place in the list.
Scored(alerts, assessments) == {i \in DOMAIN alerts : Of(alerts[i], assessments) # {}}

MutBefore(i, j, alerts, assessments) ==   \* alerts of equal score stay as they were submitted
    LET score(k) == RiskScore(Latest(alerts[k], assessments))
    IN  score(i) > score(j) \/ (score(i) = score(j) /\ i < j)

\* Highest score first, then by alert id, then as submitted.
Before(i, j, alerts, assessments) ==
    LET score(k) == RiskScore(Latest(alerts[k], assessments))
    IN  \/ score(i) > score(j)
        \/ score(i) = score(j) /\ alerts[i] < alerts[j]
        \/ score(i) = score(j) /\ alerts[i] = alerts[j] /\ i < j

\* How many submissions a sort puts before i.
Ahead(i, alerts, assessments) ==
    Cardinality({j \in Scored(alerts, assessments) : Before(j, i, alerts, assessments)})

\* TriageBatch.Ranked.
Ranked(alerts, assessments) ==
    LET scored == Scored(alerts, assessments)
        at(k)  == CHOOSE i \in scored : Ahead(i, alerts, assessments) = k - 1
    IN  [k \in 1..Cardinality(scored) |-> [alert |-> alerts[at(k)],
                                           assessment |-> Latest(alerts[at(k)], assessments)]]

\* TriageRanker.Rank.
Rank(alerts, assessments) ==
    [ranked |-> Ranked(alerts, assessments), gaps |-> Gaps(alerts, assessments),
     submitted |-> Len(alerts)]

IsComplete(batch) == batch.gaps = {} /\ Len(batch.ranked) = batch.submitted

MutInBatch(batch, concerning) ==     \* what could not be ranked is not counted
    {a \in concerning : \E k \in DOMAIN batch.ranked : batch.ranked[k].alert = a}

\* The concerning alerts that were submitted at all.
InBatch(batch, concerning) ==
    {a \in concerning : \/ \E k \in DOMAIN batch.ranked : batch.ranked[k].alert = a
                        \/ \E g \in batch.gaps : g.alert = a}

\* TriageQuality.Measure, at a review depth.
Measure(batch, concerning, depth) ==
    LET examined == IF depth < Len(batch.ranked) THEN depth ELSE Len(batch.ranked)
    IN  [examined |-> examined,
         truePositives |-> Cardinality({k \in 1..examined :
                              batch.ranked[k].alert \in InBatch(batch, concerning)}),
         concerningInBatch |-> Cardinality(InBatch(batch, concerning))]

=============================================================================
