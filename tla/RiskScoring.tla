---------------------------- MODULE RiskScoring -----------------------------
(***************************************************************************)
(* The rule engine of the worker: which rules an event hits, the score     *)
(* they add up to, and the decision. Amounts are integers in units of      *)
(* 10^-5, one digit finer than the stored DECIMAL(18,4), because the event *)
(* carries the amount as submitted and the table as rounded.               *)
(*                                                                         *)
(* Code: services/worker/risk_pipeline.py (_score_event), shared/models.py *)
(* (Transaction.amount).                                                   *)
(***************************************************************************)
EXTENDS Integers

CONSTANTS
  Amounts,      \* submitted amounts
  Countries,    \* country codes as submitted, "absent" when None
  Upper,        \* str.upper() on them
  Categories,   \* merchant categories, "absent" when None
  Hours,        \* hours of occurred_at, in the event's own time zone
  NoAssessment

HighRiskCountries == {"IR", "KP", "SY", "CU", "RU"}
SuspiciousCategories == {"5967", "7995", "4829"}

Unit == 100000
Threshold == 10000 * Unit

Rules == {"high_amount", "high_risk_country", "suspicious_merchant_category",
          "off_hours_transaction"}

Decisions == {"approve", "review", "decline"}

Events ==
  [amount : Amounts, country : Countries, merchant_category : Categories, hour : Hours]

Scores == 0..100

ASSUME ScoringAssumption ==
  /\ Amounts \subseteq Nat
  /\ Hours \subseteq 0..23
  /\ Upper \in [Countries -> Countries]

(* Mutant: the threshold itself is not a high amount.                      *)
RuleHitsStrict(ev) ==
  (IF ev.amount > Threshold THEN {"high_amount"} ELSE {})
  \cup (IF Upper[ev.country] \in HighRiskCountries THEN {"high_risk_country"} ELSE {})
  \cup (IF ev.merchant_category \in SuspiciousCategories
          THEN {"suspicious_merchant_category"} ELSE {})
  \cup (IF 0 <= ev.hour /\ ev.hour <= 5 THEN {"off_hours_transaction"} ELSE {})

RuleHits(ev) ==
  (IF ev.amount >= Threshold THEN {"high_amount"} ELSE {})
  \cup (IF Upper[ev.country] \in HighRiskCountries THEN {"high_risk_country"} ELSE {})
  \cup (IF ev.merchant_category \in SuspiciousCategories
          THEN {"suspicious_merchant_category"} ELSE {})
  \cup (IF 0 <= ev.hour /\ ev.hour <= 5 THEN {"off_hours_transaction"} ELSE {})

(* Mutant: the category rule assigns its points instead of adding them.    *)
ScoreAssigned(hits) ==
  (IF "suspicious_merchant_category" \in hits THEN 20
   ELSE (IF "high_amount" \in hits THEN 40 ELSE 0)
        + (IF "high_risk_country" \in hits THEN 30 ELSE 0))
  + (IF "off_hours_transaction" \in hits THEN 10 ELSE 0)

(* Mutant: off-hours weighs 20, and the scale is no longer 0 to 100.       *)
ScoreHeavyHours(hits) ==
  (IF "high_amount" \in hits THEN 40 ELSE 0)
  + (IF "high_risk_country" \in hits THEN 30 ELSE 0)
  + (IF "suspicious_merchant_category" \in hits THEN 20 ELSE 0)
  + (IF "off_hours_transaction" \in hits THEN 20 ELSE 0)

Score(hits) ==
  (IF "high_amount" \in hits THEN 40 ELSE 0)
  + (IF "high_risk_country" \in hits THEN 30 ELSE 0)
  + (IF "suspicious_merchant_category" \in hits THEN 20 ELSE 0)
  + (IF "off_hours_transaction" \in hits THEN 10 ELSE 0)

(* Mutant: a score of exactly 50 is not declined.                          *)
DecisionStrict(score) ==
  IF score > 50 THEN "decline" ELSE IF score >= 20 THEN "review" ELSE "approve"

Decision(score) ==
  IF score >= 50 THEN "decline" ELSE IF score >= 20 THEN "review" ELSE "approve"

RiskLevel(score) ==
  IF score >= 50 THEN "high" ELSE IF score >= 20 THEN "medium" ELSE "low"

ScoreEvent(ev) ==
  LET hits == RuleHits(ev)
      score == Score(hits)
  IN [risk_score |-> score, risk_level |-> RiskLevel(score),
      decision |-> Decision(score), rule_hits |-> hits]

(* The DECIMAL(18,4) column rounds half up to its last digit.              *)
Stored(amount) == ((amount + 5) \div 10) * 10

-----------------------------------------------------------------------------
VARIABLES event, assessment

Init == event \in Events /\ assessment = NoAssessment

Assess ==
  /\ assessment = NoAssessment
  /\ assessment' = ScoreEvent(event)
  /\ UNCHANGED event

Spec == Init /\ [][Assess]_<<event, assessment>>

-----------------------------------------------------------------------------
(* The types, and a score that the DECIMAL(5,2) column holds.              *)
TypeOK ==
  /\ event \in Events
  /\ \/ assessment = NoAssessment
     \/ assessment \in [risk_score : Scores, risk_level : {"low", "medium", "high"},
                        decision : Decisions, rule_hits : SUBSET Rules]

(* Which combinations of rules lead where, told without any points: a high *)
(* amount declines together with any other rule, and a high-risk country   *)
(* together with a suspicious category; off-hours never matters but to a   *)
(* high amount.                                                            *)
DecisionTable(hits) ==
  LET amount == "high_amount" \in hits
      country == "high_risk_country" \in hits
      category == "suspicious_merchant_category" \in hits
      others == hits \ {"high_amount"}
  IN CASE (amount /\ others # {}) \/ (country /\ category) -> "decline"
       [] hits \subseteq {"off_hours_transaction"} -> "approve"
       [] OTHER -> "review"

(* The stored decision is the one the stored rule hits call for: the       *)
(* thresholds and the points fit each other at every boundary.             *)
DecisionExplained ==
  assessment # NoAssessment =>
    assessment.decision = DecisionTable(assessment.rule_hits)

Severity(decision) ==
  CASE decision = "approve" -> 0 [] decision = "review" -> 1 [] decision = "decline" -> 2

(* An event that hits every rule another one hits is never treated more    *)
(* leniently.                                                              *)
MoreHitsNeverLenient ==
  assessment # NoAssessment =>
    \A hits \in SUBSET assessment.rule_hits :
      Severity(Decision(Score(hits))) <= Severity(assessment.decision)

(* The amount is scored as submitted and stored as rounded. A reader who   *)
(* applies the amount rule to the stored amount gets the recorded hit,     *)
(* except when the submitted amount is within half a unit of the last      *)
(* stored digit below the threshold.                                       *)
AmountHitReadable ==
  assessment # NoAssessment =>
    \/ ("high_amount" \in assessment.rule_hits <=> Stored(event.amount) >= Threshold)
    \/ Threshold - 5 <= event.amount /\ event.amount < Threshold
=============================================================================
