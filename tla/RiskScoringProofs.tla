------------------------- MODULE RiskScoringProofs --------------------------
(***************************************************************************)
(* The rule engine for every amount, country, category and hour.           *)
(***************************************************************************)
EXTENDS RiskScoring, TLAPS

LEMMA HitsAreRules ==
  ASSUME NEW ev
  PROVE  RuleHits(ev) \subseteq Rules
  BY DEF RuleHits, Rules

(* The points and thresholds agree with the table, for each of the sixteen *)
(* sets of rules.                                                          *)
LEMMA TableAgrees ==
  ASSUME NEW hits \in SUBSET Rules
  PROVE  Decision(Score(hits)) = DecisionTable(hits)
  <1> DEFINE a == "high_amount" \in hits
             c == "high_risk_country" \in hits
             m == "suspicious_merchant_category" \in hits
             h == "off_hours_transaction" \in hits
  <1>1. (hits \ {"high_amount"} # {}) <=> c \/ m \/ h
    <2>1. ASSUME NEW rule \in hits \ {"high_amount"} PROVE c \/ m \/ h
      BY DEF Rules
    <2>2. /\ "high_risk_country" # "high_amount"
          /\ "suspicious_merchant_category" # "high_amount"
          /\ "off_hours_transaction" # "high_amount"
      OBVIOUS
    <2>3. c => "high_risk_country" \in hits \ {"high_amount"}
      BY <2>2
    <2>4. m => "suspicious_merchant_category" \in hits \ {"high_amount"}
      BY <2>2
    <2>5. h => "off_hours_transaction" \in hits \ {"high_amount"}
      BY <2>2
    <2> HIDE DEF c, m, h
    <2>6. QED
      BY <2>1, <2>3, <2>4, <2>5
  <1>2. (hits \subseteq {"off_hours_transaction"}) <=> ~a /\ ~c /\ ~m
    BY DEF Rules
  <1>3. Score(hits) = (IF a THEN 40 ELSE 0) + (IF c THEN 30 ELSE 0)
                      + (IF m THEN 20 ELSE 0) + (IF h THEN 10 ELSE 0)
    BY DEF Score
  <1>4. DecisionTable(hits) =
          IF (a /\ (c \/ m \/ h)) \/ (c /\ m) THEN "decline"
          ELSE IF ~a /\ ~c /\ ~m THEN "approve" ELSE "review"
    BY <1>1, <1>2 DEF DecisionTable
  <1> HIDE DEF a, c, m, h
  <1>5. QED
    BY <1>3, <1>4 DEF Decision

LEMMA ScoreGrows ==
  ASSUME NEW hits, NEW fewer \in SUBSET hits
  PROVE  /\ Score(fewer) \in Int /\ Score(hits) \in Int
         /\ Score(fewer) <= Score(hits)
  BY DEF Score

LEMMA DecisionGrows ==
  ASSUME NEW low \in Int, NEW high \in Int, low <= high
  PROVE  Severity(Decision(low)) <= Severity(Decision(high))
  BY DEF Severity, Decision

(* What the state holds once an event is assessed. *)
Assessed == assessment = NoAssessment \/ assessment = ScoreEvent(event)

LEMMA AssessedAlways == Spec => [](event \in Events /\ Assessed)
  <1>1. Init => event \in Events /\ Assessed
    BY DEF Init, Assessed
  <1>2. (event \in Events /\ Assessed) /\ [Assess]_<<event, assessment>>
          => (event \in Events /\ Assessed)'
    BY DEF Assess, Assessed
  <1>3. QED
    BY <1>1, <1>2, PTL DEF Spec

(* What is recorded fits its columns: the score never leaves 0..100, so it *)
(* never fails the DECIMAL(5,2) of risk_score.                             *)
THEOREM TypeCorrect == Spec => []TypeOK
  <1>1. ASSUME NEW hits \in SUBSET Rules
        PROVE  /\ Score(hits) \in Scores
               /\ RiskLevel(Score(hits)) \in {"low", "medium", "high"}
               /\ Decision(Score(hits)) \in Decisions
    BY DEF Score, Scores, RiskLevel, Decision, Decisions
  <1>2. event \in Events /\ Assessed => TypeOK
    BY <1>1, HitsAreRules DEF Assessed, TypeOK, ScoreEvent
  <1>3. QED
    BY <1>2, AssessedAlways, PTL

(* Every recorded decision is the one its recorded rule hits call for.     *)
THEOREM DecisionsExplained == Spec => []DecisionExplained
  <1>1. Assessed => DecisionExplained
    BY HitsAreRules, TableAgrees DEF Assessed, DecisionExplained, ScoreEvent
  <1>2. QED
    BY <1>1, AssessedAlways, PTL

(* Hitting more rules is never treated more leniently.                     *)
THEOREM NeverLenient == Spec => []MoreHitsNeverLenient
  <1>1. Assessed => MoreHitsNeverLenient
    BY ScoreGrows, DecisionGrows DEF Assessed, MoreHitsNeverLenient, ScoreEvent
  <1>2. QED
    BY <1>1, AssessedAlways, PTL

(* The recorded amount hit can be read off the stored amount, but for the  *)
(* half unit below the threshold.                                          *)
THEOREM AmountHitsReadable == Spec => []AmountHitReadable
  <1>1. event \in Events /\ Assessed => AmountHitReadable
    <2> SUFFICES ASSUME event \in Events, assessment = ScoreEvent(event)
                 PROVE  AmountHitReadable
      BY DEF Assessed, AmountHitReadable
    <2> DEFINE x == event.amount
    <2>1. x \in Nat
      BY ScoringAssumption DEF Events
    <2>2. "high_amount" \in assessment.rule_hits <=> x >= 1000000000
      BY DEF ScoreEvent, RuleHits, Threshold, Unit
    <2>3. Stored(x) >= 1000000000 <=> x + 5 >= 1000000000
      BY <2>1 DEF Stored
    <2>4. QED
      BY <2>1, <2>2, <2>3 DEF AmountHitReadable, Threshold, Unit
  <1>2. QED
    BY <1>1, AssessedAlways, PTL
=============================================================================
