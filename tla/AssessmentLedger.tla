-------------------------- MODULE AssessmentLedger --------------------------
(***************************************************************************)
(* What the risk pipeline promises to those who read risk_assessments: a   *)
(* ledger that only grows, with at most one row per event, each about an   *)
(* event that was published and a transaction that is committed. It says   *)
(* nothing of queues, workers, retries or failures.                        *)
(***************************************************************************)
EXTENDS Sequences

CONSTANTS Events, Transactions, TransactionOf

VARIABLES offered, known, ledger

Recorded(e) == \E i \in DOMAIN ledger : ledger[i].event_id = e

Offer(e) == offered' = offered \cup {e} /\ UNCHANGED <<known, ledger>>

Learn(x) == known' = known \cup {x} /\ UNCHANGED <<offered, ledger>>

Record(e) ==
  /\ e \in offered
  /\ TransactionOf[e] \in known
  /\ ~Recorded(e)
  /\ ledger' = Append(ledger, [event_id |-> e, transaction_id |-> TransactionOf[e]])
  /\ UNCHANGED <<offered, known>>

Init == offered = {} /\ known = {} /\ ledger = <<>>

Next ==
  \/ \E e \in Events : Offer(e) \/ Record(e)
  \/ \E x \in Transactions : Learn(x)

Spec == Init /\ [][Next]_<<offered, known, ledger>>
=============================================================================
