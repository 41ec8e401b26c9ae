---------------------------- MODULE MCRiskWorker ----------------------------
(* Small instances of RiskWorker for TLC. *)
EXTENDS RiskWorker

CONSTANTS e1, e2, t1, t2

(* Two events of one transaction (a resubmission whose first attempt was   *)
(* rolled back after its event was published), or one event each.          *)
SharedTransaction == [e \in Events |-> t1]
OwnTransaction == [e \in Events |-> IF e = e1 THEN t1 ELSE t2]

WorkerSymmetry == Permutations(Workers)
=============================================================================
