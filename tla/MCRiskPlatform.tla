--------------------------- MODULE MCRiskPlatform ---------------------------
(* Small instances of RiskPlatform for TLC. *)
EXTENDS RiskPlatform

CONSTANTS r1, r2, t1, a1

(* The same transaction submitted twice: the retry of a failed request.    *)
Resubmitted == [r \in Requests |-> [transaction |-> t1, account |-> a1, merchant |-> None]]

(* An encoder that accepts the two types json.dumps refuses, without which *)
(* no request gets past its publication (run ingestion_json).              *)
EventJson == {"str", "int", "float", "bool", "NoneType", "list", "dict", "Decimal", "datetime"}
=============================================================================
