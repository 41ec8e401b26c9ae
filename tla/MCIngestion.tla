---------------------------- MODULE MCIngestion -----------------------------
(* Small instances of Ingestion for TLC. *)
EXTENDS Ingestion

CONSTANTS r1, r2, r3, r4, t1, t2, a1, a2, m1

(* Requests that conflict in every way: r2 resubmits r1's transaction for  *)
(* another account, r3 shares the account of r1, and r4 resubmits r3's     *)
(* transaction for the account of r2.                                      *)
Conflicting ==
  [r \in Requests |->
     IF r = r1 THEN [transaction |-> t1, account |-> a1, merchant |-> m1]
     ELSE IF r = r2 THEN [transaction |-> t1, account |-> a2, merchant |-> m1]
     ELSE IF r = r3 THEN [transaction |-> t2, account |-> a1, merchant |-> None]
     ELSE [transaction |-> t2, account |-> a2, merchant |-> None]]

(* What json.dumps encodes out of the box; and with an encoder for the two *)
(* types the event needs.                                                  *)
PlainJson == {"str", "int", "float", "bool", "NoneType", "list", "dict"}
EventJson == PlainJson \cup {"Decimal", "datetime"}
=============================================================================
