------------------------- MODULE TransactionRegistry ------------------------
(***************************************************************************)
(* What the ingestion API promises: a registry in which each transaction   *)
(* id is registered at most once, for good, and of which every successful  *)
(* answer is a true reading. A registration may go unanswered (the client  *)
(* got an error or nothing), never the other way round.                    *)
(***************************************************************************)
CONSTANTS Requests, Payload, None

VARIABLES registry, answers

Registered(r) == {p \in registry : p["transaction"] = Payload[r]["transaction"]}

Register(r) ==
  /\ Registered(r) = {}
  /\ registry' = registry \cup {Payload[r]}
  /\ answers' \in {answers, [answers EXCEPT ![r] = Payload[r]]}

Answer(r) ==
  /\ answers[r] = None
  /\ \E p \in Registered(r) : answers' = [answers EXCEPT ![r] = p]
  /\ UNCHANGED registry

Init == registry = {} /\ answers = [r \in Requests |-> None]

Next == \E r \in Requests : Register(r) \/ Answer(r)

Spec == Init /\ [][Next]_<<registry, answers>>
=============================================================================
