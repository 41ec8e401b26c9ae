---------------------------- MODULE RiskPlatform ----------------------------
(***************************************************************************)
(* The ingestion API and the risk workers together: requests push events   *)
(* on the Redis list before their database transaction commits, workers    *)
(* pop them and read the same database. The event of a request is named    *)
(* after the request (each request publishes at most once, under a fresh   *)
(* event id).                                                              *)
(*                                                                         *)
(* Code: services/ingestion_service/api/routes.py,                         *)
(* services/worker/risk_pipeline.py, shared/pipeline.py.                   *)
(***************************************************************************)
EXTENDS Integers, FiniteSets, Sequences, SequencesExt

CONSTANTS
  Requests, Ids, None, Payload, LongRequestIds, JsonEncodable,  \* of Ingestion
  PoolSize,                                                     \* of its database sessions
  Workers, Undecodable, NoEvent,                                \* of RiskWorker
  MaxRequestFaults, MaxWorkerFaults                             \* bounds

VARIABLES
  rows, audits, inserted, existing, status, response,  \* Ingestion
  requestPc, requestFaults,
  assessments, counted, event, attempts, backoff,      \* RiskWorker
  workerPc, workerFaults,
  published,                                           \* both
  queue                                                \* the Redis list

(* What a worker's SELECT finds in the transactions table.                 *)
Stored == {p["transaction"] : p \in ToSet(rows["transaction"])}

TransactionOf == [r \in Requests |-> Payload[r]["transaction"]]

Ingestion == INSTANCE Ingestion
  WITH pc <- requestPc, faults <- requestFaults, MaxFaults <- MaxRequestFaults

Worker == INSTANCE RiskWorker
  WITH Events <- Requests, Transactions <- Ids, transactions <- Stored,
       pc <- workerPc, faults <- workerFaults, MaxFaults <- MaxWorkerFaults,
       MaxPublish <- Cardinality(Requests), FaultsForever <- FALSE

ASSUME PlatformAssumption ==
  /\ IsFiniteSet(Requests)
  /\ None \notin Ids \cup Ingestion!Payloads
  /\ Payload \in [Requests -> Ingestion!Payloads]
  /\ LongRequestIds \subseteq Requests
  /\ Undecodable \notin Requests /\ NoEvent \notin Requests
  /\ PoolSize \in Nat \ {0} /\ MaxRequestFaults \in Nat /\ MaxWorkerFaults \in Nat

ingestionVars ==
  <<rows, audits, inserted, existing, status, response, requestPc, requestFaults, published>>

workerVars ==
  <<assessments, counted, event, attempts, backoff, workerPc, workerFaults>>

vars == <<ingestionVars, workerVars, queue>>

-----------------------------------------------------------------------------
Init == Ingestion!Init /\ Worker!Init

(* Mutant: RPUSH, which BRPOP undoes in reverse order.                     *)
PushRight == queue' = IF published' = published THEN queue ELSE Append(queue, Last(published'))

(* An LPUSH of a request puts its event at the left of the list.           *)
Push == queue' = IF published' = published THEN queue ELSE <<Last(published')>> \o queue

Serve(r) == Ingestion!Handle(r) /\ Push /\ UNCHANGED workerVars

Process(w) == UNCHANGED ingestionVars /\ Worker!Work(w)

Ingest(r) == Serve(r) \/ (Ingestion!Break(r) /\ Push /\ UNCHANGED workerVars)

Evaluate(w) ==
  Process(w) \/ (UNCHANGED ingestionVars /\ (Worker!Fails(w) \/ Worker!Restart(w)))

Next == (\E r \in Requests : Ingest(r)) \/ (\E w \in Workers : Evaluate(w))

Spec == Init /\ [][Next]_vars

(* Running services go on; nobody has to restart a worker.                 *)
FairSpec ==
  /\ Spec
  /\ \A r \in Requests : WF_vars(Serve(r))
  /\ \A w \in Workers : WF_vars(Process(w))

-----------------------------------------------------------------------------
(* The ingestion service is the environment that RiskWorker assumes: what  *)
(* is shown of the workers holds in the platform.                          *)
WorkerSpec == Worker!Spec

AssessmentsOf(t) == {i \in DOMAIN assessments : assessments[i].transaction_id = t}

(* A transaction is assessed at most once, plus once for each of its       *)
(* submissions that failed after publishing (their events outlive the      *)
(* rollback and name the same transaction).                                *)
ReassessmentNeedsFailedSubmission ==
  \A t \in Ids :
    Cardinality(AssessmentsOf(t))
      <= 1 + Cardinality({r \in Requests : /\ Payload[r]["transaction"] = t
                                           /\ status[r] \in {"500", "lost"}})

(* An event on its way or with a known fate.                               *)
Settled(r) ==
  Worker!Queued(r) \/ Worker!InHand(r) \/ Worker!Assessed(r) \/ Worker!GivenUp(r)

Untraceable ==
  {t \in Stored : \A r \in Requests : Payload[r]["transaction"] = t => ~Settled(r)}

(* From the API to the table: every stored transaction has an event that   *)
(* is queued, in hand, assessed or counted as given up, except for at most *)
(* one transaction for each fault of a worker; no failure of a request,    *)
(* before or after its COMMIT, loses one.                                  *)
StoredIsTraceable == Cardinality(Untraceable) <= workerFaults

(* The tables that the API and the workers write are the growing database  *)
(* that the analytics service assumes: transactions never go away, and an  *)
(* assessment is of a transaction that is there.                           *)
Readers ==
  INSTANCE Analytics
    WITH Transactions <- Ids, Events <- Requests, Requests <- {},
         RiskLevelOf <- [r \in Requests |-> "low"], OccurredAt <- [t \in Ids |-> 0],
         DayOf <- [instant \in {0} |-> 0], CategoryOf <- [t \in Ids |-> None],
         Sessions <- {<<>>}, RoleNames <- {},
         db <- [transactions |-> Stored,
                assessments |-> {assessments[i].event_id : i \in DOMAIN assessments}],
         query <- <<>>, status <- <<>>, todo <- <<>>, answer <- <<>>,
         asked <- <<>>, answered <- <<>>

(* Nobody asks here; what Analytics assumes of its constants holds.        *)
ASSUME ReadersAssumption == Readers!AnalyticsAssumption

ReadersSpec == Readers!Spec

(* Every event that was pushed, also one of a request that failed later,   *)
(* ends up assessed or counted as given up, unless a worker fails: waiting *)
(* for rows, connections and for other events never lasts for ever.        *)
PublishedIsSettled ==
  \A r \in Requests :
    (r \in ToSet(published))
      ~> (Worker!Assessed(r) \/ Worker!GivenUp(r) \/ workerFaults > 0)

(* The runbook: missing_transaction means "Event references a transaction  *)
(* that does not exist". The worker may look before the COMMIT that        *)
(* follows the publication, and the transaction is then never assessed.    *)
(* Latent in the committed code, which publishes no event: it shows once   *)
(* JsonEncodable has the types of an event.                                *)
MissingMeansMissing ==
  \A r \in Requests :
    counted[r]["missing_transaction"] > 0 => Payload[r]["transaction"] \notin Stored
=============================================================================
