------------------------- MODULE RiskPlatformProofs -------------------------
(***************************************************************************)
(* Theorems about the platform: it implements Ingestion and RiskWorker, so *)
(* that what is proved of them holds in it, and what only the two together *)
(* provide. For any number of requests and workers.                        *)
(***************************************************************************)
EXTENDS RiskPlatform, ListLemmas, FiniteSetTheorems, TLAPS

(* The components again, with their theorems.                              *)

IP == INSTANCE IngestionProofs
  WITH pc <- requestPc, faults <- requestFaults, MaxFaults <- MaxRequestFaults

WP == INSTANCE RiskWorkerFaultProofs
  WITH Events <- Requests, Transactions <- Ids, transactions <- Stored,
       pc <- workerPc, faults <- workerFaults, MaxFaults <- MaxWorkerFaults,
       MaxPublish <- Cardinality(Requests), FaultsForever <- FALSE

LEMMA IngestionAssumed == IP!IngestionAssumption
  BY PlatformAssumption DEF IP!IngestionAssumption, Ingestion!Payloads, IP!Payloads

LEMMA WorkerAssumed == WP!WorkerAssumption
  BY PlatformAssumption, FS_CardinalityType
     DEF WP!WorkerAssumption, Ingestion!Payloads, TransactionOf

-----------------------------------------------------------------------------
(* The instances of a component in RiskPlatform and here are the same, one *)
(* definition after the other.                                             *)

LEMMA SameCardinality ==
  ASSUME NEW S
  PROVE  IP!Cardinality(S) = Cardinality(S) /\ WP!Cardinality(S) = Cardinality(S)
  BY DEF IP!Cardinality, WP!Cardinality, Cardinality

LEMMA SameRequestSteps ==
  ASSUME NEW r
  PROVE  /\ (Ingestion!Handle(r) <=> IP!Handle(r))
         /\ (Ingestion!Break(r) <=> IP!Break(r))
  <1>1. Ingestion!FindTransaction(r) <=> IP!FindTransaction(r)
    <2>1. Ingestion!Cardinality(Ingestion!Connected) = IP!Cardinality(IP!Connected)
      <3>1. Ingestion!Connected = IP!Connected
        BY DEF Ingestion!Connected, IP!Connected
      <3>2. \A S : Ingestion!Cardinality(S) = IP!Cardinality(S)
        BY DEF Ingestion!Cardinality, IP!Cardinality
      <3>3. QED
        BY <3>1, <3>2
    <2>2. QED
      BY <2>1 DEF Ingestion!FindTransaction, IP!FindTransaction, Ingestion!Exists, IP!Exists,
         Ingestion!Key, IP!Key, Ingestion!Goto, IP!Goto, Ingestion!database, IP!database
  <1>2. Ingestion!FindAccount(r) <=> IP!FindAccount(r)
    BY DEF Ingestion!FindAccount, IP!FindAccount, Ingestion!Exists, IP!Exists,
       Ingestion!Key, IP!Key, Ingestion!Goto, IP!Goto, Ingestion!database, IP!database
  <1>3. Ingestion!InsertAccount(r) <=> IP!InsertAccount(r)
    BY DEF Ingestion!InsertAccount, IP!InsertAccount, Ingestion!Insert, IP!Insert,
       Ingestion!Blocked, IP!Blocked, Ingestion!Exists, IP!Exists, Ingestion!Key,
       IP!Key, Ingestion!Goto, IP!Goto, Ingestion!database, IP!database,
       Ingestion!Fail, IP!Fail, Ingestion!End, IP!End
  <1>4. Ingestion!FindMerchant(r) <=> IP!FindMerchant(r)
    BY DEF Ingestion!FindMerchant, IP!FindMerchant, Ingestion!Exists, IP!Exists,
       Ingestion!Key, IP!Key, Ingestion!Goto, IP!Goto, Ingestion!database, IP!database
  <1>5. Ingestion!InsertMerchant(r) <=> IP!InsertMerchant(r)
    BY DEF Ingestion!InsertMerchant, IP!InsertMerchant, Ingestion!Insert, IP!Insert,
       Ingestion!Blocked, IP!Blocked, Ingestion!Exists, IP!Exists, Ingestion!Key,
       IP!Key, Ingestion!Goto, IP!Goto, Ingestion!database, IP!database,
       Ingestion!Fail, IP!Fail, Ingestion!End, IP!End
  <1>6. Ingestion!InsertTransaction(r) <=> IP!InsertTransaction(r)
    BY DEF Ingestion!InsertTransaction, IP!InsertTransaction, Ingestion!Insert, IP!Insert,
       Ingestion!Blocked, IP!Blocked, Ingestion!Exists, IP!Exists, Ingestion!Key,
       IP!Key, Ingestion!Goto, IP!Goto, Ingestion!database, IP!database,
       Ingestion!Fail, IP!Fail, Ingestion!End, IP!End
  <1>7. Ingestion!Publish(r) <=> IP!Publish(r)
    BY DEF Ingestion!Publish, IP!Publish, Ingestion!Encodable, IP!Encodable,
       Ingestion!EventFieldTypes, IP!EventFieldTypes, Ingestion!Goto, IP!Goto,
       Ingestion!Fail, IP!Fail, Ingestion!End, IP!End, Ingestion!database, IP!database
  <1>8. Ingestion!Commit(r) <=> IP!Commit(r)
    BY DEF Ingestion!Commit, IP!Commit, Ingestion!Visible, IP!Visible, Ingestion!Fail,
       IP!Fail, Ingestion!End, IP!End, Ingestion!Goto, IP!Goto, Ingestion!Key, IP!Key,
       Ingestion!Tables, IP!Tables, Ingestion!database, IP!database
  <1>9. Ingestion!AuditDuplicate(r) <=> IP!AuditDuplicate(r)
    BY DEF Ingestion!AuditDuplicate, IP!AuditDuplicate, Ingestion!Fail, IP!Fail,
       Ingestion!End, IP!End, Ingestion!Goto, IP!Goto, Ingestion!database, IP!database
  <1>10. Ingestion!CommitDuplicate(r) <=> IP!CommitDuplicate(r)
    BY DEF Ingestion!CommitDuplicate, IP!CommitDuplicate, Ingestion!Visible, IP!Visible,
       Ingestion!End, IP!End, Ingestion!Goto, IP!Goto, Ingestion!Key, IP!Key,
       Ingestion!Tables, IP!Tables
  <1>11. Ingestion!Break(r) <=> IP!Break(r)
    BY DEF Ingestion!Break, IP!Break, Ingestion!Visible, IP!Visible, Ingestion!End, IP!End,
       Ingestion!Goto, IP!Goto, Ingestion!Key, IP!Key, Ingestion!Tables, IP!Tables,
       Ingestion!Encodable, IP!Encodable, Ingestion!EventFieldTypes,
       IP!EventFieldTypes, Ingestion!database, IP!database
  <1>12. QED
    BY <1>1, <1>2, <1>3, <1>4, <1>5, <1>6, <1>7, <1>8, <1>9, <1>10, <1>11
       DEF Ingestion!Handle, IP!Handle

LEMMA SameWorkerSteps ==
  ASSUME NEW w
  PROVE  /\ (Worker!Work(w) <=> WP!Work(w))
         /\ (Worker!Fails(w) <=> WP!Fails(w))
         /\ (Worker!Restart(w) <=> WP!Restart(w))
  <1>1. Worker!Pop(w) <=> WP!Pop(w)
    BY DEF Worker!Pop, WP!Pop, Worker!Last, WP!Last, Worker!Front, WP!Front
  <1>2. Worker!PopUndecodable(w) <=> WP!PopUndecodable(w)
    BY DEF Worker!PopUndecodable, WP!PopUndecodable, Worker!Last, WP!Last, Worker!Front,
       WP!Front, Worker!local, WP!local
  <1>3. Worker!PollTimeout(w) <=> WP!PollTimeout(w)
    BY DEF Worker!PollTimeout, WP!PollTimeout, Worker!Goto, WP!Goto, Worker!environment,
       WP!environment
  <1>4. Worker!Wake(w) <=> WP!Wake(w)
    BY DEF Worker!Wake, WP!Wake, Worker!Goto, WP!Goto, Worker!environment, WP!environment
  <1>5. Worker!FindAssessment(w) <=> WP!FindAssessment(w)
    BY DEF Worker!FindAssessment, WP!FindAssessment, Worker!Existing, WP!Existing,
       Worker!Assessed, WP!Assessed, Worker!Count, WP!Count, Worker!Goto, WP!Goto,
       Worker!environment, WP!environment
  <1>6. Worker!FindTransaction(w) <=> WP!FindTransaction(w)
    BY DEF Worker!FindTransaction, WP!FindTransaction, Worker!Count, WP!Count, Worker!Goto,
       WP!Goto, Worker!environment, WP!environment
  <1>7. Worker!Flush(w) <=> WP!Flush(w)
    BY DEF Worker!Flush, WP!Flush, Worker!RowLocked, WP!RowLocked, Worker!UniqueViolation,
       WP!UniqueViolation, Worker!Assessed, WP!Assessed, Worker!Count, WP!Count,
       Worker!Return, WP!Return, Worker!Drop, WP!Drop, Worker!Goto, WP!Goto,
       Worker!environment, WP!environment
  <1>8. Worker!Commit(w) <=> WP!Commit(w)
    BY DEF Worker!Commit, WP!Commit, Worker!Row, WP!Row, Worker!Return, WP!Return,
       Worker!Drop, WP!Drop, Worker!environment, WP!environment
  <1>9. Worker!Release(w) <=> WP!Release(w)
    BY DEF Worker!Release, WP!Release, Worker!Return, WP!Return, Worker!Drop, WP!Drop,
       Worker!environment, WP!environment
  <1>10. Worker!Retry(w) <=> WP!Retry(w)
    BY DEF Worker!Retry, WP!Retry, Worker!environment, WP!environment
  <1>11. Worker!BackoffExpires(w) <=> WP!BackoffExpires(w)
    BY DEF Worker!BackoffExpires, WP!BackoffExpires, Worker!MaxBackoff, WP!MaxBackoff,
       Worker!environment, WP!environment
  <1>12. Worker!PollFails(w) <=> WP!PollFails(w)
    BY DEF Worker!PollFails, WP!PollFails, Worker!Fault, WP!Fault, Worker!PopInDoubt,
       WP!PopInDoubt, Worker!Front, WP!Front, Worker!Goto, WP!Goto
  <1>13. Worker!DatabaseFails(w) <=> WP!DatabaseFails(w)
    BY DEF Worker!DatabaseFails, WP!DatabaseFails, Worker!InTransaction, WP!InTransaction,
       Worker!Fault, WP!Fault, Worker!InDoubt, WP!InDoubt, Worker!Row, WP!Row,
       Worker!Exhausted, WP!Exhausted, Worker!MaxAttempts, WP!MaxAttempts,
       Worker!Count, WP!Count, Worker!Stop, WP!Stop, Worker!Drop, WP!Drop, Worker!Goto,
       WP!Goto, Worker!environment, WP!environment
  <1>14. Worker!ConnectionRefused(w) <=> WP!ConnectionRefused(w)
    BY DEF Worker!ConnectionRefused, WP!ConnectionRefused, Worker!Fault, WP!Fault,
       Worker!Drop, WP!Drop, Worker!environment, WP!environment
  <1>15. Worker!Crash(w) <=> WP!Crash(w)
    BY DEF Worker!Crash, WP!Crash, Worker!Fault, WP!Fault, Worker!InDoubt, WP!InDoubt,
       Worker!Row, WP!Row, Worker!PopInDoubt, WP!PopInDoubt, Worker!Front, WP!Front,
       Worker!Stop, WP!Stop, Worker!Drop, WP!Drop
  <1>16. Worker!Restart(w) <=> WP!Restart(w)
    BY DEF Worker!Restart, WP!Restart, Worker!Goto, WP!Goto, Worker!environment,
       WP!environment
  <1>17. QED
    BY <1>1, <1>2, <1>3, <1>4, <1>5, <1>6, <1>7, <1>8, <1>9, <1>10, <1>11, <1>12,
       <1>13, <1>14, <1>15, <1>16
       DEF Worker!Work, WP!Work, Worker!Fails, WP!Fails

-----------------------------------------------------------------------------
(* The platform implements the ingestion service: a worker's step leaves   *)
(* its variables alone.                                                    *)

LEMMA IngestionStep == [Next]_vars => [IP!Next]_IP!vars
  <1> SUFFICES ASSUME [Next]_vars PROVE IP!Next \/ UNCHANGED IP!vars
    OBVIOUS
  <1>1. ASSUME NEW r \in Requests, Ingest(r) PROVE IP!Next
    <2>1. Ingestion!Handle(r) \/ Ingestion!Break(r)
      BY <1>1 DEF Ingest, Serve
    <2>2. IP!Handle(r) \/ IP!Break(r)
      BY <2>1, SameRequestSteps
    <2>3. QED
      BY <2>2 DEF IP!Next
  <1>2. UNCHANGED ingestionVars => UNCHANGED IP!vars
    BY DEF ingestionVars, IP!vars
  <1>3. ASSUME NEW w \in Workers, Evaluate(w) PROVE UNCHANGED ingestionVars
    BY <1>3 DEF Evaluate, Process
  <1>4. QED
    BY <1>1, <1>2, <1>3 DEF Next, vars

(* The platform is the ingestion service with workers beside it, which     *)
(* leave its tables and its requests alone.                                *)
THEOREM ImplementsIngestion == Spec => IP!Spec
  <1>1. Init => IP!Init
    BY DEF Init, Ingestion!Init, IP!Init, Ingestion!Tables, IP!Tables
  <1>2. QED
    BY <1>1, IngestionStep, PTL DEF Spec, IP!Spec

LEMMA FatesHold == Spec => []IP!FateInv
  <1>1. IP!Init => IP!FateInv
    BY IngestionAssumed, IP!FateInvInit
  <1>2. IP!FateInv /\ [IP!Next]_IP!vars => IP!FateInv'
    BY IngestionAssumed, IP!FateInvStep
  <1>3. QED
    BY <1>1, <1>2, ImplementsIngestion, PTL DEF IP!Spec

-----------------------------------------------------------------------------
(* The platform implements the workers' environment: an LPUSH is a         *)
(* publication, of which there are no more than requests, and the COMMIT   *)
(* of a new transaction is one that the workers had not seen.              *)

(* No request publishes twice.                                             *)
LEMMA RoomToPublish ==
  ASSUME IP!FateInv', NEW r \in Requests, published' = Append(published, r),
         published \in Seq(Requests)
  PROVE  Len(published) < Cardinality(Requests)
  <1>1. published' \in Seq(Requests)
    OBVIOUS
  <1>2. \A i, j \in DOMAIN published' : published'[i] = published'[j] => i = j
    BY DEF IP!FateInv, IP!Fates
  <1>3. Len(published') <= Cardinality(Requests)
    BY <1>1, <1>2, PlatformAssumption, DistinctElements
  <1>4. Len(published) \in Nat /\ Len(published') = Len(published) + 1
    OBVIOUS
  <1>5. Cardinality(Requests) \in Nat
    BY PlatformAssumption, FS_CardinalityType
  <1>6. QED
    BY <1>3, <1>4, <1>5

(* What a step does to what the workers see of the requests.               *)
LEMMA RequestEffects ==
  ASSUME IP!FateInv, [IP!Next]_IP!vars
  PROVE  \/ UNCHANGED <<published, Stored>>
         \/ \E r \in Requests : published' = Append(published, r) /\ UNCHANGED Stored
         \/ \E r \in Requests :
              /\ published' = published
              /\ Payload[r]["transaction"] \notin Stored
              /\ Stored' = Stored \cup {Payload[r]["transaction"]}
  <1>1. UNCHANGED rows => UNCHANGED Stored
    BY DEF Stored
  <1>2. ASSUME NEW r \in Requests, IP!Creates(r)
        PROVE  /\ published' = published
               /\ Payload[r]["transaction"] \notin Stored
               /\ Stored' = Stored \cup {Payload[r]["transaction"]}
    <2>1. /\ IP!ToSet(rows'["transaction"]) = IP!ToSet(rows["transaction"]) \cup {Payload[r]}
          /\ \A p \in IP!ToSet(rows["transaction"]) : p["transaction"] # Payload[r]["transaction"]
      BY <1>2, IngestionAssumed, IP!CreatesRow DEF IP!FateInv
    <2>2. /\ ToSet(rows'["transaction"]) = ToSet(rows["transaction"]) \cup {Payload[r]}
          /\ \A p \in ToSet(rows["transaction"]) : p["transaction"] # Payload[r]["transaction"]
      BY <2>1 DEF IP!ToSet, ToSet
    <2>3. published' = published
      BY <1>2 DEF IP!Creates, IP!Commits
    <2>4. QED
      BY <2>2, <2>3 DEF Stored
  <1>3. ASSUME NEW r \in Requests, IP!Repeats(r) PROVE UNCHANGED <<published, Stored>>
    <2>1. UNCHANGED rows
      BY <1>3, IngestionAssumed, IP!RepeatsRow DEF IP!FateInv
    <2>2. QED
      BY <1>1, <1>3, <2>1 DEF IP!Repeats, IP!Commits
  <1>4. ASSUME NEW r \in Requests, IP!Announces(r) \/ IP!GivesUp(r)
        PROVE  /\ published' = published \/ published' = Append(published, r)
               /\ UNCHANGED Stored
    BY <1>1, <1>4 DEF IP!Announces, IP!GivesUp, IP!database
  <1>5. ASSUME NEW r \in Requests,
               \/ IP!Looks(r) \/ IP!FindsDuplicate(r) \/ IP!AuditsDuplicate(r)
               \/ \E table \in IP!Tables, step \in IP!Steps : IP!Holds(r, table, step)
        PROVE  UNCHANGED <<published, Stored>>
    BY <1>1, <1>5 DEF IP!Looks, IP!FindsDuplicate, IP!AuditsDuplicate, IP!Holds, IP!database
  <1>6. UNCHANGED IP!vars => UNCHANGED <<published, Stored>>
    BY <1>1 DEF IP!vars
  <1>7. (\E r \in Requests : IP!Kinds(r)) \/ UNCHANGED IP!vars
    BY IngestionAssumed, IP!StepKinds
  <1>8. QED
    BY <1>2, <1>3, <1>4, <1>5, <1>6, <1>7 DEF IP!Kinds

LEMMA WorkerStep ==
  IP!FateInv /\ IP!FateInv' /\ [Next]_vars => [WP!Next]_WP!vars
  <1> SUFFICES ASSUME IP!FateInv, IP!FateInv', [Next]_vars
               PROVE  WP!Next \/ UNCHANGED WP!vars
    OBVIOUS
  <1>1. ASSUME NEW w \in Workers, Evaluate(w) PROVE WP!Next
    <2>1. Worker!Work(w) \/ Worker!Fails(w) \/ Worker!Restart(w)
      BY <1>1 DEF Evaluate, Process
    <2>2. WP!Work(w) \/ WP!Fails(w) \/ WP!Restart(w)
      BY <2>1, SameWorkerSteps
    <2>3. QED
      BY <2>2 DEF WP!Next
  <1>2. ASSUME NEW r \in Requests, Ingest(r) PROVE WP!Next \/ UNCHANGED WP!vars
    <2>1. UNCHANGED workerVars /\ Push
      BY <1>2 DEF Ingest, Serve
    <2>2. UNCHANGED <<assessments, counted, WP!local, workerFaults>>
      BY <2>1 DEF workerVars, WP!local
    <2>3. CASE UNCHANGED <<published, Stored>>
      BY <2>1, <2>2, <2>3 DEF Push, WP!vars
    <2>4. ASSUME NEW q \in Requests, published' = Append(published, q), UNCHANGED Stored
          PROVE  WP!Next
      <3>1. published \in Seq(Requests)
        BY DEF IP!FateInv, IP!Inv, IP!TypeOK
      <3>2. Len(published) < Cardinality(Requests)
        BY <2>4, <3>1, RoomToPublish
      <3>3. published' # published /\ Last(published') = q
        BY <2>4, <3>1 DEF Last
      <3>4. queue' = <<q>> \o queue
        BY <2>1, <3>3 DEF Push
      <3>5. WP!Publish(q)
        BY <2>2, <2>4, <3>2, <3>4 DEF WP!Publish
      <3>6. QED
        BY <3>5 DEF WP!Next, WP!Messages
    <2>5. ASSUME NEW q \in Requests,
                 published' = published,
                 Payload[q]["transaction"] \notin Stored,
                 Stored' = Stored \cup {Payload[q]["transaction"]}
          PROVE  WP!Next
      <3>1. queue' = queue
        BY <2>1, <2>5 DEF Push
      <3>2. WP!CommitTransaction(Payload[q]["transaction"])
        BY <2>2, <2>5, <3>1 DEF WP!CommitTransaction
      <3>3. Payload[q]["transaction"] \in Ids
        BY PlatformAssumption DEF Ingestion!Payloads
      <3>4. QED
        BY <3>2, <3>3 DEF WP!Next
    <2>6. QED
      BY <2>3, <2>4, <2>5, IngestionStep, RequestEffects
  <1>3. UNCHANGED vars => UNCHANGED WP!vars
    BY DEF vars, ingestionVars, workerVars, WP!vars, WP!local, Stored
  <1>4. QED
    BY <1>1, <1>2, <1>3 DEF Next

LEMMA WorkersInPlatform == Spec => WP!Spec
  <1>1. Init => WP!Init
    <2>1. Init => Stored = {}
      BY DEF Init, Ingestion!Init, Ingestion!Tables, Stored, ToSet
    <2>2. QED
      BY <2>1 DEF Init, Worker!Init, WP!Init, Worker!Results, WP!Results
  <1>2. QED
    BY <1>1, FatesHold, WorkerStep, PTL DEF Spec, WP!Spec

(* What is proved of the workers holds in the platform: the ingestion      *)
(* service, with its rollbacks, races and faults, publishes and commits no *)
(* more than the workers' environment may.                                 *)
THEOREM ImplementsWorker == Spec => WorkerSpec
  <1>1. WP!Init => Worker!Init
    BY DEF Worker!Init, WP!Init, Worker!Results, WP!Results
  <1>2. [WP!Next]_WP!vars => [Worker!Next]_Worker!vars
    <2> SUFFICES ASSUME [WP!Next]_WP!vars PROVE [Worker!Next]_Worker!vars
      OBVIOUS
    <2>1. UNCHANGED WP!vars => UNCHANGED Worker!vars
      BY DEF WP!vars, WP!local, Worker!vars, Worker!local
    <2>2. \A m : WP!Publish(m) => Worker!Publish(m)
      BY DEF WP!Publish, WP!local, Worker!Publish, Worker!local
    <2>3. \A x : WP!CommitTransaction(x) => Worker!CommitTransaction(x)
      BY DEF WP!CommitTransaction, WP!local, Worker!CommitTransaction, Worker!local
    <2>4. \A w : WP!Work(w) \/ WP!Fails(w) \/ WP!Restart(w)
                   => Worker!Work(w) \/ Worker!Fails(w) \/ Worker!Restart(w)
      BY SameWorkerSteps
    <2>5. QED
      BY <2>1, <2>2, <2>3, <2>4 DEF WP!Next, Worker!Next, WP!Messages, Worker!Messages
  <1>3. QED
    BY <1>1, <1>2, WorkersInPlatform, PTL DEF WorkerSpec, Worker!Spec, WP!Spec

-----------------------------------------------------------------------------
(* What the platform provides.                                             *)

(* Components with their own invariants, next to each other.               *)
PlatformInv == IP!FateInv /\ WP!LedgerInv /\ WP!RowsTrue

LEMMA PlatformInvHolds == Spec => []PlatformInv
  BY FatesHold, WorkersInPlatform, WorkerAssumed, WP!RowsAreTrue, PTL DEF PlatformInv

(* What an assessment says: its event is that of a request of its          *)
(* transaction.                                                            *)
LEMMA AssessmentFacts ==
  ASSUME PlatformInv, NEW i \in DOMAIN assessments
  PROVE  /\ assessments[i].event_id \in Requests
         /\ assessments[i].event_id \in ToSet(published)
         /\ assessments[i].transaction_id = Payload[assessments[i].event_id]["transaction"]
         /\ assessments[i].transaction_id \in Stored
  <1>1. PICK e \in Requests : /\ assessments[i] = WP!Row(e)
                              /\ e \in WP!ToSet(published)
                              /\ TransactionOf[e] \in Stored
    BY DEF PlatformInv, WP!RowsTrue
  <1>2. assessments[i].event_id = e /\ assessments[i].transaction_id = TransactionOf[e]
    BY <1>1 DEF WP!Row
  <1>3. TransactionOf[e] = Payload[e]["transaction"]
    BY DEF TransactionOf
  <1>4. QED
    BY <1>1, <1>2, <1>3 DEF WP!ToSet, ToSet

FailedSubmissions(t) ==
  {r \in Requests : Payload[r]["transaction"] = t /\ status[r] \in {"500", "lost"}}

PublishedFor(t) == {r \in Requests : r \in ToSet(published) /\ Payload[r]["transaction"] = t}

LEMMA FewPublished ==
  ASSUME PlatformInv, NEW t
  PROVE  /\ IsFiniteSet(PublishedFor(t))
         /\ Cardinality(PublishedFor(t)) <= 1 + Cardinality(FailedSubmissions(t))
  <1> DEFINE P == PublishedFor(t)
             F == FailedSubmissions(t)
  <1>1. IsFiniteSet(P) /\ IsFiniteSet(F)
    BY PlatformAssumption, FS_Subset DEF PublishedFor, FailedSubmissions
  <1>2. \E x : P \subseteq F \cup {x}
    <2>1. CASE P \subseteq F
      BY <2>1
    <2>2. ASSUME NEW x \in P, x \notin F PROVE P \subseteq F \cup {x}
      <3>1. SUFFICES ASSUME NEW r \in P, r \notin F PROVE r = x
        OBVIOUS
      <3>2. IP!Survives(r) /\ IP!Survives(x)
        BY <2>2, <3>1 DEF IP!Survives, IP!ToSet, ToSet, PublishedFor, FailedSubmissions
      <3>3. Payload[r]["transaction"] = Payload[x]["transaction"]
        BY <2>2, <3>1 DEF PublishedFor
      <3>4. r \in Requests /\ x \in Requests
        BY <2>2, <3>1 DEF PublishedFor
      <3>5. QED
        BY <3>2, <3>3, <3>4, IngestionAssumed, IP!OneSurvivor DEF PlatformInv
    <2>3. QED
      BY <2>1, <2>2
  <1>3. PICK x : P \subseteq F \cup {x}
    BY <1>2
  <1>4. Cardinality(P) <= Cardinality(F) + 1
    BY <1>1, <1>3, OneMoreBound
  <1>5. Cardinality(P) \in Nat /\ Cardinality(F) \in Nat
    BY <1>1, FS_CardinalityType
  <1>6. QED
    BY <1>1, <1>4, <1>5

(* A transaction is assessed at most once, plus once for each of its       *)
(* submissions that failed after they had published (LPUSH before COMMIT). *)
(* Every assessment has an event of its own, every event a request of its  *)
(* own, and of the requests that published for one transaction and did not *)
(* fail, only one got past the unique index.                               *)
THEOREM ReassessmentsBounded == Spec => []ReassessmentNeedsFailedSubmission
  <1>1. PlatformInv => ReassessmentNeedsFailedSubmission
    <2> SUFFICES ASSUME PlatformInv, NEW t \in Ids
                 PROVE  Cardinality(AssessmentsOf(t)) <= 1 + Cardinality(FailedSubmissions(t))
      BY DEF ReassessmentNeedsFailedSubmission, FailedSubmissions
    <2> DEFINE A == AssessmentsOf(t)
               f == [i \in A |-> assessments[i].event_id]
    <2>1. \A i \in A : assessments[i].event_id \in PublishedFor(t)
      BY AssessmentFacts DEF AssessmentsOf, PublishedFor
    <2>2. \A i, j \in A : assessments[i].event_id = assessments[j].event_id => i = j
      BY DEF PlatformInv, WP!LedgerInv, WP!AtMostOneInv, WP!AtMostOneAssessment, AssessmentsOf
    <2>3. f \in Injection(A, PublishedFor(t))
      BY <2>1, <2>2 DEF Injection, IsInjective
    <2>4. IsFiniteSet(A) /\ Cardinality(A) <= Cardinality(PublishedFor(t))
      BY <2>3, FewPublished, FS_Injection
    <2>5. /\ Cardinality(A) \in Nat /\ Cardinality(PublishedFor(t)) \in Nat
          /\ Cardinality(FailedSubmissions(t)) \in Nat
      BY <2>4, FewPublished, FS_CardinalityType, FS_Subset, PlatformAssumption
         DEF FailedSubmissions
    <2>6. QED
      BY <2>4, <2>5, FewPublished
  <1>2. QED
    BY <1>1, PlatformInvHolds, PTL

(* From the API to the table: every stored transaction has an event that   *)
(* is queued, in hand, assessed or counted as given up, except for at most *)
(* one transaction for each fault of a worker (BRPOP before handling).     *)
(* A request publishes before it commits, so a stored transaction without  *)
(* such an event has one that the workers forgot, and a fault of theirs    *)
(* forgets one at most.                                                    *)
THEOREM StoredTraceable == Spec => []StoredIsTraceable
  <1>1. ASSUME PlatformInv, WP!OneFaultForgetsOneEvent PROVE StoredIsTraceable
    <2> DEFINE F == WP!Forgotten
               About(t, r) == Payload[r]["transaction"] = t
               f == [t \in Untraceable |-> CHOOSE r \in F : About(t, r)]
    <2>1. ASSUME NEW t \in Untraceable PROVE \E r \in F : About(t, r)
      <3>1. PICK p \in ToSet(rows["transaction"]) : p["transaction"] = t
        BY <2>1 DEF Untraceable, Stored
      <3>2. p \in IP!ToSet(rows["transaction"])
        BY <3>1 DEF ToSet, IP!ToSet
      <3>3. PICK r \in Requests : /\ r \in IP!ToSet(published)
                                  /\ Payload[r]["transaction"] = p["transaction"]
        BY <1>1, <3>2, IngestionAssumed, IP!StoredWasPublished DEF PlatformInv
      <3>4. ~Settled(r)
        BY <2>1, <3>1, <3>3 DEF Untraceable
      <3>5. r \in F
        BY <3>3, <3>4 DEF Settled, Worker!Queued, Worker!InHand, Worker!Assessed,
           Worker!GivenUp, WP!Forgotten, WP!Queued, WP!InHand, WP!Assessed, WP!GivenUp,
           WP!ToSet, IP!ToSet, Worker!ToSet
      <3>6. QED
        BY <3>1, <3>3, <3>5
    <2>2. \A t \in Untraceable : f[t] \in F /\ About(t, f[t])
      BY <2>1
    <2> HIDE DEF F
    <2>3. f \in Injection(Untraceable, F)
      <3> HIDE DEF About
      <3>1. f \in [Untraceable -> F]
        BY <2>2
      <3>2. ASSUME NEW t \in Untraceable, NEW u \in Untraceable, f[t] = f[u] PROVE t = u
        BY <2>2, <3>2 DEF About
      <3> HIDE DEF f
      <3>3. QED
        BY <3>1, <3>2 DEF Injection, IsInjective
    <2>4. IsFiniteSet(F)
      BY PlatformAssumption, FS_Subset DEF F, WP!Forgotten
    <2>5. IsFiniteSet(Untraceable) /\ Cardinality(Untraceable) <= Cardinality(F)
      BY <2>3, <2>4, FS_Injection
    <2>6. Cardinality(F) <= workerFaults
      BY <1>1, SameCardinality DEF F, WP!OneFaultForgetsOneEvent
    <2>7. Cardinality(Untraceable) \in Nat /\ Cardinality(F) \in Nat /\ workerFaults \in Nat
      <3>1. workerFaults \in 0..MaxWorkerFaults
        BY <1>1 DEF PlatformInv, WP!LedgerInv, WP!AtMostOneInv, WP!WorkerTypeOK
      <3>2. QED
        BY <2>4, <2>5, <3>1, FS_CardinalityType, PlatformAssumption
    <2>8. QED
      BY <2>5, <2>6, <2>7 DEF StoredIsTraceable
  <1>2. ~FALSE => (WP!Spec => []WP!OneFaultForgetsOneEvent)
    BY WorkerAssumed, WP!LossesBounded
  <1>3. QED
    BY <1>1, <1>2, PlatformInvHolds, WorkersInPlatform, PTL

(* The database as the analytics service sees it.                          *)

AssessedEvents == {assessments[i].event_id : i \in DOMAIN assessments}

LEMMA ReadersInit == Init => Readers!Init
  <1> SUFFICES ASSUME Init PROVE Readers!Init
    OBVIOUS
  <1>1. Stored = {}
    BY DEF Init, Ingestion!Init, Ingestion!Tables, Stored, ToSet
  <1>2. AssessedEvents = {}
    BY DEF Init, Worker!Init, AssessedEvents
  <1>3. \A x : <<>> = [r \in {} |-> x]
    OBVIOUS
  <1>4. QED
    BY <1>1, <1>2, <1>3 DEF Readers!Init, Readers!EmptyDb, AssessedEvents

LEMMA DatabaseGrows ==
  ASSUME NEW S, NEW A, NEW x
  PROVE  LET d == [transactions |-> S, assessments |-> A]
         IN  /\ d.transactions = S /\ d.assessments = A
             /\ [d EXCEPT !.transactions = @ \cup {x}]
                  = [transactions |-> S \cup {x}, assessments |-> A]
             /\ [d EXCEPT !.assessments = @ \cup {x}]
                  = [transactions |-> S, assessments |-> A \cup {x}]
  <1> DEFINE d == [transactions |-> S, assessments |-> A]
  <1>1. d.transactions = S /\ d.assessments = A
    OBVIOUS
  <1>2. ASSUME NEW T PROVE [d EXCEPT !.transactions = T] = [transactions |-> T, assessments |-> A]
    OBVIOUS
  <1>3. ASSUME NEW T PROVE [d EXCEPT !.assessments = T] = [transactions |-> S, assessments |-> T]
    OBVIOUS
  <1> HIDE DEF d
  <1>4. [d EXCEPT !.transactions = @ \cup {x}] = [d EXCEPT !.transactions = S \cup {x}]
    BY <1>1
  <1>5. [d EXCEPT !.assessments = @ \cup {x}] = [d EXCEPT !.assessments = A \cup {x}]
    BY <1>1
  <1>6. QED
    BY <1>1, <1>2, <1>3, <1>4, <1>5 DEF d

LEMMA ReadersStep ==
  ASSUME PlatformInv, [IP!Next]_IP!vars, [WP!Next]_WP!vars,
         UNCHANGED Stored \/ UNCHANGED AssessedEvents
  PROVE  [Readers!Next]_Readers!vars
  <1>1. CASE UNCHANGED <<Stored, AssessedEvents>>
    BY <1>1 DEF Readers!vars, AssessedEvents
  <1>2. CASE UNCHANGED AssessedEvents /\ ~UNCHANGED Stored
    <2>1. PICK r \in Requests : /\ Payload[r]["transaction"] \notin Stored
                                /\ Stored' = Stored \cup {Payload[r]["transaction"]}
      BY <1>2, RequestEffects DEF PlatformInv
    <2>2. Payload[r]["transaction"] \in Ids
      BY PlatformAssumption DEF Ingestion!Payloads
    <2>3. Readers!CommitTransaction(Payload[r]["transaction"])
      <3> DEFINE x == Payload[r]["transaction"]
                 d == [transactions |-> Stored, assessments |-> AssessedEvents]
      <3>1. d.transactions = Stored
        OBVIOUS
      <3>2. [d EXCEPT !.transactions = @ \cup {x}]
              = [transactions |-> Stored \cup {x}, assessments |-> AssessedEvents]
        BY DatabaseGrows
      <3>3. d' = [transactions |-> Stored \cup {x}, assessments |-> AssessedEvents]
        BY <1>2, <2>1
      <3>4. x \notin d.transactions /\ d' = [d EXCEPT !.transactions = @ \cup {x}]
        BY <2>1, <3>1, <3>2, <3>3
      <3>5. QED
        BY <3>4 DEF Readers!CommitTransaction, AssessedEvents
    <2>4. QED
      BY <2>2, <2>3 DEF Readers!Next
  <1>3. CASE UNCHANGED Stored /\ ~UNCHANGED AssessedEvents
    <2> USE DEF PlatformInv, WP!LedgerInv, WP!AtMostOneInv
    <2>1. PICK w \in Workers : WP!Recording(w)
      BY <1>3, WorkerAssumed, WP!StepKinds DEF WP!Quiet, WP!Flushing, AssessedEvents
    <2>10. PICK e \in Requests : e = event[w]
      BY <2>1 DEF WP!Recording
    <2>2. e \in Requests /\ TransactionOf[e] \in Stored /\ ~WP!Assessed(e)
      BY <2>1, <2>10 DEF WP!Recording, WP!TransactionSeen, WP!InFlight
    <2>3. assessments' = Append(assessments, WP!Row(e))
      BY <2>1, <2>10 DEF WP!Recording
    <2>4. e \notin AssessedEvents
      BY <2>2 DEF WP!Assessed, AssessedEvents
    <2>5. AssessedEvents' = AssessedEvents \cup {e}
      <3>1. assessments \in Seq(WP!Rows)
        BY DEF WP!WorkerTypeOK
      <3>2. /\ DOMAIN assessments' = 1..(Len(assessments) + 1)
            /\ DOMAIN assessments = 1..Len(assessments)
            /\ Len(assessments) \in Nat
            /\ \A i \in 1..Len(assessments) : assessments'[i] = assessments[i]
            /\ assessments'[Len(assessments) + 1] = WP!Row(e)
        BY <2>3, <3>1
      <3>3. WP!Row(e).event_id = e
        BY DEF WP!Row
      <3>4. QED
        BY <3>2, <3>3 DEF AssessedEvents
    <2>6. Readers!CommitAssessment(e)
      <3> DEFINE d == [transactions |-> Stored, assessments |-> AssessedEvents]
      <3>1. d.transactions = Stored /\ d.assessments = AssessedEvents
        OBVIOUS
      <3>2. [d EXCEPT !.assessments = @ \cup {e}]
              = [transactions |-> Stored, assessments |-> AssessedEvents \cup {e}]
        BY DatabaseGrows
      <3>3. d' = [transactions |-> Stored, assessments |-> AssessedEvents \cup {e}]
        BY <1>3, <2>5
      <3>4. /\ e \notin d.assessments /\ TransactionOf[e] \in d.transactions
            /\ d' = [d EXCEPT !.assessments = @ \cup {e}]
        BY <2>2, <2>4, <3>1, <3>2, <3>3
      <3>5. QED
        BY <3>4 DEF Readers!CommitAssessment, AssessedEvents
    <2>7. QED
      BY <2>2, <2>6 DEF Readers!Next
  <1>4. QED
    BY <1>1, <1>2, <1>3

(* What the API and the workers do to the tables is what the analytics     *)
(* service assumes of its database: transactions and assessments are only  *)
(* ever added, one at a time, a transaction that was not there, and an     *)
(* assessment of an event that had none and of a transaction that is there *)
(* (no foreign key holds an assessment to that; the worker's SELECT does). *)
THEOREM ImplementsReaders == Spec => ReadersSpec
  <1>1. ASSUME PlatformInv, PlatformInv', [Next]_vars PROVE [Readers!Next]_Readers!vars
    <2>1. [IP!Next]_IP!vars /\ [WP!Next]_WP!vars
      BY <1>1, IngestionStep, WorkerStep DEF PlatformInv
    <2>2. ASSUME NEW r \in Requests, Ingest(r) PROVE UNCHANGED AssessedEvents
      BY <2>2 DEF Ingest, Serve, workerVars, AssessedEvents
    <2>3. ASSUME NEW w \in Workers, Evaluate(w) PROVE UNCHANGED Stored
      BY <2>3 DEF Evaluate, Process, ingestionVars, Stored
    <2>4. UNCHANGED vars => UNCHANGED Stored
      BY DEF vars, ingestionVars, Stored
    <2>5. UNCHANGED Stored \/ UNCHANGED AssessedEvents
      BY <1>1, <2>2, <2>3, <2>4 DEF Next
    <2>6. QED
      BY <1>1, <2>1, <2>5, ReadersStep
  <1>2. QED
    BY <1>1, ReadersInit, PlatformInvHolds, PTL DEF Spec, ReadersSpec, Readers!Spec
=============================================================================
