----------------------------- MODULE Ingestion ------------------------------
(***************************************************************************)
(* POST /api/v1/transactions: concurrent requests, each one a database     *)
(* transaction that finds or inserts an account, a merchant and the        *)
(* transaction itself, pushes the event for the worker before committing,  *)
(* and leaves an audit row. Unique indexes make an INSERT wait for another *)
(* request's uncommitted row with the same key; statements read what is    *)
(* committed when they run (READ COMMITTED).                               *)
(*                                                                         *)
(* Code: services/ingestion_service/api/routes.py, shared/pipeline.py      *)
(* (publish_transaction_ingested), shared/models.py.                       *)
(***************************************************************************)
EXTENDS Integers, FiniteSets, Sequences, SequencesExt

CONSTANTS
  Requests,       \* HTTP requests, each with its own X-Request-ID
  Ids,            \* external ids
  None,           \* no merchant in a payload; no response
  Payload,        \* what each request submits
  LongRequestIds, \* requests whose X-Request-ID exceeds the audit column
  JsonEncodable,  \* Python types that json.dumps encodes
  PoolSize,       \* connections to the database
  MaxFaults       \* bound: broken statements and processes

Payloads == [transaction : Ids, account : Ids, merchant : Ids \cup {None}]

ASSUME IngestionAssumption ==
  /\ None \notin Ids \cup Payloads
  /\ Payload \in [Requests -> Payloads]
  /\ LongRequestIds \subseteq Requests
  /\ PoolSize \in Nat \ {0}
  /\ MaxFaults \in Nat

(* The types of the values in TransactionIngestedEvent.model_dump().       *)
EventFieldTypes == {"str", "int", "NoneType", "Decimal", "datetime"}

Encodable == EventFieldTypes \subseteq JsonEncodable

Tables == {"account", "merchant", "transaction"}

Writing ==
  {"find_account", "insert_account", "find_merchant", "insert_merchant",
   "insert_transaction", "publish", "commit"}

Duplicating == {"audit_duplicate", "commit_duplicate"}

Steps == {"find_transaction", "done"} \cup Writing \cup Duplicating

Statuses == {"none", "201", "500", "lost"}

Audits == [transaction : Ids, action : {"created", "duplicate"}, request : Requests]

VARIABLES
  rows,       \* committed rows of each table, as the payload that made them
  audits,     \* committed rows of transaction_audit_logs
  published,  \* history: requests whose event was pushed, oldest first
  pc,         \* the next statement of each request
  inserted,   \* tables each request holds an uncommitted row in
  existing,   \* `existing_tx` of each request, None if there is none
  status,     \* what the client of each request has got
  response,   \* `data` of the answer
  faults      \* history: faults so far

database == <<rows, audits>>
vars == <<rows, audits, published, pc, inserted, existing, status, response, faults>>

-----------------------------------------------------------------------------
(* Keys and locks. A row of a table is kept as the payload it came from;   *)
(* its external id is the payload's field of the table's name.             *)

Key(r, table) == Payload[r][table]

Exists(r, table) ==
  \E i \in DOMAIN rows[table] : rows[table][i][table] = Key(r, table)

(* Mutant: the conflicting request is not waited for.                      *)
NeverBlocked(r, table) == FALSE

Blocked(r, table) ==
  \E s \in Requests \ {r} : table \in inserted[s] /\ Key(s, table) = Key(r, table)

(* Requests with a connection: from their first statement to the end of    *)
(* their database transaction.                                             *)
Connected == {r \in Requests : pc[r] \notin {"find_transaction", "done"}}

Goto(r, step) == pc' = [pc EXCEPT ![r] = step]

(* Mutant: the session keeps its rows locked when the request fails.      *)
EndKeepingLocks(r, code, data) ==
  /\ Goto(r, "done")
  /\ inserted' = IF code = "201" THEN [inserted EXCEPT ![r] = {}] ELSE inserted
  /\ status' = [status EXCEPT ![r] = code]
  /\ response' = [response EXCEPT ![r] = data]

(* The request is over: its database transaction is too.                   *)
End(r, code, data) ==
  /\ Goto(r, "done")
  /\ inserted' = [inserted EXCEPT ![r] = {}]
  /\ status' = [status EXCEPT ![r] = code]
  /\ response' = [response EXCEPT ![r] = data]

(* An exception leaves session.begin(): rollback and an error response.    *)
Fail(r) == End(r, "500", None)

-----------------------------------------------------------------------------
(* The statements of create_transaction, in the order they reach the       *)
(* database. Pending objects are flushed by the next SELECT (autoflush),   *)
(* so the account is inserted before the merchant is looked up.            *)

(* Mutant: the row that was found is not kept.                             *)
FindTransactionForgets(r) ==
  /\ pc[r] = "find_transaction"
  /\ Goto(r, IF Exists(r, "transaction") THEN "audit_duplicate" ELSE "find_account")
  /\ UNCHANGED <<database, published, inserted, existing, status, response, faults>>

(* The first statement waits for a connection of the pool.                 *)
FindTransaction(r) ==
  /\ pc[r] = "find_transaction"
  /\ Cardinality(Connected) < PoolSize
  /\ IF Exists(r, "transaction")
       THEN /\ \E i \in DOMAIN rows["transaction"] :
                 /\ rows["transaction"][i]["transaction"] = Key(r, "transaction")
                 /\ existing' = [existing EXCEPT ![r] = rows["transaction"][i]]
            /\ Goto(r, "audit_duplicate")
       ELSE Goto(r, "find_account") /\ UNCHANGED existing
  /\ UNCHANGED <<database, published, inserted, status, response, faults>>

FindAccount(r) ==
  /\ pc[r] = "find_account"
  /\ Goto(r, IF Exists(r, "account") THEN "find_merchant" ELSE "insert_account")
  /\ UNCHANGED <<database, published, inserted, existing, status, response, faults>>

(* Mutant: a conflict with an uncommitted row is an error at once.         *)
InsertNoWait(r, table, step) ==
  /\ IF Exists(r, table) \/ Blocked(r, table)
       THEN Fail(r)
       ELSE /\ inserted' = [inserted EXCEPT ![r] = @ \cup {table}]
            /\ Goto(r, step)
            /\ UNCHANGED <<status, response>>
  /\ UNCHANGED <<database, published, existing, faults>>

(* An INSERT: it waits for a conflicting uncommitted row, fails on a       *)
(* committed one (IntegrityError, which nothing catches here), and         *)
(* otherwise holds its own row until the request ends.                     *)
Insert(r, table, step) ==
  /\ ~Blocked(r, table)
  /\ IF Exists(r, table)
       THEN Fail(r)
       ELSE /\ inserted' = [inserted EXCEPT ![r] = @ \cup {table}]
            /\ Goto(r, step)
            /\ UNCHANGED <<status, response>>
  /\ UNCHANGED <<database, published, existing, faults>>

(* Mutant: the account is committed on its own.                            *)
InsertAccountCommitted(r) ==
  /\ pc[r] = "insert_account"
  /\ ~Blocked(r, "account") /\ ~Exists(r, "account")
  /\ rows' = [rows EXCEPT !["account"] = Append(@, Payload[r])]
  /\ Goto(r, "find_merchant")
  /\ UNCHANGED <<audits, published, inserted, existing, status, response, faults>>

InsertAccount(r) ==
  pc[r] = "insert_account" /\ Insert(r, "account", "find_merchant")

FindMerchant(r) ==
  /\ pc[r] = "find_merchant"
  /\ Goto(r, IF Key(r, "merchant") = None \/ Exists(r, "merchant")
               THEN "insert_transaction" ELSE "insert_merchant")
  /\ UNCHANGED <<database, published, inserted, existing, status, response, faults>>

InsertMerchant(r) ==
  pc[r] = "insert_merchant" /\ Insert(r, "merchant", "insert_transaction")

(* Mutant: transactions.external_id is not unique.                         *)
InsertTransactionNotUnique(r) ==
  /\ pc[r] = "insert_transaction"
  /\ inserted' = [inserted EXCEPT ![r] = @ \cup {"transaction"}]
  /\ Goto(r, "publish")
  /\ UNCHANGED <<database, published, existing, status, response, faults>>

InsertTransaction(r) ==
  pc[r] = "insert_transaction" /\ Insert(r, "transaction", "publish")

(* Mutant: an event that cannot be published is ignored.                   *)
PublishBestEffort(r) ==
  /\ pc[r] = "publish"
  /\ published' \in {published, Append(published, r)}
  /\ Goto(r, "commit")
  /\ UNCHANGED <<database, inserted, existing, status, response, faults>>

(* json.dumps raises TypeError on a value it cannot encode; otherwise the  *)
(* event is on the list before the transaction it announces is committed.  *)
Publish(r) ==
  /\ pc[r] = "publish"
  /\ IF Encodable
       THEN /\ published' = Append(published, r)
            /\ Goto(r, "commit")
            /\ UNCHANGED <<inserted, status, response>>
       ELSE Fail(r) /\ UNCHANGED published
  /\ UNCHANGED <<database, existing, faults>>

(* What r's COMMIT makes visible.                                          *)
Visible(r, action) ==
  /\ rows' = [table \in Tables |->
                IF table \in inserted[r] THEN Append(rows[table], Payload[r]) ELSE rows[table]]
  /\ audits' = audits \cup
       {[transaction |-> Key(r, "transaction"), action |-> action, request |-> r]}

(* Leaving session.begin(): the audit row is inserted, then COMMIT.        *)
Commit(r) ==
  /\ pc[r] = "commit"
  /\ IF r \in LongRequestIds
       THEN Fail(r) /\ UNCHANGED database
       ELSE Visible(r, "created") /\ End(r, "201", Payload[r])
  /\ UNCHANGED <<published, existing, faults>>

(* The audit row is inserted by the autoflush of the SELECT after it.      *)
AuditDuplicate(r) ==
  /\ pc[r] = "audit_duplicate"
  /\ IF r \in LongRequestIds
       THEN Fail(r)
       ELSE Goto(r, "commit_duplicate") /\ UNCHANGED <<inserted, status, response>>
  /\ UNCHANGED <<database, published, existing, faults>>

(* Mutant: a duplicate is audited as a creation.                           *)
CommitDuplicateCreated(r) ==
  /\ pc[r] = "commit_duplicate"
  /\ Visible(r, "created")
  /\ End(r, "201", existing[r])
  /\ UNCHANGED <<published, existing, faults>>

(* Mutant: a duplicate is answered with what it submitted.                 *)
CommitDuplicateEcho(r) ==
  /\ pc[r] = "commit_duplicate"
  /\ Visible(r, "duplicate")
  /\ End(r, "201", Payload[r])
  /\ UNCHANGED <<published, existing, faults>>

CommitDuplicate(r) ==
  /\ pc[r] = "commit_duplicate"
  /\ Visible(r, "duplicate")
  /\ End(r, "201", existing[r])
  /\ UNCHANGED <<published, existing, faults>>

-----------------------------------------------------------------------------
(* Faults: a statement that fails for reasons of its own (no connection of *)
(* the pool in time, for the first one), or a process that dies and leaves *)
(* its client without an answer. A COMMIT or an LPUSH that fails may have  *)
(* been applied.                                                           *)
Break(r) ==
  /\ pc[r] # "done"
  /\ faults < MaxFaults
  /\ faults' = faults + 1
  /\ \E code \in {"500", "lost"} : End(r, code, None)
  /\ \/ UNCHANGED database
     \/ pc[r] = "commit" /\ r \notin LongRequestIds /\ Visible(r, "created")
     \/ pc[r] = "commit_duplicate" /\ Visible(r, "duplicate")
  /\ \/ UNCHANGED published
     \/ pc[r] = "publish" /\ Encodable /\ published' = Append(published, r)
  /\ UNCHANGED existing

-----------------------------------------------------------------------------
Init ==
  /\ rows = [table \in Tables |-> <<>>]
  /\ audits = {}
  /\ published = <<>>
  /\ pc = [r \in Requests |-> "find_transaction"]
  /\ inserted = [r \in Requests |-> {}]
  /\ existing = [r \in Requests |-> None]
  /\ status = [r \in Requests |-> "none"]
  /\ response = [r \in Requests |-> None]
  /\ faults = 0

Handle(r) ==
  \/ FindTransaction(r) \/ FindAccount(r) \/ InsertAccount(r) \/ FindMerchant(r)
  \/ InsertMerchant(r) \/ InsertTransaction(r) \/ Publish(r) \/ Commit(r)
  \/ AuditDuplicate(r) \/ CommitDuplicate(r)

(* Every request has ended: nothing left to do.                            *)
Finished == (\A r \in Requests : pc[r] = "done") /\ UNCHANGED vars

Next == (\E r \in Requests : Handle(r) \/ Break(r)) \/ Finished

Spec == Init /\ [][Next]_vars

(* The event loop and the database run every request that is not waiting.  *)
FairSpec == Spec /\ \A r \in Requests : WF_vars(Handle(r))

-----------------------------------------------------------------------------
(* The types of the state.                                                 *)
TypeOK ==
  /\ rows \in [Tables -> Seq(Payloads)]
  /\ audits \subseteq Audits
  /\ published \in Seq(Requests)
  /\ pc \in [Requests -> Steps]
  /\ inserted \in [Requests -> SUBSET Tables]
  /\ existing \in [Requests -> Payloads \cup {None}]
  /\ status \in [Requests -> Statuses]
  /\ response \in [Requests -> Payloads \cup {None}]
  /\ faults \in 0..MaxFaults
  /\ \A r \in Requests : pc[r] = "done" <=> status[r] # "none"
  /\ \A r \in Requests : status[r] = "201" <=> response[r] # None

(* However requests race, an external id has at most one account, merchant *)
(* or transaction (SELECT, then INSERT under a unique index).              *)
UniqueRows ==
  \A table \in Tables :
    \A i, j \in DOMAIN rows[table] :
      rows[table][i][table] = rows[table][j][table] => i = j

(* An account or a merchant only ever appears together with the            *)
(* transaction it was created for: the request is one database transaction *)
(* whatever interrupts it.                                                 *)
NoOrphans ==
  \A table \in Tables : ToSet(rows[table]) \subseteq ToSet(rows["transaction"])

(* The audit log tells who created each transaction, once, and never       *)
(* mentions a transaction that is not there; every 201 is in it once.      *)
AuditTrail ==
  /\ \A i \in DOMAIN rows["transaction"] :
       LET t == rows["transaction"][i]["transaction"] IN
       Cardinality({a \in audits : a.transaction = t /\ a.action = "created"}) = 1
  /\ \A a \in audits : \E p \in ToSet(rows["transaction"]) : p["transaction"] = a.transaction
  /\ \A r \in Requests :
       status[r] = "201" => Cardinality({a \in audits : a.request = r}) = 1

(* No stored transaction is unknown to the worker: the request that        *)
(* created it has pushed its event (publish comes before COMMIT).          *)
CreatedIsPublished ==
  \A a \in audits : a.action = "created" => a.request \in ToSet(published)

(* A request with a storable request id only fails because of a fault or   *)
(* because a competing request committed a row it was about to insert;     *)
(* waiting for a request that ends up rolled back costs nothing.           *)
FailureNeedsCause ==
  \A r \in Requests :
    status[r] = "500" =>
      \/ faults > 0
      \/ r \in LongRequestIds
      \/ ~Encodable
      \/ \E table \in Tables : Exists(r, table)

(* Requests that wait for each other's rows, with every connection of the  *)
(* pool taken by requests that wait, always resolve: every request ends,   *)
(* because all of them take accounts, merchants and transactions in that   *)
(* order, need one connection, and let go of everything at the end.        *)
EveryRequestEnds == \A r \in Requests : <>(pc[r] = "done")

(* Seen by its clients, the service is a registry of transactions, and     *)
(* resubmitting is idempotent: all successful answers about a transaction  *)
(* are the one stored payload, even when the resubmission differs.         *)
Registry ==
  INSTANCE TransactionRegistry
    WITH registry <- ToSet(rows["transaction"]), answers <- response

RegistrySpec == Registry!Spec

-----------------------------------------------------------------------------
(* tests/test_ingestion_service_transactions.py expects 201 for a first,   *)
(* valid submission. The event's amount and timestamp do not survive       *)
(* json.dumps, so the request is rolled back.                              *)
ValidRequestSucceeds ==
  \A r \in Requests : pc[r] = "done" /\ faults = 0 => status[r] = "201"
=============================================================================
