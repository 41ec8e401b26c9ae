# TLA+ verification of the transaction risk platform

This directory holds TLA+ models of the platform in `src/`, the TLC
configurations that check them on small instances, and proofs, checked by
TLAPS, of the main safety properties for every instance.

## 1. Inventory of the system

| Component | State it keeps | Operations | What is hard | What makes it correct |
| --- | --- | --- | --- | --- |
| Ingestion API (`services/ingestion_service`) | `accounts`, `merchants`, `transactions`, `transaction_audit_logs` | `POST /api/v1/transactions` | concurrent submissions under unique indexes, publication before COMMIT, COMMIT in doubt | one row per external id, all or nothing, audit trail, idempotent answers, every stored transaction published |
| Event queue (`shared/pipeline.py`) | the Redis list `risk:transaction_ingested` | LPUSH, BRPOP, JSON encoding and decoding | destructive pop, lost replies, messages that do not decode | order, no loss without a fault |
| Risk worker (`services/worker`) | event in hand, attempts, backoff; `risk_assessments`; result counter | poll, handle one event, retry, back off, exit | redelivery, several workers, errors at any statement, crash between counter and COMMIT | at most one assessment per event, true counters, bounded loss, progress |
| Rule engine (`_score_event`) | none | score, level, decision, rule hits | boundaries of rules and thresholds, stored vs. submitted amount | decision explained by the hits, monotone |
| Analytics API (`services/analytics_service`) | none (reads) | summary, distributions, volume, top merchants, search | several statements per answer without a common snapshot, filters, pagination | consistent totals |
| Authentication (`shared/auth.py`) | none | decode token, roles | unknown roles, optional claims | only holders of a role get in |
| Relational schema (`alembic/`, `shared/models.py`) | the catalog, the version row | `upgrade head`, `downgrade -1` | runs that overlap or die between two statements, locks taken in different orders, order of drops | the recorded version tells the schema, no failure without a rival, no circular wait |
| Database sessions (`shared/db.py`) | pooled connections | open, begin, commit or roll back, close | all connections in use while their holders wait for each other's rows | every request ends |
| Service startup and observability (`*/main.py`, `shared/observability`) | middleware stack, mounted routes, tracer provider | import, first event, startup handler | order of the framework's and the handler's steps | every service comes up with its endpoints |
| Gateway, risk service | none | `/health` | only their startup | |
| Configuration, logging, deployment | | wiring | nothing concurrent | |

Interactions: the API pushes an event inside its database transaction; workers
pop it and read and write the same PostgreSQL database; analytics reads that
database. The API and the workers share nothing else. The revisions create the tables
that all of them use. `PROJECT.json` lists every component with its status, every
hazard at its line, and the source lines each definition stands for.

## 2. Modules

| Module | Contents |
| --- | --- |
| `RiskWorker` | workers, queue, assessments, counters, faults |
| `AssessmentLedger` | abstract specification implemented by `RiskWorker` |
| `RiskWorkerProofs`, `RiskWorkerFaultProofs` | TLAPS proofs about `RiskWorker`: the table and the ledger; what faults may cost, and order |
| `Ingestion` | the ingestion endpoint: concurrent requests, statement by statement |
| `TransactionRegistry` | abstract specification implemented by `Ingestion` |
| `IngestionProofs` | TLAPS proofs about `Ingestion` |
| `RiskPlatform` | `Ingestion` and `RiskWorker` over one list and one database |
| `RiskPlatformProofs` | TLAPS proofs about `RiskPlatform`, from instances of the two above |
| `RiskScoring`, `RiskScoringProofs` | the rule engine and its proofs |
| `Analytics` | the analytics endpoints: statements of concurrent requests over a growing database |
| `AnalyticsProofs` | TLAPS proofs about `Analytics` |
| `AccessControl` | `require_roles`, used by `Analytics` |
| `Migrations` | the two Alembic revisions, statement by statement, in overlapping runs |
| `MigrationsProofs` | TLAPS proofs about `Migrations` |
| `ServiceStartup` | how a process comes up, from import to the first request |
| `ListLemmas` | facts about lists and finite sets that the proofs share |
| `MC*` | constants for TLC |

### RiskWorker

A worker's `pc` is the next thing `run_risk_pipeline` and its two callees do:
`poll` (BRPOP), `idle` (the sleep after an empty poll), the statements of
`handle_transaction_ingested` (`find_assessment`, `find_transaction`, `flush`,
`commit`, and `release` for the empty COMMIT after an early return),
`retry_sleep`, `backoff`, and `down` when the process is gone. `event`,
`attempts` and `backoff` are the code's variables. An INSERT waits while another
worker holds an uncommitted row with the same `event_id` (`RowLocked`) and fails
on a committed one. The `success` counter rises in `Flush`, before `Commit`, as
in the code. `published` and `counted` are histories: everything ever pushed,
and every increment of the Prometheus counter, which in the code is lost with
the process (and which a worker does not serve: its process runs the loop, not
the HTTP application).

Faults are actions of their own: a Redis error while polling (`PollFails`), an
`OperationalError` (`DatabaseFails`), a refused connection, which the driver
raises as `OSError` (`ConnectionRefused`), and the death of the process
(`Crash`), which also stands for an exception nothing catches, such as a
connection lost in mid-statement (`DBAPIError`). A BRPOP or a COMMIT that fails may
have been applied. Its fate is decided at the moment of the failure: a COMMIT
that takes effect after the next attempt has begun is left out.

The producers are any sequence of pushes, of decodable or undecodable messages
and of any event any number of times, and transactions that commit at any moment;
`RiskPlatform` shows that the ingestion API is such an environment. An assessment
row is its `event_id` and `transaction_id`; the decision is a function of the
event alone and is the subject of `RiskScoring`.

### Ingestion

One action per statement of `create_transaction`, in the order in which they
reach the database: pending objects are flushed by the next SELECT (autoflush),
so the account is inserted before the merchant is looked up, and the audit row of
a duplicate before its account is read. The audit row of a new transaction is
only inserted by the COMMIT, after the event was pushed, and is refused when the
`X-Request-ID` is longer than its column (`LongRequestIds`). Rows inserted and not
committed are in `inserted`; other requests wait for them and do not see them. A
row is kept as the payload that created it. Currency, amount, timestamps and
surrogate ids are left out, as are payloads the database refuses for their values
(an amount beyond `DECIMAL(18,4)`), which fail before publication.

A request's session takes one of `PoolSize` connections with its first statement
(`FindTransaction`) and returns it when it is answered, so a request that waits
for another one's rows keeps a connection from a third (`Connected`). The pool's
timeout while waiting for one is among the failures of `Break`.

`JsonEncodable` is the set of Python types `json.dumps` accepts. With its real value
(`PlainJson`) a new transaction is never stored: `model_dump()` leaves a `Decimal`
and a `datetime` in the payload, the request is rolled back and answered 500
(run `ingestion_json`). **The other ingestion and platform runs therefore assume an
encoder for these two types (`EventJson`)**: they say what the rest of the code
does once that call succeeds. No property is stated in terms of that assumption.
For the passing runs and the proofs the assumption only adds behaviours to what is
checked; the violated run `platform_missing` depends on it, and its finding says so.

### RiskPlatform

Both modules instantiated over shared variables: an LPUSH of a request is a push
on the workers' list; the workers' `transactions` is the set of ids in the
committed rows. An event is named after the request that pushed it, since every
push carries a fresh event id. `Readers` instantiates `Analytics` without requests
over the same tables: the platform's writers are the growing database it assumes
(`ReadersAssumption`, evaluated by TLC, is what it assumes of its constants).

### Migrations

The catalog is a set of objects: tables, unique constraints, foreign keys, indexes
and the version row. A revision is the sequence of its statements, each adding and
removing objects; `Plan` is what a command executes from the version it found. A run
(`pc`) reads the committed version, creates `alembic_version` if it is missing, and
executes its plan, all in one transaction (PostgreSQL's DDL is transactional): until
it commits, what it `added` and `removed` is its own, and what it `held` is locked. A table is locked by a statement that creates, drops or
indexes it or makes or drops a foreign key to it; a name is locked by its creation
too, as a second `CREATE TABLE` waits on the catalog's unique index. Locks are
exclusive between runs: each of these statements takes a lock that conflicts with
itself, except an index's on a table, which its own transaction has created. `Schemas`
is what `shared/models.py` declares, in the terms of the revisions: `unique=True` with
`index=True` declares one unique index, which the revisions create as a unique
constraint and a plain index. It leaves out the index on `transactions.ingested_at`
(`models.py:57`), which no revision creates. Columns, their types and the
offline mode, which only prints SQL, are left out.

### ServiceStartup

Starlette builds its middleware stack at the first ASGI event, and refuses
`add_middleware` from then on. Under uvicorn that event is the lifespan that runs
the startup handler, whose `init_observability` adds middleware: the startup fails
and uvicorn exits. A `TestClient` used without `with`, as in the tests, runs no
startup handler. `Launcher` says how each service is started. **The other modules
describe the applications as their routes run without that handler.**

### RiskScoring

`_score_event` on events given by amount (in units of 10^-5, one digit finer than
the stored `DECIMAL(18,4)`), country, category and hour. `str.upper` is a constant
function given by the configuration.

### Analytics and AccessControl

A request is admitted (`Ask`: token, roles, the filter that is not supported) and
then runs the statements of its endpoint one by one (`todo`); each reads what is
committed when it runs, since the session is in PostgreSQL's default isolation
(READ COMMITTED). The tables are `db`, a set of transactions and a set of events
that have been assessed; the writers only add to them, as `TransactionRegistry` and
`AssessmentLedger` promise, and may assess a transaction once for each of its
events (`ReassessmentNeedsFailedSubmission` bounds how often). A row of an outer
join pairs a transaction with an assessment or `None`. `ORDER BY occurred_at` leaves
equals in any order, chosen anew by each execution. The endpoints' copies of the
filters are the same text in the code and one operator here (`TransactionMatches`,
`AssessmentMatches`); what `EndpointsAgree` compares are their joins and groups. `asked` and `answered` are
histories. Amounts, currencies, scores and the constant fields of a search item are
left out, as are parameters FastAPI refuses (422).

`top-risk-merchants` builds its query with `func.case(..., else_=0)`. `func.case` is
SQLAlchemy's generator of a plain SQL function named `case`, whose constructor has no
`else_` parameter: the endpoint raises `TypeError` before it reaches the database and
answers every admitted request with 500. No sentence of the repository speaks of
that endpoint's answer, so this is recorded here and in `Admission`, not as a run.

`AccessControl` takes `jwt.decode` by its outcome: refused, expired, decoded into
claims that are no `TokenPayload` (a `ValidationError`, which nothing turns into a
401), or valid.

## 3. What is checked

Passing runs:

| Run | Instance | Shows |
| --- | --- | --- |
| `worker_safety` | 2 workers, 2 events of one transaction, 3 deliveries, 4 faults | types, and the bounds of attempts and backoff; at most one assessment per event; `duplicate` only for assessed events; no assessment uncounted; over-counting of `success` bounded by faults; each fault loses at most one event |
| `worker_outage` | 1 worker, 2 events, 3 deliveries, faults for ever | assessments follow publication order through any number of losses and restarts; no handler runs for ever |
| `worker_progress` | 2 workers, 3 deliveries, 2 faults | `RiskWorker` implements `AssessmentLedger`; once faults stop the queue drains unless every worker is down; without a fault, an event queued with its transaction committed is assessed |
| `ingestion` | 4 conflicting requests over 3 connections, one with an overlong id, 2 faults | uniqueness, no orphans, audit trail, publication, causes of failure; `Ingestion` implements `TransactionRegistry`, and so answers retries idempotently; every request ends |
| `platform_safety` | a transaction submitted twice, 2 workers, 2 faults on each side | the API is the environment `RiskWorker` assumes, and both are the writers `Analytics` assumes; stored transactions are traceable; re-assessments need failed submissions; unless a worker fails, every pushed event is assessed or counted as given up |
| `analytics` | 2 requests in 14 combinations of endpoint, filters and caller, 3 transactions, 2 assessments of one of them | parts of a summary against its total; endpoints against each other; what a volume counts; each row of a search on its own page, full pages; answers that only grow; only readers answered |
| `migrations` | 3 overlapping runs of either command from each version, 1 of them may die | version tells schema; runs fail only when a rival changed the schema; while one waits, one that holds locks can go on |
| `scoring` | both sides of every boundary, 4140 events | decisions explained, monotone, amount hit readable from the stored row |

Runs that TLC shows violated, each against a sentence of the docs or the tests
(the findings of `PROJECT.json` quote them):

| Run | Statement | What happens |
| --- | --- | --- |
| `worker_results` | an unavailable database ends in `error` results (`OPERATIONS.md:60`) | a refused connection is taken for a Redis error; the event is dropped uncounted |
| `ingestion_json` | a first submission is answered 201 (`test_ingestion_service_transactions.py:41`) | `json.dumps` raises, the request is rolled back |
| `platform_missing` | `missing_transaction`: "a transaction that does not exist" (`OPERATIONS.md:53`) | once an event encodes (`EventJson`; in the committed code none does, see `ingestion_json`), the worker may look before the API commits; the stored transaction is never assessed |
| `service_startup` | "Services will expose `/health` and `/metrics`" (`OPERATIONS.md:15`) | the startup handler adds middleware too late; a service started by uvicorn exits |

Three more sentences hold less than they say, and the passing runs state what is left
of them. "A simple, reliable queue" (`pipeline.py:30`): BRPOP removes the message
before it is handled, and a fault then loses it; `OneFaultForgetsOneEvent` bounds the
loss. `success`: "New risk assessment created" (`OPERATIONS.md:51`): the counter rises
before a COMMIT that may fail; `SuccessOvercountNeedsFault` bounds the difference.
The initial schema "corresponds to the core ORM models" (the repository's
`README.md:89`): it lacks the index that `models.py:57` declares on
`transactions.ingested_at`; `VersionTellsSchema` says that it, and the second revision,
correspond to the models in every other table, key and index.

Bounds and why they are enough. Two workers and one shared event show every
conflict on a row, since locks and duplicates are pairwise; three deliveries let
an event be lost, delivered again and delivered once more while the first is in
flight; three faults exhaust the three attempts, and four take the backoff from 1 over
2, 4 and 8 to its cap of 10. The outage run, where faults never stop, loses any of the
deliveries. That run has one
worker, because only then is there an order to keep; that workers contending for a
row do not hold each other up is part of `worker_progress`. In `Ingestion` four requests cover a
conflict on each table, with a winner that commits and one that is rolled back
(the overlong id) without any fault; three connections are one too few, so that a
request waits for a connection while those that have one wait for rows. In
`platform_safety` two connections are enough for both requests: the pool at its limit
is the subject of `ingestion`. In `Migrations` every command starts from every version,
and with three runs one waits for a table, one has overtaken it and one dies. In `Analytics` two requests and rows that tie,
disagree in level and lack a merchant show each conflict between two answers, or
between an answer and a commit; 2 pages of 2 rows hold all 4 rows there can be.

Fairness. `WF` on each worker's own steps and on each request's own steps: the
event loop of a running process goes on, and the database answers a statement
that waits for nothing (`platform_safety`: `WF` on each request's `Serve` and each
worker's `Process`). Nothing is assumed of the producers, of faults, or of
`Restart`: neither `docker-compose.yml` nor `main.py` restarts a worker, so
`QueueDrains` only holds while one is running.

Each property of a passing run has a mutant (an operator next to the definition it
changes, named in `PROJECT.json`): a plausible bug, with which TLC finds that
property violated in that run.

## 4. What is proved

TLAPS checks these theorems for any sets of workers, requests, events and
transactions, runs of Alembic, and for any bounds. They rest on the assumptions the modules name, which
TLC evaluates in the runs: `WorkerAssumption`, `IngestionAssumption`, `ScoringAssumption`,
`AnalyticsAssumption`, `PlatformAssumption`, `ReadersAssumption` and `MigrationsAssumption` give the constants their types, keep the
markers (`None`, `NoEvent`, `Undecodable`) apart from the data, and, for `Analytics` and
the platform, make the sets of rows or requests finite, because the properties there
compare numbers of them.

| Module | Theorem | Statement |
| --- | --- | --- |
| `RiskWorkerProofs` | `TypeCorrect` | `[]WorkerTypeOK` |
| | `AssessedOnce` | `[]AtMostOneAssessment` |
| | `DuplicatesAssessed` | `[]DuplicateMeansAssessed` |
| | `AssessmentsCounted` | `[]AssessmentsAreCounted` |
| | `ImplementsLedger` | `LedgerSpec` |
| `RiskWorkerFaultProofs` | `SuccessesBounded` | `[]SuccessOvercountNeedsFault`, if faults are counted |
| | `LossesBounded` | `[]OneFaultForgetsOneEvent`, if faults are counted |
| | `OrderPreserved` | `[]AssessedInPublicationOrder`, for one worker |
| `IngestionProofs` | `TypeCorrect` | `[]TypeOK` |
| | `RowsUnique` | `[]UniqueRows` |
| | `RowsBelongTogether` | `[]NoOrphans` |
| | `CreationsPublished` | `[]CreatedIsPublished` |
| | `AuditIsTrue` | `[]AuditTrail` |
| | `FailuresHaveCauses` | `[]FailureNeedsCause` |
| | `ImplementsRegistry` | `RegistrySpec` |
| `RiskPlatformProofs` | `ImplementsIngestion` | the ingestion component's specification |
| | `ImplementsWorker` | `WorkerSpec` |
| | `ReassessmentsBounded` | `[]ReassessmentNeedsFailedSubmission` |
| | `StoredTraceable` | `[]StoredIsTraceable` |
| | `ImplementsReaders` | `ReadersSpec` |
| `AnalyticsProofs` | `TypeCorrect` | `[]TypeOK` |
| | `ReadersAnswered` | `[]OnlyReadersAreAnswered` |
| | `TotalsGrow` | `[]LaterAnswersGrow` |
| | `SummaryConsistent` | `[]SummaryAddsUp` |
| | `PagesFull` | `[]FullPages` |
| | `PagesInPlace` | `[]PageInPlace` |
| | `EndpointsConsistent` | `[]EndpointsAgree` |
| | `VolumesCountReassessments` | `[]VolumeCountsReassessments` |
| `RiskScoringProofs` | `TypeCorrect` | `[]TypeOK` |
| | `DecisionsExplained` | `[]DecisionExplained` |
| | `NeverLenient` | `[]MoreHitsNeverLenient` |
| | `AmountHitsReadable` | `[]AmountHitReadable` |
| `MigrationsProofs` | `TypeCorrect` | `[]TypeOK` |
| | `VersionTruthful` | `[]VersionTellsSchema` |
| | `FailuresNeedRivals` | `[]FailureNeedsRival` |
| | `NobodyWaitsInACircle` | `[]NoCircularWait` |

Two hypotheses are not types. `SuccessesBounded` and `LossesBounded` assume
`~FaultsForever`: with `FaultsForever` the history `faults`, by which both properties
are bounded, stays at its limit while faults go on. `OrderPreserved` assumes that any two
workers are the same one: with two, an event popped first may be assessed second.

**Workers.** Lemma `StepKinds` sorts the steps by what they do to the table:
`Quiet` (nothing, and nobody enters `commit`), `Flushing` (one worker enters
`commit`), `Recording` (the row in flight of one worker is appended, by a COMMIT or
by a failure that had been applied). `AtMostOneAssessment` is not inductive: a
worker at `commit` will append blindly. `InFlight` adds that no row in flight is of
an assessed event and that no two are of the same one; a flush keeps it because it
waits for conflicting rows and fails on committed ones. `AssessmentsAreCounted`
needs `InFlightCounted` for the same reason. The refinement needs that an event in
hand was published (`EventPublished`) and that a worker past its SELECT has seen
its transaction (`TransactionSeen`); both are stable, so they survive the time
between the SELECT and the COMMIT. `WorkerTypeOK` carries that a retry sleep is only
entered with an attempt left.

**What faults cost.** A count rises with a flush, and the flushed row is assessed, is
in flight, or is lost with a fault; the faults counted so far pay for the last case
(`SuccessesExplained`). An event is
`Traced` while it is queued, in hand, assessed or given up; the lemmas show, per kind of
step, that only a fault removes a trace, and only one. Order with one worker needs that
the queue is the unpopped rest of what was published (`QueueIsRest`) and an order
preserving match from assessments to positions of `published`, in which the event in
hand comes last (`Ordered`); repeated publications of one event are why it is a match
and not a comparison of first positions.

**Ingestion.** The inductive invariant `Inv` adds to types and `UniqueRows`: who may
have uncommitted rows at which statement (`HeldByStep`), that the row a duplicate is
answered from is stored (`FoundStored`), and that no two uncommitted rows, and no
uncommitted and committed row, have the same key (`HeldUnique`), which is what waiting
for a rival's insert buys. Publication precedes the COMMIT (`CommitterPublished`); the
audit log agrees with the table (`AuditInv`); every answer has its reason in the
tables or in `published` (`Fates`), from which the causes of a failure are counted.
The registry refinement maps each kind of step to an abstract submission, a repetition,
a failure or a stutter: a submission takes effect at its COMMIT.

**Platform.** `RiskPlatformProofs` instantiates both proof modules over the shared
variables (`IP`, `WP`). A step of the API is a push, a commit of a transaction, or
nothing to the workers, and a worker's step is nothing to the API, so everything proved
of each component holds here. The two end-to-end bounds combine the
invariants of both sides by injections between finite sets: from the assessments of a
transaction to its submissions; from untraceable transactions to forgotten events.

**Analytics.** A request has read the first so many statements of its endpoint, each
from a database that grew since it came in (`Progress`, `Histories`); `Snapshots` keeps,
for each number of an unfinished answer, the database it was counted in, in the order of
the statements. `SummaryAddsUp` and `LaterAnswersGrow` then compare counts in two
databases of which one contains the other. That the joined rows of a search grow is not
obvious (`JoinedGrow`): the row of a transaction without an assessment disappears when
it is assessed, and the row of its first assessment takes its place. Pages follow from
an order being a bijection from positions to rows (`OrderType`, `PageType`).
The last statement of an endpoint tells of one database (`LastRead`), the one of
`answered`, and that is what groups and days are compared in. Both properties about them
add up numbers with `SumFunction`, whose value is defined by recursion over sets.
`ListLemmas` proves what an induction needs of it: that the recursion has a solution
(`RunningSumExists`, `SumByParts`), and an induction over finite sets (`SubsetInduction`) in
which the statement is a set of subsets, from the well-foundedness of strict inclusion;
that form, unlike the library's, has no operator as a parameter. `GroupsAddUp` and
`RestsAddUp` then say that groups make up the rows. What is left is about joins: the
assessed rows of the outer join are those of the inner one (`AssessedJoined`), and a
transaction that is asked for has one row per assessment, or one without
(`RowsOfTransaction`, `JoinedWanted`).

**Migrations.** The revisions are constants of the model, so the first half of the
module computes with them once: an upgrade adds exactly the objects of its schema
(`Creates0001`, `Creates0002`), a downgrade drops exactly its tables with all that belongs
to them (`Drops0001`, `Drops0002`), a plan creates nothing in a table it drops
(`Coherent`) and ends by recording the version it leads to (`Concludes`). The recorded
version tells the schema only at commits; a rival may commit while a run is between two
statements, and what the run then commits must still be whole. `Inv` therefore says of
every run that it is `Consistent`: its locks cover the tables it has changed or referred
to (`Covered`); what it has added and removed is what its executed statements say, and
nothing is left of a table it has dropped (`Effects`); after the last statement its own
view records the target (`ExecutedRecorded`); and from its first statement on, the
version it read is the present one (`Current`), because that statement would not have
been possible in another version and has locked what tells the versions apart. There is one exception, which TLC found:
the downgrade of the first revision may have begun when a rival upgrades to the second
one, and goes on until it drops `transactions`, which the new table refers to. Lemma
`Executed` shows that a statement keeps this, `Finished` that what is committed is a whole
schema, and `Rival` that a commit of another run keeps it, as it changes only tables this
run has not locked. TLC checked the invariant on three runs first.

`FailureNeedsRival` says that every statement is possible when its turn comes, so its
invariant, `Undisturbed`, looks ahead: a run that no rival has overtaken has a `Path` from
the objects it sees through the rest of its plan (`Ready`). That each of the plans is such
a path (`PlansPossible`) is composed from what creating a table, indexing it, dropping
it and recording a version do to the objects there are; a table that another one still refers to, or
one created before the one it refers to, would break it. A commit of a rival makes the
others overtaken, and the lemma `CanStart` gives a run its path when it reads the version,
which `VersionTellsSchema` makes the version of the schema it will work on.
`NoCircularWait` needs an order of the locks (`Orderly`, checked by TLC on three runs
first): a run takes no table's lock before that of the table its plan begins with, a
downgrade holds no other until it drops that one, and then it has `transactions`. From
this `LockScope` and `NotHeldUp` conclude that whoever has `transactions` waits for
nobody, and that while nobody has it, no run that holds a lock does. A waiting run
waits for one that holds a lock, so there always is such a run that can go on.

Only model-checked. Liveness under fairness (`HandlerTerminates`, `QueueDrains`,
`QueuedIsAssessed`, `EveryRequestEnds`, `PublishedIsSettled`) is beyond this prover.
Every invariant of a passing run, and every refinement, is a theorem. What the violated
runs show are counterexamples, for which an instance is enough; `ServiceStartup`, whose
processes do not interact, has no other property.

## 5. Not modelled, and the plan

Not modelled: configuration and logging (settings read once from the environment and
cached by `lru_cache`, so that a rotated key or address needs a restart; no state that
changes), what the middlewares measure (they are never installed), deployment; in
`Migrations` columns, offline mode, and the requests of running services, whose locks a
downgrade would wait for; the writes to `risk_evaluations` and `alerts` (no code makes
any). `merchants.category` is declared, and the rule for risky categories reads the
event instead: ingestion never fills the column, so the analytics filter on it
matches nothing that came in through the API.
`test_risk_pipeline_assessment.py` also lets `get_engine` raise `OperationalError`;
the handler calls it before its retry loop, and the real one opens no connection,
so the model has no such step.

Order of the work, most important behaviour first:

1. done: `RiskWorker`, `AssessmentLedger`, their runs and proofs;
2. done: `RiskScoring` and proofs; `Ingestion`, `TransactionRegistry`; `RiskPlatform`;
3. done: `Analytics`, `AccessControl`;
4. done: liveness of the platform and its database as `Analytics` sees it; the
   connection pool; `Migrations`; `ServiceStartup`;
5. done: proofs about `Ingestion`, `RiskPlatform`, `Analytics` and what faults cost;
   `TypeOK` and `VersionTellsSchema` of `Migrations`;
6. done: proofs of `FailureNeedsRival` and `NoCircularWait` of `Migrations`, and of
   `EndpointsAgree` and `VolumeCountsReassessments` of `Analytics`, with the lemmas about
   sums they rest on.
