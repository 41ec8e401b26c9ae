----------------------------- MODULE RiskWorker -----------------------------
(***************************************************************************)
(* The asynchronous risk pipeline: worker processes take transaction       *)
(* events off a Redis list (LPUSH at the left, BRPOP at the right), check  *)
(* them against PostgreSQL and insert one risk assessment per event.       *)
(* Each database statement is a step of its own, so that several workers,  *)
(* redelivered events, transactions that commit late, Redis and database   *)
(* errors and process crashes interleave with it.                          *)
(*                                                                         *)
(* Code: services/worker/risk_pipeline.py, shared/pipeline.py,             *)
(* services/worker/main.py, shared/models.py (RiskAssessment).             *)
(***************************************************************************)
EXTENDS Integers, FiniteSets, Sequences, SequencesExt

CONSTANTS
  Workers,        \* worker processes reading the one queue
  Events,         \* event ids, each the identity of one ingestion event
  Transactions,   \* external ids of transactions
  TransactionOf,  \* the transaction an event refers to
  Undecodable,    \* a queue entry that is not a valid event
  NoEvent,        \* the worker has no event in hand
  MaxPublish,     \* bound: messages ever pushed
  MaxFaults,      \* bound: faults counted one by one
  FaultsForever   \* faults go on after MaxFaults of them, uncounted

ASSUME WorkerAssumption ==
  /\ TransactionOf \in [Events -> Transactions]
  /\ Undecodable \notin Events
  /\ NoEvent \notin Events
  /\ MaxPublish \in Nat
  /\ MaxFaults \in Nat
  /\ FaultsForever \in BOOLEAN

MaxAttempts == 3
MaxBackoff == 10

Messages == Events \cup {Undecodable}

Results == {"success", "duplicate", "missing_transaction", "error"}

(* The steps of handle_transaction_ingested that are inside                *)
(* session.begin(): where a database error can reach the handler.          *)
InTransaction ==
  {"find_assessment", "find_transaction", "flush", "commit", "release"}

Handling == InTransaction \cup {"retry_sleep"}

Steps == Handling \cup {"poll", "idle", "backoff", "down"}

VARIABLES
  queue,         \* the Redis list, leftmost element first
  published,     \* history: every message ever pushed, oldest first
  transactions,  \* external ids of the committed transactions
  assessments,   \* committed rows of risk_assessments, oldest first
  counted,       \* history: increments of the result counter, per event
  pc,            \* where each worker is
  event,         \* the event each worker has in hand
  attempts,      \* `attempts` of the handler
  backoff,       \* `backoff` of run_risk_pipeline, in seconds
  faults         \* history: faults so far, up to MaxFaults

environment == <<queue, published, transactions>>
local == <<pc, event, attempts, backoff>>
vars == <<queue, published, transactions, assessments, counted, local, faults>>

-----------------------------------------------------------------------------
(* Rows, counters and locks.                                               *)

Row(e) == [event_id |-> e, transaction_id |-> TransactionOf[e]]

Rows == [event_id : Events, transaction_id : Transactions]

Assessed(e) == \E i \in DOMAIN assessments : assessments[i].event_id = e

(* A worker at "commit" has flushed its row and not committed it yet: the  *)
(* unique index makes any other insert of that event id wait for it.       *)
RowLocked(w) ==
  \E v \in Workers \ {w} : pc[v] = "commit" /\ event[v] = event[w]

Count(e, result) == counted' = [counted EXCEPT ![e][result] = @ + 1]

-----------------------------------------------------------------------------
(* Moves of one worker.                                                    *)

Goto(w, step) ==
  /\ pc' = [pc EXCEPT ![w] = step]
  /\ UNCHANGED <<event, attempts, backoff>>

(* The event leaves the worker's hands, for whatever reason.               *)
Drop(w, step) ==
  /\ pc' = [pc EXCEPT ![w] = step]
  /\ event' = [event EXCEPT ![w] = NoEvent]
  /\ attempts' = [attempts EXCEPT ![w] = 0]

(* The handler returned: run_risk_pipeline resets its backoff and asks the *)
(* iterator for the next event.                                            *)
Return(w) == Drop(w, "poll") /\ backoff' = [backoff EXCEPT ![w] = 1]

(* The process is gone, and its variables with it.                         *)
Stop(w) == Drop(w, "down") /\ backoff' = [backoff EXCEPT ![w] = 1]

-----------------------------------------------------------------------------
(* The producers, as the worker sees them.                                 *)

(* Mutant: RPUSH, at the end BRPOP reads.                                  *)
PublishRight(m) ==
  /\ Len(published) < MaxPublish
  /\ queue' = Append(queue, m)
  /\ published' = Append(published, m)
  /\ UNCHANGED <<transactions, assessments, counted, local, faults>>

Publish(m) ==
  /\ Len(published) < MaxPublish
  /\ queue' = <<m>> \o queue
  /\ published' = Append(published, m)
  /\ UNCHANGED <<transactions, assessments, counted, local, faults>>

CommitTransaction(x) ==
  /\ x \notin transactions
  /\ transactions' = transactions \cup {x}
  /\ UNCHANGED <<queue, published, assessments, counted, local, faults>>

-----------------------------------------------------------------------------
(* consume_transaction_ingested.                                           *)

Pop(w) ==
  /\ pc[w] = "poll"
  /\ queue # <<>>
  /\ Last(queue) \in Events
  /\ queue' = Front(queue)
  /\ pc' = [pc EXCEPT ![w] = "find_assessment"]
  /\ event' = [event EXCEPT ![w] = Last(queue)]
  /\ attempts' = [attempts EXCEPT ![w] = 1]
  /\ UNCHANGED <<published, transactions, assessments, counted, backoff, faults>>

(* Mutant: a message that does not decode stays on the list.               *)
PopUndecodableKept(w) ==
  /\ pc[w] = "poll"
  /\ queue # <<>>
  /\ Last(queue) = Undecodable
  /\ UNCHANGED vars

(* Any exception of the decoding is logged and the next message asked for. *)
PopUndecodable(w) ==
  /\ pc[w] = "poll"
  /\ queue # <<>>
  /\ Last(queue) = Undecodable
  /\ queue' = Front(queue)
  /\ UNCHANGED <<published, transactions, assessments, counted, local, faults>>

PollTimeout(w) ==
  /\ pc[w] = "poll"
  /\ queue = <<>>
  /\ Goto(w, "idle")
  /\ UNCHANGED <<environment, assessments, counted, faults>>

Wake(w) ==
  /\ pc[w] = "idle"
  /\ Goto(w, "poll")
  /\ UNCHANGED <<environment, assessments, counted, faults>>

-----------------------------------------------------------------------------
(* handle_transaction_ingested.                                            *)

(* Mutants: the SELECT sees uncommitted rows; it looks for the transaction *)
(* instead of the event.                                                   *)
ExistingDirty(w) == Assessed(event[w]) \/ RowLocked(w)
ExistingByTransaction(w) ==
  \E i \in DOMAIN assessments :
    assessments[i].transaction_id = TransactionOf[event[w]]

Existing(w) == Assessed(event[w])

FindAssessment(w) ==
  /\ pc[w] = "find_assessment"
  /\ IF Existing(w)
       THEN Count(event[w], "duplicate") /\ Goto(w, "release")
       ELSE UNCHANGED counted /\ Goto(w, "find_transaction")
  /\ UNCHANGED <<environment, assessments, faults>>

(* Mutants: a missing transaction is not counted; it is not noticed.       *)
FindTransactionUncounted(w) ==
  /\ pc[w] = "find_transaction"
  /\ Goto(w, IF TransactionOf[event[w]] \in transactions THEN "flush" ELSE "release")
  /\ UNCHANGED <<environment, assessments, counted, faults>>
FindTransactionUnchecked(w) ==
  /\ pc[w] = "find_transaction"
  /\ Goto(w, "flush")
  /\ UNCHANGED <<environment, assessments, counted, faults>>

FindTransaction(w) ==
  /\ pc[w] = "find_transaction"
  /\ IF TransactionOf[event[w]] \in transactions
       THEN UNCHANGED counted /\ Goto(w, "flush")
       ELSE Count(event[w], "missing_transaction") /\ Goto(w, "release")
  /\ UNCHANGED <<environment, assessments, faults>>

(* Mutant: the event_id column has no unique constraint.                   *)
NoUniqueConstraint(w) == FALSE

UniqueViolation(w) == Assessed(event[w])

(* Mutants: the success counter goes up before the INSERT; on the first    *)
(* attempt only.                                                           *)
FlushCountsFirst(w) ==
  /\ pc[w] = "flush"
  /\ ~RowLocked(w)
  /\ Count(event[w], "success")
  /\ IF UniqueViolation(w) THEN Return(w) ELSE Goto(w, "commit")
  /\ UNCHANGED <<environment, assessments, faults>>
FlushCountsOnce(w) ==
  /\ pc[w] = "flush"
  /\ ~RowLocked(w)
  /\ IF UniqueViolation(w)
       THEN Count(event[w], "duplicate") /\ Return(w)
       ELSE /\ IF attempts[w] = 1 THEN Count(event[w], "success") ELSE UNCHANGED counted
            /\ Goto(w, "commit")
  /\ UNCHANGED <<environment, assessments, faults>>

(* The INSERT. It waits for another worker's uncommitted row of the same   *)
(* event; a committed one is an IntegrityError, which the handler answers  *)
(* by returning, its transaction already rolled back. The success counter  *)
(* goes up here, before the COMMIT that leaving session.begin() issues.    *)
Flush(w) ==
  /\ pc[w] = "flush"
  /\ ~RowLocked(w)
  /\ IF UniqueViolation(w)
       THEN Count(event[w], "duplicate") /\ Return(w)
       ELSE Count(event[w], "success") /\ Goto(w, "commit")
  /\ UNCHANGED <<environment, assessments, faults>>

Commit(w) ==
  /\ pc[w] = "commit"
  /\ assessments' = Append(assessments, Row(event[w]))
  /\ Return(w)
  /\ UNCHANGED <<environment, counted, faults>>

(* Leaving session.begin() after an early return: an empty COMMIT.         *)
Release(w) ==
  /\ pc[w] = "release"
  /\ Return(w)
  /\ UNCHANGED <<environment, assessments, counted, faults>>

(* Mutant: the attempt is not counted.                                     *)
RetryUncounted(w) ==
  /\ pc[w] = "retry_sleep"
  /\ Goto(w, "find_assessment")
  /\ UNCHANGED <<environment, assessments, counted, faults>>

Retry(w) ==
  /\ pc[w] = "retry_sleep"
  /\ pc' = [pc EXCEPT ![w] = "find_assessment"]
  /\ attempts' = [attempts EXCEPT ![w] = @ + 1]
  /\ UNCHANGED <<environment, assessments, counted, event, backoff, faults>>

(* Mutant: the delay doubles without a cap.                                *)
BackoffUncapped(w) ==
  /\ pc[w] = "backoff"
  /\ pc' = [pc EXCEPT ![w] = "poll"]
  /\ backoff' = [backoff EXCEPT ![w] = 2 * @]
  /\ UNCHANGED <<environment, assessments, counted, event, attempts, faults>>

BackoffExpires(w) ==
  /\ pc[w] = "backoff"
  /\ pc' = [pc EXCEPT ![w] = "poll"]
  /\ backoff' = [backoff EXCEPT ![w] = IF 2 * @ < MaxBackoff THEN 2 * @ ELSE MaxBackoff]
  /\ UNCHANGED <<environment, assessments, counted, event, attempts, faults>>

-----------------------------------------------------------------------------
(* Faults: what Redis, the database and the host may do at any moment.     *)

Fault ==
  /\ FaultsForever \/ faults < MaxFaults
  /\ faults' = IF faults < MaxFaults THEN faults + 1 ELSE faults

(* A COMMIT that fails may have reached the database before it failed.     *)
InDoubt(w) ==
  \/ UNCHANGED assessments
  \/ pc[w] = "commit" /\ assessments' = Append(assessments, Row(event[w]))

(* A BRPOP that fails may have removed a message whose reply is lost.      *)
PopInDoubt(w) ==
  \/ UNCHANGED queue
  \/ pc[w] = "poll" /\ queue # <<>> /\ queue' = Front(queue)

(* A RedisError while polling.                                             *)
PollFails(w) ==
  /\ pc[w] = "poll"
  /\ Fault
  /\ PopInDoubt(w)
  /\ Goto(w, "backoff")
  /\ UNCHANGED <<published, transactions, assessments, counted>>

Exhausted(w) == attempts[w] >= MaxAttempts

(* An OperationalError: retried twice, then counted and raised, which ends *)
(* the process.                                                            *)
DatabaseFails(w) ==
  /\ pc[w] \in InTransaction
  /\ Fault
  /\ InDoubt(w)
  /\ IF Exhausted(w)
       THEN Count(event[w], "error") /\ Stop(w)
       ELSE UNCHANGED counted /\ Goto(w, "retry_sleep")
  /\ UNCHANGED environment

(* No connection to the database: the driver raises a plain OSError, which *)
(* the handler lets through and run_risk_pipeline takes for a Redis error. *)
ConnectionRefused(w) ==
  /\ pc[w] = "find_assessment"
  /\ Fault
  /\ Drop(w, "backoff")
  /\ UNCHANGED <<environment, assessments, counted, backoff>>

(* The process dies: killed, or by an exception that nothing catches.      *)
Crash(w) ==
  /\ pc[w] # "down"
  /\ Fault
  /\ InDoubt(w)
  /\ PopInDoubt(w)
  /\ Stop(w)
  /\ UNCHANGED <<published, transactions, counted>>

(* Nothing in the repository restarts a worker: an operator may.           *)
Restart(w) ==
  /\ pc[w] = "down"
  /\ Goto(w, "poll")
  /\ UNCHANGED <<environment, assessments, counted, faults>>

-----------------------------------------------------------------------------
Init ==
  /\ queue = <<>>
  /\ published = <<>>
  /\ transactions = {}
  /\ assessments = <<>>
  /\ counted = [e \in Events |-> [r \in Results |-> 0]]
  /\ pc = [w \in Workers |-> "poll"]
  /\ event = [w \in Workers |-> NoEvent]
  /\ attempts = [w \in Workers |-> 0]
  /\ backoff = [w \in Workers |-> 1]
  /\ faults = 0

(* What a worker's own code does next: at most one of these is enabled.    *)
Work(w) ==
  \/ Pop(w) \/ PopUndecodable(w) \/ PollTimeout(w) \/ Wake(w)
  \/ FindAssessment(w) \/ FindTransaction(w) \/ Flush(w)
  \/ Commit(w) \/ Release(w)
  \/ Retry(w) \/ BackoffExpires(w)

Fails(w) == PollFails(w) \/ DatabaseFails(w) \/ ConnectionRefused(w) \/ Crash(w)

Next ==
  \/ \E m \in Messages : Publish(m)
  \/ \E x \in Transactions : CommitTransaction(x)
  \/ \E w \in Workers : Work(w) \/ Fails(w) \/ Restart(w)

Spec == Init /\ [][Next]_vars

(* A running process keeps executing; nobody has to publish, to commit a   *)
(* transaction or to restart a worker.                                     *)
FairSpec == Spec /\ \A w \in Workers : WF_vars(Work(w))

-----------------------------------------------------------------------------
(* The types of the state: steps, result counters, rows, and the two       *)
(* bounds of the retry and backoff loops.                                  *)
WorkerTypeOK ==
  /\ queue \in Seq(Messages)
  /\ published \in Seq(Messages)
  /\ transactions \subseteq Transactions
  /\ assessments \in Seq(Rows)
  /\ counted \in [Events -> [Results -> Nat]]
  /\ pc \in [Workers -> Steps]
  /\ event \in [Workers -> Events \cup {NoEvent}]
  /\ attempts \in [Workers -> 0..MaxAttempts]
  /\ backoff \in [Workers -> 1..MaxBackoff]
  /\ faults \in 0..MaxFaults
  /\ \A w \in Workers : pc[w] \in Handling <=> event[w] # NoEvent
  /\ \A w \in Workers : pc[w] = "retry_sleep" => attempts[w] < MaxAttempts

(* An event is assessed at most once, however often it is delivered, by    *)
(* however many workers, and whatever COMMIT was in doubt when it was      *)
(* retried (unique event_id, the SELECT and the IntegrityError handler).   *)
AtMostOneAssessment ==
  \A i, j \in DOMAIN assessments :
    assessments[i].event_id = assessments[j].event_id => i = j

(* "duplicate" is only counted for an event that has its assessment: a     *)
(* worker never gives up an event because of a row that is rolled back     *)
(* afterwards.                                                             *)
DuplicateMeansAssessed ==
  \A e \in Events : counted[e]["duplicate"] > 0 => Assessed(e)

(* No assessment escapes the success counter, though the counter and the   *)
(* row live in different systems: the increment comes before the COMMIT.   *)
AssessmentsAreCounted ==
  \A e \in Events : Assessed(e) => counted[e]["success"] > 0

(* The success counter over-reports by one for each COMMIT that failed and *)
(* never otherwise: two workers racing on one event count it once.         *)
SuccessOvercountNeedsFault ==
  \A e \in Events :
    counted[e]["success"] <=
      (IF Assessed(e) THEN 1 ELSE 0)
      + Cardinality({w \in Workers : pc[w] = "commit" /\ event[w] = e})
      + faults

(* An event whose fate nobody can tell from the queue, the workers, the    *)
(* table or the counters of failure.                                       *)
Queued(e) == e \in ToSet(queue)
InHand(e) == \E w \in Workers : event[w] = e
GivenUp(e) == counted[e]["missing_transaction"] > 0 \/ counted[e]["error"] > 0

Forgotten ==
  {e \in Events : /\ e \in ToSet(published)
                  /\ ~Queued(e) /\ ~InHand(e) /\ ~Assessed(e) /\ ~GivenUp(e)}

(* BRPOP removes a message before it is handled, so a fault can lose it;   *)
(* but each fault loses at most one event, and none is lost without one.   *)
OneFaultForgetsOneEvent == Cardinality(Forgotten) <= faults

(* One worker assesses events in the order in which they were published,   *)
(* through retries, losses and restarts (LPUSH and BRPOP at opposite ends, *)
(* and one event in hand at a time).                                       *)
AssessedInPublicationOrder ==
  \E position \in [DOMAIN assessments -> DOMAIN published] :
    /\ \A i \in DOMAIN assessments :
         published[position[i]] = assessments[i].event_id
    /\ \A i, j \in DOMAIN assessments : i < j => position[i] < position[j]

(* The table is the abstract ledger: however the pipeline is interrupted,  *)
(* a row is only ever added, once per event, for a published event and a   *)
(* committed transaction.                                                  *)
Ledger ==
  INSTANCE AssessmentLedger
    WITH offered <- Events \cap ToSet(published),
         known <- transactions,
         ledger <- assessments

LedgerSpec == Ledger!Spec

(* A handler never holds its worker for ever, even if every statement it   *)
(* runs fails for ever: three attempts and it is over.                     *)
HandlerTerminates ==
  \A w \in Workers : pc[w] \in Handling ~> pc[w] \notin Handling

(* Once faults stop, the queue is drained again and again, past messages   *)
(* that do not decode and after any backoff, as long as one worker is      *)
(* left running.                                                           *)
QueueDrains ==
  []<>(queue = <<>> \/ \A w \in Workers : pc[w] = "down")

(* An event that is queued when its transaction is committed gets its      *)
(* assessment, unless something fails.                                     *)
QueuedIsAssessed ==
  \A e \in Events :
    (Queued(e) /\ TransactionOf[e] \in transactions)
      ~> (Assessed(e) \/ faults > 0)

-----------------------------------------------------------------------------
(* The runbook's table gives every handled event a result, and says of an  *)
(* unavailable database that the worker eventually counts `error`: a       *)
(* running worker would part with no event that has no result. A refused   *)
(* connection to the database, taken for a Redis error, does that.         *)
EventsLeaveWithResult ==
  [][\A w \in Workers :
       (event[w] # NoEvent /\ event'[w] = NoEvent /\ pc'[w] # "down")
         => \E r \in Results : counted'[event[w]][r] > 0]_vars

=============================================================================
