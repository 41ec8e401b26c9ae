-------------------------- MODULE RiskWorkerProofs --------------------------
(***************************************************************************)
(* Theorems about RiskWorker, for any number of workers, events,           *)
(* transactions, messages and faults. Every safety proof rests on          *)
(* WorkerTypeOK and on a classification of the steps (StepKinds) by what   *)
(* they do to the assessments table, so that each invariant is argued once *)
(* per kind of step and not once per action.                               *)
(***************************************************************************)
EXTENDS RiskWorker, ListLemmas, TLAPS

-----------------------------------------------------------------------------
(* Type correctness.                                                       *)

LEMMA TypeInit == Init => WorkerTypeOK
  BY WorkerAssumption
     DEF Init, WorkerTypeOK, Handling, InTransaction, Steps, MaxAttempts, MaxBackoff

LEMMA InDoubtType ==
  ASSUME WorkerTypeOK, NEW w \in Workers, InDoubt(w)
  PROVE  assessments' \in Seq(Rows)
  <1>1. CASE UNCHANGED assessments
    BY <1>1 DEF WorkerTypeOK
  <1>2. CASE pc[w] = "commit" /\ assessments' = Append(assessments, Row(event[w]))
    <2>1. event[w] \in Events
      BY <1>2 DEF WorkerTypeOK, Handling, InTransaction
    <2>2. Row(event[w]) \in Rows
      BY <2>1, WorkerAssumption DEF Row, Rows
    <2>3. QED
      BY <1>2, <2>2 DEF WorkerTypeOK
  <1>3. QED
    BY <1>1, <1>2 DEF InDoubt

LEMMA PopInDoubtType ==
  ASSUME WorkerTypeOK, NEW w \in Workers, PopInDoubt(w)
  PROVE  queue' \in Seq(Messages)
  BY FrontType DEF WorkerTypeOK, PopInDoubt

LEMMA FaultType ==
  ASSUME WorkerTypeOK, Fault
  PROVE  faults' \in 0..MaxFaults
  BY WorkerAssumption DEF WorkerTypeOK, Fault

LEMMA CountType ==
  ASSUME WorkerTypeOK, NEW w \in Workers, pc[w] \in Handling,
         NEW r \in Results, Count(event[w], r)
  PROVE  counted' \in [Events -> [Results -> Nat]]
  <1>1. event[w] \in Events
    BY DEF WorkerTypeOK
  <1>2. counted[event[w]] \in [Results -> Nat]
    BY <1>1 DEF WorkerTypeOK
  <1>3. [counted[event[w]] EXCEPT ![r] = @ + 1] \in [Results -> Nat]
    BY <1>2
  <1>4. counted' = [counted EXCEPT ![event[w]] = [counted[event[w]] EXCEPT ![r] = @ + 1]]
    BY DEF Count, WorkerTypeOK
  <1>5. QED
    BY <1>1, <1>3, <1>4 DEF WorkerTypeOK

(* What WorkerTypeOK says of the workers' own variables.                   *)
LocalType ==
  /\ pc \in [Workers -> Steps]
  /\ event \in [Workers -> Events \cup {NoEvent}]
  /\ attempts \in [Workers -> 0..MaxAttempts]
  /\ backoff \in [Workers -> 1..MaxBackoff]
  /\ \A w \in Workers : pc[w] \in Handling <=> event[w] # NoEvent
  /\ \A w \in Workers : pc[w] = "retry_sleep" => attempts[w] < MaxAttempts

LEMMA DropType ==
  ASSUME WorkerTypeOK, NEW w \in Workers, Return(w) \/ Stop(w)
  PROVE  LocalType'
  <1> USE DEF Handling, InTransaction, Steps, MaxAttempts, MaxBackoff
  <1>1. PICK step \in {"poll", "down"} : Drop(w, step)
    BY DEF Return, Stop
  <1>2. backoff' = [backoff EXCEPT ![w] = 1]
    BY DEF Return, Stop
  <1>3. backoff' \in [Workers -> 1..MaxBackoff]
    BY <1>2 DEF WorkerTypeOK
  <1>4. /\ pc' \in [Workers -> Steps]
        /\ event' \in [Workers -> Events \cup {NoEvent}]
        /\ attempts' \in [Workers -> 0..MaxAttempts]
    BY <1>1 DEF WorkerTypeOK, Drop
  <1>5. ASSUME NEW v \in Workers
        PROVE  /\ pc'[v] \in Handling <=> event'[v] # NoEvent
               /\ pc'[v] = "retry_sleep" => attempts'[v] < MaxAttempts
    <2>1. CASE v = w
      BY <1>1, <2>1 DEF WorkerTypeOK, Drop
    <2>2. CASE v # w
      BY <1>1, <2>2 DEF WorkerTypeOK, Drop
    <2>3. QED
      BY <2>1, <2>2
  <1>6. QED
    BY <1>3, <1>4, <1>5 DEF LocalType

(* A move within the handler: nothing but pc, and no retry without an      *)
(* attempt left.                                                           *)
LEMMA GotoType ==
  ASSUME WorkerTypeOK, NEW w \in Workers, pc[w] \in Handling,
         NEW step \in Handling, Goto(w, step),
         step = "retry_sleep" => attempts[w] < MaxAttempts
  PROVE  LocalType'
  <1>1. /\ pc' \in [Workers -> Steps]
        /\ UNCHANGED <<event, attempts, backoff>>
    BY DEF WorkerTypeOK, Goto, Steps
  <1>2. ASSUME NEW v \in Workers
        PROVE  /\ pc'[v] \in Handling <=> event'[v] # NoEvent
               /\ pc'[v] = "retry_sleep" => attempts'[v] < MaxAttempts
    <2>1. CASE v = w
      BY <2>1 DEF WorkerTypeOK, Goto
    <2>2. CASE v # w
      BY <2>2 DEF WorkerTypeOK, Goto
    <2>3. QED
      BY <2>1, <2>2
  <1>3. QED
    BY <1>1, <1>2 DEF WorkerTypeOK, LocalType

LEMMA TypeStep == WorkerTypeOK /\ [Next]_vars => WorkerTypeOK'
  <1> SUFFICES ASSUME WorkerTypeOK, [Next]_vars PROVE WorkerTypeOK'
    OBVIOUS
  <1> USE WorkerAssumption DEF Handling, InTransaction, Steps, MaxAttempts, MaxBackoff
  <1>1. ASSUME NEW m \in Messages, Publish(m) PROVE WorkerTypeOK'
    BY <1>1, PushType DEF WorkerTypeOK, Publish, local
  <1>2. ASSUME NEW x \in Transactions, CommitTransaction(x) PROVE WorkerTypeOK'
    BY <1>2 DEF WorkerTypeOK, CommitTransaction, local
  <1>3. ASSUME NEW w \in Workers, Pop(w) PROVE WorkerTypeOK'
    BY <1>3, FrontType DEF WorkerTypeOK, Pop
  <1>4. ASSUME NEW w \in Workers, PopUndecodable(w) PROVE WorkerTypeOK'
    BY <1>4, FrontType DEF WorkerTypeOK, PopUndecodable, local
  <1>5. ASSUME NEW w \in Workers, PollTimeout(w) PROVE WorkerTypeOK'
    BY <1>5 DEF WorkerTypeOK, PollTimeout, Goto, environment
  <1>6. ASSUME NEW w \in Workers, Wake(w) PROVE WorkerTypeOK'
    BY <1>6 DEF WorkerTypeOK, Wake, Goto, environment
  <1>7. ASSUME NEW w \in Workers, FindAssessment(w) PROVE WorkerTypeOK'
    <2>1. counted' \in [Events -> [Results -> Nat]]
      BY <1>7, CountType DEF WorkerTypeOK, FindAssessment, Results
    <2>2. QED
      BY <1>7, <2>1 DEF WorkerTypeOK, FindAssessment, Goto, environment
  <1>8. ASSUME NEW w \in Workers, FindTransaction(w) PROVE WorkerTypeOK'
    <2>1. counted' \in [Events -> [Results -> Nat]]
      BY <1>8, CountType DEF WorkerTypeOK, FindTransaction, Results
    <2>2. QED
      BY <1>8, <2>1 DEF WorkerTypeOK, FindTransaction, Goto, environment
  <1>9. ASSUME NEW w \in Workers, Flush(w) PROVE WorkerTypeOK'
    <2>1. counted' \in [Events -> [Results -> Nat]]
      BY <1>9, CountType DEF WorkerTypeOK, Flush, Results
    <2>2. QED
      <3>1. CASE UniqueViolation(w)
        BY <1>9, <2>1, <3>1, DropType DEF WorkerTypeOK, LocalType, Flush, environment
      <3>2. CASE ~UniqueViolation(w)
        BY <1>9, <2>1, <3>2 DEF WorkerTypeOK, Flush, Goto, environment
      <3>3. QED
        BY <3>1, <3>2
  <1>10. ASSUME NEW w \in Workers, Commit(w) PROVE WorkerTypeOK'
    <2>1. InDoubt(w)
      BY <1>10 DEF Commit, InDoubt
    <2>2. QED
      BY <1>10, <2>1, InDoubtType, DropType DEF WorkerTypeOK, LocalType, Commit, environment
  <1>11. ASSUME NEW w \in Workers, Release(w) PROVE WorkerTypeOK'
    BY <1>11, DropType DEF WorkerTypeOK, LocalType, Release, environment
  <1>12. ASSUME NEW w \in Workers, Retry(w) PROVE WorkerTypeOK'
    <2>1. attempts[w] + 1 \in 0..MaxAttempts
      <3>1. attempts[w] \in 0..MaxAttempts /\ attempts[w] < MaxAttempts
        BY <1>12 DEF WorkerTypeOK, Retry
      <3>2. QED
        BY <3>1
    <2>2. attempts' \in [Workers -> 0..MaxAttempts]
      BY <1>12, <2>1 DEF WorkerTypeOK, Retry
    <2>3. pc' \in [Workers -> Steps]
      BY <1>12 DEF WorkerTypeOK, Retry
    <2>4. ASSUME NEW v \in Workers
          PROVE  /\ pc'[v] \in Handling <=> event'[v] # NoEvent
                 /\ pc'[v] = "retry_sleep" => attempts'[v] < MaxAttempts
      BY <1>12 DEF WorkerTypeOK, Retry
    <2>5. QED
      BY <1>12, <2>2, <2>3, <2>4 DEF WorkerTypeOK, Retry, environment
  <1>13. ASSUME NEW w \in Workers, BackoffExpires(w) PROVE WorkerTypeOK'
    <2> DEFINE longer == IF 2 * backoff[w] < 10 THEN 2 * backoff[w] ELSE 10
    <2>1. longer \in 1..10
      <3>1. backoff[w] \in 1..10
        BY DEF WorkerTypeOK
      <3>2. QED
        BY <3>1
    <2>2. backoff' = [backoff EXCEPT ![w] = longer]
      BY <1>13 DEF BackoffExpires
    <2> HIDE DEF longer
    <2>3. backoff' \in [Workers -> 1..MaxBackoff]
      BY <2>1, <2>2 DEF WorkerTypeOK
    <2>4. QED
      BY <1>13, <2>3 DEF WorkerTypeOK, BackoffExpires, environment
  <1>14. ASSUME NEW w \in Workers, PollFails(w) PROVE WorkerTypeOK'
    BY <1>14, FaultType, PopInDoubtType DEF WorkerTypeOK, PollFails, Goto
  <1>15. ASSUME NEW w \in Workers, DatabaseFails(w) PROVE WorkerTypeOK'
    <2>1. faults' \in 0..MaxFaults /\ assessments' \in Seq(Rows)
      BY <1>15, FaultType, InDoubtType DEF DatabaseFails
    <2>2. CASE Exhausted(w)
      <3>1. counted' \in [Events -> [Results -> Nat]]
        BY <1>15, <2>2, CountType DEF WorkerTypeOK, DatabaseFails, Results
      <3>2. QED
        BY <1>15, <2>1, <2>2, <3>1, DropType DEF WorkerTypeOK, LocalType, DatabaseFails, environment
    <2>3. CASE ~Exhausted(w)
      <3>1. attempts[w] < MaxAttempts
        BY <2>3 DEF WorkerTypeOK, Exhausted
      <3>2. LocalType'
        BY <1>15, <2>3, <3>1, GotoType DEF DatabaseFails
      <3>3. QED
        BY <1>15, <2>1, <2>3, <3>2 DEF WorkerTypeOK, LocalType, DatabaseFails, environment
    <2>4. QED
      BY <2>2, <2>3
  <1>16. ASSUME NEW w \in Workers, ConnectionRefused(w) PROVE WorkerTypeOK'
    BY <1>16, FaultType DEF WorkerTypeOK, ConnectionRefused, Drop, environment
  <1>17. ASSUME NEW w \in Workers, Crash(w) PROVE WorkerTypeOK'
    BY <1>17, FaultType, InDoubtType, PopInDoubtType, DropType DEF WorkerTypeOK, LocalType, Crash
  <1>18. ASSUME NEW w \in Workers, Restart(w) PROVE WorkerTypeOK'
    BY <1>18 DEF WorkerTypeOK, Restart, Goto, environment
  <1>19. ASSUME UNCHANGED vars PROVE WorkerTypeOK'
    BY <1>19 DEF WorkerTypeOK, vars, local
  <1>20. QED
    BY <1>1, <1>2, <1>3, <1>4, <1>5, <1>6, <1>7, <1>8, <1>9, <1>10, <1>11, <1>12,
       <1>13, <1>14, <1>15, <1>16, <1>17, <1>18, <1>19 DEF Next, Work, Fails

(* Every reachable state is well typed: no worker attempts an event more   *)
(* than three times or backs off for more than ten seconds, and a worker   *)
(* has an event in hand exactly while it handles one.                      *)
THEOREM TypeCorrect == Spec => []WorkerTypeOK
  BY TypeInit, TypeStep, PTL DEF Spec
-----------------------------------------------------------------------------
(* What a step does to the assessments table: it leaves the table alone    *)
(* and nobody enters "commit", or a flush enters "commit", or the one row  *)
(* in flight of some worker is appended and the worker leaves "commit".    *)

Quiet ==
  /\ UNCHANGED assessments
  /\ \A w \in Workers :
       pc'[w] = "commit" => pc[w] = "commit" /\ event'[w] = event[w]

OthersUnchanged(w) ==
  \A v \in Workers \ {w} : pc'[v] = pc[v] /\ event'[v] = event[v]

Flushing(w) ==
  /\ ~RowLocked(w)
  /\ ~Assessed(event[w])
  /\ event[w] \in Events
  /\ counted' = [counted EXCEPT ![event[w]]["success"] = @ + 1]
  /\ event'[w] = event[w]
  /\ UNCHANGED assessments
  /\ OthersUnchanged(w)

Recording(w) ==
  /\ pc[w] = "commit"
  /\ event[w] \in Events
  /\ assessments' = Append(assessments, Row(event[w]))
  /\ pc'[w] # "commit"
  /\ OthersUnchanged(w)

LEMMA StepKinds ==
  ASSUME WorkerTypeOK, [Next]_vars
  PROVE  Quiet \/ \E w \in Workers : Flushing(w) \/ Recording(w)
  <1> USE DEF WorkerTypeOK, Handling, InTransaction
  <1>1. ASSUME NEW m \in Messages, Publish(m) PROVE Quiet
    BY <1>1 DEF Publish, local, Quiet
  <1>2. ASSUME NEW x \in Transactions, CommitTransaction(x) PROVE Quiet
    BY <1>2 DEF CommitTransaction, local, Quiet
  <1>3. ASSUME NEW w \in Workers,
               \/ Pop(w) \/ PopUndecodable(w) \/ PollTimeout(w) \/ Wake(w)
               \/ FindAssessment(w) \/ FindTransaction(w) \/ Retry(w)
        PROVE  Quiet
    BY <1>3 DEF Pop, PopUndecodable, PollTimeout, Wake, FindAssessment, FindTransaction,
                Retry, Goto, local, Quiet
  <1>4. ASSUME NEW w \in Workers,
               \/ Release(w) \/ BackoffExpires(w) \/ PollFails(w)
               \/ ConnectionRefused(w) \/ Restart(w)
        PROVE  Quiet
    BY <1>4 DEF Release, BackoffExpires, PollFails, ConnectionRefused, Restart,
                Goto, Return, Drop, Quiet
  <1>5. ASSUME NEW w \in Workers, Flush(w) PROVE Quiet \/ Flushing(w)
    <2>1. CASE UniqueViolation(w)
      BY <1>5, <2>1 DEF Flush, Return, Drop, Quiet
    <2>2. CASE ~UniqueViolation(w)
      BY <1>5, <2>2 DEF Flush, UniqueViolation, Goto, Count, Flushing, OthersUnchanged
    <2>3. QED
      BY <2>1, <2>2
  <1>6. ASSUME NEW w \in Workers, Commit(w) PROVE Recording(w)
    BY <1>6 DEF Commit, Return, Drop, Recording, OthersUnchanged
  <1>7. ASSUME NEW w \in Workers, DatabaseFails(w) PROVE Quiet \/ Recording(w)
    BY <1>7 DEF DatabaseFails, InDoubt, Goto, Stop, Drop, Quiet, Recording, OthersUnchanged
  <1>8. ASSUME NEW w \in Workers, Crash(w) PROVE Quiet \/ Recording(w)
    BY <1>8 DEF Crash, InDoubt, Stop, Drop, Quiet, Recording, OthersUnchanged
  <1>9. ASSUME UNCHANGED vars PROVE Quiet
    BY <1>9 DEF vars, local, Quiet
  <1>10. QED
    BY <1>1, <1>2, <1>3, <1>4, <1>5, <1>6, <1>7, <1>8, <1>9 DEF Next, Work, Fails

(* Appending a row adds its event to the assessed ones, and no other.      *)
LEMMA AssessedAppend ==
  ASSUME WorkerTypeOK, NEW e \in Events, assessments' = Append(assessments, Row(e))
  PROVE  \A f : Assessed(f)' <=> (Assessed(f) \/ f = e)
  <1>1. assessments \in Seq(Rows)
    BY DEF WorkerTypeOK
  <1>2. /\ Len(assessments') = Len(assessments) + 1
        /\ \A i \in 1..Len(assessments) : assessments'[i] = assessments[i]
        /\ assessments'[Len(assessments) + 1] = Row(e)
    BY <1>1
  <1>3. DOMAIN assessments' = 1..(Len(assessments) + 1) /\ DOMAIN assessments = 1..Len(assessments)
    BY <1>1, <1>2
  <1>4. Row(e).event_id = e
    BY DEF Row
  <1>5. Len(assessments) \in Nat
    BY <1>1
  <1>6. QED
    BY <1>2, <1>3, <1>4, <1>5 DEF Assessed

-----------------------------------------------------------------------------
(* At most one assessment per event. The invariant is not inductive alone: *)
(* it needs the rows in flight to be of different events, none of which is *)
(* assessed yet, which is what the unique index enforces by making         *)
(* conflicting inserts wait.                                               *)

InFlight ==
  /\ \A w \in Workers : pc[w] = "commit" => ~Assessed(event[w])
  /\ \A v, w \in Workers :
       pc[v] = "commit" /\ pc[w] = "commit" /\ event[v] = event[w] => v = w

AtMostOneInv == WorkerTypeOK /\ InFlight /\ AtMostOneAssessment

LEMMA AtMostOneInit == Init => AtMostOneInv
  BY TypeInit DEF Init, AtMostOneInv, InFlight, AtMostOneAssessment

LEMMA AtMostOneStep == AtMostOneInv /\ [Next]_vars => AtMostOneInv'
  <1> SUFFICES ASSUME AtMostOneInv, [Next]_vars PROVE InFlight' /\ AtMostOneAssessment'
    BY TypeStep DEF AtMostOneInv
  <1> USE DEF AtMostOneInv
  <1>1. CASE Quiet
    BY <1>1 DEF Quiet, InFlight, AtMostOneAssessment, Assessed
  <1>2. ASSUME NEW w \in Workers, Flushing(w)
        PROVE  InFlight' /\ AtMostOneAssessment'
    BY <1>2 DEF Flushing, OthersUnchanged, RowLocked, InFlight, AtMostOneAssessment, Assessed
  <1>3. ASSUME NEW w \in Workers, Recording(w)
        PROVE  InFlight' /\ AtMostOneAssessment'
    <2>1. \A f : Assessed(f)' <=> (Assessed(f) \/ f = event[w])
      BY <1>3, AssessedAppend DEF Recording
    <2>2. InFlight'
      BY <1>3, <2>1 DEF Recording, OthersUnchanged, InFlight
    <2>3. AtMostOneAssessment'
      <3>1. \A i \in DOMAIN assessments : assessments[i].event_id # event[w]
        BY <1>3 DEF Recording, InFlight, Assessed
      <3>2. /\ Len(assessments') = Len(assessments) + 1
            /\ \A i \in 1..Len(assessments) : assessments'[i] = assessments[i]
            /\ assessments'[Len(assessments) + 1].event_id = event[w]
            /\ DOMAIN assessments' = 1..(Len(assessments) + 1)
            /\ DOMAIN assessments = 1..Len(assessments)
            /\ Len(assessments) \in Nat
        BY <1>3 DEF Recording, WorkerTypeOK, Row
      <3>3. QED
        BY <3>1, <3>2 DEF AtMostOneAssessment
    <2>4. QED
      BY <2>2, <2>3
  <1>4. QED
    BY <1>1, <1>2, <1>3, StepKinds

(* At most one assessment per event, for any number of workers, deliveries *)
(* and faults.                                                             *)
THEOREM AssessedOnce == Spec => []AtMostOneAssessment
  <1>1. AtMostOneInv => AtMostOneAssessment
    BY DEF AtMostOneInv
  <1>2. QED
    BY <1>1, AtMostOneInit, AtMostOneStep, PTL DEF Spec

-----------------------------------------------------------------------------
(* The result counter against the table.                                   *)

LEMMA CountEffect ==
  ASSUME WorkerTypeOK, NEW w \in Workers, pc[w] \in Handling,
         NEW r \in Results, Count(event[w], r)
  PROVE  \A e \in Events, q \in Results :
           counted'[e][q] = IF e = event[w] /\ q = r THEN counted[e][q] + 1
                                                    ELSE counted[e][q]
  <1>1. event[w] \in Events
    BY DEF WorkerTypeOK
  <1>2. counted' = [counted EXCEPT ![event[w]] = [counted[event[w]] EXCEPT ![r] = @ + 1]]
    BY DEF Count, WorkerTypeOK
  <1>3. ASSUME NEW e \in Events, NEW q \in Results
        PROVE  counted'[e][q] = IF e = event[w] /\ q = r THEN counted[e][q] + 1
                                                        ELSE counted[e][q]
    BY <1>1, <1>2, <1>3 DEF WorkerTypeOK
  <1>4. QED
    BY <1>3

(* Assessments are never removed, and only an assessed event is counted as *)
(* a duplicate; no counter ever goes down.                                 *)
LEMMA AssessedStays ==
  ASSUME WorkerTypeOK, [Next]_vars, NEW e, Assessed(e)
  PROVE  Assessed(e)'
  <1>1. CASE UNCHANGED assessments
    BY <1>1 DEF Assessed
  <1>2. ASSUME NEW w \in Workers, Recording(w) PROVE Assessed(e)'
    BY <1>2, AssessedAppend DEF Recording
  <1>3. QED
    BY <1>1, <1>2, StepKinds DEF Quiet, Flushing

LEMMA CounterStep ==
  ASSUME WorkerTypeOK, [Next]_vars, NEW e \in Events
  PROVE  /\ counted'[e]["duplicate"] > 0 =>
              counted[e]["duplicate"] > 0 \/ Assessed(e)
         /\ \A q \in Results : counted'[e][q] >= counted[e][q]
  <1> DEFINE Goal ==
        /\ counted'[e]["duplicate"] > 0 => counted[e]["duplicate"] > 0 \/ Assessed(e)
        /\ \A q \in Results : counted'[e][q] >= counted[e][q]
  <1> SUFFICES Goal
    OBVIOUS
  <1>0. "duplicate" \in Results /\ \A q \in Results : counted[e][q] \in Nat
    BY DEF WorkerTypeOK, Results
  <1>1. CASE UNCHANGED counted
    BY <1>0, <1>1
  <1>2. ASSUME NEW w \in Workers, pc[w] \in Handling, NEW r \in Results,
               Count(event[w], r), r = "duplicate" => Assessed(event[w])
        PROVE  Goal
    <2>1. \A q \in Results :
            counted'[e][q] = IF e = event[w] /\ q = r THEN counted[e][q] + 1 ELSE counted[e][q]
      BY <1>2, CountEffect
    <2>2. QED
      BY <1>0, <1>2, <2>1
  <1> HIDE DEF Goal
  <1>3. ASSUME NEW w \in Workers, FindAssessment(w) PROVE Goal
    BY <1>1, <1>2, <1>3 DEF FindAssessment, Existing, Handling, InTransaction, Results
  <1>4. ASSUME NEW w \in Workers, FindTransaction(w) PROVE Goal
    BY <1>1, <1>2, <1>4 DEF FindTransaction, Handling, InTransaction, Results
  <1>5. ASSUME NEW w \in Workers, Flush(w) PROVE Goal
    BY <1>2, <1>5 DEF Flush, UniqueViolation, Handling, InTransaction, Results
  <1>6. ASSUME NEW w \in Workers, DatabaseFails(w) PROVE Goal
    BY <1>1, <1>2, <1>6 DEF DatabaseFails, Handling, Results
  <1>7. ASSUME NEW w \in Workers,
               \/ Pop(w) \/ PopUndecodable(w) \/ PollTimeout(w) \/ Wake(w) \/ Commit(w)
               \/ Release(w) \/ Retry(w) \/ BackoffExpires(w) \/ PollFails(w)
               \/ ConnectionRefused(w) \/ Crash(w) \/ Restart(w)
        PROVE  Goal
    BY <1>1, <1>7 DEF Pop, PopUndecodable, PollTimeout, Wake, Commit, Release, Retry,
         BackoffExpires, PollFails, ConnectionRefused, Crash, Restart
  <1>8. CASE \/ \E m \in Messages : Publish(m)
             \/ \E x \in Transactions : CommitTransaction(x)
             \/ UNCHANGED vars
    BY <1>1, <1>8 DEF Publish, CommitTransaction, vars
  <1>9. QED
    BY <1>3, <1>4, <1>5, <1>6, <1>7, <1>8 DEF Next, Work, Fails

(* "duplicate" is counted only for events that have their assessment, for  *)
(* any interleaving of workers and faults. Inductive with the types, since *)
(* assessments are never removed.                                          *)
THEOREM DuplicatesAssessed == Spec => []DuplicateMeansAssessed
  <1>1. Init => DuplicateMeansAssessed
    BY DEF Init, DuplicateMeansAssessed, Results
  <1>2. WorkerTypeOK /\ DuplicateMeansAssessed /\ [Next]_vars => DuplicateMeansAssessed'
    BY CounterStep, AssessedStays DEF DuplicateMeansAssessed
  <1>3. QED
    BY <1>1, <1>2, TypeCorrect, PTL DEF Spec

(* Every assessment has been counted as a success. Strengthened with the   *)
(* rows in flight, which were counted when they were flushed.              *)
InFlightCounted ==
  \A w \in Workers : pc[w] = "commit" => counted[event[w]]["success"] > 0

THEOREM AssessmentsCounted == Spec => []AssessmentsAreCounted
  <1> DEFINE Inv == InFlightCounted /\ AssessmentsAreCounted
  <1>1. Init => Inv
    BY DEF Init, InFlightCounted, AssessmentsAreCounted, Assessed
  <1>2. WorkerTypeOK /\ Inv /\ [Next]_vars => Inv'
    <2> SUFFICES ASSUME WorkerTypeOK, Inv, [Next]_vars PROVE Inv'
      OBVIOUS
    <2>1. ASSUME NEW e \in Events
          PROVE  counted[e]["success"] \in Nat /\ counted'[e]["success"] \in Nat
      <3>1. WorkerTypeOK'
        BY TypeStep
      <3>2. QED
        BY <3>1 DEF WorkerTypeOK, Results
    <2>2. ASSUME NEW e \in Events, counted[e]["success"] > 0
          PROVE  counted'[e]["success"] > 0
      BY <2>1, <2>2, CounterStep DEF Results
    <2>3. \A w \in Workers : pc[w] = "commit" => event[w] \in Events
      BY DEF WorkerTypeOK, Handling, InTransaction
    <2>4. CASE Quiet
      BY <2>2, <2>3, <2>4 DEF Quiet, InFlightCounted, AssessmentsAreCounted, Assessed
    <2>5. ASSUME NEW w \in Workers, Flushing(w) PROVE Inv'
      <3>1. counted'[event[w]]["success"] = counted[event[w]]["success"] + 1
        BY <2>5 DEF Flushing, WorkerTypeOK, Results
      <3>2. counted'[event[w]]["success"] > 0
        BY <2>1, <2>5, <3>1 DEF Flushing
      <3>3. InFlightCounted'
        BY <2>2, <2>3, <2>5, <3>2 DEF Flushing, OthersUnchanged, InFlightCounted
      <3>4. AssessmentsAreCounted'
        BY <2>2, <2>5 DEF Flushing, AssessmentsAreCounted, Assessed
      <3>5. QED
        BY <3>3, <3>4
    <2>6. ASSUME NEW w \in Workers, Recording(w) PROVE Inv'
      <3>1. \A f : Assessed(f)' <=> (Assessed(f) \/ f = event[w])
        BY <2>6, AssessedAppend DEF Recording
      <3>2. InFlightCounted'
        BY <2>2, <2>3, <2>6 DEF Recording, OthersUnchanged, InFlightCounted
      <3>3. AssessmentsAreCounted'
        BY <2>2, <2>6, <3>1 DEF Recording, InFlightCounted, AssessmentsAreCounted
      <3>4. QED
        BY <3>2, <3>3
    <2>7. QED
      BY <2>4, <2>5, <2>6, StepKinds
  <1>3. QED
    BY <1>1, <1>2, TypeCorrect, PTL DEF Spec

-----------------------------------------------------------------------------
(* The pipeline implements AssessmentLedger. A recording worker's event    *)
(* was published and its transaction committed: both are stable, so they   *)
(* still hold when the COMMIT comes through, retries and all.              *)

EventPublished ==
  /\ ToSet(queue) \subseteq ToSet(published)
  /\ \A w \in Workers : event[w] # NoEvent => event[w] \in ToSet(published)

TransactionSeen ==
  \A w \in Workers :
    pc[w] \in {"flush", "commit"} => TransactionOf[event[w]] \in transactions

LedgerInv == AtMostOneInv /\ EventPublished /\ TransactionSeen

LEMMA LedgerInvInit == Init => LedgerInv
  BY AtMostOneInit DEF Init, LedgerInv, EventPublished, TransactionSeen, ToSet

LEMMA EventPublishedStep ==
  ASSUME WorkerTypeOK, EventPublished, [Next]_vars
  PROVE  EventPublished'
  <1> USE DEF EventPublished, WorkerTypeOK
  <1>1. ASSUME NEW m \in Messages, Publish(m) PROVE EventPublished'
    BY <1>1, PushElements DEF Publish, local
  <1>2. ASSUME NEW x \in Transactions, CommitTransaction(x) PROVE EventPublished'
    BY <1>2 DEF CommitTransaction, local
  <1>3. ASSUME NEW w \in Workers, Pop(w) PROVE EventPublished'
    <2>1. ToSet(queue') \subseteq ToSet(queue) /\ Last(queue) \in ToSet(queue)
      BY <1>3, PopElements DEF Pop
    <2>2. QED
      BY <1>3, <2>1 DEF Pop
  <1>4. ASSUME NEW w \in Workers, PopUndecodable(w) PROVE EventPublished'
    BY <1>4, PopElements DEF PopUndecodable, local
  <1>5. ASSUME NEW w \in Workers, PopInDoubt(w) PROVE ToSet(queue') \subseteq ToSet(queue)
    BY <1>5, PopElements DEF PopInDoubt
  <1>6. ASSUME NEW w \in Workers,
               \/ PollTimeout(w) \/ Wake(w) \/ FindAssessment(w) \/ FindTransaction(w)
               \/ Flush(w) \/ Commit(w) \/ Release(w) \/ Retry(w) \/ BackoffExpires(w)
               \/ PollFails(w) \/ DatabaseFails(w) \/ ConnectionRefused(w) \/ Crash(w)
               \/ Restart(w)
        PROVE  EventPublished'
    <2>1. published' = published /\ ToSet(queue') \subseteq ToSet(queue)
      BY <1>5, <1>6 DEF PollTimeout, Wake, FindAssessment, FindTransaction, Flush, Commit,
         Release, Retry, BackoffExpires, PollFails, DatabaseFails, ConnectionRefused, Crash,
         Restart, environment
    <2>2. event' = event \/ event' = [event EXCEPT ![w] = NoEvent]
      BY <1>6 DEF PollTimeout, Wake, FindAssessment, FindTransaction, Flush, Commit,
         Release, Retry, BackoffExpires, PollFails, DatabaseFails, ConnectionRefused, Crash,
         Restart, Goto, Return, Stop, Drop
    <2>3. QED
      BY <2>1, <2>2
  <1>7. CASE UNCHANGED vars
    BY <1>7 DEF vars, local
  <1>8. QED
    BY <1>1, <1>2, <1>3, <1>4, <1>6, <1>7 DEF Next, Work, Fails

LEMMA TransactionSeenStep ==
  ASSUME WorkerTypeOK, TransactionSeen, [Next]_vars
  PROVE  TransactionSeen'
  <1> USE DEF TransactionSeen, WorkerTypeOK
  <1>1. ASSUME NEW m \in Messages, Publish(m) PROVE TransactionSeen'
    BY <1>1 DEF Publish, local
  <1>2. ASSUME NEW x \in Transactions, CommitTransaction(x) PROVE TransactionSeen'
    BY <1>2 DEF CommitTransaction, local
  <1>3. ASSUME NEW w \in Workers,
               \/ Pop(w) \/ PopUndecodable(w) \/ PollTimeout(w) \/ Wake(w)
               \/ FindAssessment(w) \/ Release(w) \/ Retry(w) \/ BackoffExpires(w)
        PROVE  TransactionSeen'
    BY <1>3 DEF Pop, PopUndecodable, PollTimeout, Wake, FindAssessment, Release, Retry,
       BackoffExpires, Goto, Return, Drop, environment, local
  <1>4. ASSUME NEW w \in Workers, FindTransaction(w) \/ Flush(w) \/ Commit(w)
        PROVE  TransactionSeen'
    BY <1>4 DEF FindTransaction, Flush, Commit, Goto, Return, Drop, environment
  <1>5. ASSUME NEW w \in Workers,
               \/ PollFails(w) \/ DatabaseFails(w) \/ ConnectionRefused(w) \/ Crash(w)
               \/ Restart(w)
        PROVE  TransactionSeen'
    BY <1>5 DEF PollFails, DatabaseFails, ConnectionRefused, Crash, Restart, Goto, Stop,
       Drop, environment
  <1>6. CASE UNCHANGED vars
    BY <1>6 DEF vars, local
  <1>7. QED
    BY <1>1, <1>2, <1>3, <1>4, <1>5, <1>6 DEF Next, Work, Fails

LEMMA LedgerInvStep == LedgerInv /\ [Next]_vars => LedgerInv'
  BY AtMostOneStep, EventPublishedStep, TransactionSeenStep
     DEF LedgerInv, AtMostOneInv

(* Only Publish changes `published`, only CommitTransaction `transactions`.*)
LEMMA ProducerSteps ==
  ASSUME WorkerTypeOK, [Next]_vars
  PROVE  \/ \E m \in Messages : Publish(m)
         \/ \E x \in Transactions : CommitTransaction(x)
         \/ UNCHANGED <<published, transactions>>
  <1>1. ASSUME NEW w \in Workers, Work(w) \/ Fails(w) \/ Restart(w)
        PROVE  UNCHANGED <<published, transactions>>
    BY <1>1 DEF Work, Fails, Pop, PopUndecodable, PollTimeout, Wake, FindAssessment,
       FindTransaction, Flush, Commit, Release, Retry, BackoffExpires, PollFails,
       DatabaseFails, ConnectionRefused, Crash, Restart, environment
  <1>2. QED
    BY <1>1 DEF Next, vars

(* Every row is the row of a published event and of a transaction that is  *)
(* there.                                                                  *)

RowsTrue ==
  \A i \in DOMAIN assessments :
    \E e \in Events :
      /\ assessments[i] = Row(e)
      /\ e \in ToSet(published)
      /\ TransactionOf[e] \in transactions

LEMMA ProducersGrow ==
  ASSUME WorkerTypeOK, [Next]_vars
  PROVE  ToSet(published) \subseteq ToSet(published') /\ transactions \subseteq transactions'
  <1>1. ASSUME NEW m \in Messages, Publish(m)
        PROVE  ToSet(published) \subseteq ToSet(published')
    BY <1>1, AppendElements DEF Publish, WorkerTypeOK
  <1>2. QED
    BY <1>1, ProducerSteps DEF Publish, CommitTransaction

LEMMA RowsTrueStep ==
  ASSUME LedgerInv, RowsTrue, [Next]_vars
  PROVE  RowsTrue'
  <1> USE DEF LedgerInv, AtMostOneInv
  <1>0. ToSet(published) \subseteq ToSet(published') /\ transactions \subseteq transactions'
    BY ProducersGrow
  <1>1. CASE UNCHANGED assessments
    BY <1>0, <1>1 DEF RowsTrue, Row
  <1>2. ASSUME NEW w \in Workers, Recording(w) PROVE RowsTrue'
    <2>1. /\ event[w] \in Events /\ event[w] \in ToSet(published')
          /\ TransactionOf[event[w]] \in transactions'
      BY <1>0, <1>2, WorkerAssumption DEF Recording, EventPublished, TransactionSeen
    <2>2. /\ DOMAIN assessments' = 1..(Len(assessments) + 1)
          /\ DOMAIN assessments = 1..Len(assessments)
          /\ Len(assessments) \in Nat
          /\ \A i \in 1..Len(assessments) : assessments'[i] = assessments[i]
          /\ assessments'[Len(assessments) + 1] = Row(event[w])
      BY <1>2 DEF Recording, WorkerTypeOK
    <2>3. QED
      BY <1>0, <2>1, <2>2 DEF RowsTrue, Row
  <1>3. QED
    BY <1>1, <1>2, StepKinds DEF Quiet, Flushing

LEMMA RowsAreTrue == Spec => [](LedgerInv /\ RowsTrue)
  <1>1. Init => RowsTrue
    BY DEF Init, RowsTrue
  <1>2. LedgerInv /\ RowsTrue /\ [Next]_vars => LedgerInv' /\ RowsTrue'
    BY LedgerInvStep, RowsTrueStep
  <1>3. QED
    BY <1>1, <1>2, LedgerInvInit, PTL DEF Spec

LEMMA LedgerStep ==
  LedgerInv /\ [Next]_vars
    => [Ledger!Next]_<<Events \cap ToSet(published), transactions, assessments>>
  <1> SUFFICES ASSUME LedgerInv, [Next]_vars
               PROVE  \/ Ledger!Next
                      \/ UNCHANGED <<Events \cap ToSet(published), transactions, assessments>>
    OBVIOUS
  <1> USE DEF LedgerInv, AtMostOneInv
  <1>1. ASSUME NEW m \in Messages, Publish(m)
        PROVE  \/ Ledger!Next
               \/ UNCHANGED <<Events \cap ToSet(published), transactions, assessments>>
    <2>1. ToSet(published') = ToSet(published) \cup {m}
      BY <1>1, PushElements DEF Publish, WorkerTypeOK
    <2>2. CASE m \in Events
      <3>1. Ledger!Offer(m)
        BY <1>1, <2>1, <2>2 DEF Publish, Ledger!Offer
      <3>2. QED
        BY <2>2, <3>1 DEF Ledger!Next
    <2>3. CASE m \notin Events
      BY <1>1, <2>1, <2>3 DEF Publish
    <2>4. QED
      BY <2>2, <2>3
  <1>2. ASSUME NEW x \in Transactions, CommitTransaction(x) PROVE Ledger!Next
    <2>1. Ledger!Learn(x)
      BY <1>2 DEF CommitTransaction, Ledger!Learn
    <2>2. QED
      BY <2>1 DEF Ledger!Next
  <1>3. CASE UNCHANGED <<published, transactions>>
    <2>1. CASE Quiet
      BY <1>3, <2>1 DEF Quiet
    <2>2. ASSUME NEW w \in Workers, Flushing(w)
          PROVE  UNCHANGED <<Events \cap ToSet(published), transactions, assessments>>
      BY <1>3, <2>2 DEF Flushing
    <2>3. ASSUME NEW w \in Workers, Recording(w) PROVE Ledger!Next
      <3>1. event[w] \in Events /\ event[w] \in ToSet(published)
        BY <2>3, WorkerAssumption DEF Recording, EventPublished
      <3>2. TransactionOf[event[w]] \in transactions /\ ~Assessed(event[w])
        BY <2>3 DEF Recording, TransactionSeen, InFlight
      <3>3. Ledger!Record(event[w])
        BY <1>3, <2>3, <3>1, <3>2
           DEF Recording, Row, Assessed, Ledger!Record, Ledger!Recorded
      <3>4. QED
        BY <3>1, <3>3 DEF Ledger!Next
    <2>4. QED
      BY <2>1, <2>2, <2>3, StepKinds
  <1>4. QED
    BY <1>1, <1>2, <1>3, ProducerSteps

(* The worker pipeline implements the ledger: nothing that happens to the  *)
(* workers, the queue or the database makes a row appear twice, change,    *)
(* disappear, or refer to what was never published or committed.           *)
THEOREM ImplementsLedger == Spec => LedgerSpec
  <1>1. Init => Ledger!Init
    BY DEF Init, Ledger!Init, ToSet
  <1>2. QED
    BY <1>1, LedgerInvInit, LedgerInvStep, LedgerStep, PTL
       DEF Spec, LedgerSpec, Ledger!Spec
=============================================================================
