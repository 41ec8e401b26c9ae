----------------------- MODULE RiskWorkerFaultProofs -----------------------
(***************************************************************************)
(* What faults can cost the worker pipeline, for any number of workers,    *)
(* events and messages and for any bound on the faults that are counted:   *)
(* one success too many or one forgotten event each, and nothing else. And *)
(* what a single worker preserves through them: the order of publication.  *)
(* The results about faults assume that every fault is counted, that is    *)
(* ~FaultsForever.                                                         *)
(***************************************************************************)
EXTENDS RiskWorkerProofs

-----------------------------------------------------------------------------
(* Faults.                                                                 *)

LEMMA FaultCounted ==
  ASSUME ~FaultsForever, WorkerTypeOK, Fault
  PROVE  faults' = faults + 1
  BY DEF Fault, WorkerTypeOK

(* Only a fault changes the fault counter.                                 *)
LEMMA FaultSteps ==
  ASSUME WorkerTypeOK, [Next]_vars
  PROVE  \/ UNCHANGED faults
         \/ \E w \in Workers : Fails(w) /\ Fault
  <1>1. ASSUME NEW w \in Workers, Work(w) \/ Restart(w) PROVE UNCHANGED faults
    BY <1>1 DEF Work, Restart, Pop, PopUndecodable, PollTimeout, Wake, FindAssessment,
       FindTransaction, Flush, Commit, Release, Retry, BackoffExpires
  <1>2. ASSUME NEW w \in Workers, Fails(w) PROVE Fault
    BY <1>2 DEF Fails, PollFails, DatabaseFails, ConnectionRefused, Crash
  <1>3. QED
    BY <1>1, <1>2 DEF Next, Publish, CommitTransaction, vars

LEMMA FaultsGrow ==
  ASSUME ~FaultsForever, WorkerTypeOK, [Next]_vars
  PROVE  faults' = faults \/ faults' = faults + 1
  BY FaultSteps, FaultCounted

-----------------------------------------------------------------------------
(* The success counter. A success that has no assessment yet is a row in   *)
(* flight, of which there is one per event at most, or one that a fault    *)
(* took out of flight unrecorded.                                          *)

Pending(e) == \E w \in Workers : pc[w] = "commit" /\ event[w] = e

SuccessesExplained ==
  \A e \in Events :
    counted[e]["success"] <=
      (IF Assessed(e) THEN 1 ELSE 0) + (IF Pending(e) THEN 1 ELSE 0) + faults

(* What a step does to the successes that are not assessed yet.            *)

SuccessKept == \A e \in Events : counted'[e]["success"] = counted[e]["success"]

Still ==
  /\ SuccessKept
  /\ UNCHANGED assessments
  /\ \A w \in Workers :
       pc[w] = "commit" => pc'[w] = "commit" /\ event'[w] = event[w]

Losing(w) ==
  /\ SuccessKept
  /\ UNCHANGED assessments
  /\ Fault
  /\ OthersUnchanged(w)

Entering(w) == pc[w] = "flush" /\ pc'[w] = "commit"

LEMMA CountKeepsSuccess ==
  ASSUME WorkerTypeOK, NEW w \in Workers, pc[w] \in Handling,
         NEW r \in Results \ {"success"}, Count(event[w], r)
  PROVE  SuccessKept
  <1>1. \A e \in Events, q \in Results :
          counted'[e][q] = IF e = event[w] /\ q = r THEN counted[e][q] + 1
                                                   ELSE counted[e][q]
    BY CountEffect
  <1>2. QED
    BY <1>1 DEF SuccessKept, Results

LEMMA SuccessKinds ==
  ASSUME WorkerTypeOK, [Next]_vars
  PROVE  \/ Still
         \/ \E w \in Workers : \/ Flushing(w) /\ Entering(w)
                               \/ Recording(w) /\ SuccessKept
                               \/ Losing(w)
  <1> USE DEF WorkerTypeOK, Handling, InTransaction
  <1>1. CASE UNCHANGED counted
    <2>1. SuccessKept
      BY <1>1 DEF SuccessKept
    <2>2. ASSUME NEW w \in Workers, Commit(w) PROVE Recording(w)
      BY <2>2 DEF Commit, Return, Drop, Recording, OthersUnchanged
    <2>3. ASSUME NEW w \in Workers, Fails(w) PROVE Losing(w) \/ Recording(w)
      BY <2>1, <2>3 DEF Fails, PollFails, DatabaseFails, ConnectionRefused, Crash, InDoubt,
         Goto, Stop, Drop, Losing, Recording, OthersUnchanged
    <2>4. ASSUME NEW w \in Workers,
                 \/ Pop(w) \/ PopUndecodable(w) \/ PollTimeout(w) \/ Wake(w)
                 \/ FindAssessment(w) \/ FindTransaction(w) \/ Retry(w)
          PROVE  Still
      BY <2>1, <2>4 DEF Pop, PopUndecodable, PollTimeout, Wake, FindAssessment,
         FindTransaction, Retry, Goto, local, Still
    <2>5. ASSUME NEW w \in Workers, Release(w) \/ BackoffExpires(w) \/ Restart(w)
          PROVE  Still
      BY <2>1, <2>5 DEF Release, BackoffExpires, Restart, Goto, Return, Drop, Still
    <2>6. ASSUME NEW w \in Workers, Flush(w)
          PROVE  Flushing(w) /\ Entering(w)
      <3>1. event[w] \in Events
        BY <2>6 DEF Flush
      <3>2. ASSUME NEW r \in Results, Count(event[w], r) PROVE FALSE
        <4>1. counted'[event[w]][r] = counted[event[w]][r] + 1
          BY <2>6, <3>1, <3>2, CountEffect DEF Flush
        <4>2. counted[event[w]][r] \in Nat
          BY <3>1
        <4>3. QED
          BY <1>1, <4>1, <4>2
      <3>3. QED
        BY <2>6, <3>2 DEF Flush, Results
    <2>7. CASE \/ \E m \in Messages : Publish(m)
               \/ \E x \in Transactions : CommitTransaction(x)
               \/ UNCHANGED vars
      BY <2>1, <2>7 DEF Publish, CommitTransaction, vars, local, Still
    <2>8. QED
      BY <2>1, <2>2, <2>3, <2>4, <2>5, <2>6, <2>7 DEF Next, Work
  <1>2. ASSUME NEW w \in Workers, FindAssessment(w), ~UNCHANGED counted PROVE Still
    <2>1. SuccessKept
      BY <1>2, CountKeepsSuccess DEF FindAssessment, Results
    <2>2. QED
      BY <1>2, <2>1 DEF FindAssessment, Goto, Still
  <1>3. ASSUME NEW w \in Workers, FindTransaction(w), ~UNCHANGED counted PROVE Still
    <2>1. SuccessKept
      BY <1>3, CountKeepsSuccess DEF FindTransaction, Results
    <2>2. QED
      BY <1>3, <2>1 DEF FindTransaction, Goto, Still
  <1>4. ASSUME NEW w \in Workers, Flush(w)
        PROVE  Still \/ (Flushing(w) /\ Entering(w))
    <2>1. CASE UniqueViolation(w)
      <3>1. SuccessKept
        BY <1>4, <2>1, CountKeepsSuccess DEF Flush, Results
      <3>2. QED
        BY <1>4, <2>1, <3>1 DEF Flush, Return, Drop, Still
    <2>2. CASE ~UniqueViolation(w)
      BY <1>4, <2>2 DEF Flush, UniqueViolation, Goto, Count, Flushing, Entering,
         OthersUnchanged
    <2>3. QED
      BY <2>1, <2>2
  <1>5. ASSUME NEW w \in Workers, DatabaseFails(w), ~UNCHANGED counted
        PROVE  Losing(w) \/ (Recording(w) /\ SuccessKept)
    <2>1. SuccessKept
      BY <1>5, CountKeepsSuccess DEF DatabaseFails, Results
    <2>2. QED
      BY <1>5, <2>1 DEF DatabaseFails, InDoubt, Stop, Drop, Losing, Recording, OthersUnchanged
  <1>6. ASSUME NEW w \in Workers,
               \/ Pop(w) \/ PopUndecodable(w) \/ PollTimeout(w) \/ Wake(w) \/ Commit(w)
               \/ Release(w) \/ Retry(w) \/ BackoffExpires(w) \/ PollFails(w)
               \/ ConnectionRefused(w) \/ Crash(w) \/ Restart(w)
        PROVE  UNCHANGED counted
    BY <1>6 DEF Pop, PopUndecodable, PollTimeout, Wake, Commit, Release, Retry,
       BackoffExpires, PollFails, ConnectionRefused, Crash, Restart
  <1>7. CASE \/ \E m \in Messages : Publish(m)
             \/ \E x \in Transactions : CommitTransaction(x)
             \/ UNCHANGED vars
    BY <1>1, <1>7 DEF Publish, CommitTransaction, vars
  <1>8. QED
    BY <1>1, <1>2, <1>3, <1>4, <1>5, <1>6, <1>7 DEF Next, Work, Fails

LEMMA SuccessesInit == Init => SuccessesExplained
  BY WorkerAssumption DEF Init, SuccessesExplained, Results

LEMMA SuccessesStep ==
  ASSUME ~FaultsForever, AtMostOneInv, SuccessesExplained, [Next]_vars
  PROVE  SuccessesExplained'
  <1> USE DEF AtMostOneInv
  <1>0. WorkerTypeOK'
    BY TypeStep
  <1>1. SUFFICES ASSUME NEW e \in Events
                 PROVE  counted'[e]["success"] <=
                          (IF Assessed(e)' THEN 1 ELSE 0) + (IF Pending(e)' THEN 1 ELSE 0) + faults'
    BY DEF SuccessesExplained
  <1>2. counted[e]["success"] <=
          (IF Assessed(e) THEN 1 ELSE 0) + (IF Pending(e) THEN 1 ELSE 0) + faults
    BY DEF SuccessesExplained
  <1>3. /\ counted[e]["success"] \in Nat /\ counted'[e]["success"] \in Nat
        /\ faults \in Nat /\ faults' \in Nat
    BY <1>0 DEF WorkerTypeOK, Results
  <1>4. faults' = faults \/ faults' = faults + 1
    BY FaultsGrow
  <1>5. Assessed(e) => Assessed(e)'
    BY AssessedStays
  <1>6. CASE Still
    <2>1. counted'[e]["success"] = counted[e]["success"]
      BY <1>6 DEF Still, SuccessKept
    <2>2. Pending(e) => Pending(e)'
      BY <1>6 DEF Still, Pending
    <2>3. QED
      BY <1>2, <1>3, <1>4, <1>5, <2>1, <2>2
  <1>7. ASSUME NEW w \in Workers, Losing(w)
        PROVE  counted'[e]["success"] <=
                 (IF Assessed(e)' THEN 1 ELSE 0) + (IF Pending(e)' THEN 1 ELSE 0) + faults'
    <2>1. counted'[e]["success"] = counted[e]["success"] /\ faults' = faults + 1
      BY <1>7, FaultCounted DEF Losing, SuccessKept
    <2>2. QED
      BY <1>2, <1>3, <1>5, <2>1
  <1>8. ASSUME NEW w \in Workers, Recording(w), SuccessKept
        PROVE  counted'[e]["success"] <=
                 (IF Assessed(e)' THEN 1 ELSE 0) + (IF Pending(e)' THEN 1 ELSE 0) + faults'
    <2>1. counted'[e]["success"] = counted[e]["success"]
      BY <1>8 DEF SuccessKept
    <2>2. CASE event[w] = e
      <3>1. ~Assessed(e) /\ Assessed(e)'
        BY <1>8, <2>2, AssessedAppend DEF Recording, InFlight
      <3>2. QED
        BY <1>2, <1>3, <1>4, <2>1, <3>1
    <2>3. CASE event[w] # e
      <3>1. Pending(e) => Pending(e)'
        BY <1>8, <2>3 DEF Recording, OthersUnchanged, Pending
      <3>2. QED
        BY <1>2, <1>3, <1>4, <1>5, <2>1, <3>1
    <2>4. QED
      BY <2>2, <2>3
  <1>9. ASSUME NEW w \in Workers, Flushing(w), Entering(w)
        PROVE  counted'[e]["success"] <=
                 (IF Assessed(e)' THEN 1 ELSE 0) + (IF Pending(e)' THEN 1 ELSE 0) + faults'
    <2>1. CASE event[w] = e
      <3>1. counted'[e]["success"] = counted[e]["success"] + 1
        BY <1>9, <2>1 DEF Flushing, WorkerTypeOK, Results
      <3>2. ~Assessed(e)
        BY <1>9, <2>1 DEF Flushing
      <3>3. Pending(e)'
        BY <1>9, <2>1 DEF Flushing, Entering, Pending
      <3>4. CASE Pending(e)
        BY <1>9, <2>1, <3>4 DEF Flushing, Entering, RowLocked, Pending
      <3>5. CASE ~Pending(e)
        BY <1>2, <1>3, <1>4, <3>1, <3>2, <3>3, <3>5
      <3>6. QED
        BY <3>4, <3>5
    <2>2. CASE event[w] # e
      <3>1. counted'[e]["success"] = counted[e]["success"]
        BY <1>9, <2>2 DEF Flushing, WorkerTypeOK, Results
      <3>2. Pending(e) => Pending(e)'
        BY <1>9, <2>2 DEF Flushing, OthersUnchanged, Pending
      <3>3. QED
        BY <1>2, <1>3, <1>4, <1>5, <3>1, <3>2
    <2>3. QED
      BY <2>1, <2>2
  <1>10. QED
    BY <1>6, <1>7, <1>8, <1>9, SuccessKinds

(* The set of the property's bound has an element per row in flight.       *)
LEMMA PendingSize ==
  ASSUME InFlight, NEW e
  PROVE  Cardinality({w \in Workers : pc[w] = "commit" /\ event[w] = e})
           = IF Pending(e) THEN 1 ELSE 0
  <1> DEFINE Those == {w \in Workers : pc[w] = "commit" /\ event[w] = e}
  <1>1. CASE Pending(e)
    <2>1. PICK w \in Workers : pc[w] = "commit" /\ event[w] = e
      BY <1>1 DEF Pending
    <2>2. Those = {w}
      BY <2>1 DEF InFlight
    <2>3. QED
      BY <1>1, <2>2, FS_Singleton
  <1>2. CASE ~Pending(e)
    <2>1. Those = {}
      BY <1>2 DEF Pending
    <2>2. QED
      BY <1>2, <2>1, FS_EmptySet
  <1>3. QED
    BY <1>1, <1>2

(* The success counter of an event exceeds its assessments by no more than *)
(* the rows still in flight and the faults there have been: workers that   *)
(* race on one event never count it twice.                                 *)
THEOREM SuccessesBounded ==
  ASSUME ~FaultsForever
  PROVE  Spec => []SuccessOvercountNeedsFault
  <1>1. AtMostOneInv /\ SuccessesExplained => SuccessOvercountNeedsFault
    BY PendingSize DEF AtMostOneInv, SuccessesExplained, SuccessOvercountNeedsFault
  <1>2. AtMostOneInv /\ SuccessesExplained /\ [Next]_vars
          => AtMostOneInv' /\ SuccessesExplained'
    BY AtMostOneStep, SuccessesStep
  <1>3. QED
    BY <1>1, <1>2, AtMostOneInit, SuccessesInit, PTL DEF Spec

-----------------------------------------------------------------------------
(* Events without a trace. What a step takes from a worker, the queue or   *)
(* both leaves a trace elsewhere, except for one event per fault. The case *)
(* that is not visible in one step is an early return ("release"), whose   *)
(* event was found assessed, or counted, some steps before.                *)

Traced(e) == Queued(e) \/ InHand(e) \/ Assessed(e) \/ GivenUp(e)

ReleaseSettled ==
  \A w \in Workers : pc[w] = "release" => Assessed(event[w]) \/ GivenUp(event[w])

(* No step but the loss of one event x takes a trace away.                 *)
KeepsTraces == \A e \in Events : Traced(e) => Traced(e)'
KeepsTracesBut(x) == \A e \in Events \ {x} : Traced(e) => Traced(e)'

LEMMA GivenUpStays ==
  ASSUME WorkerTypeOK, [Next]_vars, NEW e \in Events, GivenUp(e)
  PROVE  GivenUp(e)'
  <1>1. \A q \in Results : counted'[e][q] >= counted[e][q]
    BY CounterStep
  <1>2. WorkerTypeOK'
    BY TypeStep
  <1>3. \A q \in Results : counted[e][q] \in Nat /\ counted'[e][q] \in Nat
    BY <1>2 DEF WorkerTypeOK
  <1>4. "missing_transaction" \in Results /\ "error" \in Results
    BY DEF Results
  <1>5. QED
    BY <1>1, <1>3, <1>4 DEF GivenUp

LEMMA ReleaseSettledStep ==
  ASSUME WorkerTypeOK, ReleaseSettled, [Next]_vars
  PROVE  ReleaseSettled'
  <1>1. SUFFICES ASSUME NEW w \in Workers, pc'[w] = "release"
                 PROVE  Assessed(event[w])' \/ GivenUp(event[w])'
    BY DEF ReleaseSettled
  <1>2. CASE pc[w] = "release" /\ event'[w] = event[w]
    <2>1. event[w] \in Events
      BY <1>2 DEF WorkerTypeOK, Handling, InTransaction
    <2>2. QED
      <3>1. Assessed(event[w]) \/ GivenUp(event[w])
        BY <1>2 DEF ReleaseSettled
      <3>2. \A e \in Events : Assessed(e) \/ GivenUp(e) => Assessed(e)' \/ GivenUp(e)'
        BY AssessedStays, GivenUpStays
      <3>3. QED
        BY <1>2, <2>1, <3>1, <3>2 DEF Assessed, GivenUp
  <1>3. CASE FindAssessment(w) /\ Existing(w)
    BY <1>3 DEF FindAssessment, Existing, Goto, Assessed
  <1>4. CASE FindTransaction(w) /\ Count(event[w], "missing_transaction")
    <2>1. event[w] \in Events
      BY <1>4 DEF FindTransaction, WorkerTypeOK, Handling, InTransaction
    <2>2. counted'[event[w]]["missing_transaction"]
            = counted[event[w]]["missing_transaction"] + 1
      BY <1>4, <2>1, CountEffect DEF FindTransaction, Handling, InTransaction, Results
    <2>3. counted[event[w]]["missing_transaction"] \in Nat
      BY <2>1 DEF WorkerTypeOK, Results
    <2>4. event' = event
      BY <1>4 DEF FindTransaction, Goto
    <2>5. QED
      BY <2>2, <2>3, <2>4 DEF GivenUp
  <1>5. ASSUME NEW v \in Workers, Work(v) \/ Fails(v) \/ Restart(v)
        PROVE  \/ pc[w] = "release" /\ event'[w] = event[w]
               \/ FindAssessment(w) /\ Existing(w)
               \/ FindTransaction(w) /\ Count(event[w], "missing_transaction")
    <2> USE <1>1 DEF WorkerTypeOK
    <2>1. CASE \/ Pop(v) \/ PopUndecodable(v) \/ PollTimeout(v) \/ Wake(v)
               \/ Flush(v) \/ Commit(v) \/ Release(v) \/ Retry(v) \/ BackoffExpires(v)
      BY <2>1 DEF Pop, PopUndecodable, PollTimeout, Wake, Flush, Commit, Release, Retry,
         BackoffExpires, Goto, Return, Drop, local
    <2>2. CASE Fails(v) \/ Restart(v)
      BY <2>2 DEF Fails, Restart, PollFails, DatabaseFails, ConnectionRefused, Crash, Goto,
         Stop, Drop
    <2>3. CASE FindAssessment(v)
      BY <2>3 DEF FindAssessment, Goto
    <2>4. CASE FindTransaction(v)
      BY <2>4 DEF FindTransaction, Goto
    <2>5. QED
      BY <1>5, <2>1, <2>2, <2>3, <2>4 DEF Work
  <1>6. CASE \/ \E m \in Messages : Publish(m)
             \/ \E x \in Transactions : CommitTransaction(x)
             \/ UNCHANGED vars
    BY <1>1, <1>2, <1>6 DEF Publish, CommitTransaction, vars, local
  <1>7. QED
    BY <1>2, <1>3, <1>4, <1>5, <1>6 DEF Next

(* Three ways to keep traces, of an event e that is not x: nothing moves,  *)
(* the queue loses its last message x, or a worker the event x in its hand.*)
LEMMA TraceMoves ==
  ASSUME WorkerTypeOK, [Next]_vars, NEW e \in Events, Traced(e)
  PROVE  /\ Queued(e) \/ InHand(e) \/ Traced(e)'
         /\ UNCHANGED queue => (Queued(e) => Traced(e)')
         /\ queue # <<>> /\ queue' = Front(queue) /\ e # Last(queue) => (Queued(e) => Traced(e)')
         /\ UNCHANGED event => (InHand(e) => Traced(e)')
         /\ \A w \in Workers :
              OthersUnchanged(w) /\ e # event[w] => (InHand(e) => Traced(e)')
  <1>1. Assessed(e) \/ GivenUp(e) => Traced(e)'
    BY AssessedStays, GivenUpStays DEF Traced
  <1>2. Queued(e)' \/ InHand(e)' => Traced(e)'
    BY DEF Traced
  <1>3. queue # <<>> /\ queue' = Front(queue) /\ e # Last(queue) => (Queued(e) => Queued(e)')
    BY PopSplits DEF WorkerTypeOK, Queued
  <1>4. \A w \in Workers :
          OthersUnchanged(w) /\ e # event[w] => (InHand(e) => InHand(e)')
    BY DEF OthersUnchanged, InHand
  <1>5. /\ UNCHANGED queue => (Queued(e) => Queued(e)')
        /\ UNCHANGED event => (InHand(e) => InHand(e)')
    BY DEF Queued, InHand
  <1>6. QED
    BY <1>1, <1>2, <1>3, <1>4, <1>5 DEF Traced

LEMMA TracesStep ==
  ASSUME ~FaultsForever, WorkerTypeOK, ReleaseSettled, [Next]_vars
  PROVE  \/ KeepsTraces
         \/ faults' = faults + 1 /\ \E x : KeepsTracesBut(x)
  <1>1. SUFFICES ASSUME ~KeepsTraces
                 PROVE  faults' = faults + 1 /\ \E x : KeepsTracesBut(x)
    OBVIOUS
  <1> USE DEF Handling, InTransaction
  <1>2. ~UNCHANGED <<queue, event>>
    BY <1>1, TraceMoves DEF KeepsTraces
  <1>3. ASSUME NEW m \in Messages, Publish(m) PROVE FALSE
    <2>1. ToSet(queue') = ToSet(queue) \cup {m}
      BY <1>3, PushElements DEF Publish, WorkerTypeOK
    <2>2. \A e \in Events : Queued(e) => Traced(e)'
      BY <2>1 DEF Queued, Traced
    <2>3. UNCHANGED event
      BY <1>3 DEF Publish, local
    <2>4. QED
      BY <1>1, <2>2, <2>3, TraceMoves DEF KeepsTraces
  <1>4. ASSUME NEW w \in Workers, Pop(w) PROVE FALSE
    <2>1. \A e \in Events : e = Last(queue) => Traced(e)'
      BY <1>4 DEF Pop, WorkerTypeOK, InHand, Traced
    <2>2. \A e \in Events : e # event[w]
      BY <1>4, WorkerAssumption DEF Pop, WorkerTypeOK
    <2>3. queue # <<>> /\ queue' = Front(queue) /\ OthersUnchanged(w)
      BY <1>4 DEF Pop, WorkerTypeOK, OthersUnchanged
    <2>4. QED
      BY <1>1, <2>1, <2>2, <2>3, TraceMoves DEF KeepsTraces
  <1>5. ASSUME NEW w \in Workers, PopUndecodable(w) PROVE FALSE
    <2>1. \A e \in Events : e # Last(queue)
      BY <1>5, WorkerAssumption DEF PopUndecodable
    <2>2. queue # <<>> /\ queue' = Front(queue) /\ UNCHANGED event
      BY <1>5 DEF PopUndecodable, local
    <2>3. QED
      BY <1>1, <2>1, <2>2, TraceMoves DEF KeepsTraces
  <1>6. ASSUME NEW w \in Workers,
               \/ PollTimeout(w) \/ Wake(w) \/ FindAssessment(w) \/ FindTransaction(w)
               \/ Retry(w) \/ BackoffExpires(w) \/ Restart(w)
        PROVE  FALSE
    BY <1>2, <1>6 DEF PollTimeout, Wake, FindAssessment, FindTransaction, Retry,
       BackoffExpires, Restart, Goto, environment
  <1>7. ASSUME NEW w \in Workers, UNCHANGED queue, OthersUnchanged(w),
               \A e \in Events : e = event[w] => Assessed(e)' \/ GivenUp(e)'
        PROVE  FALSE
    <2>1. \A e \in Events : e = event[w] => Traced(e)'
      BY <1>7 DEF Traced
    <2>2. QED
      BY <1>1, <1>7, <2>1, TraceMoves DEF KeepsTraces
  <1>8. ASSUME NEW w \in Workers, Flush(w) PROVE FALSE
    <2>1. UniqueViolation(w) /\ Return(w) /\ UNCHANGED <<queue, assessments>>
      BY <1>2, <1>8 DEF Flush, Goto, environment
    <2>2. OthersUnchanged(w)
      BY <2>1 DEF Return, Drop, WorkerTypeOK, OthersUnchanged
    <2>3. \A e \in Events : e = event[w] => Assessed(e)'
      BY <2>1 DEF UniqueViolation, Assessed
    <2>4. QED
      BY <1>7, <2>1, <2>2, <2>3
  <1>9. ASSUME NEW w \in Workers, Recording(w), UNCHANGED queue PROVE FALSE
    <2>1. \A e \in Events : e = event[w] => Assessed(e)'
      BY <1>9, AssessedAppend DEF Recording
    <2>2. QED
      BY <1>7, <1>9, <2>1 DEF Recording
  <1>10. ASSUME NEW w \in Workers, Commit(w) PROVE FALSE
    BY <1>9, <1>10 DEF Commit, Return, Drop, WorkerTypeOK, Recording, OthersUnchanged, environment
  <1>11. ASSUME NEW w \in Workers, Release(w) PROVE FALSE
    <2>1. UNCHANGED <<queue, assessments, counted>> /\ OthersUnchanged(w)
      BY <1>11 DEF Release, Return, Drop, WorkerTypeOK, OthersUnchanged, environment
    <2>2. \A e \in Events : e = event[w] => Assessed(e) \/ GivenUp(e)
      BY <1>11 DEF Release, ReleaseSettled
    <2>3. QED
      BY <1>7, <2>1, <2>2 DEF Assessed, GivenUp
  <1>12. ASSUME NEW w \in Workers, DatabaseFails(w) PROVE FALSE
    <2>1. Exhausted(w) /\ Count(event[w], "error") /\ Stop(w) /\ UNCHANGED queue
      BY <1>2, <1>12 DEF DatabaseFails, Goto, environment
    <2>2. OthersUnchanged(w) /\ pc[w] \in Handling /\ event[w] \in Events
      BY <1>12, <2>1 DEF DatabaseFails, Stop, Drop, WorkerTypeOK, OthersUnchanged
    <2>3. counted'[event[w]]["error"] = counted[event[w]]["error"] + 1
      BY <2>1, <2>2, CountEffect DEF Results
    <2>4. counted[event[w]]["error"] \in Nat
      BY <2>2 DEF WorkerTypeOK, Results
    <2>5. \A e \in Events : e = event[w] => GivenUp(e)'
      BY <2>3, <2>4 DEF GivenUp
    <2>6. QED
      BY <1>7, <2>1, <2>2, <2>5
  <1>13. ASSUME NEW w \in Workers, PollFails(w)
         PROVE  faults' = faults + 1 /\ \E x : KeepsTracesBut(x)
    <2>1. UNCHANGED event /\ faults' = faults + 1
      BY <1>13, FaultCounted DEF PollFails, Goto
    <2>2. queue # <<>> /\ queue' = Front(queue)
      BY <1>2, <1>13, <2>1 DEF PollFails, PopInDoubt
    <2>3. KeepsTracesBut(Last(queue))
      BY <2>1, <2>2, TraceMoves DEF KeepsTracesBut
    <2>4. QED
      BY <2>1, <2>3
  <1>14. ASSUME NEW w \in Workers, ConnectionRefused(w)
         PROVE  faults' = faults + 1 /\ \E x : KeepsTracesBut(x)
    <2>1. UNCHANGED queue /\ OthersUnchanged(w) /\ faults' = faults + 1
      BY <1>14, FaultCounted DEF ConnectionRefused, Drop, WorkerTypeOK, OthersUnchanged, environment
    <2>2. KeepsTracesBut(event[w])
      BY <2>1, TraceMoves DEF KeepsTracesBut
    <2>3. QED
      BY <2>1, <2>2
  <1>15. ASSUME NEW w \in Workers, Crash(w)
         PROVE  faults' = faults + 1 /\ \E x : KeepsTracesBut(x)
    <2>1. OthersUnchanged(w) /\ faults' = faults + 1
      BY <1>15, FaultCounted DEF Crash, Stop, Drop, WorkerTypeOK, OthersUnchanged
    <2>2. CASE UNCHANGED queue
      <3>1. KeepsTracesBut(event[w])
        BY <2>1, <2>2, TraceMoves DEF KeepsTracesBut
      <3>2. QED
        BY <2>1, <3>1
    <2>3. CASE ~UNCHANGED queue
      <3>1. pc[w] = "poll" /\ queue # <<>> /\ queue' = Front(queue)
        BY <1>15, <2>3 DEF Crash, PopInDoubt
      <3>2. \A e \in Events : e # event[w]
        BY <3>1, WorkerAssumption DEF WorkerTypeOK
      <3>3. KeepsTracesBut(Last(queue))
        BY <2>1, <3>1, <3>2, TraceMoves DEF KeepsTracesBut
      <3>4. QED
        BY <2>1, <3>3
    <2>4. QED
      BY <2>2, <2>3
  <1>16. CASE (\E x \in Transactions : CommitTransaction(x)) \/ UNCHANGED vars
    BY <1>2, <1>16 DEF CommitTransaction, vars, local
  <1>17. QED
    BY <1>3, <1>4, <1>5, <1>6, <1>8, <1>10, <1>11, <1>12, <1>13, <1>14, <1>15, <1>16
       DEF Next, Work, Fails

-----------------------------------------------------------------------------
(* Counting the forgotten events.                                          *)

LEMMA ForgottenUntraced == Forgotten = {e \in Events : e \in ToSet(published) /\ ~Traced(e)}
  BY DEF Forgotten, Traced

LEMMA ForgottenFinite ==
  ASSUME WorkerTypeOK
  PROVE  IsFiniteSet(Forgotten)
  <1>1. Forgotten \subseteq ToSet(published)
    BY DEF Forgotten
  <1>2. IsFiniteSet(ToSet(published))
    BY ElementsFinite DEF WorkerTypeOK
  <1>3. QED
    BY <1>1, <1>2, FS_Subset

(* What is published in a step is queued.                                  *)
LEMMA NewlyPublished ==
  ASSUME WorkerTypeOK, [Next]_vars, NEW e \in Events,
         e \in ToSet(published'), e \notin ToSet(published)
  PROVE  Traced(e)'
  <1>1. PICK m \in Messages : Publish(m)
    BY ProducerSteps DEF CommitTransaction
  <1>2. /\ ToSet(published') = ToSet(published) \cup {m}
        /\ ToSet(queue') = ToSet(queue) \cup {m}
    BY <1>1, PushElements DEF Publish, WorkerTypeOK
  <1>3. QED
    BY <1>2 DEF Traced, Queued

LEMMA ForgottenStep ==
  ASSUME ~FaultsForever, WorkerTypeOK, ReleaseSettled, [Next]_vars
  PROVE  \/ Forgotten' \subseteq Forgotten
         \/ faults' = faults + 1 /\ \E x : Forgotten' \subseteq Forgotten \cup {x}
  <1>1. Forgotten' = {e \in Events : e \in ToSet(published') /\ ~Traced(e)'}
    BY DEF Forgotten, Traced
  <1>2. KeepsTraces => Forgotten' \subseteq Forgotten
    BY <1>1, ForgottenUntraced, NewlyPublished DEF KeepsTraces
  <1>3. \A x : KeepsTracesBut(x) => Forgotten' \subseteq Forgotten \cup {x}
    BY <1>1, ForgottenUntraced, NewlyPublished DEF KeepsTracesBut
  <1>4. QED
    BY <1>2, <1>3, TracesStep

(* Each fault makes at most one published event untraceable, and nothing   *)
(* else makes one: not a race of workers, a message that does not decode,  *)
(* a duplicate, a missing transaction or a retry.                          *)
THEOREM LossesBounded ==
  ASSUME ~FaultsForever
  PROVE  Spec => []OneFaultForgetsOneEvent
  <1> DEFINE Inv == ReleaseSettled /\ OneFaultForgetsOneEvent
  <1>1. Init => Inv
    <2> SUFFICES ASSUME Init PROVE ReleaseSettled /\ OneFaultForgetsOneEvent
      OBVIOUS
    <2>1. Forgotten = {} /\ faults = 0 /\ ReleaseSettled
      BY DEF Init, Forgotten, ReleaseSettled, ToSet
    <2>2. QED
      BY <2>1, FS_EmptySet DEF OneFaultForgetsOneEvent
  <1>2. WorkerTypeOK /\ Inv /\ [Next]_vars => Inv'
    <2> SUFFICES ASSUME WorkerTypeOK, Inv, [Next]_vars
                 PROVE  ReleaseSettled' /\ OneFaultForgetsOneEvent'
      OBVIOUS
    <2>1. ReleaseSettled'
      BY ReleaseSettledStep
    <2>2. /\ IsFiniteSet(Forgotten) /\ Cardinality(Forgotten) \in Nat
          /\ faults \in Nat /\ (faults' = faults \/ faults' = faults + 1)
      BY ForgottenFinite, FS_CardinalityType, FaultsGrow DEF WorkerTypeOK
    <2>3. Cardinality(Forgotten) <= faults
      BY DEF OneFaultForgetsOneEvent
    <2>4. CASE Forgotten' \subseteq Forgotten
      <3>1. IsFiniteSet(Forgotten') /\ Cardinality(Forgotten') <= Cardinality(Forgotten)
        BY <2>2, <2>4, FS_Subset
      <3>2. Cardinality(Forgotten') \in Nat
        BY <3>1, FS_CardinalityType
      <3>3. QED
        BY <2>1, <2>2, <2>3, <3>1, <3>2 DEF OneFaultForgetsOneEvent
    <2>5. ASSUME faults' = faults + 1, NEW x, Forgotten' \subseteq Forgotten \cup {x}
          PROVE  OneFaultForgetsOneEvent'
      <3>1. Cardinality(Forgotten') <= Cardinality(Forgotten) + 1
        BY <2>2, <2>5, OneMoreBound
      <3>2. IsFiniteSet(Forgotten')
        BY <2>2, <2>5, FS_AddElement, FS_Subset
      <3>3. Cardinality(Forgotten') \in Nat
        BY <3>2, FS_CardinalityType
      <3>4. QED
        BY <2>2, <2>3, <2>5, <3>1, <3>3 DEF OneFaultForgetsOneEvent
    <2>6. QED
      BY <2>1, <2>4, <2>5, ForgottenStep
  <1>3. QED
    BY <1>1, <1>2, TypeCorrect, PTL DEF Spec

-----------------------------------------------------------------------------
(* The order of publication. The queue is the youngest part of what was    *)
(* published, in reverse; everything older has been popped. With one       *)
(* worker, the assessments are of popped messages in increasing positions, *)
(* none beyond the one in hand.                                            *)

Popped == Len(published) - Len(queue)

QueueIsRest ==
  /\ Len(queue) <= Len(published)
  /\ \A i \in 1..Len(queue) : queue[i] = published[Len(published) + 1 - i]

(* A witness of AssessedInPublicationOrder, within the first k messages.   *)
Matches(position, k) ==
  /\ position \in [1..Len(assessments) -> 1..k]
  /\ \A i \in 1..Len(assessments) : published[position[i]] = assessments[i].event_id
  /\ \A i, j \in 1..Len(assessments) : i < j => position[i] < position[j]

InHandAt(w, h, position) ==
  /\ published[h] = event[w]
  /\ \A i \in 1..Len(assessments) : position[i] <= h

Ordered ==
  \E position :
    /\ Matches(position, Popped)
    /\ \A w \in Workers :
         event[w] # NoEvent => \E h \in 1..Popped : InHandAt(w, h, position)

(* What a step does to the queue, and to the event in hand.                *)

SameQueue == UNCHANGED <<queue, published>>

Popping == queue # <<>> /\ queue' = Front(queue) /\ UNCHANGED published

Releasing == \A w \in Workers : event'[w] = event[w] \/ event'[w] = NoEvent

LEMMA QueueKinds ==
  ASSUME WorkerTypeOK, [Next]_vars
  PROVE  \/ \E m \in Messages : Publish(m)
         \/ Popping /\ UNCHANGED assessments /\ Releasing
         \/ \E w \in Workers : Pop(w)
         \/ SameQueue /\ Releasing
  <1> USE DEF WorkerTypeOK
  <1>1. CASE (\E x \in Transactions : CommitTransaction(x)) \/ UNCHANGED vars
    BY <1>1 DEF CommitTransaction, vars, local, SameQueue, Releasing
  <1>2. ASSUME NEW w \in Workers, PopUndecodable(w)
        PROVE  Popping /\ UNCHANGED assessments /\ Releasing
    BY <1>2 DEF PopUndecodable, local, Popping, Releasing
  <1>3. ASSUME NEW w \in Workers,
               \/ PollTimeout(w) \/ Wake(w) \/ FindAssessment(w) \/ FindTransaction(w)
               \/ Flush(w) \/ Commit(w) \/ Release(w) \/ Retry(w) \/ BackoffExpires(w)
               \/ DatabaseFails(w) \/ ConnectionRefused(w) \/ Restart(w)
        PROVE  SameQueue /\ Releasing
    <2>1. SameQueue
      BY <1>3 DEF PollTimeout, Wake, FindAssessment, FindTransaction, Flush, Commit,
         Release, Retry, BackoffExpires, DatabaseFails, ConnectionRefused, Restart,
         environment, SameQueue
    <2>2. event' = event \/ event' = [event EXCEPT ![w] = NoEvent]
      BY <1>3 DEF PollTimeout, Wake, FindAssessment, FindTransaction, Flush, Commit,
         Release, Retry, BackoffExpires, DatabaseFails, ConnectionRefused, Restart,
         Goto, Return, Stop, Drop
    <2>3. QED
      BY <2>1, <2>2 DEF Releasing
  <1>4. ASSUME NEW w \in Workers, PollFails(w) \/ Crash(w)
        PROVE  \/ SameQueue /\ Releasing
               \/ Popping /\ UNCHANGED assessments /\ Releasing
    <2>1. Releasing
      BY <1>4 DEF PollFails, Crash, Goto, Stop, Drop, Releasing
    <2>2. SameQueue \/ (Popping /\ pc[w] = "poll")
      BY <1>4 DEF PollFails, Crash, PopInDoubt, SameQueue, Popping
    <2>3. pc[w] = "poll" => UNCHANGED assessments
      BY <1>4 DEF PollFails, Crash, InDoubt
    <2>4. QED
      BY <2>1, <2>2, <2>3
  <1>5. QED
    BY <1>1, <1>2, <1>3, <1>4 DEF Next, Work, Fails

LEMMA QueueIsRestStep ==
  ASSUME WorkerTypeOK, QueueIsRest, [Next]_vars
  PROVE  QueueIsRest'
  <1> DEFINE n == Len(published)
             k == Len(queue)
  <1>0. n \in Nat /\ k \in Nat /\ k <= n
    BY DEF WorkerTypeOK, QueueIsRest
  <1>1. ASSUME NEW m \in Messages, Publish(m) PROVE QueueIsRest'
    <2>1. /\ Len(published') = n + 1 /\ published'[n + 1] = m
          /\ \A i \in 1..n : published'[i] = published[i]
      BY <1>1 DEF Publish, WorkerTypeOK
    <2>2. /\ Len(queue') = k + 1 /\ queue'[1] = m
          /\ \A i \in 1..k : queue'[i + 1] = queue[i]
      BY <1>1 DEF Publish, WorkerTypeOK
    <2> HIDE DEF n, k
    <2>3. ASSUME NEW i \in 1..(k + 1) PROVE queue'[i] = published'[n + 2 - i]
      <3>1. CASE i = 1
        BY <1>0, <2>1, <2>2, <3>1
      <3>2. CASE i # 1
        <4>1. i - 1 \in 1..k /\ n + 1 - (i - 1) \in 1..n /\ n + 1 - (i - 1) = n + 2 - i
          BY <1>0, <3>2
        <4>2. queue'[(i - 1) + 1] = queue[i - 1] /\ (i - 1) + 1 = i
          BY <2>2, <4>1
        <4>3. queue[i - 1] = published[n + 1 - (i - 1)]
          BY <4>1 DEF QueueIsRest, n, k
        <4>4. QED
          BY <2>1, <4>1, <4>2, <4>3
      <3>3. QED
        BY <3>1, <3>2
    <2>4. Len(queue') <= Len(published')
      BY <1>0, <2>1, <2>2
    <2>5. ASSUME NEW i \in 1..Len(queue')
          PROVE  queue'[i] = published'[Len(published') + 1 - i]
      <3>1. i \in 1..(k + 1) /\ Len(published') + 1 - i = n + 2 - i
        BY <1>0, <2>1, <2>2
      <3>2. QED
        BY <2>3, <3>1
    <2>6. QED
      BY <2>4, <2>5 DEF QueueIsRest
  <1>2. CASE Popping
    <2>1. k # 0 /\ Len(queue') = k - 1 /\ \A i \in 1..(k - 1) : queue'[i] = queue[i]
      BY <1>2, FrontParts DEF Popping, WorkerTypeOK
    <2>2. QED
      BY <1>0, <1>2, <2>1 DEF Popping, QueueIsRest
  <1>3. CASE SameQueue
    BY <1>3 DEF SameQueue, QueueIsRest
  <1>4. QED
    BY <1>1, <1>2, <1>3, QueueKinds DEF Pop, Popping

(* How far the queue has been read, after a step of each kind.             *)
LEMMA PoppedStep ==
  ASSUME WorkerTypeOK, QueueIsRest, [Next]_vars
  PROVE  /\ Popped \in Nat /\ Popped <= Len(published) /\ Len(published) \in Nat
         /\ Popped' \in Nat /\ Popped <= Popped'
         /\ \A i \in 1..Popped : published'[i] = published[i]
  <1>0. Len(published) \in Nat /\ Len(queue) \in Nat /\ Len(queue) <= Len(published)
    BY DEF WorkerTypeOK, QueueIsRest
  <1>1. ASSUME NEW m \in Messages, Publish(m)
        PROVE  /\ Popped' = Popped
               /\ \A i \in 1..Len(published) : published'[i] = published[i]
    <2>1. /\ Len(published') = Len(published) + 1 /\ Len(queue') = Len(queue) + 1
          /\ \A i \in 1..Len(published) : published'[i] = published[i]
      BY <1>1 DEF Publish, WorkerTypeOK
    <2>2. QED
      BY <1>0, <2>1 DEF Popped
  <1>2. CASE Popping
    <2>1. Len(queue') = Len(queue) - 1 /\ UNCHANGED published /\ Len(queue) # 0
      BY <1>2, FrontParts DEF Popping, WorkerTypeOK
    <2>2. QED
      BY <1>0, <2>1 DEF Popped
  <1>3. CASE SameQueue
    BY <1>0, <1>3 DEF SameQueue, Popped
  <1>4. Popped \in Nat /\ \A i \in 1..Popped : i \in 1..Len(published)
    BY <1>0 DEF Popped
  <1>5. Popped <= Len(published)
    BY <1>0 DEF Popped
  <1>6. QED
    BY <1>0, <1>1, <1>2, <1>3, <1>4, <1>5, QueueKinds DEF Pop, Popping

(* A step that records nothing and takes up no event keeps the witness.    *)
LEMMA OrderKept ==
  ASSUME WorkerTypeOK, QueueIsRest, [Next]_vars, Ordered, UNCHANGED assessments, Releasing
  PROVE  Ordered'
  <1>1. PICK position :
          /\ Matches(position, Popped)
          /\ \A w \in Workers :
               event[w] # NoEvent => \E h \in 1..Popped : InHandAt(w, h, position)
    BY DEF Ordered
  <1>2. /\ Popped \in Nat /\ Popped' \in Nat /\ Popped <= Popped'
        /\ \A i \in 1..Popped : published'[i] = published[i] /\ i \in 1..Popped'
    BY PoppedStep
  <1>3. Matches(position, Popped)'
    BY <1>1, <1>2 DEF Matches
  <1>4. ASSUME NEW w \in Workers, event'[w] # NoEvent
        PROVE  \E h \in 1..Popped' : InHandAt(w, h, position)'
    BY <1>1, <1>2, <1>4 DEF Releasing, InHandAt
  <1>5. QED
    BY <1>3, <1>4 DEF Ordered

(* Recording the event in hand: it was popped after all the recorded ones, *)
(* and is none of them.                                                    *)
LEMMA OrderRecorded ==
  ASSUME \A v, w \in Workers : v = w, AtMostOneInv, QueueIsRest, [Next]_vars, Ordered,
         NEW w \in Workers, Recording(w), SameQueue, Releasing
  PROVE  Ordered'
  <1> USE DEF AtMostOneInv
  <1> DEFINE n == Len(assessments)
  <1>1. PICK position :
          /\ Matches(position, Popped)
          /\ \A v \in Workers :
               event[v] # NoEvent => \E h \in 1..Popped : InHandAt(v, h, position)
    BY DEF Ordered
  <1>2. PICK h \in 1..Popped : InHandAt(w, h, position)
    BY <1>1, WorkerAssumption DEF Recording
  <1>3. Popped \in Nat /\ Popped' = Popped /\ UNCHANGED published
    BY PoppedStep DEF SameQueue, Popped
  <1>4. /\ n \in Nat /\ Len(assessments') = n + 1
        /\ assessments'[n + 1].event_id = event[w]
        /\ \A i \in 1..n : assessments'[i] = assessments[i]
        /\ DOMAIN assessments = 1..n
    BY DEF Recording, Row, WorkerTypeOK
  <1> HIDE DEF n
  <1>5. ASSUME NEW i \in 1..n PROVE position[i] \in 1..Popped /\ position[i] < h
    <2>1. position[i] \in 1..Popped /\ published[position[i]] = assessments[i].event_id
      BY <1>1 DEF Matches, n
    <2>2. assessments[i].event_id # event[w]
      BY <1>4 DEF Recording, InFlight, Assessed
    <2>3. position[i] # h /\ position[i] <= h
      BY <1>2, <2>1, <2>2 DEF InHandAt, n
    <2>4. QED
      BY <2>1, <2>3, <1>3
  <1>6. PICK longer : longer = [i \in 1..(n + 1) |-> IF i = n + 1 THEN h ELSE position[i]]
    OBVIOUS
  <1>7. /\ longer \in [1..(n + 1) -> 1..Popped]
        /\ longer[n + 1] = h
        /\ \A i \in 1..n : longer[i] = position[i]
        /\ \A i \in 1..(n + 1) : i = n + 1 \/ i \in 1..n
    BY <1>4, <1>5, <1>6
  <1>8. \A i \in 1..(n + 1) : published[longer[i]] = assessments'[i].event_id
    <2>1. published[longer[n + 1]] = assessments'[n + 1].event_id
      BY <1>2, <1>4, <1>7 DEF InHandAt
    <2>2. ASSUME NEW i \in 1..n PROVE published[longer[i]] = assessments'[i].event_id
      BY <1>1, <1>4, <1>7 DEF Matches, n
    <2>3. QED
      BY <1>7, <2>1, <2>2
  <1>9. \A i, j \in 1..(n + 1) : i < j => longer[i] < longer[j]
    <2>1. SUFFICES ASSUME NEW i \in 1..(n + 1), NEW j \in 1..(n + 1), i < j
                   PROVE  longer[i] < longer[j]
      OBVIOUS
    <2>2. i \in 1..n
      BY <1>4, <2>1
    <2>3. CASE j = n + 1
      BY <1>5, <1>7, <2>2, <2>3
    <2>4. CASE j \in 1..n
      BY <1>1, <1>7, <2>1, <2>2, <2>4 DEF Matches, n
    <2>5. QED
      BY <1>7, <2>3, <2>4
  <1>10. Matches(longer, Popped)'
    BY <1>3, <1>4, <1>7, <1>8, <1>9 DEF Matches
  <1>11. ASSUME NEW v \in Workers, event'[v] # NoEvent
         PROVE  \E g \in 1..Popped' : InHandAt(v, g, longer)'
    <2>1. event'[v] = event[w]
      BY <1>11 DEF Releasing
    <2>2. \A i \in 1..(n + 1) : longer[i] <= h
      BY <1>2, <1>3, <1>5, <1>7
    <2>3. InHandAt(v, h, longer)'
      BY <1>2, <1>3, <1>4, <2>1, <2>2 DEF InHandAt
    <2>4. QED
      BY <1>3, <2>3
  <1>12. QED
    BY <1>10, <1>11 DEF Ordered

LEMMA OrderPopped ==
  ASSUME \A v, w \in Workers : v = w, WorkerTypeOK, QueueIsRest, [Next]_vars, Ordered,
         NEW w \in Workers, Pop(w)
  PROVE  Ordered'
  <1>1. PICK position : Matches(position, Popped)
    BY DEF Ordered
  <1>2. /\ Len(queue) \in Nat \ {0} /\ Last(queue) = queue[Len(queue)]
        /\ Len(queue') = Len(queue) - 1
        /\ UNCHANGED <<published, assessments>> /\ event'[w] = Last(queue)
    BY FrontParts DEF Pop, WorkerTypeOK
  <1>3. Len(published) \in Nat /\ Popped \in Nat /\ Popped' = Popped + 1
    BY <1>2, PoppedStep DEF Popped
  <1>4. published[Popped + 1] = Last(queue)
    <2>1. queue[Len(queue)] = published[Len(published) + 1 - Len(queue)]
      BY <1>2 DEF QueueIsRest
    <2>2. Len(published) + 1 - Len(queue) = Popped + 1
      BY <1>2, <1>3 DEF Popped
    <2>3. QED
      BY <1>2, <2>1, <2>2
  <1>5. \A i \in 1..Len(assessments) : position[i] \in 1..Popped
    BY <1>1 DEF Matches
  <1>6. Matches(position, Popped)'
    BY <1>1, <1>2, <1>3, <1>5 DEF Matches
  <1>7. PICK h : h = Popped + 1
    OBVIOUS
  <1>8. h \in 1..Popped' /\ InHandAt(w, h, position)'
    BY <1>2, <1>3, <1>4, <1>5, <1>7 DEF InHandAt
  <1>9. \A v \in Workers : InHandAt(v, h, position)'
    BY <1>8
  <1>10. QED
    BY <1>6, <1>8, <1>9 DEF Ordered

LEMMA OrderedStep ==
  ASSUME \A v, w \in Workers : v = w, AtMostOneInv, QueueIsRest, Ordered, [Next]_vars
  PROVE  Ordered'
  <1> USE DEF AtMostOneInv
  <1>1. ASSUME NEW m \in Messages, Publish(m) PROVE Ordered'
    BY <1>1, OrderKept DEF Publish, local, Releasing
  <1>2. CASE Popping /\ UNCHANGED assessments /\ Releasing
    BY <1>2, OrderKept
  <1>3. ASSUME NEW w \in Workers, Pop(w) PROVE Ordered'
    BY <1>3, OrderPopped
  <1>4. CASE SameQueue /\ Releasing
    <2>1. CASE UNCHANGED assessments
      BY <1>4, <2>1, OrderKept
    <2>2. ASSUME NEW w \in Workers, Recording(w) PROVE Ordered'
      BY <1>4, <2>2, OrderRecorded
    <2>3. QED
      BY <2>1, <2>2, StepKinds DEF Quiet, Flushing
  <1>5. QED
    BY <1>1, <1>2, <1>3, <1>4, QueueKinds

(* A single worker assesses events in the order of their publication,      *)
(* through retries, losses, crashes and redelivered events.                *)
THEOREM OrderPreserved ==
  ASSUME \A v, w \in Workers : v = w
  PROVE  Spec => []AssessedInPublicationOrder
  <1> DEFINE Inv == AtMostOneInv /\ QueueIsRest /\ Ordered
  <1>1. Init => Inv
    <2> SUFFICES ASSUME Init PROVE AtMostOneInv /\ QueueIsRest /\ Ordered
      OBVIOUS
    <2>1. AtMostOneInv /\ QueueIsRest
      BY AtMostOneInit DEF Init, QueueIsRest
    <2>2. Matches(<<>>, Popped) /\ \A w \in Workers : event[w] = NoEvent
      BY DEF Init, Matches, Popped
    <2>3. QED
      BY <2>1, <2>2 DEF Ordered
  <1>2. Inv /\ [Next]_vars => Inv'
    BY AtMostOneStep, QueueIsRestStep, OrderedStep DEF AtMostOneInv
  <1>3. Inv => AssessedInPublicationOrder
    <2> SUFFICES ASSUME Inv PROVE AssessedInPublicationOrder
      OBVIOUS
    <2>1. PICK position : Matches(position, Popped)
      BY DEF Ordered
    <2>2. /\ DOMAIN assessments = 1..Len(assessments)
          /\ DOMAIN published = 1..Len(published)
          /\ Len(published) \in Nat /\ Len(queue) \in Nat /\ Len(queue) <= Len(published)
      BY DEF AtMostOneInv, WorkerTypeOK, QueueIsRest
    <2>3. 1..Popped \subseteq 1..Len(published)
      BY <2>2 DEF Popped
    <2>4. position \in [DOMAIN assessments -> DOMAIN published]
      BY <2>1, <2>2, <2>3 DEF Matches
    <2>5. QED
      BY <2>1, <2>2, <2>4 DEF Matches, AssessedInPublicationOrder
  <1>4. QED
    BY <1>1, <1>2, <1>3, PTL DEF Spec
=============================================================================
