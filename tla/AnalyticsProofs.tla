-------------------------- MODULE AnalyticsProofs ---------------------------
(***************************************************************************)
(* Theorems about the analytics API, for any number of requests, filters,  *)
(* transactions and assessments, and for any interleaving of statements    *)
(* and commits.                                                            *)
(***************************************************************************)
EXTENDS Analytics, ListLemmas, TLAPS

-----------------------------------------------------------------------------
(* Databases, and the statements as functions of one.                      *)

Databases ==
  {d \in [transactions : SUBSET Transactions, assessments : SUBSET Events] :
     {TransactionOf[e] : e \in d.assessments} \subseteq d.transactions}

Grows(d, later) ==
  d.transactions \subseteq later.transactions /\ d.assessments \subseteq later.assessments

(* The number a counting statement returns.                                *)
Counted(q, name, d) ==
  CASE name = "total_transactions" ->
         Cardinality({t \in d.transactions : TransactionMatches(q, t)})
    [] name = "total_assessed" -> Cardinality(AssessedRows(q, d))
    [] name \in Levels -> Cardinality(OfLevel(AssessedRows(q, d), name))
    [] name = "total" -> Cardinality(JoinedRows(q, d))

(* What the statements return that are the last of their endpoints.        *)
PageOf(q, d, items) == \E order \in Orders(JoinedRows(q, d)) : items = Page(order, q)

BucketsOf(q, d) ==
  LET rows == AssessedRows(q, d) IN
  [level \in {RiskLevelOf[e] : e \in rows} |-> Cardinality(OfLevel(rows, level))]

DaysOf(q, d) ==
  LET rows == JoinedRows(q, d)
      On(day) == {row \in rows : DayOfRow(row) = day} IN
  [day \in {DayOfRow(row) : row \in rows} |->
     [transaction_count |-> Cardinality(On(day)),
      assessed_count |-> Cardinality({row \in On(day) : row.assessment # None})]]

LastNames == {"items", "buckets", "days"}

LastValue(q, d, name, value) ==
  /\ name = "items" => PageOf(q, d, value)
  /\ name = "buckets" => value = BucketsOf(q, d)
  /\ name = "days" => value = DaysOf(q, d)

StatementNames == Totals \cup {"items", "risk_distribution", "volume_by_day", "top_risk_merchants"}

(* The name under which a statement's value is found in the answer.        *)
NameOf(statement) ==
  CASE statement = "risk_distribution" -> "buckets"
    [] statement = "volume_by_day" -> "days"
    [] OTHER -> statement

Returns(r, statement, value) ==
  /\ statement \in Totals => value = Counted(query[r], statement, db)
  /\ LastValue(query[r], db, NameOf(statement), value)

LEMMA StatementsType ==
  ASSUME NEW endpoint \in Endpoints
  PROVE  /\ Statements(endpoint) \in Seq(StatementNames)
         /\ Len(Statements(endpoint)) \in Nat \ {0}
  <1> USE DEF Endpoints, Statements, StatementNames, Totals, Levels
  <1> DEFINE S == StatementNames
  <1>1. \A a, b, c, d, e \in S :
          /\ <<a>> \in Seq(S) /\ Len(<<a>>) = 1
          /\ <<a, b>> \in Seq(S) /\ Len(<<a, b>>) = 2
          /\ <<a, b, c, d, e>> \in Seq(S) /\ Len(<<a, b, c, d, e>>) = 5
    <2> HIDE DEF S
    <2>1. QED
      OBVIOUS
  <1>2. /\ {"total_transactions", "total_assessed", "low", "medium", "high"} \subseteq StatementNames
        /\ {"total", "items"} \subseteq StatementNames
        /\ endpoint \notin {"summary", "search"} => endpoint \in StatementNames
    OBVIOUS
  <1>3. \/ Statements(endpoint)
             = <<"total_transactions", "total_assessed", "low", "medium", "high">>
        \/ Statements(endpoint) = <<"total", "items">>
        \/ endpoint \notin {"summary", "search"} /\ Statements(endpoint) = <<endpoint>>
    OBVIOUS
  <1> HIDE DEF StatementNames, Statements
  <1>4. CASE Statements(endpoint)
               = <<"total_transactions", "total_assessed", "low", "medium", "high">>
    BY <1>1, <1>2, <1>4
  <1>5. CASE Statements(endpoint) = <<"total", "items">>
    BY <1>1, <1>2, <1>5
  <1>6. CASE endpoint \in S /\ Statements(endpoint) = <<endpoint>>
    BY <1>1, <1>6
  <1>7. QED
    BY <1>2, <1>3, <1>4, <1>5, <1>6

(* The statements of an endpoint have names of their own.                  *)
LEMMA AllNamed ==
  ASSUME NEW endpoint \in Endpoints
  PROVE  LET all == Statements(endpoint) IN
         Cardinality({NameOf(all[i]) : i \in 1..Len(all)}) = Len(all)
  <1> DEFINE all == Statements(endpoint)
             n == Len(all)
             names == {NameOf(all[i]) : i \in 1..n}
             f == [i \in 1..n |-> NameOf(all[i])]
  <1>1. n \in Nat
    BY StatementsType
  <1>2. \A i, j \in 1..n : NameOf(all[i]) = NameOf(all[j]) => i = j
    <2>1. CASE endpoint = "summary"
      <3>1. all = <<"total_transactions", "total_assessed", "low", "medium", "high">>
        BY <2>1 DEF Statements
      <3>2. n = 5 /\ \A i \in 1..5 : i = 1 \/ i = 2 \/ i = 3 \/ i = 4 \/ i = 5
        BY <3>1
      <3>3. QED
        BY <3>1, <3>2 DEF NameOf
    <2>2. CASE endpoint = "search"
      <3>1. all = <<"total", "items">>
        BY <2>2 DEF Statements
      <3>2. QED
        BY <3>1 DEF NameOf
    <2>3. CASE endpoint \notin {"summary", "search"}
      <3>1. all = <<endpoint>>
        BY <2>3 DEF Statements
      <3>2. QED
        BY <3>1
    <2>4. QED
      BY <2>1, <2>2, <2>3
  <1> HIDE DEF all, n
  <1>3. f \in Surjection(1..n, names) /\ f \in Injection(1..n, names)
    BY <1>2 DEF Surjection, Injection, IsInjective
  <1>4. IsFiniteSet(1..n) /\ Cardinality(1..n) = n
    BY <1>1, FS_Interval
  <1>5. Cardinality(names) = n
    BY <1>3, <1>4, FS_Surjection
  <1>6. QED
    BY <1>5 DEF all, n

(* What a request does in one step: it runs its next statement, or comes   *)
(* in, or fails.                                                           *)
LEMMA AnswerKinds ==
  ASSUME NEW r \in Requests, Answer(r)
  PROVE  \/ Ask(r)
         \/ StatementFails(r)
         \/ \E statement \in StatementNames :
              /\ Runs(r, statement)
              /\ \E value : Returns(r, statement, value) /\ Read(r, NameOf(statement), value)
  <1> USE DEF Returns, LastValue, NameOf, StatementNames, Totals, Levels
  <1>1. CASE CountTransactions(r)
    BY <1>1 DEF CountTransactions, Counted
  <1>2. CASE CountAssessed(r)
    BY <1>2 DEF CountAssessed, Counted
  <1>3. CASE CountLevel(r)
    <2>1. PICK level \in Levels :
            Runs(r, level) /\ Read(r, level, Cardinality(OfLevel(AssessedRows(query[r], db), level)))
      BY <1>3 DEF CountLevel
    <2>2. Returns(r, level, Cardinality(OfLevel(AssessedRows(query[r], db), level)))
      BY DEF Counted
    <2>3. NameOf(level) = level
      OBVIOUS
    <2>4. QED
      BY <2>1, <2>2, <2>3
  <1>4. CASE RiskDistribution(r)
    BY <1>4 DEF RiskDistribution, BucketsOf
  <1>5. CASE VolumeByDay(r)
    BY <1>5 DEF VolumeByDay, DaysOf
  <1>6. CASE CountRows(r)
    BY <1>6 DEF CountRows, Counted
  <1>7. CASE FetchPage(r)
    BY <1>7 DEF FetchPage, PageOf
  <1>8. QED
    BY <1>1, <1>2, <1>3, <1>4, <1>5, <1>6, <1>7 DEF Answer

-----------------------------------------------------------------------------
(* How far a request has come: what it has read and what is left to run    *)
(* make up the statements of its endpoint; one that is not let in, or has  *)
(* failed, holds nothing.                                                  *)

Turned == {"400", "401", "403"}

Progress(r) ==
  LET all == Statements(query[r].endpoint) IN
  \/ /\ status[r] \in {"none", "500"} \cup Turned
     /\ status[r] \in Turned => Admission(query[r]) = status[r]
     /\ todo[r] = <<>> /\ answer[r] = <<>>
  \/ /\ status[r] \in {"running", "200"}
     /\ Admission(query[r]) = "running"
     /\ \E k \in 0..Len(all) :
          /\ todo[r] = From(all, k)
          /\ DOMAIN answer[r] = {NameOf(all[i]) : i \in 1..k}
          /\ status[r] = "200" <=> k = Len(all)

(* The database as it is for a request: the present one, until its last    *)
(* statement has run.                                                      *)
Now(r) == IF status[r] = "200" THEN answered[r] ELSE db

Types ==
  /\ db \in Databases
  /\ query \in Sessions
  /\ status = [r \in Requests |-> status[r]]
  /\ todo = [r \in Requests |-> todo[r]]
  /\ answer = [r \in Requests |-> answer[r]]
  /\ asked \in [Requests -> Databases]
  /\ answered \in [Requests -> Databases]

Histories(r) ==
  /\ Grows(asked[r], Now(r))
  /\ Grows(asked[r], db) /\ Grows(answered[r], db)

ProgressInv == Types /\ \A r \in Requests : Progress(r) /\ Histories(r)

LEMMA QueryType ==
  ASSUME ProgressInv, NEW r \in Requests
  PROVE  query[r] \in Queries /\ query[r].endpoint \in Endpoints
  BY AnalyticsAssumption DEF ProgressInv, Types, Queries

LEMMA ProgressInit == Init => ProgressInv
  <1> SUFFICES ASSUME Init PROVE ProgressInv
    OBVIOUS
  <1>1. EmptyDb \in Databases
    BY DEF EmptyDb, Databases
  <1>2. Types
    BY <1>1 DEF Init, Types
  <1>3. \A r \in Requests : Progress(r)
    <2>1. SUFFICES ASSUME NEW r \in Requests PROVE Progress(r)
      OBVIOUS
    <2>2. status[r] = "none" /\ todo[r] = <<>> /\ answer[r] = <<>>
      BY DEF Init
    <2>3. QED
      BY <2>2 DEF Progress, Turned
  <1>4. \A r \in Requests : Histories(r)
    <2>1. SUFFICES ASSUME NEW r \in Requests PROVE Histories(r)
      OBVIOUS
    <2>2. status[r] = "none" /\ asked[r] = EmptyDb /\ answered[r] = EmptyDb /\ db = EmptyDb
      BY DEF Init
    <2>3. Grows(EmptyDb, EmptyDb)
      BY DEF Grows
    <2>4. QED
      BY <2>2, <2>3 DEF Histories, Now
  <1>5. QED
    BY <1>2, <1>3, <1>4 DEF ProgressInv

LEMMA CommitsGrow ==
  ASSUME ProgressInv,
         \/ \E t \in Transactions : CommitTransaction(t)
         \/ \E e \in Events : CommitAssessment(e)
  PROVE  /\ db' \in Databases /\ Grows(db, db')
         /\ UNCHANGED <<query, status, todo, answer, asked, answered>>
  <1> USE DEF ProgressInv, Types, Databases, Grows
  <1>1. ASSUME NEW t \in Transactions, CommitTransaction(t)
        PROVE  /\ db' \in Databases /\ Grows(db, db')
               /\ UNCHANGED <<query, status, todo, answer, asked, answered>>
    <2> DEFINE T == db.transactions \cup {t}
    <2>1. db' = [db EXCEPT !.transactions = T]
      BY <1>1 DEF CommitTransaction
    <2>2. db'.transactions = T /\ db'.assessments = db.assessments
      BY <2>1
    <2>3. db' \in [transactions : SUBSET Transactions, assessments : SUBSET Events]
      BY <2>1
    <2>4. QED
      BY <1>1, <2>2, <2>3 DEF CommitTransaction
  <1>2. ASSUME NEW e \in Events, CommitAssessment(e)
        PROVE  /\ db' \in Databases /\ Grows(db, db')
               /\ UNCHANGED <<query, status, todo, answer, asked, answered>>
    <2> DEFINE A == db.assessments \cup {e}
    <2>1. db' = [db EXCEPT !.assessments = A]
      BY <1>2 DEF CommitAssessment
    <2>2. db'.assessments = A /\ db'.transactions = db.transactions
      BY <2>1
    <2>3. db' \in [transactions : SUBSET Transactions, assessments : SUBSET Events]
      BY <2>1
    <2>4. QED
      BY <1>2, <2>2, <2>3 DEF CommitAssessment
  <1>3. QED
    BY <1>1, <1>2

(* A step of one request leaves the others alone.                          *)
LEMMA AnswerLocal ==
  ASSUME ProgressInv, NEW r \in Requests, Answer(r)
  PROVE  /\ UNCHANGED <<db, query>>
         /\ status' = [q \in Requests |-> status'[q]]
         /\ todo' = [q \in Requests |-> todo'[q]]
         /\ answer' = [q \in Requests |-> answer'[q]]
         /\ asked' \in [Requests -> Databases] /\ answered' \in [Requests -> Databases]
         /\ \A q \in Requests \ {r} :
              /\ status'[q] = status[q] /\ todo'[q] = todo[q] /\ answer'[q] = answer[q]
              /\ asked'[q] = asked[q] /\ answered'[q] = answered[q]
  <1> USE DEF ProgressInv, Types
  <1>1. CASE Ask(r)
    BY <1>1 DEF Ask
  <1>2. CASE StatementFails(r)
    BY <1>2 DEF StatementFails
  <1>3. ASSUME NEW name, NEW value, Read(r, name, value)
        PROVE  /\ UNCHANGED <<db, query>>
               /\ status' = [q \in Requests |-> status'[q]]
               /\ todo' = [q \in Requests |-> todo'[q]]
               /\ answer' = [q \in Requests |-> answer'[q]]
               /\ asked' \in [Requests -> Databases] /\ answered' \in [Requests -> Databases]
               /\ \A q \in Requests \ {r} :
                    /\ status'[q] = status[q] /\ todo'[q] = todo[q] /\ answer'[q] = answer[q]
                    /\ asked'[q] = asked[q] /\ answered'[q] = answered[q]
    BY <1>3 DEF Read
  <1>4. QED
    BY <1>1, <1>2, <1>3, AnswerKinds

(* What running a statement does to its request.                           *)
LEMMA ReadEffect ==
  ASSUME ProgressInv, NEW r \in Requests, NEW statement \in StatementNames, NEW value,
         Runs(r, statement), Read(r, NameOf(statement), value)
  PROVE  /\ status[r] = "running" /\ Admission(query[r]) = "running"
         /\ \E k \in 0..(Len(Statements(query[r].endpoint)) - 1) :
              LET all == Statements(query[r].endpoint) IN
              /\ statement = all[k + 1]
              /\ DOMAIN answer[r] = {NameOf(all[i]) : i \in 1..k}
              /\ todo'[r] = From(all, k + 1)
              /\ DOMAIN answer'[r] = {NameOf(all[i]) : i \in 1..(k + 1)}
              /\ status'[r] = (IF k + 1 = Len(all) THEN "200" ELSE "running")
              /\ answered'[r] = (IF k + 1 = Len(all) THEN db ELSE answered[r])
         /\ answer'[r][NameOf(statement)] = value
         /\ \A name \in DOMAIN answer[r] :
              name # NameOf(statement) => answer'[r][name] = answer[r][name]
         /\ UNCHANGED <<asked, db, query>>
  <1> DEFINE all == Statements(query[r].endpoint)
  <1>0. all \in Seq(StatementNames) /\ Len(all) \in Nat \ {0}
    BY QueryType, StatementsType
  <1>1. todo[r] # <<>> /\ Head(todo[r]) = statement
    BY DEF Runs
  <1>2. /\ status[r] \in {"running", "200"}
        /\ Admission(query[r]) = "running"
        /\ \E k \in 0..Len(all) :
             /\ todo[r] = From(all, k)
             /\ DOMAIN answer[r] = {NameOf(all[i]) : i \in 1..k}
             /\ status[r] = "200" <=> k = Len(all)
    BY <1>1 DEF ProgressInv, Progress
  <1> HIDE DEF all
  <1>3. PICK k \in 0..Len(all) :
             /\ todo[r] = From(all, k)
             /\ DOMAIN answer[r] = {NameOf(all[i]) : i \in 1..k}
             /\ status[r] = "200" <=> k = Len(all)
    BY <1>2
  <1>4. k # Len(all) /\ k < Len(all) /\ k + 1 \in 1..Len(all) /\ k \in 0..(Len(all) - 1)
    <2>1. k # Len(all)
      BY <1>0, <1>1, <1>3, RestOfList
    <2>2. QED
      BY <1>0, <1>3, <2>1
  <1>5. statement = all[k + 1] /\ Tail(todo[r]) = From(all, k + 1) /\ Len(todo[r]) = Len(all) - k
    BY <1>0, <1>1, <1>3, <1>4, RestOfList
  <1>6. status[r] = "running"
    BY <1>2, <1>3, <1>4
  <1>7. /\ answer'[r] = With(answer[r], NameOf(statement), value)
        /\ todo'[r] = Tail(todo[r])
        /\ status'[r] = (IF Len(todo[r]) = 1 THEN "200" ELSE status[r])
        /\ answered'[r] = (IF Len(todo[r]) = 1 THEN db ELSE answered[r])
        /\ UNCHANGED <<asked, db, query>>
    BY DEF Read, ProgressInv, Types
  <1>8. /\ DOMAIN answer'[r] = DOMAIN answer[r] \cup {NameOf(statement)}
        /\ answer'[r][NameOf(statement)] = value
        /\ \A name \in DOMAIN answer[r] :
             name # NameOf(statement) => answer'[r][name] = answer[r][name]
    BY <1>7 DEF With
  <1>9. {NameOf(all[i]) : i \in 1..(k + 1)} = {NameOf(all[i]) : i \in 1..k} \cup {NameOf(all[k + 1])}
    <2>1. \A i : i \in 1..(k + 1) <=> (i \in 1..k \/ i = k + 1)
      BY <1>3
    <2>2. QED
      BY <2>1
  <1>10. Len(todo[r]) = 1 <=> k + 1 = Len(all)
    BY <1>0, <1>4, <1>5
  <1>11. /\ todo'[r] = From(all, k + 1)
         /\ DOMAIN answer'[r] = {NameOf(all[i]) : i \in 1..(k + 1)}
         /\ status'[r] = (IF k + 1 = Len(all) THEN "200" ELSE "running")
         /\ answered'[r] = (IF k + 1 = Len(all) THEN db ELSE answered[r])
    BY <1>3, <1>5, <1>6, <1>7, <1>8, <1>9, <1>10
  <1>12. QED
    BY <1>2, <1>3, <1>4, <1>5, <1>6, <1>7, <1>8, <1>11 DEF all

LEMMA ProgressStep == ProgressInv /\ [Next]_vars => ProgressInv'
  <1> SUFFICES ASSUME ProgressInv, [Next]_vars PROVE ProgressInv'
    OBVIOUS
  <1>1. ASSUME UNCHANGED <<query, status, todo, answer, asked, answered>>,
               db' \in Databases, Grows(db, db')
        PROVE  ProgressInv'
    <2>1. Types' /\ \A r \in Requests : Progress(r)'
      BY <1>1 DEF ProgressInv, Types, Progress
    <2>2. ASSUME NEW r \in Requests PROVE Histories(r)'
      BY <1>1 DEF ProgressInv, Histories, Grows, Now
    <2>3. QED
      BY <2>1, <2>2 DEF ProgressInv
  <1>2. ASSUME NEW r \in Requests, Answer(r) PROVE ProgressInv'
    <2>1. Types'
      BY <1>2, AnswerLocal DEF ProgressInv, Types
    <2>2. ASSUME NEW q \in Requests, q # r PROVE Progress(q)' /\ Histories(q)'
      BY <1>2, <2>2, AnswerLocal DEF ProgressInv, Progress, Histories, Now
    <2>3. Progress(r)' /\ Histories(r)'
      <3>1. CASE Ask(r)
        <4>1. /\ status'[r] = Admission(query[r])
              /\ todo'[r] = (IF Admission(query[r]) = "running"
                               THEN Statements(query[r].endpoint) ELSE <<>>)
              /\ asked'[r] = db /\ answered'[r] = answered[r] /\ answer'[r] = <<>>
              /\ UNCHANGED <<db, query>>
          BY <3>1 DEF Ask, ProgressInv, Types, Progress, Turned
        <4>2. Admission(query[r]) \in Turned \cup {"500", "running"}
          BY DEF Admission, Turned, Authorize, Authenticate
        <4>3. Histories(r)'
          BY <4>1, <4>2 DEF Histories, Grows, Now, ProgressInv, Turned
        <4>4. CASE Admission(query[r]) = "running"
          <5> DEFINE all == Statements(query[r].endpoint)
          <5>1. all \in Seq(StatementNames) /\ Len(all) \in Nat \ {0}
            BY QueryType, StatementsType
          <5> HIDE DEF all
          <5>2. From(all, 0) = all
            BY <5>1 DEF From
          <5>3. 0 \in 0..Len(all) /\ {NameOf(all[i]) : i \in 1..0} = {}
            BY <5>1
          <5>4. DOMAIN answer'[r] = {}
            BY <4>1
          <5>5. /\ todo'[r] = From(all, 0)
                /\ DOMAIN answer'[r] = {NameOf(all[i]) : i \in 1..0}
                /\ status'[r] = "running" /\ 0 # Len(all)
            BY <4>1, <4>4, <5>1, <5>2, <5>3, <5>4 DEF all
          <5>6. QED
            BY <4>1, <4>3, <4>4, <5>3, <5>5 DEF Progress, all
        <4>5. CASE Admission(query[r]) # "running"
          BY <4>1, <4>2, <4>3, <4>5 DEF Progress
        <4>6. QED
          BY <4>4, <4>5
      <3>2. CASE StatementFails(r)
        <4>1. /\ status'[r] = "500" /\ todo'[r] = <<>> /\ answer'[r] = <<>>
              /\ UNCHANGED <<db, query, asked, answered>>
          BY <3>2 DEF StatementFails, ProgressInv, Types
        <4>2. QED
          BY <4>1 DEF Progress, Histories, Now, ProgressInv, Turned
      <3>3. ASSUME NEW statement \in StatementNames, NEW value,
                   Runs(r, statement), Read(r, NameOf(statement), value)
            PROVE  Progress(r)' /\ Histories(r)'
        <4> DEFINE all == Statements(query[r].endpoint)
        <4>1. PICK k \in 0..(Len(all) - 1) :
                /\ todo'[r] = From(all, k + 1)
                /\ DOMAIN answer'[r] = {NameOf(all[i]) : i \in 1..(k + 1)}
                /\ status'[r] = (IF k + 1 = Len(all) THEN "200" ELSE "running")
                /\ answered'[r] = (IF k + 1 = Len(all) THEN db ELSE answered[r])
          BY <3>3, ReadEffect
        <4>2. Admission(query[r]) = "running" /\ UNCHANGED <<asked, db, query>>
          BY <3>3, ReadEffect
        <4>3. Len(all) \in Nat
          BY QueryType, StatementsType
        <4>4. Progress(r)'
          <5> HIDE DEF all
          <5>1. k + 1 \in 0..Len(all)
            BY <4>1, <4>3
          <5>2. QED
            BY <4>1, <4>2, <5>1 DEF Progress, all
        <4>5. Histories(r)'
          <5> HIDE DEF all
          <5>1. Grows(db, db)
            BY DEF Grows
          <5>2. Grows(asked[r], db) /\ Grows(answered[r], db)
            BY DEF ProgressInv, Histories
          <5>3. QED
            BY <4>1, <4>2, <5>1, <5>2 DEF Histories, Now
        <4>6. QED
          BY <4>4, <4>5
      <3>4. QED
        BY <1>2, <3>1, <3>2, <3>3, AnswerKinds
    <2>4. QED
      BY <2>1, <2>2, <2>3 DEF ProgressInv
  <1>3. UNCHANGED vars => ProgressInv'
    <2>1. db \in Databases /\ Grows(db, db)
      BY DEF ProgressInv, Types, Grows
    <2>2. QED
      BY <1>1, <2>1 DEF vars
  <1>4. QED
    BY <1>1, <1>2, <1>3, CommitsGrow DEF Next

LEMMA ProgressHolds == Spec => []ProgressInv
  BY ProgressInit, ProgressStep, PTL DEF Spec

(* The types of the state; what is left to run is the end of what the      *)
(* endpoint runs, and an answer without an error is complete.              *)
THEOREM TypeCorrect == Spec => []TypeOK
  <1>1. ASSUME ProgressInv, NEW r \in Requests
        PROVE  /\ IsSuffix(todo[r], Statements(query[r].endpoint))
               /\ status[r] = "running" <=> todo[r] # <<>>
               /\ status[r] = "200" =>
                    Cardinality(DOMAIN answer[r]) = Len(Statements(query[r].endpoint))
    <2> DEFINE all == Statements(query[r].endpoint)
    <2>1. all \in Seq(StatementNames) /\ Len(all) \in Nat \ {0}
      BY <1>1, QueryType, StatementsType
    <2>2. Progress(r)
      BY <1>1 DEF ProgressInv
    <2>3. Cardinality({NameOf(all[i]) : i \in 1..Len(all)}) = Len(all)
      BY <1>1, QueryType, AllNamed
    <2> HIDE DEF all
    <2>4. CASE todo[r] = <<>> /\ status[r] \in {"none", "500"} \cup Turned
      <3>1. From(all, Len(all)) = <<>> /\ IsSuffix(From(all, Len(all)), all)
        BY <2>1, RestOfList
      <3>2. QED
        BY <2>4, <3>1 DEF all, Turned
    <2>5. ASSUME status[r] \in {"running", "200"}, NEW k \in 0..Len(all),
                 todo[r] = From(all, k),
                 DOMAIN answer[r] = {NameOf(all[i]) : i \in 1..k},
                 status[r] = "200" <=> k = Len(all)
          PROVE  /\ IsSuffix(todo[r], all)
                 /\ status[r] = "running" <=> todo[r] # <<>>
                 /\ status[r] = "200" => Cardinality(DOMAIN answer[r]) = Len(all)
      <3>1. From(all, k) = <<>> <=> k = Len(all)
        BY <2>1, <2>5, RestOfList
      <3>2. IsSuffix(From(all, k), all)
        BY <2>1, <2>5, RestOfList
      <3>3. status[r] = "running" <=> status[r] # "200"
        BY <2>5
      <3>4. status[r] = "200" => Cardinality(DOMAIN answer[r]) = Len(all)
        BY <2>3, <2>5
      <3>5. QED
        BY <2>5, <3>1, <3>2, <3>3, <3>4
    <2>6. QED
      BY <2>2, <2>4, <2>5 DEF Progress, all
  <1>2. ASSUME ProgressInv PROVE TypeOK
    <2>1. status \in [Requests -> {"none", "running", "200", "400", "401", "403", "500"}]
      BY <1>2 DEF ProgressInv, Types, Progress, Turned
    <2>2. /\ db \in [transactions : SUBSET Transactions, assessments : SUBSET Events]
          /\ {TransactionOf[e] : e \in db.assessments} \subseteq db.transactions
          /\ query \in Sessions
      BY <1>2 DEF ProgressInv, Types, Databases
    <2>3. \A r \in Requests : \A d \in {asked[r], answered[r]} :
             d.transactions \subseteq db.transactions /\ d.assessments \subseteq db.assessments
      BY <1>2 DEF ProgressInv, Histories, Grows
    <2>4. QED
      BY <1>1, <1>2, <2>1, <2>2, <2>3 DEF TypeOK
  <1>3. QED
    BY <1>2, ProgressHolds, PTL

(* Data goes to those who present a valid token with a reader's role,      *)
(* whatever other names it carries, and these are never turned away: a     *)
(* request that has read anything was admitted, and one that was turned    *)
(* away by require_roles was not a reader's.                               *)
THEOREM ReadersAnswered == Spec => []OnlyReadersAreAnswered
  <1>1. ASSUME ProgressInv, NEW r \in Requests
        PROVE  LET c == query[r].credentials
                   Reader == /\ c.scheme = "bearer" /\ c.token = "valid"
                             /\ "admin" \in c.roles \/ "analyst" \in c.roles
               IN  /\ answer[r] # <<>> \/ status[r] \in {"200", "400"} => Reader
                   /\ status[r] \in {"401", "403"} => ~Reader
    <2> DEFINE c == query[r].credentials
               Reader == /\ c.scheme = "bearer" /\ c.token = "valid"
                         /\ "admin" \in c.roles \/ "analyst" \in c.roles
               code == Authorize(c, Readers)
    <2>1. code = "200" <=> Reader
      <3>1. c.token \in Tokens
        BY <1>1, QueryType DEF Queries, Credentials
      <3>2. Authenticate(c) = "200" <=> c.scheme = "bearer" /\ c.token = "valid"
        BY <3>1 DEF Authenticate, Tokens
      <3>3. Readers \cap UserRoles(c) # {} <=> "admin" \in c.roles \/ "analyst" \in c.roles
        BY DEF Readers, UserRoles, RoleEnum
      <3> HIDE DEF c
      <3>4. QED
        BY <3>2, <3>3 DEF Authorize
    <2>2. code \in {"200", "401", "403", "500"}
      BY DEF Authorize, Authenticate
    <2>3. Admission(query[r]) \in {"running", "400"} => code = "200"
      BY <2>2 DEF Admission
    <2>4. Admission(query[r]) \in {"401", "403"} => code # "200"
      BY DEF Admission
    <2> HIDE DEF c, Reader, code
    <2>5. Progress(r)
      BY <1>1 DEF ProgressInv
    <2>6. answer[r] # <<>> \/ status[r] \in {"200", "400"} => Reader
      BY <2>1, <2>3, <2>5 DEF Progress, Turned
    <2>7. status[r] \in {"401", "403"} => ~Reader
      BY <2>1, <2>4, <2>5 DEF Progress, Turned
    <2>8. QED
      BY <2>6, <2>7 DEF c, Reader
  <1>2. ProgressInv => OnlyReadersAreAnswered
    BY <1>1 DEF OnlyReadersAreAnswered
  <1>3. QED
    BY <1>2, ProgressHolds, PTL

-----------------------------------------------------------------------------
(* How the counts depend on the database.                                  *)

LEMMA LargerSet ==
  ASSUME NEW S, NEW T, IsFiniteSet(T), S \subseteq T
  PROVE  /\ IsFiniteSet(S)
         /\ Cardinality(S) \in Nat /\ Cardinality(T) \in Nat
         /\ Cardinality(S) <= Cardinality(T)
  <1>1. IsFiniteSet(S) /\ Cardinality(S) <= Cardinality(T)
    BY FS_Subset
  <1>2. QED
    BY <1>1, FS_CardinalityType

LEMMA FiniteDatabase ==
  ASSUME NEW d \in Databases
  PROVE  /\ IsFiniteSet(d.transactions) /\ IsFiniteSet(d.assessments)
         /\ d.transactions \subseteq Transactions /\ d.assessments \subseteq Events
         /\ None \notin d.assessments
  <1>1. d.transactions \subseteq Transactions /\ d.assessments \subseteq Events
    BY DEF Databases
  <1>2. QED
    BY <1>1, AnalyticsAssumption, FS_Subset

LEMMA JoinedFinite ==
  ASSUME NEW q, NEW d \in Databases
  PROVE  IsFiniteSet(JoinedRows(q, d))
  <1> DEFINE A == {Row(TransactionOf[e], e) : e \in d.assessments}
             U == {Row(t, None) : t \in Unassessed(d)}
             a == [e \in d.assessments |-> Row(TransactionOf[e], e)]
             u == [t \in Unassessed(d) |-> Row(t, None)]
  <1>1. IsFiniteSet(d.assessments) /\ IsFiniteSet(Unassessed(d))
    BY FiniteDatabase, FS_Subset DEF Unassessed
  <1>2. a \in Surjection(d.assessments, A) /\ u \in Surjection(Unassessed(d), U)
    BY DEF Surjection
  <1>3. IsFiniteSet(A) /\ IsFiniteSet(U)
    BY <1>1, <1>2, FS_Surjection
  <1>4. IsFiniteSet(A \cup U)
    BY <1>3, FS_Union
  <1>5. JoinedRows(q, d) \subseteq A \cup U
    BY DEF JoinedRows
  <1>6. QED
    BY <1>4, <1>5, FS_Subset

(* The rows of the outer join are never fewer in a later database, though  *)
(* the row of a transaction without an assessment may be gone: the first   *)
(* assessment of the transaction has a row in its place, which the filters *)
(* that let through the NULLs let through too.                             *)
LEMMA JoinedGrow ==
  ASSUME NEW q, NEW d \in Databases, NEW later \in Databases, Grows(d, later)
  PROVE  Cardinality(JoinedRows(q, d)) <= Cardinality(JoinedRows(q, later))
  <1> DEFINE J == JoinedRows(q, d)
             K == JoinedRows(q, later)
             First(t) == CHOOSE e \in later.assessments : TransactionOf[e] = t
             f == [row \in J |-> IF row \in K THEN row
                                 ELSE Row(row.transaction, First(row.transaction))]
  <1>1. ASSUME NEW t, NEW e PROVE Row(t, e).transaction = t /\ Row(t, e).assessment = e
    BY DEF Row
  <1>2. ASSUME NEW row \in J, row \notin K
        PROVE  \E t \in Unassessed(d) :
                 /\ row = Row(t, None)
                 /\ First(t) \in later.assessments /\ TransactionOf[First(t)] = t
                 /\ Row(t, First(t)) \in K
    <2>1. TransactionMatches(q, row.transaction) /\ AssessmentMatches(q, row.assessment)
      BY DEF JoinedRows
    <2>2. PICK t \in Unassessed(d) : row = Row(t, None)
      <3>1. ASSUME NEW e \in d.assessments, row = Row(TransactionOf[e], e) PROVE FALSE
        BY <1>2, <2>1, <3>1 DEF JoinedRows, Grows
      <3>2. QED
        BY <3>1 DEF JoinedRows
    <2>3. TransactionMatches(q, t) /\ q.risk_level = None /\ q.decision = None
      BY <1>1, <2>1, <2>2 DEF AssessmentMatches
    <2>4. t \notin Unassessed(later)
      BY <1>2, <2>1, <2>2 DEF JoinedRows
    <2>5. \E e \in later.assessments : TransactionOf[e] = t
      BY <2>4 DEF Unassessed, Grows
    <2>6. First(t) \in later.assessments /\ TransactionOf[First(t)] = t
      BY <2>5
    <2> HIDE DEF First
    <2>7. Row(t, First(t)) \in K
      BY <1>1, <2>3, <2>6 DEF JoinedRows, AssessmentMatches
    <2>8. QED
      BY <2>2, <2>6, <2>7
  <1> HIDE DEF K, First
  <1>3. \A row \in J : f[row] \in K
    BY <1>1, <1>2
  <1>4. ASSUME NEW a \in J, NEW b \in J, f[a] = f[b] PROVE a = b
    <2>1. ASSUME NEW row \in J, NEW other \in J, row \in K, other \notin K, f[row] = f[other]
          PROVE  FALSE
      <3>1. PICK t \in Unassessed(d) :
               /\ other = Row(t, None)
               /\ First(t) \in later.assessments /\ TransactionOf[First(t)] = t
        BY <1>2, <2>1
      <3>2. row = Row(t, First(t))
        BY <1>1, <2>1, <3>1
      <3>3. First(t) # None
        BY <3>1, FiniteDatabase
      <3>4. \E e \in d.assessments : row = Row(TransactionOf[e], e)
        BY <1>1, <3>2, <3>3 DEF JoinedRows
      <3>5. First(t) \in d.assessments
        <4>1. PICK e \in d.assessments : row = Row(TransactionOf[e], e)
          BY <3>4
        <4>2. row.assessment = e
          BY <1>1, <4>1
        <4>3. row.assessment = First(t)
          BY <1>1, <3>2
        <4>4. QED
          BY <4>2, <4>3
      <3>6. QED
        BY <3>1, <3>5 DEF Unassessed
    <2>2. CASE a \in K /\ b \in K
      BY <1>4, <2>2
    <2>3. CASE a \notin K /\ b \notin K
      <3>1. PICK t \in Unassessed(d) : a = Row(t, None)
        BY <1>2, <2>3
      <3>2. PICK v \in Unassessed(d) : b = Row(v, None)
        BY <1>2, <2>3
      <3>3. Row(t, First(t)) = Row(v, First(v))
        <4>1. a.transaction = t /\ b.transaction = v
          BY <1>1, <3>1, <3>2
        <4>2. f[a] = Row(a.transaction, First(a.transaction))
          BY <1>4, <2>3
        <4>3. f[b] = Row(b.transaction, First(b.transaction))
          BY <1>4, <2>3
        <4> HIDE DEF f
        <4>4. QED
          BY <1>4, <4>1, <4>2, <4>3
      <3>4. t = v
        BY <1>1, <3>3
      <3>5. QED
        BY <3>1, <3>2, <3>4
    <2>4. QED
      BY <1>4, <2>1, <2>2, <2>3
  <1>5. f \in Injection(J, K)
    <2>1. f \in [J -> K]
      BY <1>3
    <2> HIDE DEF f, J
    <2>2. QED
      BY <1>4, <2>1 DEF Injection, IsInjective
  <1>6. IsFiniteSet(K)
    BY JoinedFinite DEF K
  <1>7. QED
    BY <1>5, <1>6, FS_Injection DEF K

LEMMA CountedGrows ==
  ASSUME NEW q, NEW name \in Totals, NEW d \in Databases, NEW later \in Databases,
         Grows(d, later)
  PROVE  /\ Counted(q, name, d) \in Nat /\ Counted(q, name, later) \in Nat
         /\ Counted(q, name, d) <= Counted(q, name, later)
  <1> DEFINE T(x) == {t \in x.transactions : TransactionMatches(q, t)}
  <1>1. IsFiniteSet(T(later)) /\ T(d) \subseteq T(later)
    BY FiniteDatabase, FS_Subset DEF Grows
  <1>2. IsFiniteSet(AssessedRows(q, later)) /\ AssessedRows(q, d) \subseteq AssessedRows(q, later)
    BY FiniteDatabase, FS_Subset DEF Grows, AssessedRows
  <1>3. ASSUME NEW level
        PROVE  /\ IsFiniteSet(OfLevel(AssessedRows(q, later), level))
               /\ OfLevel(AssessedRows(q, d), level) \subseteq OfLevel(AssessedRows(q, later), level)
    BY <1>2, FS_Subset DEF OfLevel
  <1>4. CASE name = "total_transactions"
    <2>1. Counted(q, name, d) = Cardinality(T(d)) /\ Counted(q, name, later) = Cardinality(T(later))
      BY <1>4 DEF Counted, Levels
    <2> HIDE DEF T
    <2>2. QED
      BY <1>1, <2>1, LargerSet
  <1>5. CASE name = "total_assessed"
    <2>1. /\ Counted(q, name, d) = Cardinality(AssessedRows(q, d))
          /\ Counted(q, name, later) = Cardinality(AssessedRows(q, later))
      BY <1>5 DEF Counted, Levels
    <2>2. QED
      BY <1>2, <2>1, LargerSet
  <1>6. CASE name \in Levels
    <2>1. /\ Counted(q, name, d) = Cardinality(OfLevel(AssessedRows(q, d), name))
          /\ Counted(q, name, later) = Cardinality(OfLevel(AssessedRows(q, later), name))
      BY <1>6 DEF Counted, Levels
    <2>2. QED
      BY <1>3, <2>1, LargerSet
  <1>7. CASE name = "total"
    <2>1. /\ Counted(q, name, d) = Cardinality(JoinedRows(q, d))
          /\ Counted(q, name, later) = Cardinality(JoinedRows(q, later))
      BY <1>7 DEF Counted, Levels
    <2>2. QED
      BY <2>1, JoinedGrow, JoinedFinite, FS_CardinalityType
  <1>8. QED
    BY <1>4, <1>5, <1>6, <1>7 DEF Totals

(* Only the filters of a query matter to what is counted.                  *)
LEMMA SameFilters ==
  ASSUME NEW q, NEW p, Filters(q) = Filters(p), NEW name \in Totals, NEW d
  PROVE  Counted(q, name, d) = Counted(p, name, d)
  <1>1. /\ q.start_date = p.start_date /\ q.end_date = p.end_date
        /\ q.risk_level = p.risk_level /\ q.decision = p.decision
        /\ q.merchant_category = p.merchant_category /\ q.external_id = p.external_id
    BY DEF Filters
  <1>2. \A t : TransactionMatches(q, t) <=> TransactionMatches(p, t)
    BY <1>1 DEF TransactionMatches
  <1>3. \A e : AssessmentMatches(q, e) <=> AssessmentMatches(p, e)
    BY <1>1 DEF AssessmentMatches
  <1>4. {t \in d.transactions : TransactionMatches(q, t)}
          = {t \in d.transactions : TransactionMatches(p, t)}
    BY <1>2
  <1>5. AssessedRows(q, d) = AssessedRows(p, d)
    BY <1>2, <1>3 DEF AssessedRows
  <1>6. JoinedRows(q, d) = JoinedRows(p, d)
    BY <1>2, <1>3 DEF JoinedRows
  <1>7. QED
    BY <1>4, <1>5, <1>6 DEF Counted

-----------------------------------------------------------------------------
(* Every number in an answer is a count of one database, which the request *)
(* met after it came in; the parts of a summary are counts of later ones   *)
(* than its total. Pages and groups are of the last.                       *)

Seen(r, seen) ==
  \A name \in Totals \cap DOMAIN answer[r] :
    /\ answer[r][name] = Counted(query[r], name, seen[name])
    /\ Grows(asked[r], seen[name]) /\ Grows(seen[name], Now(r))
    /\ name \in Levels => /\ "total_assessed" \in DOMAIN answer[r]
                          /\ Grows(seen["total_assessed"], seen[name])

Snapshots(r) == \E seen \in [Totals -> Databases] : Seen(r, seen)

LastRead(r) ==
  \A name \in LastNames \cap DOMAIN answer[r] :
    status[r] = "200" /\ LastValue(query[r], answered[r], name, answer[r][name])

SnapshotInv == ProgressInv /\ \A r \in Requests : Snapshots(r) /\ LastRead(r)

LastStatements == {"items", "risk_distribution", "volume_by_day"}

LEMMA LastNamed ==
  ASSUME NEW statement \in StatementNames
  PROVE  NameOf(statement) \in LastNames <=> statement \in LastStatements
  BY DEF NameOf, LastNames, LastStatements, StatementNames, Totals, Levels

LEMMA StatementOrder ==
  ASSUME NEW endpoint \in Endpoints, NEW k \in 0..(Len(Statements(endpoint)) - 1)
  PROVE  LET all == Statements(endpoint)
             names == {NameOf(all[i]) : i \in 1..k}
         IN  /\ all[k + 1] \in Levels => "total_assessed" \in names
             /\ all[k + 1] = "total_assessed" => names \cap Levels = {}
             /\ all[k + 1] \in LastStatements => k + 1 = Len(all)
  <1> DEFINE all == Statements(endpoint)
             names == {NameOf(all[i]) : i \in 1..k}
  <1>1. CASE endpoint = "summary"
    <2>1. all = <<"total_transactions", "total_assessed", "low", "medium", "high">>
      BY <1>1 DEF Statements
    <2>2. k = 0 \/ k = 1 \/ k = 2 \/ k = 3 \/ k = 4
      BY <2>1
    <2>3. CASE k = 0
      BY <2>1, <2>3 DEF Levels, LastStatements
    <2>4. CASE k = 1
      <3>1. names = {"total_transactions"} /\ all[k + 1] = "total_assessed"
        BY <2>1, <2>4 DEF NameOf
      <3>2. QED
        BY <3>1 DEF Levels, LastStatements
    <2>5. CASE k \in {2, 3, 4}
      <3>1. all[k + 1] \in Levels
        BY <2>1, <2>5 DEF Levels
      <3>2. 2 \in 1..k /\ NameOf(all[2]) = "total_assessed"
        BY <2>1, <2>5 DEF NameOf
      <3>3. "total_assessed" \in names
        BY <3>2
      <3>4. QED
        BY <3>1, <3>3 DEF Levels, LastStatements
    <2>6. QED
      BY <2>2, <2>3, <2>4, <2>5
  <1>2. CASE endpoint = "search"
    <2>1. all = <<"total", "items">>
      BY <1>2 DEF Statements
    <2>2. Len(all) = 2 /\ (k = 0 \/ k = 1)
      BY <2>1
    <2>3. all[k + 1] = "total" \/ (all[k + 1] = "items" /\ k + 1 = Len(all))
      BY <2>1, <2>2
    <2>4. QED
      BY <2>3 DEF Levels, LastStatements
  <1>3. CASE endpoint \notin {"summary", "search"}
    <2>1. all = <<endpoint>>
      BY <1>3 DEF Statements
    <2>2. all[k + 1] = endpoint /\ k + 1 = Len(all)
      BY <2>1
    <2>3. QED
      BY <1>3, <2>2 DEF Levels, Endpoints
  <1>4. QED
    BY <1>1, <1>2, <1>3

LEMMA GrowsTransitive ==
  ASSUME NEW a, NEW b, NEW c, Grows(a, b), Grows(b, c)
  PROVE  Grows(a, c)
  BY DEF Grows

LEMMA SnapshotInit == Init => SnapshotInv
  <1> SUFFICES ASSUME Init PROVE SnapshotInv
    OBVIOUS
  <1>1. ProgressInv
    BY ProgressInit
  <1>2. ASSUME NEW r \in Requests PROVE Snapshots(r) /\ LastRead(r)
    <2> DEFINE seen == [name \in Totals |-> db]
    <2>1. DOMAIN answer[r] = {}
      BY DEF Init
    <2>2. seen \in [Totals -> Databases]
      BY <1>1 DEF ProgressInv, Types
    <2> HIDE DEF seen
    <2>3. Seen(r, seen)
      BY <2>1 DEF Seen
    <2>4. LastRead(r)
      BY <2>1 DEF LastRead
    <2>5. QED
      BY <2>2, <2>3, <2>4 DEF Snapshots
  <1>3. QED
    BY <1>1, <1>2 DEF SnapshotInv

(* Running a statement adds the present database to those a request saw.   *)
LEMMA ReadSees ==
  ASSUME SnapshotInv, NEW r \in Requests, NEW statement \in StatementNames, NEW value,
         Runs(r, statement), Returns(r, statement, value), Read(r, NameOf(statement), value)
  PROVE  Snapshots(r)' /\ LastRead(r)'
  <1> DEFINE all == Statements(query[r].endpoint)
  <1>0. ProgressInv
    BY DEF SnapshotInv
  <1>1. PICK k \in 0..(Len(all) - 1) :
          /\ statement = all[k + 1]
          /\ DOMAIN answer[r] = {NameOf(all[i]) : i \in 1..k}
          /\ DOMAIN answer'[r] = {NameOf(all[i]) : i \in 1..(k + 1)}
          /\ status'[r] = (IF k + 1 = Len(all) THEN "200" ELSE "running")
          /\ answered'[r] = (IF k + 1 = Len(all) THEN db ELSE answered[r])
    BY <1>0, ReadEffect
  <1>2. /\ status[r] = "running"
        /\ answer'[r][NameOf(statement)] = value
        /\ \A name \in DOMAIN answer[r] :
             name # NameOf(statement) => answer'[r][name] = answer[r][name]
        /\ UNCHANGED <<asked, db, query>>
    BY <1>0, ReadEffect
  <1>3. /\ statement \in Levels => "total_assessed" \in DOMAIN answer[r]
        /\ statement = "total_assessed" => DOMAIN answer[r] \cap Levels = {}
        /\ NameOf(statement) \in LastNames => k + 1 = Len(all)
    BY <1>0, <1>1, QueryType, StatementOrder, LastNamed
  <1>4. DOMAIN answer'[r] = DOMAIN answer[r] \cup {NameOf(statement)}
    <2>1. \A i : i \in 1..(k + 1) <=> (i \in 1..k \/ i = k + 1)
      <3>1. k \in Nat
        BY <1>0, QueryType, StatementsType
      <3>2. QED
        BY <3>1
    <2>2. {NameOf(all[i]) : i \in 1..(k + 1)} = {NameOf(all[i]) : i \in 1..k} \cup {NameOf(all[k + 1])}
      BY <2>1
    <2>3. QED
      BY <1>1, <2>2
  <1> HIDE DEF all
  <1>5. Now(r) = db /\ Now(r)' = db
    BY <1>1, <1>2 DEF Now
  <1>6. db \in Databases /\ Grows(asked[r], db) /\ Grows(db, db)
    BY <1>0 DEF ProgressInv, Types, Histories, Grows
  <1>7. Snapshots(r)'
    <2>1. PICK seen \in [Totals -> Databases] : Seen(r, seen)
      BY DEF SnapshotInv, Snapshots
    <2>2. PICK now \in [Totals -> Databases] :
            \A name \in Totals : now[name] = (IF name = statement THEN db ELSE seen[name])
      <3> DEFINE f == [name \in Totals |-> IF name = statement THEN db ELSE seen[name]]
      <3>1. f \in [Totals -> Databases]
        BY <1>6
      <3>2. \A name \in Totals : f[name] = (IF name = statement THEN db ELSE seen[name])
        OBVIOUS
      <3> HIDE DEF f
      <3>3. QED
        BY <3>1, <3>2
    <2>3. \A name \in Totals : now[name] = (IF name = statement THEN db ELSE seen[name])
      BY <2>2
    <2>4. "total_assessed" \in Totals /\ Levels \subseteq Totals
      BY DEF Totals
    <2>5. \A name \in Totals : NameOf(statement) = name => statement = name
      BY DEF NameOf, Totals, Levels
    <2>6. statement \in Totals => NameOf(statement) = statement
      BY DEF NameOf, Totals, Levels
    <2>7. ASSUME NEW name \in Totals, name \in DOMAIN answer'[r]
          PROVE  /\ answer'[r][name] = Counted(query[r], name, now[name])
                 /\ Grows(asked[r], now[name]) /\ Grows(now[name], db)
                 /\ name \in Levels => /\ "total_assessed" \in DOMAIN answer'[r]
                                       /\ Grows(now["total_assessed"], now[name])
      <3>1. CASE name = statement
        <4>1. now[name] = db
          BY <2>3, <3>1
        <4>2. answer'[r][name] = Counted(query[r], name, db)
          BY <1>2, <2>6, <3>1 DEF Returns
        <4>3. ASSUME name \in Levels
              PROVE  "total_assessed" \in DOMAIN answer'[r] /\ Grows(now["total_assessed"], db)
          <5>1. "total_assessed" \in DOMAIN answer[r] /\ name # "total_assessed"
            BY <1>3, <3>1, <4>3 DEF Levels
          <5>2. now["total_assessed"] = seen["total_assessed"]
            BY <2>3, <2>4, <3>1, <5>1
          <5>3. Grows(seen["total_assessed"], db)
            BY <1>5, <2>1, <2>4, <5>1 DEF Seen
          <5>4. QED
            BY <1>4, <5>1, <5>2, <5>3
        <4>4. QED
          BY <1>6, <4>1, <4>2, <4>3
      <3>2. CASE name # statement
        <4>1. name \in DOMAIN answer[r] /\ name # NameOf(statement)
          BY <1>4, <2>5, <2>7, <3>2
        <4>2. /\ answer[r][name] = Counted(query[r], name, seen[name])
              /\ Grows(asked[r], seen[name]) /\ Grows(seen[name], db)
              /\ name \in Levels => /\ "total_assessed" \in DOMAIN answer[r]
                                    /\ Grows(seen["total_assessed"], seen[name])
          BY <1>5, <2>1, <4>1 DEF Seen
        <4>3. now[name] = seen[name] /\ answer'[r][name] = answer[r][name]
          BY <1>2, <2>3, <3>2, <4>1
        <4>4. name \in Levels => now["total_assessed"] = seen["total_assessed"]
          BY <1>3, <2>3, <2>4, <4>1
        <4>5. QED
          BY <1>4, <4>2, <4>3, <4>4
      <3>3. QED
        BY <3>1, <3>2
    <2>8. Seen(r, now)'
      BY <1>2, <1>5, <2>7 DEF Seen
    <2>9. QED
      BY <2>8 DEF Snapshots
  <1>8. LastRead(r)'
    <2>1. LastNames \cap DOMAIN answer[r] = {}
      BY <1>2 DEF SnapshotInv, LastRead
    <2>2. ASSUME NEW name \in LastNames, name \in DOMAIN answer'[r]
          PROVE  status'[r] = "200" /\ LastValue(query[r], db, name, answer'[r][name])
      <3>1. name = NameOf(statement)
        BY <1>4, <2>1, <2>2
      <3>2. status'[r] = "200" /\ answered'[r] = db
        BY <1>1, <1>3, <2>2, <3>1
      <3>3. QED
        BY <1>2, <3>1, <3>2 DEF Returns
    <2>3. ASSUME NEW name \in LastNames, name \in DOMAIN answer'[r]
          PROVE  answered'[r] = db
      BY <1>1, <1>3, <1>4, <2>1, <2>3
    <2>4. QED
      BY <1>2, <2>2, <2>3 DEF LastRead
  <1>9. QED
    BY <1>7, <1>8

LEMMA SnapshotStep == SnapshotInv /\ [Next]_vars => SnapshotInv'
  <1> SUFFICES ASSUME SnapshotInv, [Next]_vars PROVE SnapshotInv'
    OBVIOUS
  <1>1. ProgressInv /\ ProgressInv'
    BY ProgressStep DEF SnapshotInv
  <1>2. ASSUME NEW r \in Requests,
               answer'[r] = answer[r], query'[r] = query[r], asked'[r] = asked[r],
               status'[r] = status[r], answered'[r] = answered[r], Grows(Now(r), Now(r)')
        PROVE  Snapshots(r)' /\ LastRead(r)'
    <2>1. PICK seen \in [Totals -> Databases] : Seen(r, seen)
      BY DEF SnapshotInv, Snapshots
    <2>2. \A name \in Totals \cap DOMAIN answer[r] : Grows(seen[name], Now(r)')
      BY <1>2, <2>1, GrowsTransitive DEF Seen
    <2>3. Seen(r, seen)'
      BY <1>2, <2>1, <2>2 DEF Seen
    <2>4. LastRead(r)'
      BY <1>2 DEF SnapshotInv, LastRead
    <2>5. QED
      BY <2>3, <2>4 DEF Snapshots
  <1>3. ASSUME UNCHANGED <<query, status, todo, answer, asked, answered>>, Grows(db, db'),
               NEW r \in Requests
        PROVE  Snapshots(r)' /\ LastRead(r)'
    <2>1. Grows(Now(r), Now(r)')
      BY <1>3 DEF Now, Grows
    <2>2. QED
      BY <1>2, <1>3, <2>1
  <1>4. ASSUME NEW r \in Requests, DOMAIN answer'[r] = {}
        PROVE  Snapshots(r)' /\ LastRead(r)'
    <2> DEFINE seen == [name \in Totals |-> db']
    <2>1. seen \in [Totals -> Databases]
      BY <1>1 DEF ProgressInv, Types
    <2>2. ASSUME NEW now PROVE Seen(r, now)'
      BY <1>4 DEF Seen
    <2>3. LastRead(r)'
      BY <1>4 DEF LastRead
    <2> HIDE DEF seen
    <2>4. QED
      BY <2>1, <2>2, <2>3 DEF Snapshots
  <1>5. ASSUME NEW r \in Requests, Answer(r), NEW q \in Requests
        PROVE  Snapshots(q)' /\ LastRead(q)'
    <2>1. CASE q # r
      <3>1. /\ UNCHANGED <<db, query>>
            /\ status'[q] = status[q] /\ answer'[q] = answer[q]
            /\ asked'[q] = asked[q] /\ answered'[q] = answered[q]
        BY <1>1, <1>5, <2>1, AnswerLocal
      <3>2. Grows(Now(q), Now(q)')
        BY <3>1 DEF Now, Grows
      <3>3. QED
        BY <1>2, <3>1, <3>2
    <2>2. CASE q = r
      <3>1. CASE Ask(r)
        <4>1. answer'[r] = <<>>
          BY <1>1, <3>1 DEF Ask, ProgressInv, Progress
        <4>2. QED
          BY <1>4, <2>2, <4>1
      <3>2. CASE StatementFails(r)
        <4>1. answer'[r] = <<>>
          BY <1>1, <3>2 DEF StatementFails, ProgressInv, Types
        <4>2. QED
          BY <1>4, <2>2, <4>1
      <3>3. QED
        BY <1>5, <2>2, <3>1, <3>2, AnswerKinds, ReadSees
    <2>3. QED
      BY <2>1, <2>2
  <1>6. CASE UNCHANGED vars
    <2>1. Grows(db, db')
      BY <1>6 DEF vars, Grows
    <2>2. QED
      BY <1>1, <1>3, <1>6, <2>1 DEF SnapshotInv, vars
  <1>7. CASE Next
    <2>1. CASE \E r \in Requests : Answer(r)
      BY <1>1, <1>5, <2>1 DEF SnapshotInv
    <2>2. CASE \/ \E t \in Transactions : CommitTransaction(t)
               \/ \E e \in Events : CommitAssessment(e)
      BY <1>1, <1>3, <2>2, CommitsGrow DEF SnapshotInv
    <2>3. QED
      BY <1>7, <2>1, <2>2 DEF Next
  <1>8. QED
    BY <1>6, <1>7

LEMMA SnapshotHolds == Spec => []SnapshotInv
  BY SnapshotInit, SnapshotStep, PTL DEF Spec

-----------------------------------------------------------------------------
(* Asked again after an answer, an endpoint never reports fewer rows: each *)
(* number of the second answer is a count of a later database than the     *)
(* same number of the first, and no count falls as the database grows, not *)
(* even that of the outer join of search.                                  *)
THEOREM TotalsGrow == Spec => []LaterAnswersGrow
  <1>1. ASSUME SnapshotInv, NEW r \in Requests, NEW s \in Requests,
               status[r] = "200", status[s] = "200",
               query[r].endpoint = query[s].endpoint, Filters(query[r]) = Filters(query[s]),
               Grows(answered[r], asked[s]), NEW name \in Totals \cap DOMAIN answer[r]
        PROVE  answer[r][name] <= answer[s][name]
    <2>1. PICK then \in [Totals -> Databases] : Seen(r, then)
      BY <1>1 DEF SnapshotInv, Snapshots
    <2>2. PICK later \in [Totals -> Databases] : Seen(s, later)
      BY <1>1 DEF SnapshotInv, Snapshots
    <2>3. DOMAIN answer[r] = DOMAIN answer[s]
      <3>1. ASSUME NEW q \in Requests, status[q] = "200"
            PROVE  LET all == Statements(query[q].endpoint) IN
                   DOMAIN answer[q] = {NameOf(all[i]) : i \in 1..Len(all)}
        BY <1>1, <3>1 DEF SnapshotInv, ProgressInv, Progress, Turned
      <3> DEFINE names == {NameOf(Statements(query[r].endpoint)[i]) :
                             i \in 1..Len(Statements(query[r].endpoint))}
      <3>2. DOMAIN answer[r] = names
        BY <1>1, <3>1
      <3>3. DOMAIN answer[s] = names
        BY <1>1, <3>1
      <3> HIDE DEF names
      <3>4. QED
        BY <3>2, <3>3
    <2>4. answer[r][name] = Counted(query[r], name, then[name]) /\ Grows(then[name], answered[r])
      BY <1>1, <2>1 DEF Seen, Now
    <2>5. answer[s][name] = Counted(query[s], name, later[name]) /\ Grows(asked[s], later[name])
      BY <1>1, <2>2, <2>3 DEF Seen
    <2>6. Counted(query[s], name, later[name]) = Counted(query[r], name, later[name])
      BY <1>1, SameFilters
    <2>7. Grows(then[name], later[name])
      BY <1>1, <2>4, <2>5, GrowsTransitive
    <2>8. then[name] \in Databases /\ later[name] \in Databases
      OBVIOUS
    <2>9. Counted(query[r], name, then[name]) <= Counted(query[r], name, later[name])
      BY <1>1, <2>7, <2>8, CountedGrows
    <2>10. QED
      BY <2>4, <2>5, <2>6, <2>9
  <1>2. SnapshotInv => LaterAnswersGrow
    BY <1>1 DEF LaterAnswersGrow, Grows
  <1>3. QED
    BY <1>2, SnapshotHolds, PTL

(* The rows of each level make up the rows.                                *)
LEMMA LevelsPartition ==
  ASSUME NEW rows \in SUBSET Events
  PROVE  LET Part(level) == Cardinality(OfLevel(rows, level)) IN
         /\ Part("low") \in Nat /\ Part("medium") \in Nat /\ Part("high") \in Nat
         /\ Cardinality(rows) = Part("low") + Part("medium") + Part("high")
  <1> DEFINE L == OfLevel(rows, "low")
             M == OfLevel(rows, "medium")
             H == OfLevel(rows, "high")
  <1>1. IsFiniteSet(L) /\ IsFiniteSet(M) /\ IsFiniteSet(H)
    <2>1. L \subseteq Events /\ M \subseteq Events /\ H \subseteq Events
      BY DEF OfLevel
    <2>2. QED
      BY <2>1, AnalyticsAssumption, FS_Subset
  <1>2. rows = (L \cup M) \cup H
    BY AnalyticsAssumption DEF OfLevel, Levels
  <1>3. L \cap M = {} /\ (L \cup M) \cap H = {}
    BY DEF OfLevel
  <1> HIDE DEF L, M, H
  <1>4. IsFiniteSet(L \cup M) /\ Cardinality(L \cup M) = Cardinality(L) + Cardinality(M)
    <2>1. Cardinality(L) \in Nat /\ Cardinality(M) \in Nat
      BY <1>1, FS_CardinalityType
    <2>2. QED
      BY <1>1, <1>3, <2>1, FS_Union, FS_EmptySet
  <1>5. Cardinality((L \cup M) \cup H) = Cardinality(L \cup M) + Cardinality(H)
    <2> DEFINE U == L \cup M
    <2>1. IsFiniteSet(U) /\ U \cap H = {}
      BY <1>3, <1>4
    <2> HIDE DEF U
    <2>2. Cardinality(U) \in Nat /\ Cardinality(H) \in Nat
      BY <1>1, <2>1, FS_CardinalityType
    <2>3. Cardinality(U \cup H) = Cardinality(U) + Cardinality(H) - Cardinality(U \cap H)
      BY <1>1, <2>1, FS_Union
    <2>4. Cardinality(U \cup H) = Cardinality(U) + Cardinality(H)
      <3>1. Cardinality(U \cap H) = 0
        BY <2>1, FS_EmptySet
      <3>2. QED
        BY <2>2, <2>3, <3>1
    <2>5. QED
      BY <2>4 DEF U
  <1>6. Cardinality(L) \in Nat /\ Cardinality(M) \in Nat /\ Cardinality(H) \in Nat
    BY <1>1, FS_CardinalityType
  <1>7. QED
    BY <1>2, <1>4, <1>5, <1>6 DEF L, M, H

(* A level counted later than the total has all its rows of then, and      *)
(* otherwise only rows that were committed meanwhile.                      *)
LEMMA LevelCountedLater ==
  ASSUME NEW q, NEW level, NEW first \in Databases, NEW d \in Databases,
         NEW later \in Databases, NEW last \in Databases,
         Grows(first, d), Grows(d, later), Grows(later, last)
  PROVE  LET Part(rows) == Cardinality(OfLevel(rows, level)) IN
         /\ Part(AssessedRows(q, later)) \in Nat
         /\ Part(AssessedRows(q, d)) <= Part(AssessedRows(q, later))
         /\ Part(AssessedRows(q, later))
              <= Part(AssessedRows(q, d)) + Part(last.assessments \ first.assessments)
  <1> DEFINE D == OfLevel(AssessedRows(q, d), level)
             A == OfLevel(AssessedRows(q, later), level)
             N == OfLevel(last.assessments \ first.assessments, level)
  <1>1. D \subseteq A /\ A \subseteq D \cup N
    BY DEF OfLevel, AssessedRows, Grows
  <1>2. IsFiniteSet(A) /\ IsFiniteSet(D) /\ IsFiniteSet(N)
    <2>1. A \subseteq Events /\ D \subseteq Events /\ N \subseteq Events
      BY DEF OfLevel, AssessedRows, Databases
    <2>2. QED
      BY <2>1, AnalyticsAssumption, FS_Subset
  <1> HIDE DEF D, A, N
  <1>3. Cardinality(D) \in Nat /\ Cardinality(N) \in Nat /\ Cardinality(A) \in Nat
    BY <1>2, FS_CardinalityType
  <1>4. Cardinality(D) <= Cardinality(A)
    BY <1>1, <1>2, FS_Subset
  <1>5. Cardinality(A) <= Cardinality(D) + Cardinality(N)
    <2>1. IsFiniteSet(D \cup N)
      BY <1>2, FS_Union
    <2>2. Cardinality(A) <= Cardinality(D \cup N)
      BY <1>1, <2>1, FS_Subset
    <2>3. Cardinality(D \cup N) = Cardinality(D) + Cardinality(N) - Cardinality(D \cap N)
      BY <1>2, FS_Union
    <2>4. Cardinality(D \cap N) \in Nat /\ Cardinality(D \cup N) \in Nat
      BY <1>2, <2>1, FS_Subset, FS_CardinalityType
    <2>5. QED
      BY <1>3, <2>2, <2>3, <2>4
  <1>6. QED
    BY <1>3, <1>4, <1>5 DEF D, A, N

(* The parts of a summary, each counted by a statement of its own, never   *)
(* fall short of the total counted before them, and exceed it by no more   *)
(* than the assessments committed while the request was served.            *)
THEOREM SummaryConsistent == Spec => []SummaryAddsUp
  <1>1. ASSUME SnapshotInv, NEW r \in Requests, Answered(r, "summary")
        PROVE  LET parts == answer[r]["low"] + answer[r]["medium"] + answer[r]["high"]
                   new == answered[r].assessments \ asked[r].assessments
               IN  /\ parts >= answer[r]["total_assessed"]
                   /\ parts <= answer[r]["total_assessed"] + Cardinality(new)
    <2> DEFINE q == query[r]
               first == asked[r]
               last == answered[r]
               new == last.assessments \ first.assessments
    <2>1. PICK seen \in [Totals -> Databases] : Seen(r, seen)
      BY <1>1 DEF SnapshotInv, Snapshots
    <2>2. {"total_assessed"} \cup Levels \subseteq Totals \cap DOMAIN answer[r]
      <3> DEFINE all == Statements(query[r].endpoint)
      <3>1. all = <<"total_transactions", "total_assessed", "low", "medium", "high">>
        BY <1>1 DEF Answered, Statements
      <3>2. Len(all) = 5 /\ DOMAIN answer[r] = {NameOf(all[i]) : i \in 1..Len(all)}
        BY <1>1, <3>1 DEF Answered, SnapshotInv, ProgressInv, Progress, Turned
      <3>3. /\ NameOf(all[2]) = "total_assessed" /\ NameOf(all[3]) = "low"
            /\ NameOf(all[4]) = "medium" /\ NameOf(all[5]) = "high"
        BY <3>1 DEF NameOf
      <3>4. 2 \in 1..5 /\ 3 \in 1..5 /\ 4 \in 1..5 /\ 5 \in 1..5
        OBVIOUS
      <3> HIDE DEF all
      <3>5. QED
        BY <3>2, <3>3, <3>4 DEF Totals, Levels
    <2> DEFINE d == seen["total_assessed"]
               Part(rows, level) == Cardinality(OfLevel(rows, level))
    <2>3. /\ d \in Databases /\ \A level \in Levels : seen[level] \in Databases
          /\ first \in Databases /\ last \in Databases
      BY <1>1, <2>2 DEF SnapshotInv, ProgressInv, Types
    <2>4. answer[r]["total_assessed"] = Cardinality(AssessedRows(q, d)) /\ Grows(first, d)
      BY <2>1, <2>2 DEF Seen, Counted, Levels
    <2>5. ASSUME NEW level \in Levels
          PROVE  /\ answer[r][level] = Part(AssessedRows(q, seen[level]), level)
                 /\ Grows(d, seen[level]) /\ Grows(seen[level], last)
      <3>1. answer[r][level] = Counted(q, level, seen[level])
        BY <2>1, <2>2 DEF Seen
      <3>2. Counted(q, level, seen[level]) = Part(AssessedRows(q, seen[level]), level)
        BY DEF Counted, Levels
      <3>3. Grows(d, seen[level]) /\ Grows(seen[level], last)
        BY <1>1, <2>1, <2>2 DEF Seen, Now, Answered
      <3>4. QED
        BY <3>1, <3>2, <3>3
    <2> HIDE DEF q, first, last, d
    <2>6. ASSUME NEW level \in Levels
          PROVE  /\ answer[r][level] \in Nat
                 /\ Part(AssessedRows(q, d), level) <= answer[r][level]
                 /\ answer[r][level] <= Part(AssessedRows(q, d), level) + Part(new, level)
      <3>1. /\ Part(AssessedRows(q, seen[level]), level) \in Nat
            /\ Part(AssessedRows(q, d), level) <= Part(AssessedRows(q, seen[level]), level)
            /\ Part(AssessedRows(q, seen[level]), level)
                 <= Part(AssessedRows(q, d), level)
                      + Part(last.assessments \ first.assessments, level)
        <4>1. PICK later \in Databases : later = seen[level]
          BY <2>3
        <4>2. Grows(first, d) /\ Grows(d, later) /\ Grows(later, last)
          BY <2>4, <2>5, <4>1
        <4>3. QED
          BY <2>3, <4>1, <4>2, LevelCountedLater
      <3>2. QED
        BY <2>5, <3>1
    <2>7. AssessedRows(q, d) \in SUBSET Events /\ new \in SUBSET Events
      BY <2>3 DEF AssessedRows, Databases
    <2> HIDE DEF new
    <2>8. /\ Part(AssessedRows(q, d), "low") \in Nat /\ Part(AssessedRows(q, d), "medium") \in Nat
          /\ Part(AssessedRows(q, d), "high") \in Nat
          /\ Cardinality(AssessedRows(q, d))
               = Part(AssessedRows(q, d), "low") + Part(AssessedRows(q, d), "medium")
                   + Part(AssessedRows(q, d), "high")
      BY <2>7, LevelsPartition
    <2>9. /\ Part(new, "low") \in Nat /\ Part(new, "medium") \in Nat /\ Part(new, "high") \in Nat
          /\ Cardinality(new) = Part(new, "low") + Part(new, "medium") + Part(new, "high")
      BY <2>7, LevelsPartition
    <2> HIDE DEF Part
    <2>10. "low" \in Levels /\ "medium" \in Levels /\ "high" \in Levels
      BY DEF Levels
    <2> DEFINE parts == answer[r]["low"] + answer[r]["medium"] + answer[r]["high"]
    <2>11. parts >= answer[r]["total_assessed"]
      BY <2>4, <2>6, <2>8, <2>10
    <2>12. parts <= answer[r]["total_assessed"] + Cardinality(new)
      BY <2>4, <2>6, <2>8, <2>9, <2>10
    <2>13. QED
      BY <2>11, <2>12 DEF new, first, last
  <1>2. SnapshotInv => SummaryAddsUp
    BY <1>1 DEF SummaryAddsUp
  <1>3. QED
    BY <1>2, SnapshotHolds, PTL

-----------------------------------------------------------------------------
(* Groups. Each row of a join has one level and one day, so the groups of  *)
(* a distribution and of a volume make up the rows.                        *)

LEMMA GroupsAnswered ==
  ASSUME SnapshotInv, NEW r \in Requests, NEW endpoint,
         endpoint \in {"risk_distribution", "volume_by_day"}, Answered(r, endpoint)
  PROVE  /\ query[r] \in Queries /\ answered[r] \in Databases
         /\ endpoint = "risk_distribution" =>
              answer[r]["buckets"] = BucketsOf(query[r], answered[r])
         /\ endpoint = "volume_by_day" => answer[r]["days"] = DaysOf(query[r], answered[r])
  <1> DEFINE all == Statements(query[r].endpoint)
  <1>1. all = <<endpoint>>
    BY DEF Answered, Statements
  <1>2. Len(all) = 1 /\ all[1] = endpoint
    BY <1>1
  <1>3. DOMAIN answer[r] = {NameOf(all[i]) : i \in 1..Len(all)}
    BY DEF Answered, SnapshotInv, ProgressInv, Progress, Turned
  <1> HIDE DEF all
  <1>4. NameOf(endpoint) \in DOMAIN answer[r]
    <2>1. 1 \in 1..Len(all)
      BY <1>2
    <2>2. QED
      BY <1>2, <1>3, <2>1
  <1>5. /\ endpoint = "risk_distribution" => NameOf(endpoint) = "buckets"
        /\ endpoint = "volume_by_day" => NameOf(endpoint) = "days"
    BY DEF NameOf
  <1>6. \A name \in {"buckets", "days"} \cap DOMAIN answer[r] :
          LastValue(query[r], answered[r], name, answer[r][name])
    BY DEF SnapshotInv, LastRead, LastNames
  <1>7. query[r] \in Queries /\ answered[r] \in Databases
    BY QueryType DEF SnapshotInv, ProgressInv, Types
  <1>8. QED
    BY <1>4, <1>5, <1>6, <1>7 DEF LastValue

LEMMA BucketsAddUp ==
  ASSUME NEW q, NEW d \in Databases
  PROVE  SumOf(BucketsOf(q, d)) = Cardinality(AssessedRows(q, d))
  <1> DEFINE rows == AssessedRows(q, d)
             f == BucketsOf(q, d)
             levels == {RiskLevelOf[e] : e \in rows}
             key == [e \in rows |-> RiskLevelOf[e]]
  <1>1. IsFiniteSet(rows)
    BY FiniteDatabase, FS_Subset DEF AssessedRows
  <1>2. key \in Surjection(rows, levels)
    BY DEF Surjection
  <1>3. DOMAIN f = levels
    BY DEF BucketsOf
  <1>4. IsFiniteSet(levels)
    BY <1>1, <1>2, FS_Surjection
  <1>5. key \in [rows -> DOMAIN f]
    BY <1>3
  <1>6. ASSUME NEW x \in DOMAIN f
        PROVE  f[x] = Cardinality({e \in rows : key[e] = x})
    <2>1. f[x] = Cardinality(OfLevel(rows, x))
      BY <1>3 DEF BucketsOf
    <2>2. OfLevel(rows, x) = {e \in rows : key[e] = x}
      BY DEF OfLevel
    <2>3. QED
      BY <2>1, <2>2
  <1> HIDE DEF f, rows, key, levels
  <1>7. Cardinality(rows) = SumFunction(f)
    <2>1. IsFiniteSet(DOMAIN f)
      BY <1>3, <1>4
    <2>2. QED
      BY <1>1, <1>5, <1>6, <2>1, GroupsAddUp
  <1>8. QED
    BY <1>7 DEF SumOf, f, rows

(* The rows of an outer join that have an assessment are those of the      *)
(* inner join.                                                             *)
LEMMA AssessedJoined ==
  ASSUME NEW q, NEW d \in Databases
  PROVE  LET rows == {row \in JoinedRows(q, d) : row.assessment # None} IN
         IsFiniteSet(rows) /\ Cardinality(rows) = Cardinality(AssessedRows(q, d))
  <1> DEFINE rows == {row \in JoinedRows(q, d) : row.assessment # None}
             A == AssessedRows(q, d)
             m == [e \in A |-> Row(TransactionOf[e], e)]
  <1>1. IsFiniteSet(A)
    BY FiniteDatabase, FS_Subset DEF AssessedRows
  <1>2. ASSUME NEW e \in A
        PROVE  /\ m[e] \in rows /\ m[e].assessment = e
    BY FiniteDatabase DEF AssessedRows, JoinedRows, Row
  <1>3. ASSUME NEW row \in rows PROVE \E e \in A : m[e] = row
    <2>1. PICK e \in d.assessments : row = Row(TransactionOf[e], e)
      BY DEF JoinedRows, Row
    <2>2. e \in A
      BY <2>1 DEF AssessedRows, JoinedRows, Row
    <2>3. QED
      BY <2>1, <2>2
  <1>4. m \in [A -> rows]
    BY <1>2
  <1> HIDE DEF m, rows, A
  <1>5. m \in Surjection(A, rows) /\ m \in Injection(A, rows)
    BY <1>2, <1>3, <1>4 DEF Surjection, Injection, IsInjective
  <1>6. IsFiniteSet(rows) /\ Cardinality(rows) = Cardinality(A)
    BY <1>1, <1>5, FS_Surjection
  <1>7. QED
    BY <1>6 DEF rows, A

LEMMA DaysAddUp ==
  ASSUME NEW q, NEW d \in Databases
  PROVE  LET days == DaysOf(q, d) IN
         SumOf([day \in DOMAIN days |-> days[day].assessed_count])
           = Cardinality(AssessedRows(q, d))
  <1> DEFINE joined == JoinedRows(q, d)
             rows == {row \in joined : row.assessment # None}
             days == DaysOf(q, d)
             D == {DayOfRow(row) : row \in joined}
             f == [day \in DOMAIN days |-> days[day].assessed_count]
             key == [row \in rows |-> DayOfRow(row)]
             all == [row \in joined |-> DayOfRow(row)]
  <1>1. IsFiniteSet(joined) /\ IsFiniteSet(rows)
    BY JoinedFinite, FS_Subset
  <1>2. all \in Surjection(joined, D)
    BY DEF Surjection
  <1>3. DOMAIN days = D /\ DOMAIN f = D
    BY DEF DaysOf
  <1>4. IsFiniteSet(D)
    BY <1>1, <1>2, FS_Surjection
  <1>5. key \in [rows -> DOMAIN f]
    BY <1>3
  <1>6. ASSUME NEW x \in DOMAIN f
        PROVE  f[x] = Cardinality({row \in rows : key[row] = x})
    <2> DEFINE On == {row \in joined : DayOfRow(row) = x}
    <2>1. f[x] = Cardinality({row \in On : row.assessment # None})
      BY <1>3 DEF DaysOf
    <2>2. {row \in On : row.assessment # None} = {row \in rows : key[row] = x}
      OBVIOUS
    <2>3. QED
      BY <2>1, <2>2
  <1> HIDE DEF f, key, rows, D
  <1>7. Cardinality(rows) = SumFunction(f)
    <2>1. IsFiniteSet(DOMAIN f)
      BY <1>3, <1>4
    <2>2. QED
      BY <1>1, <1>5, <1>6, <2>1, GroupsAddUp
  <1>8. Cardinality(rows) = Cardinality(AssessedRows(q, d))
    BY AssessedJoined DEF rows
  <1>9. QED
    BY <1>7, <1>8 DEF SumOf, f

(* The total of a summary during which nothing was written.                *)
LEMMA SummaryCounted ==
  ASSUME SnapshotInv, NEW r \in Requests, Answered(r, "summary"), asked[r] = answered[r]
  PROVE  answer[r]["total_assessed"] = Cardinality(AssessedRows(query[r], answered[r]))
  <1> DEFINE all == Statements(query[r].endpoint)
  <1>1. all = <<"total_transactions", "total_assessed", "low", "medium", "high">>
    BY DEF Answered, Statements
  <1>2. Len(all) = 5 /\ DOMAIN answer[r] = {NameOf(all[i]) : i \in 1..Len(all)}
    BY <1>1 DEF Answered, SnapshotInv, ProgressInv, Progress, Turned
  <1>3. NameOf(all[2]) = "total_assessed" /\ 2 \in 1..5
    BY <1>1 DEF NameOf
  <1> HIDE DEF all
  <1>4. "total_assessed" \in Totals \cap DOMAIN answer[r]
    BY <1>2, <1>3 DEF Totals
  <1>5. PICK seen \in [Totals -> Databases] : Seen(r, seen)
    BY DEF SnapshotInv, Snapshots
  <1> DEFINE d == seen["total_assessed"]
  <1>6. /\ answer[r]["total_assessed"] = Counted(query[r], "total_assessed", d)
        /\ Grows(asked[r], d) /\ Grows(d, answered[r])
    BY <1>4, <1>5 DEF Seen, Now, Answered
  <1>7. d.assessments = answered[r].assessments
    BY <1>6 DEF Grows
  <1>8. Counted(query[r], "total_assessed", d) = Cardinality(AssessedRows(query[r], d))
    BY DEF Counted, Levels
  <1>9. AssessedRows(query[r], d) = AssessedRows(query[r], answered[r])
    BY <1>7 DEF AssessedRows
  <1>10. QED
    BY <1>6, <1>8, <1>9

(* Endpoints asked with the same filters, while nothing is written, count  *)
(* the same assessments: a summary, the levels of a distribution and the   *)
(* days of a volume all amount to the rows of one join, although each      *)
(* endpoint has its own, and that of the volume is an outer one.           *)
THEOREM EndpointsConsistent == Spec => []EndpointsAgree
  <1>1. ASSUME SnapshotInv, NEW r \in Requests, TellsAssessed(r), asked[r] = answered[r]
        PROVE  AssessedTold(r) = Counted(query[r], "total_assessed", answered[r])
    <2> DEFINE rows == AssessedRows(query[r], answered[r])
    <2>1. Counted(query[r], "total_assessed", answered[r]) = Cardinality(rows)
      BY DEF Counted, Levels
    <2>2. CASE query[r].endpoint = "summary"
      <3>1. answer[r]["total_assessed"] = Cardinality(rows)
        BY <1>1, <2>2, SummaryCounted DEF TellsAssessed, Answered
      <3>2. QED
        BY <2>1, <2>2, <3>1 DEF AssessedTold
    <2>3. CASE query[r].endpoint = "risk_distribution"
      <3>1. /\ answer[r]["buckets"] = BucketsOf(query[r], answered[r])
            /\ answered[r] \in Databases
        BY <1>1, <2>3, GroupsAnswered DEF TellsAssessed, Answered
      <3>2. SumOf(answer[r]["buckets"]) = Cardinality(rows)
        BY <3>1, BucketsAddUp
      <3>3. QED
        BY <2>1, <2>3, <3>2 DEF AssessedTold
    <2>4. CASE query[r].endpoint = "volume_by_day"
      <3> DEFINE days == answer[r]["days"]
      <3>1. days = DaysOf(query[r], answered[r]) /\ answered[r] \in Databases
        BY <1>1, <2>4, GroupsAnswered DEF TellsAssessed, Answered
      <3>2. SumOf([day \in DOMAIN days |-> days[day].assessed_count]) = Cardinality(rows)
        BY <3>1, DaysAddUp
      <3>3. QED
        BY <2>1, <2>4, <3>2 DEF AssessedTold
    <2>5. QED
      BY <1>1, <2>2, <2>3, <2>4 DEF TellsAssessed
  <1>2. ASSUME SnapshotInv, NEW r \in Requests, NEW s \in Requests,
               TellsAssessed(r), TellsAssessed(s), Filters(query[r]) = Filters(query[s]),
               asked[r] = answered[r], answered[r] = asked[s], asked[s] = answered[s]
        PROVE  AssessedTold(r) = AssessedTold(s)
    <2>1. /\ AssessedTold(r) = Counted(query[r], "total_assessed", answered[r])
          /\ AssessedTold(s) = Counted(query[s], "total_assessed", answered[r])
      BY <1>1, <1>2
    <2>2. "total_assessed" \in Totals
      BY DEF Totals
    <2>3. QED
      BY <1>2, <2>1, <2>2, SameFilters
  <1>3. SnapshotInv => EndpointsAgree
    BY <1>2 DEF EndpointsAgree
  <1>4. QED
    BY <1>3, SnapshotHolds, PTL

(* The rows of a transaction in an outer join: one for each assessment the *)
(* filters let through; one without an assessment, if it has none and no   *)
(* filter asks for one.                                                    *)
RowsOf(q, d, t) == {row \in JoinedRows(q, d) : row.transaction = t}

LEMMA RowsOfTransaction ==
  ASSUME NEW q, NEW d \in Databases, NEW t \in Wanted(q, d)
  PROVE  LET n == Cardinality(AssessmentsOf(q, d, t)) IN
         n \in Nat /\ Cardinality(RowsOf(q, d, t)) = 1 + (IF n > 1 THEN n - 1 ELSE 0)
  <1> DEFINE A == AssessmentsOf(q, d, t)
             rows == RowsOf(q, d, t)
             m == [e \in A |-> Row(t, e)]
  <1>1. IsFiniteSet(A) /\ Cardinality(A) \in Nat /\ (Cardinality(A) = 0 <=> A = {})
    BY FiniteDatabase, FS_Subset, FS_CardinalityType, FS_EmptySet DEF AssessmentsOf
  <1>2. /\ t \in d.transactions /\ TransactionMatches(q, t)
        /\ (q.risk_level = None /\ q.decision = None) \/ A # {}
    BY DEF Wanted
  <1>3. CASE t \in Unassessed(d)
    <2>1. A = {}
      BY <1>3 DEF AssessmentsOf, Unassessed
    <2>2. AssessmentMatches(q, None)
      BY <1>2, <2>1 DEF AssessmentMatches
    <2>3. rows = {Row(t, None)}
      <3>1. ASSUME NEW row \in rows PROVE row = Row(t, None)
        BY <1>3 DEF RowsOf, JoinedRows, Row, Unassessed
      <3>2. Row(t, None) \in rows
        BY <1>2, <1>3, <2>2 DEF RowsOf, JoinedRows, Row
      <3>3. QED
        BY <3>1, <3>2
    <2> HIDE DEF A, rows
    <2>4. Cardinality(rows) = 1 /\ Cardinality(A) = 0
      BY <1>1, <2>1, <2>3, FS_Singleton
    <2>5. QED
      BY <2>4 DEF A, rows
  <1>4. CASE t \notin Unassessed(d)
    <2>1. A # {}
      <3>1. PICK e \in d.assessments : TransactionOf[e] = t
        BY <1>2, <1>4 DEF Unassessed
      <3>2. CASE q.risk_level = None /\ q.decision = None
        BY <3>1, <3>2 DEF AssessmentsOf, AssessmentMatches
      <3>3. QED
        BY <1>2, <3>2
    <2>2. ASSUME NEW e \in A PROVE m[e] \in rows /\ m[e].assessment = e
      BY <1>2 DEF AssessmentsOf, RowsOf, JoinedRows, Row
    <2>3. ASSUME NEW row \in rows PROVE \E e \in A : m[e] = row
      <3>1. PICK e \in d.assessments : row = Row(TransactionOf[e], e) /\ TransactionOf[e] = t
        BY <1>4 DEF RowsOf, JoinedRows, Row
      <3>2. e \in A
        BY <3>1 DEF AssessmentsOf, RowsOf, JoinedRows, Row
      <3>3. QED
        BY <3>1, <3>2
    <2>4. m \in [A -> rows]
      BY <2>2
    <2> HIDE DEF m, rows, A
    <2>5. m \in Surjection(A, rows) /\ m \in Injection(A, rows)
      BY <2>2, <2>3, <2>4 DEF Surjection, Injection, IsInjective
    <2>6. Cardinality(rows) = Cardinality(A)
      BY <1>1, <2>5, FS_Surjection
    <2>7. QED
      BY <1>1, <2>1, <2>6 DEF rows, A
  <1>5. QED
    BY <1>3, <1>4

(* The transactions in an outer join are those a volume is about.          *)
LEMMA JoinedWanted ==
  ASSUME NEW q, NEW d \in Databases
  PROVE  {row.transaction : row \in JoinedRows(q, d)} = Wanted(q, d)
  <1>1. ASSUME NEW row \in JoinedRows(q, d) PROVE row.transaction \in Wanted(q, d)
    <2>1. CASE \E e \in d.assessments : row = Row(TransactionOf[e], e)
      <3>1. PICK e \in d.assessments : row = Row(TransactionOf[e], e)
        BY <2>1
      <3>2. e \in AssessmentsOf(q, d, row.transaction) /\ TransactionMatches(q, row.transaction)
        BY <3>1 DEF AssessmentsOf, JoinedRows, Row
      <3>3. row.transaction \in d.transactions
        BY <3>1 DEF Databases, Row
      <3>4. QED
        BY <3>2, <3>3 DEF Wanted
    <2>2. CASE \E t \in Unassessed(d) : row = Row(t, None)
      <3>1. PICK t \in Unassessed(d) : row = Row(t, None)
        BY <2>2
      <3>2. /\ row.transaction \in d.transactions /\ TransactionMatches(q, row.transaction)
            /\ AssessmentMatches(q, None)
        BY <3>1 DEF Unassessed, JoinedRows, Row
      <3>3. QED
        BY <3>2 DEF Wanted, AssessmentMatches
    <2>3. QED
      BY <2>1, <2>2 DEF JoinedRows
  <1>2. ASSUME NEW t \in Wanted(q, d) PROVE \E row \in JoinedRows(q, d) : row.transaction = t
    <2> DEFINE n == Cardinality(AssessmentsOf(q, d, t))
    <2>1. n \in Nat /\ Cardinality(RowsOf(q, d, t)) = 1 + (IF n > 1 THEN n - 1 ELSE 0)
      BY RowsOfTransaction
    <2> HIDE DEF n
    <2>2. Cardinality(RowsOf(q, d, t)) # 0
      BY <2>1
    <2>3. RowsOf(q, d, t) # {}
      BY <2>2, FS_EmptySet
    <2>4. QED
      BY <2>3 DEF RowsOf
  <1>3. QED
    BY <1>1, <1>2

(* The volume of a day counts each of its transactions once, and once more *)
(* for every assessment of it after the first: its rows fall into groups,  *)
(* one for each transaction that is asked for.                             *)
THEOREM VolumesCountReassessments == Spec => []VolumeCountsReassessments
  <1>1. ASSUME SnapshotInv, NEW r \in Requests, Answered(r, "volume_by_day")
        PROVE  LET wanted == Wanted(query[r], answered[r])
                   On(day) == {t \in wanted : DayOf[OccurredAt[t]] = day}
                   Extra(t) == LET n == Cardinality(AssessmentsOf(query[r], answered[r], t))
                               IN  IF n > 1 THEN n - 1 ELSE 0
                   days == answer[r]["days"]
               IN  /\ DOMAIN days = {DayOf[OccurredAt[t]] : t \in wanted}
                   /\ \A day \in DOMAIN days :
                        days[day].transaction_count
                          = Cardinality(On(day)) + SumOf([t \in On(day) |-> Extra(t)])
    <2> DEFINE q == query[r]
               d == answered[r]
               joined == JoinedRows(q, d)
               wanted == Wanted(q, d)
               On(day) == {t \in wanted : DayOf[OccurredAt[t]] = day}
               Extra(t) == LET n == Cardinality(AssessmentsOf(q, d, t))
                           IN  IF n > 1 THEN n - 1 ELSE 0
               days == answer[r]["days"]
    <2>1. days = DaysOf(q, d) /\ d \in Databases
      BY <1>1, GroupsAnswered
    <2> HIDE DEF q, d, days
    <2>2. {row.transaction : row \in joined} = wanted
      BY <2>1, JoinedWanted
    <2>3. \A row : DayOfRow(row) = DayOf[OccurredAt[row.transaction]]
      BY DEF DayOfRow, InstantOf
    <2>4. /\ DOMAIN days = {DayOfRow(row) : row \in joined}
          /\ \A day \in DOMAIN days :
               days[day].transaction_count = Cardinality({row \in joined : DayOfRow(row) = day})
      BY <2>1 DEF DaysOf
    <2>5. DOMAIN days = {DayOf[OccurredAt[t]] : t \in wanted}
      <3> HIDE DEF joined, wanted
      <3>1. QED
        BY <2>2, <2>3, <2>4
    <2>6. ASSUME NEW day \in DOMAIN days
          PROVE  days[day].transaction_count
                   = Cardinality(On(day)) + SumOf([t \in On(day) |-> Extra(t)])
      <3> DEFINE rows == {row \in joined : DayOfRow(row) = day}
                 f == [t \in On(day) |-> Extra(t)]
                 key == [row \in rows |-> row.transaction]
      <3>1. IsFiniteSet(rows)
        BY <2>1, JoinedFinite, FS_Subset
      <3>2. DOMAIN f = On(day)
        OBVIOUS
      <3>3. IsFiniteSet(On(day))
        BY <2>1, FiniteDatabase, FS_Subset DEF Wanted
      <3>4. key \in [rows -> On(day)]
        BY <2>2, <2>3
      <3>5. ASSUME NEW t \in On(day)
            PROVE  f[t] \in Nat /\ Cardinality({row \in rows : key[row] = t}) = 1 + f[t]
        <4> DEFINE n == Cardinality(AssessmentsOf(q, d, t))
                   group == {row \in rows : key[row] = t}
        <4>1. group = RowsOf(q, d, t)
          BY <2>3 DEF RowsOf
        <4>2. n \in Nat /\ Cardinality(RowsOf(q, d, t)) = 1 + (IF n > 1 THEN n - 1 ELSE 0)
          BY <2>1, RowsOfTransaction
        <4>3. f[t] = IF n > 1 THEN n - 1 ELSE 0
          OBVIOUS
        <4> HIDE DEF n, f, group
        <4>4. f[t] \in Nat /\ Cardinality(group) = 1 + f[t]
          BY <4>1, <4>2, <4>3
        <4>5. QED
          BY <4>4 DEF group
      <3> HIDE DEF f, key, rows, On
      <3>6. Cardinality(rows) = Cardinality(DOMAIN f) + SumFunction(f)
        <4>1. Tells(f, rows, key, 1)
          BY <3>2, <3>5 DEF Tells
        <4>2. IsFiniteSet(DOMAIN f) /\ key \in [rows -> DOMAIN f]
          BY <3>2, <3>3, <3>4
        <4>3. QED
          BY <3>1, <4>1, <4>2, RestsAddUp
      <3>7. days[day].transaction_count = Cardinality(rows)
        BY <2>4 DEF rows
      <3>8. QED
        BY <3>2, <3>6, <3>7 DEF SumOf, f
    <2>7. QED
      BY <2>5, <2>6 DEF q, d, days
  <1>2. SnapshotInv => VolumeCountsReassessments
    BY <1>1 DEF VolumeCountsReassessments
  <1>3. QED
    BY <1>2, SnapshotHolds, PTL

-----------------------------------------------------------------------------
(* Pages of a search.                                                      *)

LEMMA OrderType ==
  ASSUME NEW rows, IsFiniteSet(rows), NEW order \in Orders(rows)
  PROVE  LET n == Cardinality(rows) IN
         /\ n \in Nat /\ order \in Seq(rows) /\ Len(order) = n
         /\ order \in [1..n -> rows]
         /\ \A i, j \in 1..n : i # j => order[i] # order[j]
         /\ \A i, j \in 1..n : i < j => InstantOf(order[i]) >= InstantOf(order[j])
         /\ \A row \in rows : \E i \in 1..n : order[i] = row
  <1> DEFINE n == Cardinality(rows)
  <1>1. n \in Nat
    BY FS_CardinalityType
  <1>2. /\ order \in [1..n -> rows]
        /\ \A i, j \in 1..n : i # j => order[i] # order[j]
        /\ \A i, j \in DOMAIN order : i < j => InstantOf(order[i]) >= InstantOf(order[j])
    BY DEF Orders, SetToSeqs
  <1> HIDE DEF n
  <1>3. order \in Seq(rows) /\ Len(order) = n
    BY <1>1, <1>2
  <1>4. order \in Injection(1..n, rows)
    BY <1>2 DEF Injection, IsInjective
  <1>5. Cardinality(1..n) = n
    BY <1>1, FS_Interval
  <1>6. order \in Surjection(1..n, rows)
    BY <1>4, <1>5, FS_Injection DEF n
  <1>7. \A row \in rows : \E i \in 1..n : order[i] = row
    BY <1>6 DEF Surjection
  <1>8. QED
    BY <1>1, <1>2, <1>3, <1>7 DEF n

LEMMA OffsetType ==
  ASSUME NEW q \in Queries
  PROVE  Offset(q) \in Nat /\ q.page_size \in Nat \ {0}
  <1>1. q.page \in Nat \ {0} /\ q.page_size \in Nat \ {0}
    BY DEF Queries
  <1>2. \A a, b \in Nat : a * b \in Nat
    OBVIOUS
  <1>3. q.page - 1 \in Nat
    BY <1>1
  <1>4. QED
    BY <1>1, <1>2, <1>3 DEF Offset

(* A page holds the rows of the order from its offset on.                  *)
LEMMA PageType ==
  ASSUME NEW rows, NEW order \in Seq(rows), NEW q \in Queries
  PROVE  LET n == Len(order)
             length == Len(Page(order, q))
         IN  /\ length \in Nat /\ length <= q.page_size
             /\ length = q.page_size \/ length >= n - Offset(q)
             /\ DOMAIN Page(order, q) = 1..length
             /\ \A i \in 1..length : /\ Offset(q) + i \in 1..n
                                     /\ Page(order, q)[i] = order[Offset(q) + i]
  <1> DEFINE n == Len(order)
             o == Offset(q)
             last == IF n < o + q.page_size THEN n ELSE o + q.page_size
  <1>1. n \in Nat /\ o \in Nat /\ q.page_size \in Nat \ {0}
    BY OffsetType
  <1>2. Page(order, q) = SubSeq(order, o + 1, last)
    BY DEF Page
  <1> DEFINE size == q.page_size
             page == SubSeq(order, o + 1, last)
             length == IF o + 1 <= last THEN last - o ELSE 0
  <1> HIDE DEF o, size
  <1>3. last \in Nat /\ last <= n /\ last <= o + size
    BY <1>1 DEF size
  <1>4. Len(page) = length /\ DOMAIN page = 1..length /\ \A i \in 1..length : page[i] = order[o + i]
    <2> HIDE DEF last
    <2>1. CASE o + 1 <= last
      BY <1>1, <1>3, <2>1
    <2>2. CASE ~(o + 1 <= last)
      BY <1>1, <1>3, <2>2
    <2>3. QED
      BY <2>1, <2>2
  <1>5. length \in Nat /\ length <= size /\ (length = size \/ length >= n - o)
    BY <1>1 DEF size
  <1>6. \A i \in 1..length : o + i \in 1..n
    BY <1>1, <1>3
  <1>7. QED
    BY <1>2, <1>4, <1>5, <1>6 DEF o, size

(* What a search that was answered holds: a page of its last database, and *)
(* a total of one before.                                                  *)
LEMMA SearchAnswered ==
  ASSUME SnapshotInv, NEW r \in Requests, Answered(r, "search")
  PROVE  /\ answered[r] \in Databases /\ query[r] \in Queries
         /\ \E order \in Orders(JoinedRows(query[r], answered[r])) :
              answer[r]["items"] = Page(order, query[r])
         /\ answer[r]["total"] \in Nat
         /\ answer[r]["total"] <= Cardinality(JoinedRows(query[r], answered[r]))
  <1> DEFINE all == Statements(query[r].endpoint)
  <1>1. all = <<"total", "items">>
    BY DEF Answered, Statements
  <1>2. Len(all) = 2 /\ DOMAIN answer[r] = {NameOf(all[i]) : i \in 1..Len(all)}
    BY <1>1 DEF Answered, SnapshotInv, ProgressInv, Progress, Turned
  <1>3. NameOf(all[1]) = "total" /\ NameOf(all[2]) = "items" /\ 1 \in 1..2 /\ 2 \in 1..2
    BY <1>1 DEF NameOf
  <1> HIDE DEF all
  <1>4. "total" \in Totals \cap DOMAIN answer[r] /\ "items" \in DOMAIN answer[r]
    BY <1>2, <1>3 DEF Totals
  <1>5. answered[r] \in Databases /\ query[r] \in Queries
    BY QueryType DEF SnapshotInv, ProgressInv, Types
  <1>6. PageOf(query[r], answered[r], answer[r]["items"])
    BY <1>4 DEF SnapshotInv, LastRead, LastValue, LastNames
  <1>7. PICK seen \in [Totals -> Databases] : Seen(r, seen)
    BY DEF SnapshotInv, Snapshots
  <1>8. /\ answer[r]["total"] = Counted(query[r], "total", seen["total"])
        /\ Grows(seen["total"], answered[r]) /\ seen["total"] \in Databases
    BY <1>4, <1>7 DEF Seen, Now, Answered
  <1>9. \A d : Counted(query[r], "total", d) = Cardinality(JoinedRows(query[r], d))
    BY DEF Counted, Levels
  <1>10. /\ Counted(query[r], "total", seen["total"]) \in Nat
         /\ Counted(query[r], "total", seen["total"]) <= Counted(query[r], "total", answered[r])
    BY <1>4, <1>5, <1>8, CountedGrows
  <1>11. QED
    BY <1>5, <1>6, <1>8, <1>9, <1>10 DEF PageOf

(* A search that announces a total delivers: rows are counted before the   *)
(* page is read and never go away, so a page is full while the total says  *)
(* there is more.                                                          *)
THEOREM PagesFull == Spec => []FullPages
  <1>1. ASSUME SnapshotInv, NEW r \in Requests, Answered(r, "search")
        PROVE  LET left == answer[r]["total"] - (query[r].page - 1) * query[r].page_size
                   length == Len(answer[r]["items"])
               IN  length <= query[r].page_size /\ (length = query[r].page_size \/ length >= left)
    <2> DEFINE rows == JoinedRows(query[r], answered[r])
    <2>1. PICK order \in Orders(rows) : answer[r]["items"] = Page(order, query[r])
      BY <1>1, SearchAnswered
    <2>2. IsFiniteSet(rows) /\ query[r] \in Queries
      BY <1>1, SearchAnswered, JoinedFinite
    <2>3. answer[r]["total"] \in Nat /\ answer[r]["total"] <= Cardinality(rows)
      BY <1>1, SearchAnswered
    <2> HIDE DEF rows
    <2>4. order \in Seq(rows) /\ Len(order) = Cardinality(rows) /\ Cardinality(rows) \in Nat
      BY <2>1, <2>2, OrderType
    <2> DEFINE length == Len(answer[r]["items"])
    <2>5. /\ length \in Nat /\ length <= query[r].page_size
          /\ length = query[r].page_size \/ length >= Cardinality(rows) - Offset(query[r])
      BY <2>1, <2>2, <2>4, PageType
    <2>6. Offset(query[r]) \in Nat /\ query[r].page_size \in Nat
      BY <2>2, OffsetType
    <2> HIDE DEF length
    <2>7. length = query[r].page_size \/ length >= answer[r]["total"] - Offset(query[r])
      BY <2>3, <2>4, <2>5, <2>6
    <2>8. QED
      BY <2>5, <2>7 DEF Offset, length
  <1>2. SnapshotInv => FullPages
    BY <1>1 DEF FullPages
  <1>3. QED
    BY <1>2, SnapshotHolds, PTL

(* A set of rows that all stand at the given positions is no larger than   *)
(* the set of the positions.                                               *)
LEMMA AtPositions ==
  ASSUME NEW rows, NEW order, NEW positions, IsFiniteSet(positions),
         \A row \in rows : \E j \in positions : order[j] = row
  PROVE  IsFiniteSet(rows) /\ Cardinality(rows) <= Cardinality(positions)
  <1> DEFINE f == [row \in rows |-> CHOOSE j \in positions : order[j] = row]
  <1>1. \A row \in rows : f[row] \in positions /\ order[f[row]] = row
    OBVIOUS
  <1>2. f \in [rows -> positions]
    BY <1>1
  <1> HIDE DEF f
  <1>3. f \in Injection(rows, positions)
    BY <1>1, <1>2 DEF Injection, IsInjective
  <1>4. QED
    BY <1>3, FS_Injection

(* A row on a page stands where it belongs among the rows of the page's    *)
(* snapshot: after all that occurred later, before all that occurred       *)
(* earlier, whatever order the database gave to equals.                    *)
THEOREM PagesInPlace == Spec => []PageInPlace
  <1>1. ASSUME SnapshotInv, NEW r \in Requests, Answered(r, "search")
        PROVE  LET rows == JoinedRows(query[r], answered[r])
                   items == answer[r]["items"]
                   Newer(row) == {other \in rows : InstantOf(other) > InstantOf(row)}
                   Older(row) == {other \in rows : InstantOf(other) < InstantOf(row)}
               IN  \A i \in DOMAIN items :
                     LET rank == (query[r].page - 1) * query[r].page_size + i
                     IN  /\ items[i] \in rows
                         /\ Cardinality(Newer(items[i])) < rank
                         /\ rank <= Cardinality(rows) - Cardinality(Older(items[i]))
    <2> DEFINE rows == JoinedRows(query[r], answered[r])
               items == answer[r]["items"]
               n == Cardinality(rows)
               Newer(row) == {other \in rows : InstantOf(other) > InstantOf(row)}
               Older(row) == {other \in rows : InstantOf(other) < InstantOf(row)}
    <2>1. PICK order \in Orders(rows) : items = Page(order, query[r])
      BY <1>1, SearchAnswered
    <2>2. IsFiniteSet(rows) /\ query[r] \in Queries
      BY <1>1, SearchAnswered, JoinedFinite
    <2>3. \A row \in rows : InstantOf(row) \in Nat
      <3>1. answered[r] \in Databases
        BY <1>1, SearchAnswered
      <3>2. \A row \in rows : row.transaction \in Transactions
        BY <3>1, AnalyticsAssumption DEF JoinedRows, Unassessed, Databases, Row
      <3>3. QED
        BY <3>2, AnalyticsAssumption DEF InstantOf
    <2> HIDE DEF rows, items, n
    <2>4. /\ n \in Nat /\ order \in Seq(rows) /\ Len(order) = n
          /\ order \in [1..n -> rows]
          /\ \A a, b \in 1..n : a < b => InstantOf(order[a]) >= InstantOf(order[b])
          /\ \A row \in rows : \E j \in 1..n : order[j] = row
      BY <2>1, <2>2, OrderType DEF n
    <2>5. Offset(query[r]) \in Nat
      BY <2>2, OffsetType
    <2>6. ASSUME NEW i \in DOMAIN items
          PROVE  LET rank == Offset(query[r]) + i
                 IN  /\ items[i] \in rows
                     /\ Cardinality(Newer(items[i])) < rank
                     /\ rank <= n - Cardinality(Older(items[i]))
      <3> DEFINE rank == Offset(query[r]) + i
                 row == items[i]
      <3>1. rank \in 1..n /\ row = order[rank]
        BY <2>1, <2>2, <2>4, PageType
      <3> HIDE DEF rank, row
      <3>2. row \in rows /\ InstantOf(row) \in Nat
        BY <2>3, <2>4, <3>1
      <3>3. \A other \in Newer(row) : \E j \in 1..(rank - 1) : order[j] = other
        <4>1. SUFFICES ASSUME NEW other \in rows, InstantOf(other) > InstantOf(row)
                       PROVE  \E j \in 1..(rank - 1) : order[j] = other
          OBVIOUS
        <4>2. PICK j \in 1..n : order[j] = other
          BY <2>4
        <4>3. InstantOf(other) \in Nat
          BY <2>3
        <4>4. ~(rank < j) /\ j # rank
          BY <2>4, <3>1, <3>2, <4>1, <4>2, <4>3
        <4>5. QED
          BY <2>4, <3>1, <4>2, <4>4
      <3>4. \A other \in Older(row) : \E j \in (rank + 1)..n : order[j] = other
        <4>1. SUFFICES ASSUME NEW other \in rows, InstantOf(other) < InstantOf(row)
                       PROVE  \E j \in (rank + 1)..n : order[j] = other
          OBVIOUS
        <4>2. PICK j \in 1..n : order[j] = other
          BY <2>4
        <4>3. InstantOf(other) \in Nat
          BY <2>3
        <4>4. ~(j < rank) /\ j # rank
          BY <2>4, <3>1, <3>2, <4>1, <4>2, <4>3
        <4>5. QED
          BY <2>4, <3>1, <4>2, <4>4
      <3> DEFINE N == Newer(row)
                 O == Older(row)
      <3> HIDE DEF N, O
      <3>5. /\ IsFiniteSet(1..(rank - 1)) /\ Cardinality(1..(rank - 1)) = rank - 1
            /\ IsFiniteSet((rank + 1)..n) /\ Cardinality((rank + 1)..n) = n - rank
        <4>1. rank \in Int /\ rank - 1 \in Int /\ rank + 1 \in Int /\ n \in Int /\ 1 <= rank /\ rank <= n
          BY <2>4, <3>1
        <4>2. /\ IsFiniteSet(1..(rank - 1))
              /\ Cardinality(1..(rank - 1)) = (IF 1 > rank - 1 THEN 0 ELSE (rank - 1) - 1 + 1)
          BY <4>1, FS_Interval
        <4>3. /\ IsFiniteSet((rank + 1)..n)
              /\ Cardinality((rank + 1)..n) = (IF rank + 1 > n THEN 0 ELSE n - (rank + 1) + 1)
          BY <4>1, FS_Interval
        <4>4. QED
          BY <4>1, <4>2, <4>3
      <3>6. IsFiniteSet(N) /\ Cardinality(N) <= rank - 1
        <4> DEFINE positions == 1..(rank - 1)
        <4>1. \A other \in N : \E j \in positions : order[j] = other
          BY <3>3 DEF N
        <4>2. IsFiniteSet(positions) /\ Cardinality(positions) = rank - 1
          BY <3>5
        <4> HIDE DEF positions
        <4>3. IsFiniteSet(N) /\ Cardinality(N) <= Cardinality(positions)
          BY <4>1, <4>2, AtPositions
        <4>4. QED
          BY <4>2, <4>3
      <3>7. IsFiniteSet(O) /\ Cardinality(O) <= n - rank
        <4> DEFINE positions == (rank + 1)..n
        <4>1. \A other \in O : \E j \in positions : order[j] = other
          BY <3>4 DEF O
        <4>2. IsFiniteSet(positions) /\ Cardinality(positions) = n - rank
          BY <3>5
        <4> HIDE DEF positions
        <4>3. IsFiniteSet(O) /\ Cardinality(O) <= Cardinality(positions)
          BY <4>1, <4>2, AtPositions
        <4>4. QED
          BY <4>2, <4>3
      <3>8. Cardinality(N) \in Nat /\ Cardinality(O) \in Nat
        BY <3>6, <3>7, FS_CardinalityType
      <3>9. Cardinality(N) < rank /\ rank <= n - Cardinality(O)
        BY <2>4, <3>1, <3>6, <3>7, <3>8
      <3>10. QED
        BY <3>2, <3>9 DEF N, O, rank, row
    <2>7. QED
      BY <2>6 DEF rows, items, n, Offset
  <1>2. SnapshotInv => PageInPlace
    BY <1>1 DEF PageInPlace
  <1>3. QED
    BY <1>2, SnapshotHolds, PTL
=============================================================================
