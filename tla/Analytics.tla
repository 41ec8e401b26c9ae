----------------------------- MODULE Analytics ------------------------------
(***************************************************************************)
(* The analytics API: requests that read the tables the ingestion API and  *)
(* the workers go on writing. An answer is made of one or more statements, *)
(* each with its own snapshot (READ COMMITTED). Rows are only ever added:  *)
(* a transaction by its request, an assessment by a worker, for an event   *)
(* of a stored transaction; two events may assess the same transaction.    *)
(*                                                                         *)
(* Code: services/analytics_service/api/routes.py, shared/auth.py.         *)
(***************************************************************************)
EXTENDS Integers, FiniteSets, Sequences, SequencesExt, AccessControl

CONSTANTS
  Transactions, Events, Requests,
  TransactionOf, \* the transaction an event is about
  RiskLevelOf,   \* the risk level an event is given
  OccurredAt,    \* when a transaction occurred
  DayOf,         \* func.date of an instant
  CategoryOf,    \* category of a transaction's merchant, None without one
  Sessions,      \* what the requests may ask, each a Query per request
  None           \* a filter that is not given; no assessment; no merchant

Levels == {"low", "medium", "high"}

DecisionOf(e) ==
  CASE RiskLevelOf[e] = "low" -> "approve"
    [] RiskLevelOf[e] = "medium" -> "review"
    [] RiskLevelOf[e] = "high" -> "decline"

Endpoints ==
  {"summary", "risk_distribution", "volume_by_day", "top_risk_merchants", "search"}

(* Bounds that FastAPI puts on page and page_size are met by every query.  *)
Queries ==
  [endpoint : Endpoints, credentials : Credentials, unsupported_country : BOOLEAN,
   start_date : Nat \cup {None}, end_date : Nat \cup {None},
   risk_level : Levels \cup {None}, decision : {"approve", "review", "decline", None},
   merchant_category : {CategoryOf[t] : t \in Transactions} \cup {None}, external_id : Transactions \cup {None},
   page : Nat \ {0}, page_size : Nat \ {0}]

ASSUME AnalyticsAssumption ==
  /\ IsFiniteSet(Transactions) /\ IsFiniteSet(Events)
  /\ None \notin Transactions \cup Events
  /\ TransactionOf \in [Events -> Transactions]
  /\ RiskLevelOf \in [Events -> Levels]
  /\ OccurredAt \in [Transactions -> Nat]
  /\ \A t \in Transactions : OccurredAt[t] \in DOMAIN DayOf
  /\ DOMAIN CategoryOf = Transactions
  /\ \A s \in Sessions : s \in [Requests -> Queries]

VARIABLES
  db,       \* the committed rows of transactions and risk_assessments
  query,    \* what each request asks
  status,   \* "none", "running", or the status code of the answer
  todo,     \* statements each request has yet to run
  answer,   \* what each request has read, by name
  asked,    \* history: db when the request came in
  answered  \* history: db when its last statement ran

vars == <<db, query, status, todo, answer, asked, answered>>

-----------------------------------------------------------------------------
(* The statements. Each endpoint repeats the same filters.                 *)

TransactionMatches(q, t) ==
  /\ q.start_date = None \/ OccurredAt[t] >= q.start_date
  /\ q.end_date = None \/ OccurredAt[t] <= q.end_date
  /\ q.external_id = None \/ t = q.external_id
  /\ q.merchant_category = None \/ CategoryOf[t] = q.merchant_category

(* Mutant: `OR risk_level IS NULL`.                                        *)
AssessmentMatchesNull(q, e) ==
  /\ q.risk_level = None \/ e = None \/ (e # None /\ RiskLevelOf[e] = q.risk_level)
  /\ q.decision = None \/ e = None \/ (e # None /\ DecisionOf(e) = q.decision)

(* The columns of an outer join without a match are NULL: no filter on     *)
(* them holds.                                                             *)
AssessmentMatches(q, e) ==
  /\ q.risk_level = None \/ (e # None /\ RiskLevelOf[e] = q.risk_level)
  /\ q.decision = None \/ (e # None /\ DecisionOf(e) = q.decision)

(* risk_assessments JOIN transactions.                                     *)
AssessedRows(q, d) ==
  {e \in d.assessments : AssessmentMatches(q, e) /\ TransactionMatches(q, TransactionOf[e])}

OfLevel(rows, level) == {e \in rows : RiskLevelOf[e] = level}

Row(t, e) == [transaction |-> t, assessment |-> e]

Unassessed(d) == d.transactions \ {TransactionOf[e] : e \in d.assessments}

(* Mutant: an inner join.                                                  *)
InnerJoinedRows(q, d) == {Row(TransactionOf[e], e) : e \in AssessedRows(q, d)}

(* transactions LEFT OUTER JOIN risk_assessments.                          *)
JoinedRows(q, d) ==
  {row \in {Row(TransactionOf[e], e) : e \in d.assessments}
             \cup {Row(t, None) : t \in Unassessed(d)} :
     TransactionMatches(q, row.transaction) /\ AssessmentMatches(q, row.assessment)}

InstantOf(row) == OccurredAt[row.transaction]

(* Mutant: without .desc().                                                *)
OldestFirst(rows) ==
  {order \in SetToSeqs(rows) :
     \A i, j \in DOMAIN order : i < j => InstantOf(order[i]) <= InstantOf(order[j])}

(* ORDER BY occurred_at DESC leaves the order of equals to each execution. *)
Orders(rows) ==
  {order \in SetToSeqs(rows) :
     \A i, j \in DOMAIN order : i < j => InstantOf(order[i]) >= InstantOf(order[j])}

Offset(q) == (q.page - 1) * q.page_size

Page(order, q) ==
  SubSeq(order, Offset(q) + 1,
         IF Len(order) < Offset(q) + q.page_size THEN Len(order) ELSE Offset(q) + q.page_size)

-----------------------------------------------------------------------------
(* Mutant: the parts are read before the whole, the page before its total. *)
StatementsSwapped(endpoint) ==
  CASE endpoint = "summary" ->
         <<"low", "medium", "high", "total_transactions", "total_assessed">>
    [] endpoint = "search" -> <<"items", "total">>
    [] OTHER -> <<endpoint>>

(* The statements of an endpoint, in the order of its awaits.              *)
Statements(endpoint) ==
  CASE endpoint = "summary" ->
         <<"total_transactions", "total_assessed", "low", "medium", "high">>
    [] endpoint = "search" -> <<"total", "items">>
    [] OTHER -> <<endpoint>>

Readers == {"admin", "analyst"}

(* What happens before the first statement: roles, then the filter nobody  *)
(* supports. Top merchants never gets further: func.case is no CASE        *)
(* expression and refuses else_ with a TypeError.                          *)
Admission(q) ==
  IF Authorize(q.credentials, Readers) # "200" THEN Authorize(q.credentials, Readers)
  ELSE IF q.unsupported_country THEN "400"
  ELSE IF q.endpoint = "top_risk_merchants" THEN "500"
  ELSE "running"

Ask(r) ==
  /\ status[r] = "none"
  /\ status' = [status EXCEPT ![r] = Admission(query[r])]
  /\ todo' = [todo EXCEPT ![r] =
                IF Admission(query[r]) = "running" THEN Statements(query[r].endpoint) ELSE <<>>]
  /\ asked' = [asked EXCEPT ![r] = db]
  /\ UNCHANGED <<db, query, answer, answered>>

Runs(r, statement) == todo[r] # <<>> /\ Head(todo[r]) = statement

With(values, name, value) ==
  [n \in DOMAIN values \cup {name} |-> IF n = name THEN value ELSE values[n]]

(* The value a statement returned; after the last one the answer is sent.  *)
Read(r, name, value) ==
  /\ answer' = [answer EXCEPT ![r] = With(@, name, value)]
  /\ todo' = [todo EXCEPT ![r] = Tail(@)]
  /\ status' = [status EXCEPT ![r] = IF Len(todo[r]) = 1 THEN "200" ELSE @]
  /\ answered' = [answered EXCEPT ![r] = IF Len(todo[r]) = 1 THEN db ELSE @]
  /\ UNCHANGED <<db, query, asked>>

CountTransactions(r) ==
  /\ Runs(r, "total_transactions")
  /\ Read(r, "total_transactions",
          Cardinality({t \in db.transactions : TransactionMatches(query[r], t)}))

CountAssessed(r) ==
  /\ Runs(r, "total_assessed")
  /\ Read(r, "total_assessed", Cardinality(AssessedRows(query[r], db)))

CountLevel(r) ==
  \E level \in Levels :
    /\ Runs(r, level)
    /\ Read(r, level, Cardinality(OfLevel(AssessedRows(query[r], db), level)))

(* Mutant: this copy of the filters lacks the merchant's category.         *)
RiskDistributionAnyCategory(r) ==
  LET rows == AssessedRows([query[r] EXCEPT !.merchant_category = None], db) IN
  /\ Runs(r, "risk_distribution")
  /\ Read(r, "buckets",
          [level \in {RiskLevelOf[e] : e \in rows} |-> Cardinality(OfLevel(rows, level))])

(* GROUP BY risk_level: a level without rows has no bucket.                *)
RiskDistribution(r) ==
  LET rows == AssessedRows(query[r], db) IN
  /\ Runs(r, "risk_distribution")
  /\ Read(r, "buckets",
          [level \in {RiskLevelOf[e] : e \in rows} |-> Cardinality(OfLevel(rows, level))])

DayOfRow(row) == DayOf[InstantOf(row)]

(* Both counts are of joined rows: COUNT(risk_assessments.id) skips NULLs. *)
VolumeByDay(r) ==
  LET rows == JoinedRows(query[r], db)
      On(day) == {row \in rows : DayOfRow(row) = day} IN
  /\ Runs(r, "volume_by_day")
  /\ Read(r, "days",
          [day \in {DayOfRow(row) : row \in rows} |->
             [transaction_count |-> Cardinality(On(day)),
              assessed_count |-> Cardinality({row \in On(day) : row.assessment # None})]])

CountRows(r) ==
  /\ Runs(r, "total")
  /\ Read(r, "total", Cardinality(JoinedRows(query[r], db)))

FetchPage(r) ==
  /\ Runs(r, "items")
  /\ \E order \in Orders(JoinedRows(query[r], db)) :
       Read(r, "items", Page(order, query[r]))

(* A statement that raises leaves the client with a 500 and no data.       *)
StatementFails(r) ==
  /\ status[r] = "running"
  /\ status' = [status EXCEPT ![r] = "500"]
  /\ todo' = [todo EXCEPT ![r] = <<>>]
  /\ answer' = [answer EXCEPT ![r] = <<>>]
  /\ UNCHANGED <<db, query, asked, answered>>

-----------------------------------------------------------------------------
(* The writers, as far as a reader sees them.                              *)

CommitTransaction(t) ==
  /\ t \notin db.transactions
  /\ db' = [db EXCEPT !.transactions = @ \cup {t}]
  /\ UNCHANGED <<query, status, todo, answer, asked, answered>>

(* Mutant: the worker does not look for the transaction, and no foreign    *)
(* key holds it to that.                                                   *)
CommitAssessmentUnchecked(e) ==
  /\ e \notin db.assessments
  /\ db' = [db EXCEPT !.assessments = @ \cup {e}]
  /\ UNCHANGED <<query, status, todo, answer, asked, answered>>

CommitAssessment(e) ==
  /\ e \notin db.assessments
  /\ TransactionOf[e] \in db.transactions
  /\ db' = [db EXCEPT !.assessments = @ \cup {e}]
  /\ UNCHANGED <<query, status, todo, answer, asked, answered>>

EmptyDb == [transactions |-> {}, assessments |-> {}]

Init ==
  /\ db = EmptyDb
  /\ query \in Sessions
  /\ status = [r \in Requests |-> "none"]
  /\ todo = [r \in Requests |-> <<>>]
  /\ answer = [r \in Requests |-> <<>>]
  /\ asked = [r \in Requests |-> EmptyDb]
  /\ answered = [r \in Requests |-> EmptyDb]

Answer(r) ==
  \/ Ask(r) \/ StatementFails(r)
  \/ CountTransactions(r) \/ CountAssessed(r) \/ CountLevel(r)
  \/ RiskDistribution(r) \/ VolumeByDay(r) \/ CountRows(r) \/ FetchPage(r)

Next ==
  \/ \E r \in Requests : Answer(r)
  \/ \E t \in Transactions : CommitTransaction(t)
  \/ \E e \in Events : CommitAssessment(e)

Spec == Init /\ [][Next]_vars

-----------------------------------------------------------------------------
(* The types of the state; what is left to run is the end of what the      *)
(* endpoint runs, and an answer without an error is complete.              *)
TypeOK ==
  /\ db \in [transactions : SUBSET Transactions, assessments : SUBSET Events]
  /\ {TransactionOf[e] : e \in db.assessments} \subseteq db.transactions
  /\ query \in Sessions
  /\ status \in [Requests -> {"none", "running", "200", "400", "401", "403", "500"}]
  /\ \A r \in Requests :
       /\ IsSuffix(todo[r], Statements(query[r].endpoint))
       /\ status[r] = "running" <=> todo[r] # <<>>
       /\ status[r] = "200" =>
            Cardinality(DOMAIN answer[r]) = Len(Statements(query[r].endpoint))
       /\ \A d \in {asked[r], answered[r]} : /\ d.transactions \subseteq db.transactions
                                            /\ d.assessments \subseteq db.assessments

Answered(r, endpoint) == status[r] = "200" /\ query[r].endpoint = endpoint

(* The parts of a summary never fall short of its total, and exceed it by  *)
(* no more than the assessments that were committed meanwhile.             *)
SummaryAddsUp ==
  \A r \in Requests : Answered(r, "summary") =>
    LET parts == answer[r]["low"] + answer[r]["medium"] + answer[r]["high"]
        new == answered[r].assessments \ asked[r].assessments
    IN  /\ parts >= answer[r]["total_assessed"]
        /\ parts <= answer[r]["total_assessed"] + Cardinality(new)

SumOf(f) == SumFunction(f)

(* The number of assessments an answer amounts to, for those that say so.  *)
AssessedTold(r) ==
  CASE query[r].endpoint = "summary" -> answer[r]["total_assessed"]
    [] query[r].endpoint = "risk_distribution" -> SumOf(answer[r]["buckets"])
    [] query[r].endpoint = "volume_by_day" ->
         SumOf([day \in DOMAIN answer[r]["days"] |-> answer[r]["days"][day].assessed_count])

TellsAssessed(r) ==
  status[r] = "200" /\ query[r].endpoint \in {"summary", "risk_distribution", "volume_by_day"}

Filters(q) ==
  <<q.start_date, q.end_date, q.risk_level, q.decision, q.merchant_category, q.external_id>>

(* Endpoints asked with the same filters, while nothing is written, count  *)
(* the same assessments, each with its own joins and groups.               *)
EndpointsAgree ==
  \A r, s \in Requests :
    /\ TellsAssessed(r) /\ TellsAssessed(s)
    /\ Filters(query[r]) = Filters(query[s])
    /\ asked[r] = answered[r] /\ answered[r] = asked[s] /\ asked[s] = answered[s]
    => AssessedTold(r) = AssessedTold(s)

AssessmentsOf(q, d, t) ==
  {e \in d.assessments : TransactionOf[e] = t /\ AssessmentMatches(q, e)}

(* Transactions a volume is about: all, or those with an assessment that   *)
(* was asked for.                                                          *)
Wanted(q, d) ==
  {t \in d.transactions :
     /\ TransactionMatches(q, t)
     /\ (q.risk_level = None /\ q.decision = None) \/ AssessmentsOf(q, d, t) # {}}

(* The volume of a day counts each of its transactions once, and once more *)
(* for every assessment of it after the first.                             *)
VolumeCountsReassessments ==
  \A r \in Requests : Answered(r, "volume_by_day") =>
    LET wanted == Wanted(query[r], answered[r])
        On(day) == {t \in wanted : DayOf[OccurredAt[t]] = day}
        Extra(t) == LET n == Cardinality(AssessmentsOf(query[r], answered[r], t))
                    IN  IF n > 1 THEN n - 1 ELSE 0
        days == answer[r]["days"]
    IN  /\ DOMAIN days = {DayOf[OccurredAt[t]] : t \in wanted}
        /\ \A day \in DOMAIN days :
             days[day].transaction_count = Cardinality(On(day)) + SumOf([t \in On(day) |-> Extra(t)])

(* A row on a page of a search stands where it belongs among the rows of   *)
(* the page's snapshot: after all newer ones, before all older ones. Pages *)
(* of one snapshot therefore share no row, unless rows tie.                *)
PageInPlace ==
  \A r \in Requests : Answered(r, "search") =>
    LET rows == JoinedRows(query[r], answered[r])
        items == answer[r]["items"]
        Newer(row) == {other \in rows : InstantOf(other) > InstantOf(row)}
        Older(row) == {other \in rows : InstantOf(other) < InstantOf(row)}
    IN  \A i \in DOMAIN items :
          LET rank == (query[r].page - 1) * query[r].page_size + i
          IN  /\ items[i] \in rows
              /\ Cardinality(Newer(items[i])) < rank
              /\ rank <= Cardinality(rows) - Cardinality(Older(items[i]))

(* A search that announces a total delivers: rows are counted before the   *)
(* page is read and never go away, so a page is full while the total says  *)
(* there is more.                                                          *)
FullPages ==
  \A r \in Requests : Answered(r, "search") =>
    LET left == answer[r]["total"] - (query[r].page - 1) * query[r].page_size
        length == Len(answer[r]["items"])
    IN  length <= query[r].page_size /\ (length = query[r].page_size \/ length >= left)

Totals == {"total", "total_transactions", "total_assessed"} \cup Levels

(* Asked again after an answer, an endpoint never reports fewer rows, not  *)
(* even when unassessed rows turn into assessed ones under a filter.       *)
LaterAnswersGrow ==
  \A r, s \in Requests :
    /\ status[r] = "200" /\ status[s] = "200"
    /\ query[r].endpoint = query[s].endpoint /\ Filters(query[r]) = Filters(query[s])
    /\ answered[r].transactions \subseteq asked[s].transactions
    /\ answered[r].assessments \subseteq asked[s].assessments
    => \A name \in Totals \cap DOMAIN answer[r] : answer[r][name] <= answer[s][name]

(* Data goes to those who present a valid token with the role of a reader, *)
(* whatever other names it carries, and these are never turned away.       *)
OnlyReadersAreAnswered ==
  \A r \in Requests :
    LET c == query[r].credentials
        Reader == /\ c.scheme = "bearer" /\ c.token = "valid"
                  /\ "admin" \in c.roles \/ "analyst" \in c.roles
    IN  /\ answer[r] # <<>> \/ status[r] \in {"200", "400"} => Reader
        /\ status[r] \in {"401", "403"} => ~Reader
=============================================================================
