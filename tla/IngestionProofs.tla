--------------------------- MODULE IngestionProofs --------------------------
(***************************************************************************)
(* Theorems about Ingestion, for any number of requests, any payloads, any *)
(* pool and any number of faults. The steps are sorted by what they do to  *)
(* the database and to the request that takes them (StepKinds); each       *)
(* invariant is then argued once per kind.                                 *)
(***************************************************************************)
EXTENDS Ingestion, ListLemmas, FiniteSetTheorems, TLAPS

-----------------------------------------------------------------------------
(* The kinds of steps.                                                     *)

Unanswered == UNCHANGED <<status, response, faults>>

(* On to the next statement, with nothing written.                         *)
Looks(r) ==
  /\ pc[r] \notin {"publish", "commit", "done"}
  /\ \E step \in Writing \ {"publish", "commit"} : Goto(r, step)
  /\ UNCHANGED <<database, published, inserted, existing>>
  /\ Unanswered

FindsDuplicate(r) ==
  /\ pc[r] = "find_transaction"
  /\ Goto(r, "audit_duplicate")
  /\ \E p \in ToSet(rows["transaction"]) :
       /\ p["transaction"] = Key(r, "transaction")
       /\ existing' = [existing EXCEPT ![r] = p]
  /\ UNCHANGED <<database, published, inserted>>
  /\ Unanswered

AuditsDuplicate(r) ==
  /\ pc[r] = "audit_duplicate"
  /\ r \notin LongRequestIds
  /\ Goto(r, "commit_duplicate")
  /\ UNCHANGED <<database, published, inserted, existing>>
  /\ Unanswered

Holds(r, table, step) ==
  /\ pc[r] \in Writing \ {"publish", "commit"}
  /\ ~Blocked(r, table) /\ ~Exists(r, table)
  /\ inserted' = [inserted EXCEPT ![r] = @ \cup {table}]
  /\ Goto(r, step)
  /\ step \in {"find_merchant", "insert_transaction", "publish"}
  /\ step = "publish" => table = "transaction"
  /\ UNCHANGED <<database, published, existing>>
  /\ Unanswered

Announces(r) ==
  /\ pc[r] = "publish"
  /\ Goto(r, "commit")
  /\ published' = Append(published, r)
  /\ UNCHANGED <<database, inserted, existing>>
  /\ Unanswered

(* What may be behind an error response.                                   *)
Cause(r) ==
  r \in LongRequestIds \/ ~Encodable \/ \E table \in Tables : Exists(r, table)

(* A rollback, which does not take back a push.                            *)
GivesUp(r) ==
  /\ pc[r] # "done"
  /\ \/ End(r, "500", None) /\ Cause(r) /\ UNCHANGED faults
     \/ \E code \in {"500", "lost"} : End(r, code, None) /\ faults < MaxFaults /\ faults' = faults + 1
  /\ UNCHANGED database
  /\ published' = published \/ (pc[r] = "publish" /\ published' = Append(published, r))
  /\ UNCHANGED existing

(* A COMMIT, and an answer unless it was in doubt.                         *)
Commits(r, action, data) ==
  /\ Visible(r, action)
  /\ \/ End(r, "201", data) /\ UNCHANGED faults
     \/ \E code \in {"500", "lost"} : End(r, code, None) /\ faults < MaxFaults /\ faults' = faults + 1
  /\ UNCHANGED <<published, existing>>

Creates(r) == pc[r] = "commit" /\ Commits(r, "created", Payload[r])

Repeats(r) == pc[r] = "commit_duplicate" /\ Commits(r, "duplicate", existing[r])

Kinds(r) ==
  \/ Looks(r) \/ FindsDuplicate(r) \/ AuditsDuplicate(r)
  \/ \E table \in Tables, step \in Steps : Holds(r, table, step)
  \/ Announces(r) \/ GivesUp(r) \/ Creates(r) \/ Repeats(r)

LEMMA InsertKinds ==
  ASSUME NEW r \in Requests, NEW table \in Tables,
         NEW step \in {"find_merchant", "insert_transaction", "publish"},
         pc[r] \in Writing \ {"publish", "commit"}, step = "publish" => table = "transaction",
         Insert(r, table, step)
  PROVE  Kinds(r)
  <1>1. CASE Exists(r, table)
    <2>1. GivesUp(r)
      BY <1>1 DEF Insert, Fail, GivesUp, Cause, Writing
    <2>2. QED
      BY <2>1 DEF Kinds
  <1>2. CASE ~Exists(r, table)
    <2>1. Holds(r, table, step)
      BY <1>2 DEF Insert, Holds, Unanswered
    <2>2. QED
      BY <2>1 DEF Kinds, Steps, Writing
  <1>3. QED
    BY <1>1, <1>2

LEMMA StepKinds ==
  ASSUME [Next]_vars
  PROVE  (\E r \in Requests : Kinds(r)) \/ UNCHANGED vars
  <1>1. ASSUME NEW r \in Requests, FindTransaction(r) PROVE Kinds(r)
    <2>1. CASE Exists(r, "transaction")
      <3>1. FindsDuplicate(r)
        BY <1>1, <2>1 DEF FindTransaction, FindsDuplicate, Unanswered, ToSet
      <3>2. QED
        BY <3>1 DEF Kinds
    <2>2. CASE ~Exists(r, "transaction")
      <3>1. Looks(r)
        BY <1>1, <2>2 DEF FindTransaction, Looks, Unanswered, Writing
      <3>2. QED
        BY <3>1 DEF Kinds
    <2>3. QED
      BY <2>1, <2>2
  <1>2. ASSUME NEW r \in Requests, FindAccount(r) \/ FindMerchant(r) PROVE Kinds(r)
    <2>1. Looks(r)
      BY <1>2 DEF FindAccount, FindMerchant, Looks, Unanswered, Writing
    <2>2. QED
      BY <2>1 DEF Kinds
  <1>3. ASSUME NEW r \in Requests, InsertAccount(r) \/ InsertMerchant(r) \/ InsertTransaction(r)
        PROVE  Kinds(r)
    BY <1>3, InsertKinds DEF InsertAccount, InsertMerchant, InsertTransaction, Tables, Writing
  <1>4. ASSUME NEW r \in Requests, Publish(r) PROVE Kinds(r)
    <2>1. Announces(r) \/ GivesUp(r)
      BY <1>4 DEF Publish, Announces, GivesUp, Fail, Cause, Unanswered
    <2>2. QED
      BY <2>1 DEF Kinds
  <1>5. ASSUME NEW r \in Requests, Commit(r) PROVE Kinds(r)
    <2>1. Creates(r) \/ GivesUp(r)
      BY <1>5 DEF Commit, Creates, Commits, GivesUp, Fail, Cause
    <2>2. QED
      BY <2>1 DEF Kinds
  <1>6. ASSUME NEW r \in Requests, AuditDuplicate(r) PROVE Kinds(r)
    <2>1. AuditsDuplicate(r) \/ GivesUp(r)
      BY <1>6 DEF AuditDuplicate, AuditsDuplicate, GivesUp, Fail, Cause, Unanswered
    <2>2. QED
      BY <2>1 DEF Kinds
  <1>7. ASSUME NEW r \in Requests, CommitDuplicate(r) PROVE Kinds(r)
    <2>1. Repeats(r)
      BY <1>7 DEF CommitDuplicate, Repeats, Commits
    <2>2. QED
      BY <2>1 DEF Kinds
  <1>8. ASSUME NEW r \in Requests, Break(r) PROVE Kinds(r)
    <2>1. GivesUp(r) \/ Creates(r) \/ Repeats(r)
      BY <1>8 DEF Break, GivesUp, Creates, Repeats, Commits
    <2>2. QED
      BY <2>1 DEF Kinds
  <1>9. QED
    BY <1>1, <1>2, <1>3, <1>4, <1>5, <1>6, <1>7, <1>8 DEF Next, Handle, Finished

-----------------------------------------------------------------------------
(* Type correctness.                                                       *)

(* The part of TypeOK that is about the requests themselves.               *)
RequestTypes ==
  /\ pc \in [Requests -> Steps]
  /\ inserted \in [Requests -> SUBSET Tables]
  /\ existing \in [Requests -> Payloads \cup {None}]
  /\ status \in [Requests -> Statuses]
  /\ response \in [Requests -> Payloads \cup {None}]
  /\ faults \in 0..MaxFaults
  /\ \A r \in Requests : pc[r] = "done" <=> status[r] # "none"
  /\ \A r \in Requests : status[r] = "201" <=> response[r] # None

LEMMA PayloadFacts ==
  ASSUME NEW r \in Requests
  PROVE  Payload[r] \in Payloads /\ Payload[r] # None
  BY IngestionAssumption

LEMMA KeyType ==
  ASSUME NEW r \in Requests
  PROVE  Key(r, "transaction") \in Ids
  BY IngestionAssumption DEF Key, Payloads

(* What a duplicate has found is a row.                                    *)
FoundStored ==
  \A r \in Requests :
    pc[r] \in Duplicating =>
      /\ existing[r] \in ToSet(rows["transaction"])
      /\ existing[r]["transaction"] = Key(r, "transaction")

LEMMA StoredType ==
  ASSUME TypeOK
  PROVE  ToSet(rows["transaction"]) \subseteq Payloads
  BY DEF TypeOK, Tables, ToSet

LEMMA TypeInit == Init => TypeOK
  <1> SUFFICES ASSUME Init PROVE TypeOK
    OBVIOUS
  <1>1. rows \in [Tables -> Seq(Payloads)]
    BY DEF Init
  <1>2. audits \subseteq Audits /\ published \in Seq(Requests)
    BY DEF Init
  <1>3. faults \in 0..MaxFaults
    BY IngestionAssumption DEF Init
  <1>4. QED
    BY <1>1, <1>2, <1>3 DEF Init, TypeOK, Steps, Statuses

(* A request that stays open.                                              *)
LEMMA OpenTypes ==
  ASSUME TypeOK, NEW r \in Requests, pc[r] # "done", NEW step \in Steps \ {"done"},
         Goto(r, step), Unanswered,
         inserted' \in [Requests -> SUBSET Tables],
         existing' \in [Requests -> Payloads \cup {None}]
  PROVE  RequestTypes'
  <1>1. pc' = [pc EXCEPT ![r] = step] /\ UNCHANGED <<status, response, faults>>
    BY DEF Goto, Unanswered
  <1>2. pc' \in [Requests -> Steps]
    BY <1>1 DEF TypeOK
  <1>3. \A s \in Requests : pc'[s] = "done" <=> pc[s] = "done"
    BY <1>1 DEF TypeOK
  <1>4. QED
    BY <1>1, <1>2, <1>3 DEF TypeOK, RequestTypes

(* A request that ends.                                                    *)
LEMMA EndTypes ==
  ASSUME TypeOK, NEW r \in Requests, NEW code \in Statuses \ {"none"},
         NEW data \in Payloads \cup {None}, code = "201" <=> data # None,
         End(r, code, data), UNCHANGED existing,
         faults' \in 0..MaxFaults
  PROVE  RequestTypes'
  <1>1. /\ pc' = [pc EXCEPT ![r] = "done"]
        /\ inserted' = [inserted EXCEPT ![r] = {}]
        /\ status' = [status EXCEPT ![r] = code]
        /\ response' = [response EXCEPT ![r] = data]
    BY DEF End, Goto
  <1>2. /\ pc' \in [Requests -> Steps]
        /\ inserted' \in [Requests -> SUBSET Tables]
        /\ status' \in [Requests -> Statuses]
        /\ response' \in [Requests -> Payloads \cup {None}]
    BY <1>1 DEF TypeOK, Steps
  <1>3. ASSUME NEW s \in Requests
        PROVE  /\ pc'[s] = "done" <=> status'[s] # "none"
               /\ status'[s] = "201" <=> response'[s] # None
    <2>1. CASE s = r
      BY <1>1, <2>1 DEF TypeOK
    <2>2. CASE s # r
      BY <1>1, <2>2 DEF TypeOK
    <2>3. QED
      BY <2>1, <2>2
  <1>4. QED
    BY <1>2, <1>3 DEF TypeOK, RequestTypes

LEMMA VisibleTypes ==
  ASSUME TypeOK, NEW r \in Requests, NEW action \in {"created", "duplicate"},
         Visible(r, action)
  PROVE  rows' \in [Tables -> Seq(Payloads)] /\ audits' \subseteq Audits
  <1>1. ASSUME NEW table \in Tables
        PROVE  (IF table \in inserted[r] THEN Append(rows[table], Payload[r]) ELSE rows[table])
                 \in Seq(Payloads)
    BY PayloadFacts DEF TypeOK
  <1>2. rows' \in [Tables -> Seq(Payloads)]
    BY <1>1 DEF Visible
  <1>3. [transaction |-> Key(r, "transaction"), action |-> action, request |-> r] \in Audits
    BY KeyType DEF Audits
  <1>4. QED
    BY <1>2, <1>3 DEF Visible, TypeOK

LEMMA CommitTypes ==
  ASSUME TypeOK, NEW r \in Requests, NEW action \in {"created", "duplicate"},
         NEW data \in Payloads, Commits(r, action, data)
  PROVE  TypeOK'
  <1>1. rows' \in [Tables -> Seq(Payloads)] /\ audits' \subseteq Audits
    BY VisibleTypes DEF Commits
  <1>2. data # None
    BY IngestionAssumption
  <1>3. RequestTypes'
    <2>1. CASE End(r, "201", data) /\ UNCHANGED faults
      <3>1. faults' \in 0..MaxFaults
        BY <2>1 DEF TypeOK
      <3>2. QED
        BY <1>2, <2>1, <3>1, EndTypes DEF Commits, Statuses
    <2>2. ASSUME NEW code \in {"500", "lost"}, End(r, code, None),
                 faults < MaxFaults, faults' = faults + 1
          PROVE  RequestTypes'
      <3>1. faults' \in 0..MaxFaults
        BY <2>2, IngestionAssumption DEF TypeOK
      <3>2. QED
        BY <2>2, <3>1, EndTypes DEF Commits, Statuses
    <2>3. QED
      BY <2>1, <2>2 DEF Commits
  <1>4. published' \in Seq(Requests)
    BY DEF Commits, TypeOK
  <1>5. QED
    BY <1>1, <1>3, <1>4 DEF TypeOK, RequestTypes

LEMMA TypeStep == TypeOK /\ FoundStored /\ [Next]_vars => TypeOK'
  <1> SUFFICES ASSUME TypeOK, FoundStored, [Next]_vars PROVE TypeOK'
    OBVIOUS
  <1>1. ASSUME NEW r \in Requests, Looks(r) PROVE TypeOK'
    <2>1. RequestTypes'
      BY <1>1, OpenTypes DEF Looks, TypeOK, Steps, Writing
    <2>2. QED
      BY <1>1, <2>1 DEF Looks, database, TypeOK, RequestTypes
  <1>2. ASSUME NEW r \in Requests, FindsDuplicate(r) PROVE TypeOK'
    <2>1. existing' \in [Requests -> Payloads \cup {None}]
      BY <1>2, StoredType DEF FindsDuplicate, TypeOK
    <2>2. RequestTypes'
      BY <1>2, <2>1, OpenTypes DEF FindsDuplicate, TypeOK, Steps, Duplicating
    <2>3. QED
      BY <1>2, <2>2 DEF FindsDuplicate, database, TypeOK, RequestTypes
  <1>3. ASSUME NEW r \in Requests, AuditsDuplicate(r) PROVE TypeOK'
    <2>1. RequestTypes'
      BY <1>3, OpenTypes DEF AuditsDuplicate, TypeOK, Steps, Duplicating
    <2>2. QED
      BY <1>3, <2>1 DEF AuditsDuplicate, database, TypeOK, RequestTypes
  <1>4. ASSUME NEW r \in Requests, NEW table \in Tables, NEW step \in Steps,
               Holds(r, table, step)
        PROVE  TypeOK'
    <2>1. inserted' \in [Requests -> SUBSET Tables]
      BY <1>4 DEF Holds, TypeOK
    <2>2. RequestTypes'
      BY <1>4, <2>1, OpenTypes DEF Holds, TypeOK, Steps, Writing
    <2>3. QED
      BY <1>4, <2>2 DEF Holds, database, TypeOK, RequestTypes
  <1>5. ASSUME NEW r \in Requests, Announces(r) PROVE TypeOK'
    <2>1. RequestTypes'
      BY <1>5, OpenTypes DEF Announces, TypeOK, Steps, Writing
    <2>2. QED
      BY <1>5, <2>1 DEF Announces, database, TypeOK, RequestTypes
  <1>6. ASSUME NEW r \in Requests, GivesUp(r) PROVE TypeOK'
    <2>1. PICK code \in {"500", "lost"} : End(r, code, None)
      BY <1>6 DEF GivesUp
    <2>2. faults' \in 0..MaxFaults
      BY <1>6, IngestionAssumption DEF GivesUp, TypeOK
    <2>3. RequestTypes'
      BY <1>6, <2>1, <2>2, EndTypes DEF GivesUp, Statuses
    <2>4. published' \in Seq(Requests)
      BY <1>6 DEF GivesUp, TypeOK
    <2>5. QED
      BY <1>6, <2>3, <2>4 DEF GivesUp, database, TypeOK, RequestTypes
  <1>7. ASSUME NEW r \in Requests, Creates(r) PROVE TypeOK'
    BY <1>7, CommitTypes, PayloadFacts DEF Creates
  <1>8. ASSUME NEW r \in Requests, Repeats(r) PROVE TypeOK'
    <2>1. existing[r] \in Payloads
      BY <1>8, StoredType DEF Repeats, FoundStored, Duplicating
    <2>2. QED
      BY <1>8, <2>1, CommitTypes DEF Repeats
  <1>9. CASE UNCHANGED vars
    BY <1>9 DEF vars, TypeOK
  <1>10. QED
    BY <1>1, <1>2, <1>3, <1>4, <1>5, <1>6, <1>7, <1>8, <1>9, StepKinds DEF Kinds

-----------------------------------------------------------------------------
(* What a request holds and has found, by the step it is at.               *)

HeldByStep ==
  \A r \in Requests :
    /\ pc[r] \in {"publish", "commit"} => "transaction" \in inserted[r]
    /\ pc[r] \in {"find_transaction", "done"} \cup Duplicating => inserted[r] = {}

(* Rows that are held are new, and of different keys: the unique index     *)
(* makes conflicting inserts wait.                                         *)
HeldUnique ==
  \A r \in Requests : \A table \in inserted[r] :
    /\ ~Exists(r, table)
    /\ \A s \in Requests \ {r} : table \in inserted[s] => Key(s, table) # Key(r, table)

Inv == TypeOK /\ HeldByStep /\ FoundStored /\ HeldUnique /\ UniqueRows

LEMMA InvInit == Init => Inv
  <1> SUFFICES ASSUME Init PROVE HeldByStep /\ FoundStored /\ HeldUnique /\ UniqueRows
    BY TypeInit DEF Inv
  <1>1. \A table \in Tables : DOMAIN rows[table] = {}
    BY DEF Init
  <1>2. QED
    BY <1>1 DEF Init, HeldByStep, FoundStored, HeldUnique, UniqueRows, Duplicating

(* How a COMMIT changes a table.                                           *)
LEMMA VisibleRows ==
  ASSUME TypeOK, NEW r \in Requests, NEW action, Visible(r, action), NEW table \in Tables
  PROVE  /\ table \in inserted[r] =>
              /\ rows'[table] = Append(rows[table], Payload[r])
              /\ ToSet(rows'[table]) = ToSet(rows[table]) \cup {Payload[r]}
         /\ table \notin inserted[r] => rows'[table] = rows[table]
  <1>1. rows'[table] = IF table \in inserted[r] THEN Append(rows[table], Payload[r]) ELSE rows[table]
    BY DEF Visible
  <1>2. rows[table] \in Seq(Payloads) /\ Payload[r] \in Payloads
    BY PayloadFacts DEF TypeOK
  <1>3. ToSet(Append(rows[table], Payload[r])) = ToSet(rows[table]) \cup {Payload[r]}
    BY <1>2, AppendElements
  <1>4. QED
    BY <1>1, <1>3

LEMMA ExistsInSet ==
  ASSUME NEW r \in Requests, NEW table \in Tables
  PROVE  Exists(r, table) <=> \E p \in ToSet(rows[table]) : p[table] = Key(r, table)
  BY DEF Exists, ToSet

LEMMA VisibleExists ==
  ASSUME TypeOK, NEW r \in Requests, NEW action, Visible(r, action),
         NEW s \in Requests, NEW table \in Tables
  PROVE  Exists(s, table)' <=>
           Exists(s, table) \/ (table \in inserted[r] /\ Key(s, table) = Key(r, table))
  <1>1. Key(r, table) = Payload[r][table]
    BY DEF Key
  <1>2. Exists(s, table)' <=> \E p \in ToSet(rows'[table]) : p[table] = Key(s, table)
    BY DEF Exists, ToSet, Key
  <1>3. QED
    BY <1>1, <1>2, VisibleRows, ExistsInSet

(* A COMMIT of new rows keeps every key unique.                            *)
LEMMA VisibleUnique ==
  ASSUME Inv, NEW r \in Requests, NEW action, Visible(r, action)
  PROVE  UniqueRows'
  <1> SUFFICES ASSUME NEW table \in Tables,
                      NEW i \in DOMAIN rows'[table], NEW j \in DOMAIN rows'[table],
                      rows'[table][i][table] = rows'[table][j][table]
               PROVE  i = j
    BY DEF UniqueRows
  <1>1. rows[table] \in Seq(Payloads)
    BY DEF Inv, TypeOK
  <1>2. CASE table \notin inserted[r]
    BY <1>2, VisibleRows DEF Inv, UniqueRows
  <1>3. CASE table \in inserted[r]
    <2>1. rows'[table] = Append(rows[table], Payload[r])
      BY <1>3, VisibleRows DEF Inv
    <2>2. /\ DOMAIN rows'[table] = 1..(Len(rows[table]) + 1)
          /\ DOMAIN rows[table] = 1..Len(rows[table])
          /\ Len(rows[table]) \in Nat
          /\ \A k \in 1..Len(rows[table]) : rows'[table][k] = rows[table][k]
          /\ rows'[table][Len(rows[table]) + 1] = Payload[r]
      BY <1>1, <2>1
    <2>3. \A k \in DOMAIN rows[table] : rows[table][k][table] # Payload[r][table]
      BY <1>3 DEF Inv, HeldUnique, Exists, Key
    <2>4. \A k, l \in DOMAIN rows[table] : rows[table][k][table] = rows[table][l][table] => k = l
      BY DEF Inv, UniqueRows
    <2> DEFINE last == Len(rows[table]) + 1
    <2>5. CASE i = last /\ j = last
      BY <2>5
    <2>6. CASE i = last /\ j # last
      BY <2>2, <2>3, <2>6
    <2>7. CASE i # last /\ j = last
      BY <2>2, <2>3, <2>7
    <2>8. CASE i # last /\ j # last
      BY <2>2, <2>4, <2>8
    <2>9. QED
      BY <2>5, <2>6, <2>7, <2>8
  <1>4. QED
    BY <1>2, <1>3

LEMMA InvStep == Inv /\ [Next]_vars => Inv'
  <1> SUFFICES ASSUME Inv, [Next]_vars
               PROVE  HeldByStep' /\ FoundStored' /\ HeldUnique' /\ UniqueRows'
    BY TypeStep DEF Inv
  <1> DEFINE Goal == HeldByStep' /\ FoundStored' /\ HeldUnique' /\ UniqueRows'
  <1>1. ASSUME NEW r \in Requests, Looks(r) \/ AuditsDuplicate(r) \/ Announces(r) PROVE Goal
    <2>1. UNCHANGED <<rows, inserted, existing>>
      BY <1>1 DEF Looks, AuditsDuplicate, Announces, database
    <2>2. UniqueRows' /\ HeldUnique'
      BY <2>1 DEF Inv, UniqueRows, HeldUnique, Exists, Key
    <2>3. HeldByStep' /\ FoundStored'
      BY <1>1, <2>1 DEF Looks, AuditsDuplicate, Announces, Goto, Inv, TypeOK, HeldByStep,
         FoundStored, Writing, Duplicating, Key
    <2>4. QED
      BY <2>2, <2>3
  <1>2. ASSUME NEW r \in Requests, FindsDuplicate(r) PROVE Goal
    <2>1. UNCHANGED <<rows, inserted>>
      BY <1>2 DEF FindsDuplicate, database
    <2>2. UniqueRows' /\ HeldUnique'
      BY <2>1 DEF Inv, UniqueRows, HeldUnique, Exists, Key
    <2>3. HeldByStep' /\ FoundStored'
      BY <1>2, <2>1 DEF FindsDuplicate, Goto, Inv, TypeOK, HeldByStep, FoundStored,
         Duplicating, Key
    <2>4. QED
      BY <2>2, <2>3
  <1>3. ASSUME NEW r \in Requests, NEW table \in Tables, NEW step \in Steps,
               Holds(r, table, step)
        PROVE  Goal
    <2>1. UNCHANGED <<rows, existing>>
      BY <1>3 DEF Holds, database
    <2>2. /\ inserted' = [inserted EXCEPT ![r] = @ \cup {table}]
          /\ ~Exists(r, table)
          /\ \A s \in Requests \ {r} : table \in inserted[s] => Key(s, table) # Key(r, table)
      BY <1>3 DEF Holds, Blocked
    <2>3. UniqueRows'
      BY <2>1 DEF Inv, UniqueRows
    <2>4. HeldUnique'
      BY <2>1, <2>2 DEF Inv, TypeOK, HeldUnique, Exists, Key
    <2>5. HeldByStep' /\ FoundStored'
      BY <1>3, <2>1, <2>2 DEF Holds, Goto, Inv, TypeOK, HeldByStep, FoundStored,
         Duplicating, Key
    <2>6. QED
      BY <2>3, <2>4, <2>5
  <1>4. ASSUME NEW r \in Requests,
               UNCHANGED existing,
               pc' = [pc EXCEPT ![r] = "done"],
               inserted' = [inserted EXCEPT ![r] = {}]
        PROVE  HeldByStep'
    BY <1>4 DEF Inv, TypeOK, HeldByStep, Duplicating
  <1>5. ASSUME NEW r \in Requests, GivesUp(r) PROVE Goal
    <2>1. /\ pc' = [pc EXCEPT ![r] = "done"]
          /\ inserted' = [inserted EXCEPT ![r] = {}]
          /\ UNCHANGED <<rows, existing>>
      BY <1>5 DEF GivesUp, End, Goto, database
    <2>2. UniqueRows' /\ HeldUnique'
      BY <2>1 DEF Inv, TypeOK, UniqueRows, HeldUnique, Exists, Key
    <2>3. FoundStored'
      BY <2>1 DEF Inv, TypeOK, FoundStored, Duplicating, Key
    <2>4. QED
      BY <1>4, <2>1, <2>2, <2>3
  <1>6. ASSUME NEW r \in Requests, Creates(r) \/ Repeats(r) PROVE Goal
    <2>1. PICK action \in {"created", "duplicate"} : Visible(r, action)
      BY <1>6 DEF Creates, Repeats, Commits
    <2>2. /\ pc' = [pc EXCEPT ![r] = "done"]
          /\ inserted' = [inserted EXCEPT ![r] = {}]
          /\ UNCHANGED existing
      BY <1>6 DEF Creates, Repeats, Commits, End, Goto
    <2>3. UniqueRows'
      BY <2>1, VisibleUnique
    <2>4. HeldUnique'
      <3> SUFFICES ASSUME NEW s \in Requests, NEW table \in inserted'[s]
                   PROVE  /\ ~Exists(s, table)'
                          /\ \A t \in Requests \ {s} :
                               table \in inserted'[t] => Key(t, table) # Key(s, table)
        BY DEF HeldUnique, Key
      <3>1. s # r /\ table \in inserted[s] /\ table \in Tables
        BY <2>2 DEF Inv, TypeOK
      <3>2. ~Exists(s, table)'
        BY <2>1, <3>1, VisibleExists DEF Inv, HeldUnique
      <3>3. QED
        BY <2>2, <3>1, <3>2 DEF Inv, TypeOK, HeldUnique
    <2>5. FoundStored'
      <3>1. ToSet(rows["transaction"]) \subseteq ToSet(rows'["transaction"])
        BY <2>1, VisibleRows DEF Inv, Tables
      <3>2. QED
        BY <2>2, <3>1 DEF Inv, TypeOK, FoundStored, Duplicating, Key
    <2>6. QED
      BY <1>4, <2>2, <2>3, <2>4, <2>5
  <1>7. CASE UNCHANGED vars
    BY <1>7 DEF vars, Inv, HeldByStep, FoundStored, HeldUnique, UniqueRows, Exists, Key
  <1>8. QED
    BY <1>1, <1>2, <1>3, <1>5, <1>6, <1>7, StepKinds DEF Kinds

LEMMA InvHolds == Spec => []Inv
  BY InvInit, InvStep, PTL DEF Spec

(* Every reachable state is well typed: a request has an answer, or is     *)
(* lost, exactly when it has ended, and data exactly when it succeeded.    *)
THEOREM TypeCorrect == Spec => []TypeOK
  <1>1. Inv => TypeOK
    BY DEF Inv
  <1>2. QED
    BY <1>1, InvHolds, PTL

(* However requests race, a key has at most one row in its table.          *)
THEOREM RowsUnique == Spec => []UniqueRows
  <1>1. Inv => UniqueRows
    BY DEF Inv
  <1>2. QED
    BY <1>1, InvHolds, PTL

-----------------------------------------------------------------------------
(* What a COMMIT of either kind makes of the transactions.                 *)

LEMMA CreatesRow ==
  ASSUME Inv, NEW r \in Requests, Creates(r)
  PROVE  /\ ToSet(rows'["transaction"]) = ToSet(rows["transaction"]) \cup {Payload[r]}
         /\ \A p \in ToSet(rows["transaction"]) : p["transaction"] # Payload[r]["transaction"]
  <1>1. "transaction" \in inserted[r] /\ Visible(r, "created") /\ "transaction" \in Tables
    BY DEF Creates, Commits, Inv, HeldByStep, Tables
  <1>2. ~Exists(r, "transaction")
    BY <1>1 DEF Inv, HeldUnique
  <1>3. QED
    BY <1>1, <1>2, VisibleRows, ExistsInSet DEF Inv, Key

LEMMA RepeatsRow ==
  ASSUME Inv, NEW r \in Requests, Repeats(r)
  PROVE  /\ rows' = rows
         /\ existing[r] \in ToSet(rows["transaction"])
         /\ existing[r]["transaction"] = Payload[r]["transaction"]
  <1>1. inserted[r] = {} /\ Visible(r, "duplicate")
    BY DEF Repeats, Commits, Inv, HeldByStep, Duplicating
  <1>2. rows' = [table \in Tables |-> rows[table]]
    BY <1>1 DEF Visible
  <1>3. rows' = rows
    BY <1>2 DEF Inv, TypeOK
  <1>4. QED
    BY <1>3 DEF Repeats, Inv, FoundStored, Duplicating, Key

-----------------------------------------------------------------------------
(* A row never appears without the transaction it was created for: the     *)
(* COMMIT of a request that holds any row holds its transaction.           *)
LEMMA NoOrphansStep == Inv /\ NoOrphans /\ [Next]_vars => NoOrphans'
  <1> SUFFICES ASSUME Inv, NoOrphans, [Next]_vars PROVE NoOrphans'
    OBVIOUS
  <1>1. ASSUME UNCHANGED rows PROVE NoOrphans'
    BY <1>1 DEF NoOrphans
  <1>2. ASSUME NEW r \in Requests, Creates(r) PROVE NoOrphans'
    <2>1. ASSUME NEW table \in Tables
          PROVE  ToSet(rows'[table]) \subseteq ToSet(rows[table]) \cup {Payload[r]}
      BY <1>2, VisibleRows DEF Creates, Commits, Inv
    <2>2. QED
      BY <1>2, <2>1, CreatesRow DEF NoOrphans
  <1>3. ASSUME NEW r \in Requests, Repeats(r) PROVE NoOrphans'
    BY <1>1, <1>3, RepeatsRow
  <1>4. QED
    BY <1>1, <1>2, <1>3, StepKinds
       DEF Kinds, Looks, FindsDuplicate, AuditsDuplicate, Holds, Announces, GivesUp, database, vars

(* A request is one database transaction, whatever interrupts it.          *)
THEOREM RowsBelongTogether == Spec => []NoOrphans
  <1>1. Init => NoOrphans
    BY DEF Init, NoOrphans, Tables
  <1>2. QED
    BY <1>1, NoOrphansStep, InvHolds, PTL DEF Spec

-----------------------------------------------------------------------------
(* The event of a stored transaction has been pushed: a request at its     *)
(* COMMIT has pushed its own, and nothing takes it back.                   *)

CommitterPublished == \A r \in Requests : pc[r] = "commit" => r \in ToSet(published)

LEMMA PublishedStep ==
  ASSUME Inv, CommitterPublished, CreatedIsPublished, [Next]_vars
  PROVE  CommitterPublished' /\ CreatedIsPublished'
  <1> DEFINE Goal == CommitterPublished' /\ CreatedIsPublished'
  <1> USE DEF CommitterPublished, CreatedIsPublished
  <1>1. ASSUME NEW r \in Requests, published' = Append(published, r)
        PROVE  ToSet(published') = ToSet(published) \cup {r}
    BY <1>1, AppendElements DEF Inv, TypeOK
  <1>2. ASSUME NEW r \in Requests, Announces(r) PROVE Goal
    BY <1>1, <1>2 DEF Announces, Goto, database, Inv, TypeOK
  <1>3. ASSUME NEW r \in Requests, GivesUp(r) PROVE Goal
    <2>1. ToSet(published) \subseteq ToSet(published') /\ UNCHANGED audits
      BY <1>1, <1>3 DEF GivesUp, database
    <2>2. pc' = [pc EXCEPT ![r] = "done"]
      BY <1>3 DEF GivesUp, End, Goto
    <2>3. QED
      BY <2>1, <2>2 DEF Inv, TypeOK
  <1>4. ASSUME NEW r \in Requests, Creates(r) \/ Repeats(r) PROVE Goal
    <2>1. pc' = [pc EXCEPT ![r] = "done"] /\ UNCHANGED published
      BY <1>4 DEF Creates, Repeats, Commits, End, Goto
    <2>2. PICK action \in {"created", "duplicate"} :
            /\ action = "created" => pc[r] = "commit"
            /\ audits' = audits \cup
                 {[transaction |-> Key(r, "transaction"), action |-> action, request |-> r]}
      BY <1>4 DEF Creates, Repeats, Commits, Visible
    <2>3. QED
      BY <2>1, <2>2 DEF Inv, TypeOK
  <1>5. ASSUME NEW r \in Requests,
               \/ Looks(r) \/ FindsDuplicate(r) \/ AuditsDuplicate(r)
               \/ \E table \in Tables, step \in Steps : Holds(r, table, step)
        PROVE  Goal
    BY <1>5 DEF Looks, FindsDuplicate, AuditsDuplicate, Holds, Goto, database, Inv, TypeOK,
       Writing
  <1>6. CASE UNCHANGED vars
    BY <1>6 DEF vars
  <1>7. QED
    BY <1>2, <1>3, <1>4, <1>5, <1>6, StepKinds DEF Kinds

(* No stored transaction is unknown to the worker.                         *)
THEOREM CreationsPublished == Spec => []CreatedIsPublished
  <1>1. Init => CommitterPublished /\ CreatedIsPublished
    BY DEF Init, CommitterPublished, CreatedIsPublished
  <1>2. QED
    BY <1>1, PublishedStep, InvHolds, PTL DEF Spec

-----------------------------------------------------------------------------
(* The audit log. Besides AuditTrail, with rows taken as a set: an audit   *)
(* row is of a request that has ended, so a request adds at most one.      *)

CreationsOf(t) == {a \in audits : a.transaction = t /\ a.action = "created"}

AuditsBy(r) == {a \in audits : a.request = r}

AuditInv ==
  /\ \A p \in ToSet(rows["transaction"]) : Cardinality(CreationsOf(p["transaction"])) = 1
  /\ \A a \in audits : \E p \in ToSet(rows["transaction"]) : p["transaction"] = a.transaction
  /\ \A r \in Requests : status[r] = "201" => Cardinality(AuditsBy(r)) = 1
  /\ \A a \in audits : pc[a.request] = "done"

LEMMA AuditStep == Inv /\ AuditInv /\ [Next]_vars => AuditInv'
  <1> SUFFICES ASSUME Inv, AuditInv, [Next]_vars PROVE AuditInv'
    OBVIOUS
  <1>1. ASSUME UNCHANGED database,
               \A r \in Requests : /\ pc[r] = "done" => pc'[r] = "done"
                                   /\ status'[r] = "201" => status[r] = "201"
        PROVE  AuditInv'
    <2>1. \A a \in audits : a.request \in Requests
      BY DEF Inv, TypeOK, Audits
    <2>2. \A t : CreationsOf(t)' = CreationsOf(t)
      BY <1>1 DEF CreationsOf, database
    <2>3. \A r : AuditsBy(r)' = AuditsBy(r)
      BY <1>1 DEF AuditsBy, database
    <2>4. QED
      BY <1>1, <2>1, <2>2, <2>3 DEF AuditInv, database
  <1>2. ASSUME NEW r \in Requests,
               \/ Looks(r) \/ FindsDuplicate(r) \/ AuditsDuplicate(r) \/ Announces(r)
               \/ \E table \in Tables, step \in Steps : Holds(r, table, step)
        PROVE  AuditInv'
    <2>1. UNCHANGED <<database, status>> /\ pc[r] # "done" /\ \E step \in Steps : Goto(r, step)
      BY <1>2 DEF Looks, FindsDuplicate, AuditsDuplicate, Announces, Holds, Unanswered, Steps,
         Writing, Duplicating
    <2>2. \A s \in Requests : pc[s] = "done" => pc'[s] = "done"
      BY <2>1 DEF Goto, Inv, TypeOK
    <2>3. QED
      BY <1>1, <2>1, <2>2
  <1>3. ASSUME NEW r \in Requests, GivesUp(r) PROVE AuditInv'
    <2>1. PICK code \in {"500", "lost"} : End(r, code, None)
      BY <1>3 DEF GivesUp
    <2>2. \A s \in Requests : /\ pc[s] = "done" => pc'[s] = "done"
                              /\ status'[s] = "201" => status[s] = "201"
      BY <2>1 DEF End, Goto, Inv, TypeOK
    <2>3. QED
      BY <1>1, <1>3, <2>2 DEF GivesUp
  <1>4. ASSUME NEW r \in Requests, NEW action \in {"created", "duplicate"}, NEW data,
               Commits(r, action, data), pc[r] # "done",
               NEW t, t = Payload[r]["transaction"],
               \E p \in ToSet(rows'["transaction"]) : p["transaction"] = t,
               ToSet(rows["transaction"]) \subseteq ToSet(rows'["transaction"]),
               \A p \in ToSet(rows'["transaction"]) : Cardinality(CreationsOf(p["transaction"])') = 1
        PROVE  AuditInv'
    <2> DEFINE new == [transaction |-> t, action |-> action, request |-> r]
    <2>1. audits' = audits \cup {new}
      BY <1>4 DEF Commits, Visible, Key
    <2>2. pc' = [pc EXCEPT ![r] = "done"]
      BY <1>4 DEF Commits, End, Goto
    <2>3. \A a \in audits' : pc'[a.request] = "done"
      BY <2>1, <2>2 DEF AuditInv, Inv, TypeOK, Audits
    <2>4. \A a \in audits' : \E p \in ToSet(rows'["transaction"]) : p["transaction"] = a.transaction
      BY <1>4, <2>1 DEF AuditInv
    <2>5. AuditsBy(r)' = {new}
      BY <1>4, <2>1 DEF AuditsBy, AuditInv
    <2>6. ASSUME NEW s \in Requests \ {r} PROVE AuditsBy(s)' = AuditsBy(s)
      BY <2>1 DEF AuditsBy
    <2>7. \A s \in Requests \ {r} : status'[s] = status[s]
      BY <1>4 DEF Commits, End, Inv, TypeOK
    <2>8. Cardinality({new}) = 1
      BY FS_Singleton
    <2>9. ASSUME NEW s \in Requests, status'[s] = "201"
          PROVE  Cardinality(AuditsBy(s)') = 1
      <3>1. CASE s = r
        BY <2>5, <2>8, <3>1
      <3>2. CASE s # r
        BY <2>6, <2>7, <2>9, <3>2 DEF AuditInv
      <3>3. QED
        BY <3>1, <3>2
    <2>10. QED
      BY <1>4, <2>3, <2>4, <2>9 DEF AuditInv
  <1>5. ASSUME NEW r \in Requests, Creates(r) PROVE AuditInv'
    <2> DEFINE t == Payload[r]["transaction"]
               new == [transaction |-> t, action |-> "created", request |-> r]
    <2>1. audits' = audits \cup {new}
      BY <1>5 DEF Creates, Commits, Visible, Key
    <2>2. CreationsOf(t)' = {new}
      BY <1>5, <2>1, CreatesRow DEF CreationsOf, AuditInv
    <2>3. \A u : u # t => CreationsOf(u)' = CreationsOf(u)
      BY <2>1 DEF CreationsOf
    <2>4. Cardinality({new}) = 1
      BY FS_Singleton
    <2>5. ASSUME NEW p \in ToSet(rows'["transaction"])
          PROVE  Cardinality(CreationsOf(p["transaction"])') = 1
      <3>1. CASE p = Payload[r]
        BY <2>2, <2>4, <3>1
      <3>2. CASE p \in ToSet(rows["transaction"])
        <4>1. p["transaction"] # t
          BY <1>5, <3>2, CreatesRow
        <4>2. CreationsOf(p["transaction"])' = CreationsOf(p["transaction"])
          BY <2>3, <4>1
        <4>3. QED
          BY <3>2, <4>2 DEF AuditInv
      <3>3. QED
        BY <1>5, <3>1, <3>2, CreatesRow
    <2>6. QED
      BY <1>4, <1>5, <2>5, CreatesRow DEF Creates
  <1>6. ASSUME NEW r \in Requests, Repeats(r) PROVE AuditInv'
    <2>1. \A u : CreationsOf(u)' = CreationsOf(u)
      BY <1>6 DEF Repeats, Commits, Visible, CreationsOf
    <2>2. \A p \in ToSet(rows'["transaction"]) : Cardinality(CreationsOf(p["transaction"])') = 1
      BY <1>6, <2>1, RepeatsRow DEF AuditInv
    <2>3. QED
      BY <1>4, <1>6, <2>2, RepeatsRow DEF Repeats
  <1>7. CASE UNCHANGED vars
    BY <1>1, <1>7 DEF vars, database
  <1>8. QED
    BY <1>2, <1>3, <1>5, <1>6, <1>7, StepKinds DEF Kinds

LEMMA AuditInvTells == AuditInv => AuditTrail
  <1> SUFFICES ASSUME AuditInv PROVE AuditTrail
    OBVIOUS
  <1>1. ASSUME NEW i \in DOMAIN rows["transaction"]
        PROVE  Cardinality(CreationsOf(rows["transaction"][i]["transaction"])) = 1
    BY DEF AuditInv, ToSet
  <1>2. QED
    BY <1>1 DEF AuditInv, AuditTrail, CreationsOf, AuditsBy

(* The log tells who created each transaction, once, speaks of nothing     *)
(* that is not there, and holds every success once.                        *)
THEOREM AuditIsTrue == Spec => []AuditTrail
  <1>1. Init => AuditInv
    BY DEF Init, AuditInv, ToSet, Tables
  <1>2. QED
    BY <1>1, AuditStep, AuditInvTells, InvHolds, PTL DEF Spec

-----------------------------------------------------------------------------
(* What becomes of a published event's request. These facts are for those  *)
(* who read the events: a request publishes once, between its last INSERT  *)
(* and its COMMIT, and what it has published is of a request that is at    *)
(* its COMMIT, has created its transaction, or has failed.                 *)

CreationBy(r) ==
  [transaction |-> Key(r, "transaction"), action |-> "created", request |-> r]

Fates ==
  /\ \A i, j \in DOMAIN published : published[i] = published[j] => i = j
  /\ \A r \in ToSet(published) : pc[r] \in {"commit", "done"}
  /\ \A r \in ToSet(published) : status[r] = "201" => CreationBy(r) \in audits
  /\ \A a \in audits : a.transaction = Key(a.request, "transaction")
  /\ \A a, b \in audits :
       a.action = "created" /\ b.action = "created" /\ a.transaction = b.transaction => a = b

LEMMA FatesStep ==
  ASSUME Inv, AuditInv, Fates, [Next]_vars
  PROVE  Fates'
  <1> USE DEF Fates, CreationBy, Key
  <1>0. published \in Seq(Requests) /\ ToSet(published) \subseteq Requests
    BY DEF Inv, TypeOK, ToSet
  <1>1. ASSUME NEW r \in Requests, pc[r] = "publish", published' = Append(published, r)
        PROVE  /\ ToSet(published') = ToSet(published) \cup {r}
               /\ \A i, j \in DOMAIN published' : published'[i] = published'[j] => i = j
    <2>1. ToSet(published') = ToSet(published) \cup {r}
      BY <1>0, <1>1, AppendElements
    <2>2. \A i \in DOMAIN published : published[i] # r
      BY <1>1 DEF ToSet
    <2>3. /\ DOMAIN published' = 1..(Len(published) + 1)
          /\ DOMAIN published = 1..Len(published)
          /\ Len(published) \in Nat
          /\ \A i \in 1..Len(published) : published'[i] = published[i]
          /\ published'[Len(published) + 1] = r
      BY <1>0, <1>1
    <2>4. QED
      BY <2>1, <2>2, <2>3
  <1>2. ASSUME NEW r \in Requests, Announces(r) PROVE Fates'
    <2>1. pc' = [pc EXCEPT ![r] = "commit"] /\ UNCHANGED <<audits, status>>
      BY <1>2 DEF Announces, Goto, Unanswered, database
    <2>2. status[r] # "201"
      BY <1>2 DEF Announces, Inv, TypeOK
    <2>3. QED
      BY <1>0, <1>1, <1>2, <2>1, <2>2 DEF Announces, Inv, TypeOK
  <1>3. ASSUME NEW r \in Requests, GivesUp(r) PROVE Fates'
    <2>1. PICK code \in {"500", "lost"} : End(r, code, None)
      BY <1>3 DEF GivesUp
    <2>2. /\ pc' = [pc EXCEPT ![r] = "done"]
          /\ status' = [status EXCEPT ![r] = code]
          /\ UNCHANGED audits
      BY <1>3, <2>1 DEF GivesUp, End, Goto, database
    <2>3. CASE published' = published
      BY <1>0, <2>2, <2>3 DEF Inv, TypeOK
    <2>4. CASE pc[r] = "publish" /\ published' = Append(published, r)
      BY <1>0, <1>1, <2>2, <2>4 DEF Inv, TypeOK
    <2>5. QED
      BY <1>3, <2>3, <2>4 DEF GivesUp
  <1>4. ASSUME NEW r \in Requests, NEW action \in {"created", "duplicate"}, NEW data,
               Commits(r, action, data),
               action = "duplicate" => r \notin ToSet(published),
               action = "created" =>
                 \A p \in ToSet(rows["transaction"]) : p["transaction"] # Payload[r]["transaction"]
        PROVE  Fates'
    <2>1. PICK code \in {"201", "500", "lost"} :
            /\ pc' = [pc EXCEPT ![r] = "done"]
            /\ status' = [status EXCEPT ![r] = code]
            /\ UNCHANGED published
      BY <1>4 DEF Commits, End, Goto
    <2>2. audits' = audits \cup
            {[transaction |-> Key(r, "transaction"), action |-> action, request |-> r]}
      BY <1>4 DEF Commits, Visible
    <2>3. action = "created" => \A a \in audits : a.transaction # Key(r, "transaction")
      BY <1>4 DEF AuditInv
    <2>4. \A a, b \in audits' :
            a.action = "created" /\ b.action = "created" /\ a.transaction = b.transaction => a = b
      BY <2>2, <2>3
    <2>5. QED
      BY <1>0, <1>4, <2>1, <2>2, <2>4 DEF Inv, TypeOK
  <1>5. ASSUME NEW r \in Requests, Creates(r) \/ Repeats(r) PROVE Fates'
    BY <1>4, <1>5, CreatesRow DEF Creates, Repeats
  <1>6. ASSUME NEW r \in Requests,
               \/ Looks(r) \/ FindsDuplicate(r) \/ AuditsDuplicate(r)
               \/ \E table \in Tables, step \in Steps : Holds(r, table, step)
        PROVE  Fates'
    <2>1. UNCHANGED <<audits, published, status>>
      BY <1>6 DEF Looks, FindsDuplicate, AuditsDuplicate, Holds, Unanswered, database
    <2>2. pc[r] \notin {"commit", "done"}
      BY <1>6 DEF Looks, FindsDuplicate, AuditsDuplicate, Holds, Writing
    <2>3. \A s \in Requests \ {r} : pc'[s] = pc[s]
      BY <1>6 DEF Looks, FindsDuplicate, AuditsDuplicate, Holds, Goto, Inv, TypeOK
    <2>4. QED
      BY <1>0, <2>1, <2>2, <2>3
  <1>7. CASE UNCHANGED vars
    BY <1>7 DEF vars
  <1>8. QED
    BY <1>2, <1>3, <1>5, <1>6, <1>7, StepKinds DEF Kinds

(* Everything that the readers of the events need to know.                 *)
FateInv == Inv /\ AuditInv /\ CommitterPublished /\ CreatedIsPublished /\ Fates

LEMMA FateInvInit == Init => FateInv
  BY InvInit
     DEF Init, FateInv, AuditInv, CommitterPublished, CreatedIsPublished, Fates, ToSet, Tables

LEMMA FateInvStep == FateInv /\ [Next]_vars => FateInv'
  BY InvStep, AuditStep, PublishedStep, FatesStep DEF FateInv

Survives(r) == r \in ToSet(published) /\ status[r] \notin {"500", "lost"}

(* Of the published events of a transaction, all but one at most are of    *)
(* requests that failed.                                                   *)
LEMMA OneSurvivor ==
  ASSUME FateInv, NEW r \in Requests, NEW s \in Requests, Survives(r), Survives(s),
         Payload[r]["transaction"] = Payload[s]["transaction"]
  PROVE  r = s
  <1> USE DEF FateInv
  <1>1. ASSUME NEW q \in Requests, Survives(q)
        PROVE  \/ pc[q] = "commit" /\ "transaction" \in inserted[q] /\ ~Exists(q, "transaction")
               \/ CreationBy(q) \in audits /\ Exists(q, "transaction")
    <2>1. CASE pc[q] = "commit"
      BY <2>1 DEF Inv, HeldByStep, HeldUnique
    <2>2. CASE pc[q] = "done"
      <3>1. status[q] = "201"
        BY <1>1, <2>2 DEF Survives, Inv, TypeOK, Statuses
      <3>2. CreationBy(q) \in audits
        BY <1>1, <3>1 DEF Survives, Fates
      <3>3. \E p \in ToSet(rows["transaction"]) : p["transaction"] = Key(q, "transaction")
        BY <3>2 DEF AuditInv, CreationBy
      <3>4. QED
        BY <3>2, <3>3, ExistsInSet DEF Tables
    <2>3. QED
      BY <1>1, <2>1, <2>2 DEF Survives, Fates
  <1>2. Key(r, "transaction") = Key(s, "transaction")
    BY DEF Key
  <1>3. Exists(r, "transaction") <=> Exists(s, "transaction")
    BY <1>2 DEF Exists
  <1>4. CASE Exists(r, "transaction")
    <2>1. CreationBy(r) \in audits /\ CreationBy(s) \in audits
      BY <1>1, <1>3, <1>4
    <2>2. CreationBy(r) = CreationBy(s)
      BY <1>2, <2>1 DEF Fates, CreationBy
    <2>3. QED
      BY <2>2 DEF CreationBy
  <1>5. CASE ~Exists(r, "transaction")
    BY <1>1, <1>2, <1>3, <1>5 DEF Inv, HeldUnique
  <1>6. QED
    BY <1>4, <1>5

(* The event of a stored transaction: its creator has published one.       *)
LEMMA StoredWasPublished ==
  ASSUME FateInv, NEW p \in ToSet(rows["transaction"])
  PROVE  \E r \in Requests :
           r \in ToSet(published) /\ Payload[r]["transaction"] = p["transaction"]
  <1>1. CreationsOf(p["transaction"]) # {}
    BY FS_EmptySet DEF FateInv, AuditInv
  <1>2. PICK a \in audits : a.transaction = p["transaction"] /\ a.action = "created"
    BY <1>1 DEF CreationsOf
  <1>3. a.request \in Requests
    BY DEF FateInv, Inv, TypeOK, Audits
  <1>4. QED
    BY <1>2, <1>3 DEF FateInv, CreatedIsPublished, Fates, Key

-----------------------------------------------------------------------------
(* What is behind an error response stays: rows are never removed.         *)
LEMMA CauseStep == Inv /\ FailureNeedsCause /\ [Next]_vars => FailureNeedsCause'
  <1> SUFFICES ASSUME Inv, FailureNeedsCause, [Next]_vars,
                      NEW s \in Requests, status'[s] = "500"
               PROVE  faults' > 0 \/ Cause(s)'
    BY DEF FailureNeedsCause, Cause
  <1>1. ASSUME NEW table \in Tables, Exists(s, table) PROVE Exists(s, table)'
    <2>1. ASSUME NEW r \in Requests, Creates(r) \/ Repeats(r) PROVE Exists(s, table)'
      BY <1>1, <2>1, VisibleExists DEF Creates, Repeats, Commits, Inv
    <2>2. CASE UNCHANGED rows
      BY <1>1, <2>2 DEF Exists, Key
    <2>3. QED
      BY <2>1, <2>2, StepKinds
         DEF Kinds, Looks, FindsDuplicate, AuditsDuplicate, Holds, Announces, GivesUp, database,
             vars
  <1>2. Cause(s) => Cause(s)'
    BY <1>1 DEF Cause, Encodable
  <1>3. faults \in Nat
    BY IngestionAssumption DEF Inv, TypeOK
  <1>4. faults' >= faults
    BY <1>3, StepKinds DEF Kinds, Looks, FindsDuplicate, AuditsDuplicate, Holds, Announces, GivesUp,
       Creates, Repeats, Commits, Unanswered, vars
  <1>5. CASE status[s] = "500"
    <2>1. faults > 0 \/ Cause(s)
      BY <1>5 DEF FailureNeedsCause, Cause
    <2>2. faults > 0 => faults' > 0
      <3>1. faults' \in Nat
        BY TypeStep, IngestionAssumption DEF Inv, TypeOK
      <3>2. QED
        BY <1>3, <1>4, <3>1
    <2>3. QED
      BY <1>2, <2>1, <2>2
  <1>6. CASE status[s] # "500"
    <2>1. PICK r \in Requests : GivesUp(r) \/ Creates(r) \/ Repeats(r)
      BY <1>6, StepKinds
         DEF Kinds, Looks, FindsDuplicate, AuditsDuplicate, Holds, Announces, Unanswered, vars
    <2>2. r = s
      BY <1>6, <2>1 DEF GivesUp, Creates, Repeats, Commits, End, Inv, TypeOK
    <2>3. Cause(s) \/ faults' = faults + 1
      BY <1>6, <2>1, <2>2 DEF GivesUp, Creates, Repeats, Commits, End, Inv, TypeOK
    <2>4. QED
      BY <1>2, <1>3, <2>3
  <1>7. QED
    BY <1>5, <1>6

(* Without a fault, only an overlong id, an event that cannot be encoded   *)
(* or a committed competitor makes a request fail.                         *)
THEOREM FailuresHaveCauses == Spec => []FailureNeedsCause
  <1>1. Init => FailureNeedsCause
    BY DEF Init, FailureNeedsCause
  <1>2. QED
    BY <1>1, CauseStep, InvHolds, PTL DEF Spec

-----------------------------------------------------------------------------
(* The service implements the registry.                                    *)

LEMMA RegistryStep ==
  Inv /\ [Next]_vars => [Registry!Next]_<<ToSet(rows["transaction"]), response>>
  <1> SUFFICES ASSUME Inv, [Next]_vars
               PROVE  Registry!Next \/ UNCHANGED <<ToSet(rows["transaction"]), response>>
    OBVIOUS
  <1>1. ASSUME NEW r \in Requests, pc[r] # "done" PROVE response[r] = None
    BY <1>1 DEF Inv, TypeOK
  <1>2. ASSUME NEW r \in Requests, pc[r] # "done",
               NEW code, End(r, code, None)
        PROVE  response' = response
    BY <1>1, <1>2 DEF End, Inv, TypeOK
  <1>3. ASSUME NEW r \in Requests, GivesUp(r)
        PROVE  UNCHANGED <<ToSet(rows["transaction"]), response>>
    BY <1>2, <1>3 DEF GivesUp, database
  <1>4. ASSUME NEW r \in Requests, Creates(r) PROVE Registry!Next
    <2>1. response' = response \/ response' = [response EXCEPT ![r] = Payload[r]]
      BY <1>2, <1>4 DEF Creates, Commits, End
    <2>2. Registry!Register(r)
      BY <1>4, <2>1, CreatesRow DEF Registry!Register, Registry!Registered
    <2>3. QED
      BY <2>2 DEF Registry!Next
  <1>5. ASSUME NEW r \in Requests, Repeats(r)
        PROVE  Registry!Next \/ UNCHANGED <<ToSet(rows["transaction"]), response>>
    <2>1. response' = response \/ response' = [response EXCEPT ![r] = existing[r]]
      BY <1>2, <1>5 DEF Repeats, Commits, End
    <2>2. response[r] = None
      BY <1>1, <1>5 DEF Repeats
    <2>3. CASE response' = [response EXCEPT ![r] = existing[r]]
      <3>1. Registry!Answer(r)
        BY <1>5, <2>2, <2>3, RepeatsRow DEF Registry!Answer, Registry!Registered
      <3>2. QED
        BY <3>1 DEF Registry!Next
    <2>4. CASE response' = response
      BY <1>5, <2>4, RepeatsRow
    <2>5. QED
      BY <2>1, <2>3, <2>4
  <1>6. ASSUME NEW r \in Requests,
               \/ Looks(r) \/ FindsDuplicate(r) \/ AuditsDuplicate(r) \/ Announces(r)
               \/ \E table \in Tables, step \in Steps : Holds(r, table, step)
        PROVE  UNCHANGED <<ToSet(rows["transaction"]), response>>
    BY <1>6 DEF Looks, FindsDuplicate, AuditsDuplicate, Announces, Holds, Unanswered, database
  <1>7. CASE UNCHANGED vars
    BY <1>7 DEF vars
  <1>8. QED
    BY <1>3, <1>4, <1>5, <1>6, <1>7, StepKinds DEF Kinds

(* Seen by its clients, the service is a registry: a transaction is        *)
(* registered at most once, for good, and every successful answer, to the  *)
(* first submission or to any later one, is the stored payload.            *)
THEOREM ImplementsRegistry == Spec => RegistrySpec
  <1>1. Init => Registry!Init
    BY DEF Init, Registry!Init, ToSet, Tables
  <1>2. QED
    BY <1>1, RegistryStep, InvHolds, PTL DEF Spec, RegistrySpec, Registry!Spec
=============================================================================
