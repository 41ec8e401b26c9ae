-------------------------- MODULE MigrationsProofs --------------------------
(***************************************************************************)
(* Theorems about overlapping runs of Alembic, for any number of runs that *)
(* overlap, fail or die between any two of their statements.               *)
(*                                                                         *)
(* The argument. A plan is a list of statements that drops whole tables    *)
(* and ends by recording the version it leads to. The inductive            *)
(* invariant says of each run that its locks cover what it has changed or  *)
(* referred to, that the effects of its transaction are those of the       *)
(* statements it has executed, and that from its first statement on, the   *)
(* version it has read is that of the catalog. What another run commits    *)
(* touches only tables that this one has not locked, and so keeps all of   *)
(* it; what this one commits is a whole schema of its target.              *)
(*                                                                         *)
(* Two more invariants build on this one. A plan is a path of statements   *)
(* each of which is possible after the one before, so a run that no rival  *)
(* has overtaken has such a path ahead of it and cannot fail. And plans    *)
(* take their locks in an order, in which the holder of `transactions`, or *)
(* any holder while nobody has it, waits for nobody.                       *)
(***************************************************************************)
EXTENDS Migrations, TLAPS

-----------------------------------------------------------------------------
(* Lists of statements, and what they add and remove in all.               *)

Tables ==
  {"accounts", "merchants", "transactions", "risk_evaluations", "alerts",
   "transaction_audit_logs", "risk_assessments"}

Columns ==
  {"external_id", "account_id", "merchant_id", "occurred_at", "status", "transaction_id",
   "score", "outcome", "severity", "is_resolved", "action", "request_id", "event_id",
   "risk_level", "decision"}

Names == Tables \cup Columns \cup {"alembic_version"}

Objects == Seq(Names \cup {"unique", "references", "index", "row", 1, 2})
StatementType == [adds : SUBSET Objects, removes : SUBSET Objects]

Adds(p) == UNION {p[i].adds : i \in 1..Len(p)}
Removes(p) == UNION {p[i].removes : i \in 1..Len(p)}

LEMMA Tuples ==
  ASSUME NEW S, NEW a \in S, NEW b \in S, NEW c \in S
  PROVE  /\ <<a>> \in Seq(S) /\ Len(<<a>>) = 1
         /\ <<a, b, c>> \in Seq(S) /\ Len(<<a, b, c>>) = 3
  OBVIOUS

LEMMA ObjectsType ==
  ASSUME NEW t \in Names, NEW u \in Names, NEW v \in {1, 2}
  PROVE  /\ Table(t) \in Objects /\ Unique(t, u) \in Objects
         /\ References(t, u) \in Objects /\ Index(t, u) \in Objects
         /\ VersionRow(v) \in Objects
  <1> DEFINE S == Names \cup {"unique", "references", "index", "row", 1, 2}
  <1>1. t \in S /\ u \in S /\ v \in S /\ "unique" \in S /\ "references" \in S /\ "index" \in S
        /\ "alembic_version" \in S /\ "row" \in S
    BY DEF Names
  <1>2. Objects = Seq(S)
    BY DEF Objects
  <1> HIDE DEF S
  <1>3. QED
    BY <1>1, <1>2, Tuples DEF Table, Unique, References, Index, VersionRow

LEMMA Concatenation ==
  ASSUME NEW p \in Seq(StatementType), NEW q \in Seq(StatementType)
  PROVE  /\ p \o q \in Seq(StatementType)
         /\ Len(p \o q) = Len(p) + Len(q)
         /\ Adds(p \o q) = Adds(p) \cup Adds(q)
         /\ Removes(p \o q) = Removes(p) \cup Removes(q)
         /\ Len(p) > 0 => (p \o q)[1] = p[1]
         /\ Len(q) > 0 => (p \o q)[Len(p \o q)] = q[Len(q)]
  <1> DEFINE n == Len(p)
             m == Len(q)
             s == p \o q
  <1>1. n \in Nat /\ m \in Nat /\ s \in Seq(StatementType) /\ Len(s) = n + m
    OBVIOUS
  <1>2. \A i \in 1..n : i \in 1..(n + m) /\ s[i] = p[i]
    OBVIOUS
  <1>3. \A i \in 1..m : n + i \in 1..(n + m) /\ s[n + i] = q[i]
    BY <1>1
  <1>4. \A i \in 1..(n + m) : i \in 1..n \/ (i - n \in 1..m /\ s[i] = q[i - n])
    BY <1>1
  <1>10. Len(p) = n /\ Len(q) = m
    OBVIOUS
  <1> HIDE DEF s, n, m
  <1>5. Adds(s) = Adds(p) \cup Adds(q)
    <2>1. ASSUME NEW x \in Adds(s) PROVE x \in Adds(p) \cup Adds(q)
      <3>1. PICK i \in 1..(n + m) : x \in s[i].adds
        BY <1>1, <2>1 DEF Adds
      <3>2. QED
        BY <1>2, <1>4, <1>10, <3>1 DEF Adds
    <2>2. ASSUME NEW x \in Adds(p) PROVE x \in Adds(s)
      <3>1. PICK i \in 1..n : x \in p[i].adds
        BY <1>10, <2>2 DEF Adds
      <3>2. QED
        BY <1>1, <1>2, <3>1 DEF Adds
    <2>3. ASSUME NEW x \in Adds(q) PROVE x \in Adds(s)
      <3>1. PICK i \in 1..m : x \in q[i].adds
        BY <1>10, <2>3 DEF Adds
      <3>2. QED
        BY <1>1, <1>3, <3>1 DEF Adds
    <2>4. QED
      BY <2>1, <2>2, <2>3
  <1>6. Removes(s) = Removes(p) \cup Removes(q)
    <2>1. ASSUME NEW x \in Removes(s) PROVE x \in Removes(p) \cup Removes(q)
      <3>1. PICK i \in 1..(n + m) : x \in s[i].removes
        BY <1>1, <2>1 DEF Removes
      <3>2. QED
        BY <1>2, <1>4, <1>10, <3>1 DEF Removes
    <2>2. ASSUME NEW x \in Removes(p) PROVE x \in Removes(s)
      <3>1. PICK i \in 1..n : x \in p[i].removes
        BY <1>10, <2>2 DEF Removes
      <3>2. QED
        BY <1>1, <1>2, <3>1 DEF Removes
    <2>3. ASSUME NEW x \in Removes(q) PROVE x \in Removes(s)
      <3>1. PICK i \in 1..m : x \in q[i].removes
        BY <1>10, <2>3 DEF Removes
      <3>2. QED
        BY <1>1, <1>3, <3>1 DEF Removes
    <2>4. QED
      BY <2>1, <2>2, <2>3
  <1>7. n > 0 => s[1] = p[1]
    BY <1>1, <1>2
  <1>8. m > 0 => s[Len(s)] = q[m]
    BY <1>1, <1>3
  <1>9. QED
    BY <1>1, <1>5, <1>6, <1>7, <1>8 DEF s, n, m

LEMMA OneStatement ==
  ASSUME NEW s \in StatementType
  PROVE  /\ <<s>> \in Seq(StatementType) /\ Len(<<s>>) = 1
         /\ Adds(<<s>>) = s.adds /\ Removes(<<s>>) = s.removes
  <1>1. <<s>> \in Seq(StatementType) /\ Len(<<s>>) = 1 /\ <<s>>[1] = s
    OBVIOUS
  <1> DEFINE p == <<s>>
  <1>2. Len(p) = 1 /\ p[1] = s
    BY <1>1
  <1> HIDE DEF p
  <1>3. Adds(p) = s.adds /\ Removes(p) = s.removes
    <2>1. 1..Len(p) = {1}
      BY <1>2
    <2>2. QED
      BY <1>2, <2>1 DEF Adds, Removes
  <1>4. QED
    BY <1>1, <1>3 DEF p

WithKeys(t, uniques, others) ==
  {Table(t)} \cup {Unique(t, c) : c \in uniques} \cup {References(t, u) : u \in others}

LEMMA CreateTableType ==
  ASSUME NEW t \in Names, NEW uniques \in SUBSET Names, NEW others \in SUBSET Names
  PROVE  LET p == CreateTable(t, uniques, others)
             objects == WithKeys(t, uniques, others)
         IN  /\ p \in Seq(StatementType) /\ Len(p) = 1
             /\ Adds(p) = objects /\ Removes(p) = {}
             /\ p[1] = [adds |-> objects, removes |-> {}]
  <1> DEFINE objects == WithKeys(t, uniques, others)
             s == [adds |-> objects, removes |-> {}]
  <1>1. objects \subseteq Objects
    <2>1. 1 \in {1, 2}
      OBVIOUS
    <2>2. QED
      BY <2>1, ObjectsType DEF WithKeys
  <1>2. CreateTable(t, uniques, others) = <<s>>
    BY DEF CreateTable, WithKeys
  <1> HIDE DEF objects
  <1>3. s \in StatementType /\ s.adds = objects /\ s.removes = {}
    BY <1>1 DEF StatementType
  <1> HIDE DEF s
  <1>4. Len(<<s>>) = 1 /\ <<s>>[1] = s
    OBVIOUS
  <1>5. QED
    BY <1>2, <1>3, <1>4, OneStatement DEF objects, s

LEMMA CreateIndexesType ==
  ASSUME NEW t \in Names, NEW columns \in Seq(Names)
  PROVE  LET p == CreateIndexes(t, columns) IN
         /\ p \in Seq(StatementType) /\ Len(p) = Len(columns)
         /\ Adds(p) = {Index(t, columns[i]) : i \in 1..Len(columns)} /\ Removes(p) = {}
  <1> DEFINE n == Len(columns)
             p == CreateIndexes(t, columns)
  <1>1. n \in Nat /\ DOMAIN columns = 1..n /\ \A i \in 1..n : columns[i] \in Names
    OBVIOUS
  <1>2. \A i \in 1..n : [adds |-> {Index(t, columns[i])}, removes |-> {}] \in StatementType
    <2>1. \A i \in 1..n : Index(t, columns[i]) \in Objects
      <3>1. 1 \in {1, 2}
        OBVIOUS
      <3>2. QED
        BY <1>1, <3>1, ObjectsType
    <2>2. QED
      BY <2>1 DEF StatementType
  <1>3. p = [i \in 1..n |-> [adds |-> {Index(t, columns[i])}, removes |-> {}]]
    BY <1>1 DEF CreateIndexes
  <1>4. p \in [1..n -> StatementType]
    BY <1>2, <1>3
  <1>5. \A i \in 1..n : p[i].adds = {Index(t, columns[i])} /\ p[i].removes = {}
    BY <1>3
  <1> HIDE DEF p, n
  <1>6. p \in Seq(StatementType) /\ Len(p) = n
    BY <1>1, <1>4
  <1>7. Adds(p) = {Index(t, columns[i]) : i \in 1..n} /\ Removes(p) = {}
    BY <1>5, <1>6 DEF Adds, Removes
  <1>8. QED
    BY <1>6, <1>7 DEF p, n

LEMMA DropTableType ==
  ASSUME NEW t \in Names, NEW columns \in Seq(Names), Len(columns) > 0
  PROVE  LET p == DropTable(t, columns) IN
         /\ p \in Seq(StatementType) /\ Len(p) = Len(columns) + 1
         /\ Adds(p) = {}
         /\ Removes(p) = {Index(t, columns[i]) : i \in 1..Len(columns)} \cup {Table(t)}
         /\ p[1].removes = {Index(t, columns[1])}
  <1> DEFINE n == Len(columns)
             a == [i \in DOMAIN columns |-> [adds |-> {}, removes |-> {Index(t, columns[i])}]]
             s == [adds |-> {}, removes |-> {Table(t)}]
  <1>1. n \in Nat /\ DOMAIN columns = 1..n /\ \A i \in 1..n : columns[i] \in Names
    OBVIOUS
  <1>2. \A i \in 1..n : Index(t, columns[i]) \in Objects /\ Table(t) \in Objects
    <2>1. 1 \in {1, 2}
      OBVIOUS
    <2>2. QED
      BY <1>1, <2>1, ObjectsType
  <1>3. a \in [1..n -> StatementType] /\ s \in StatementType
    BY <1>1, <1>2 DEF StatementType
  <1>4. \A i \in 1..n : a[i].adds = {} /\ a[i].removes = {Index(t, columns[i])}
    BY <1>1
  <1>5. s.adds = {} /\ s.removes = {Table(t)} /\ DropTable(t, columns) = a \o <<s>>
    BY DEF DropTable
  <1> HIDE DEF a, s, n
  <1>6. a \in Seq(StatementType) /\ Len(a) = n
    BY <1>1, <1>3
  <1>7. Adds(a) = {} /\ Removes(a) = {Index(t, columns[i]) : i \in 1..n}
    BY <1>4, <1>6 DEF Adds, Removes
  <1>8. /\ <<s>> \in Seq(StatementType) /\ Len(<<s>>) = 1
        /\ Adds(<<s>>) = {} /\ Removes(<<s>>) = {Table(t)}
    BY <1>3, <1>5, OneStatement
  <1> DEFINE q == <<s>>
  <1> HIDE DEF q
  <1>9. /\ a \o q \in Seq(StatementType) /\ Len(a \o q) = n + 1
        /\ Adds(a \o q) = {} /\ Removes(a \o q) =
                  {Index(t, columns[i]) : i \in 1..n} \cup {Table(t)}
        /\ (a \o q)[1] = a[1]
    <2>1. q \in Seq(StatementType) /\ Len(q) = 1 /\ Adds(q) = {} /\ Removes(q) = {Table(t)}
      BY <1>8 DEF q
    <2>2. n > 0
      BY DEF n
    <2>3. /\ a \o q \in Seq(StatementType) /\ Len(a \o q) = Len(a) + Len(q)
          /\ Adds(a \o q) = Adds(a) \cup Adds(q)
          /\ Removes(a \o q) = Removes(a) \cup Removes(q)
          /\ Len(a) > 0 => (a \o q)[1] = a[1]
      BY <1>6, <2>1, Concatenation
    <2> DEFINE b == a \o q
    <2> HIDE DEF b
    <2>4. QED
      BY <1>6, <1>7, <2>1, <2>2, <2>3 DEF b
  <1>10. 1 \in 1..n
    BY <1>1 DEF n
  <1>11. QED
    BY <1>4, <1>5, <1>9, <1>10 DEF n, q

LEMMA SetVersionType ==
  ASSUME NEW old \in 0..2, NEW new \in 0..2
  PROVE  LET p == SetVersion(old, new) IN
         /\ p \in Seq(StatementType) /\ Len(p) = 1
         /\ p[1].adds = (IF new = 0 THEN {} ELSE {VersionRow(new)})
         /\ p[1].removes = (IF old = 0 THEN {} ELSE {VersionRow(old)})
         /\ Adds(p) = p[1].adds /\ Removes(p) = p[1].removes
  <1> DEFINE s == [adds |-> IF new = 0 THEN {} ELSE {VersionRow(new)},
                   removes |-> IF old = 0 THEN {} ELSE {VersionRow(old)}]
  <1>1. \A v \in {1, 2} : VersionRow(v) \in Objects
    <2>1. "alembic_version" \in Names
      BY DEF Names
    <2>2. QED
      BY <2>1, ObjectsType
  <1>2. s \in StatementType
    BY <1>1 DEF StatementType
  <1>3. /\ s.adds = (IF new = 0 THEN {} ELSE {VersionRow(new)})
        /\ s.removes = (IF old = 0 THEN {} ELSE {VersionRow(old)})
    OBVIOUS
  <1>4. SetVersion(old, new) = <<s>>
    BY DEF SetVersion
  <1> HIDE DEF s
  <1>5. <<s>>[1] = s
    OBVIOUS
  <1>6. QED
    BY <1>2, <1>3, <1>4, <1>5, OneStatement

(* Lists of columns.                                                       *)

LEMMA OneIndex ==
  ASSUME NEW t \in Names, NEW a \in Names
  PROVE  LET p == CreateIndexes(t, <<a>>) IN
         /\ p \in Seq(StatementType) /\ Removes(p) = {}
         /\ Adds(p) = {Index(t, a)}
  <1> DEFINE l == <<a>>
  <1>1. l \in Seq(Names) /\ Len(l) = 1
    OBVIOUS
  <1>2. {Index(t, l[i]) : i \in 1..1} = {Index(t, a)}
    <2>1. 1..1 = {1}
      OBVIOUS
    <2>2. l[1] = a
      OBVIOUS
    <2> HIDE DEF l
    <2>3. QED
      BY <2>1, <2>2
  <1> HIDE DEF l
  <1>3. /\ CreateIndexes(t, l) \in Seq(StatementType) /\ Removes(CreateIndexes(t, l)) = {}
        /\ Adds(CreateIndexes(t, l)) = {Index(t, a)}
    BY <1>1, <1>2, CreateIndexesType
  <1>4. QED
    BY <1>3 DEF l

LEMMA TwoIndexes ==
  ASSUME NEW t \in Names, NEW a \in Names, NEW b \in Names
  PROVE  LET p == CreateIndexes(t, <<a, b>>) IN
         /\ p \in Seq(StatementType) /\ Removes(p) = {}
         /\ Adds(p) = {Index(t, a), Index(t, b)}
  <1> DEFINE l == <<a, b>>
  <1>1. l \in Seq(Names) /\ Len(l) = 2
    OBVIOUS
  <1>2. {Index(t, l[i]) : i \in 1..2} = {Index(t, a), Index(t, b)}
    <2>1. 1..2 = {1, 2}
      OBVIOUS
    <2>2. l[1] = a /\ l[2] = b
      OBVIOUS
    <2> HIDE DEF l
    <2>3. QED
      BY <2>1, <2>2
  <1> HIDE DEF l
  <1>3. /\ CreateIndexes(t, l) \in Seq(StatementType) /\ Removes(CreateIndexes(t, l)) = {}
        /\ Adds(CreateIndexes(t, l)) = {Index(t, a), Index(t, b)}
    BY <1>1, <1>2, CreateIndexesType
  <1>4. QED
    BY <1>3 DEF l

LEMMA ThreeIndexes ==
  ASSUME NEW t \in Names, NEW a \in Names, NEW b \in Names, NEW c \in Names
  PROVE  LET p == CreateIndexes(t, <<a, b, c>>) IN
         /\ p \in Seq(StatementType) /\ Removes(p) = {}
         /\ Adds(p) = {Index(t, a), Index(t, b), Index(t, c)}
  <1> DEFINE l == <<a, b, c>>
  <1>1. l \in Seq(Names) /\ Len(l) = 3
    OBVIOUS
  <1>2. {Index(t, l[i]) : i \in 1..3} = {Index(t, a), Index(t, b), Index(t, c)}
    <2>1. 1..3 = {1, 2, 3}
      OBVIOUS
    <2>2. l[1] = a /\ l[2] = b /\ l[3] = c
      OBVIOUS
    <2> HIDE DEF l
    <2>3. QED
      BY <2>1, <2>2
  <1> HIDE DEF l
  <1>3. /\ CreateIndexes(t, l) \in Seq(StatementType) /\ Removes(CreateIndexes(t, l)) = {}
        /\ Adds(CreateIndexes(t, l)) = {Index(t, a), Index(t, b), Index(t, c)}
    BY <1>1, <1>2, CreateIndexesType
  <1>4. QED
    BY <1>3 DEF l

LEMMA FiveIndexes ==
  ASSUME NEW t \in Names, NEW l \in Seq(Names), Len(l) = 5
  PROVE  LET p == CreateIndexes(t, l) IN
         /\ p \in Seq(StatementType) /\ Removes(p) = {}
         /\ Adds(p) = {Index(t, l[1]), Index(t, l[2]), Index(t, l[3]), Index(t, l[4]), Index(t, l[5])}
  <1>1. {Index(t, l[i]) : i \in 1..5}
          = {Index(t, l[1]), Index(t, l[2]), Index(t, l[3]), Index(t, l[4]), Index(t, l[5])}
    <2>1. 1..5 = {1, 2, 3, 4, 5}
      OBVIOUS
    <2>2. QED
      BY <2>1
  <1>2. QED
    BY <1>1, CreateIndexesType


LEMMA DroppedTable ==
  ASSUME NEW t \in Names, NEW columns \in Seq(Names), Len(columns) > 0
  PROVE  LET p == DropTable(t, columns) IN
         /\ p \in Seq(StatementType) /\ Len(p) > 0
         /\ Adds(p) = {}
         /\ Table(t) \in Removes(p) /\ \A o \in Removes(p) : o[1] = t
         /\ p[1].removes = {Index(t, columns[1])}
  <1>1. Table(t)[1] = t /\ \A c : Index(t, c)[1] = t
    BY DEF Table, Index
  <1> DEFINE p == DropTable(t, columns)
  <1>2. /\ p \in Seq(StatementType) /\ Len(p) = Len(columns) + 1 /\ Adds(p) = {}
        /\ Removes(p) = {Index(t, columns[i]) : i \in 1..Len(columns)} \cup {Table(t)}
        /\ p[1].removes = {Index(t, columns[1])}
    BY DropTableType
  <1> HIDE DEF p
  <1>3. QED
    BY <1>1, <1>2 DEF p

LEMMA NameLists ==
  ASSUME NEW a \in Names, NEW b \in Names, NEW c \in Names, NEW d \in Names, NEW e \in Names
  PROVE  /\ <<a>> \in Seq(Names) /\ Len(<<a>>) > 0 /\ <<a>>[1] = a
         /\ <<a, b>> \in Seq(Names) /\ Len(<<a, b>>) > 0 /\ <<a, b>>[1] = a
         /\ <<a, b, c>> \in Seq(Names) /\ Len(<<a, b, c>>) > 0 /\ <<a, b, c>>[1] = a
         /\ <<a, b, c, d, e>> \in Seq(Names) /\ Len(<<a, b, c, d, e>>) > 0
         /\ <<a, b, c, d, e>>[1] = a
  OBVIOUS

-----------------------------------------------------------------------------
(* The schemas of the versions.                                            *)

LEMMA ObjectParts ==
  ASSUME NEW t, NEW u
  PROVE  /\ Table(t)[1] = t /\ Unique(t, u)[1] = t /\ References(t, u)[1] = t /\ Index(t, u)[1] = t
         /\ References(t, u)[3] = u /\ IsReference(References(t, u))
  BY DEF Table, Unique, References, Index, IsReference

LEMMA VersionRows ==
  /\ VersionRow(1)[1] = "alembic_version" /\ VersionRow(2)[1] = "alembic_version"
  /\ VersionRow(1) # VersionRow(2)
  /\ \A t : Table(t) # VersionRow(1) /\ Table(t) # VersionRow(2)
  <1>1. \A t, v : Len(Table(t)) = 1 /\ Len(VersionRow(v)) = 3
    BY DEF Table, VersionRow
  <1>2. \A v : VersionRow(v)[1] = "alembic_version" /\ VersionRow(v)[3] = v
    BY DEF VersionRow
  <1>3. VersionRow(1) # VersionRow(2)
    BY <1>2
  <1>4. \A t : Table(t) # VersionRow(1) /\ Table(t) # VersionRow(2)
    BY <1>1
  <1>5. QED
    BY <1>2, <1>3, <1>4

(* What each table of a schema is made of.                                 *)
LEMMA ModelTables ==
  /\ ModelObjects("accounts") =
       {Table("accounts"), Unique("accounts", "external_id"),
        Index("accounts", "external_id"), Index("accounts", "status")}
  /\ ModelObjects("merchants") =
       {Table("merchants"), Unique("merchants", "external_id"), Index("merchants", "external_id")}
  /\ ModelObjects("transactions") =
       {Table("transactions"), Unique("transactions", "external_id"),
        References("transactions", "accounts"), References("transactions", "merchants"),
        Index("transactions", "external_id"), Index("transactions", "account_id"),
        Index("transactions", "merchant_id"), Index("transactions", "occurred_at"),
        Index("transactions", "ingested_at"), Index("transactions", "status")}
  /\ ModelObjects("transaction_audit_logs") =
       {Table("transaction_audit_logs"), References("transaction_audit_logs", "transactions"),
        Index("transaction_audit_logs", "transaction_id"),
        Index("transaction_audit_logs", "action"), Index("transaction_audit_logs", "request_id")}
  /\ ModelObjects("risk_evaluations") =
       {Table("risk_evaluations"), References("risk_evaluations", "transactions"),
        Index("risk_evaluations", "transaction_id"), Index("risk_evaluations", "score"),
        Index("risk_evaluations", "outcome")}
  /\ ModelObjects("alerts") =
       {Table("alerts"), References("alerts", "transactions"), Index("alerts", "transaction_id"),
        Index("alerts", "severity"), Index("alerts", "is_resolved")}
  /\ ModelObjects("risk_assessments") =
       {Table("risk_assessments"), Unique("risk_assessments", "event_id"),
        References("risk_assessments", "transactions"),
        Index("risk_assessments", "transaction_id"), Index("risk_assessments", "risk_level"),
        Index("risk_assessments", "decision")}
  BY DEF ModelObjects, Model

LEMMA ModelDomain == DOMAIN Model = Tables
  BY DEF Model, Tables

LEMMA Schema ==
  /\ Schemas[1] = {}
  /\ Schemas[2] = ModelOf(Tables \ {"risk_assessments"})
  /\ Schemas[3] = ModelOf(Tables)
  BY ModelDomain DEF Schemas

LEMMA ModelParts ==
  /\ \A t \in Tables : \A o \in ModelObjects(t) : o[1] = t
  /\ \A t \in Tables : Table(t) \in ModelObjects(t)
  BY ObjectParts DEF ModelObjects

(* The index that no revision creates.                                     *)
LEMMA IngestedAt ==
  LET missing == Index("transactions", "ingested_at") IN
  /\ \A t, u : missing # Table(t) /\ missing # Unique(t, u) /\ missing # References(t, u)
  /\ \A t : t # "transactions" => \A u : missing # Index(t, u)
  /\ \A u : u # "ingested_at" => missing # Index("transactions", u)
  <1>1. /\ Len(Index("transactions", "ingested_at")) = 3
        /\ Index("transactions", "ingested_at")[1] = "transactions"
        /\ Index("transactions", "ingested_at")[2] = "index"
        /\ Index("transactions", "ingested_at")[3] = "ingested_at"
    BY DEF Index
  <1>2. \A t, u : /\ Len(Table(t)) = 1
                 /\ Unique(t, u)[2] = "unique" /\ References(t, u)[2] = "references"
                 /\ Index(t, u)[1] = t /\ Index(t, u)[3] = u
    BY DEF Table, Unique, References, Index
  <1>3. \A t : Index("transactions", "ingested_at") # Table(t)
    BY <1>1, <1>2
  <1>4. \A t, u : /\ Index("transactions", "ingested_at") # Unique(t, u)
                 /\ Index("transactions", "ingested_at") # References(t, u)
    BY <1>1, <1>2
  <1>5. \A t, u : t # "transactions" => Index("transactions", "ingested_at") # Index(t, u)
    BY <1>1, <1>2
  <1>6. \A u : u # "ingested_at"
            => Index("transactions", "ingested_at") # Index("transactions", u)
    BY <1>1, <1>2
  <1>7. QED
    BY <1>3, <1>4, <1>5, <1>6

(* What a schema has of a table.                                           *)
SchemaObjects(t) == ModelObjects(t) \ {Index("transactions", "ingested_at")}

LEMMA SchemaTables ==
  /\ \A t \in Tables \ {"transactions"} : SchemaObjects(t) = ModelObjects(t)
  /\ SchemaObjects("transactions") =
       {Table("transactions"), Unique("transactions", "external_id"),
        References("transactions", "accounts"), References("transactions", "merchants"),
        Index("transactions", "external_id"), Index("transactions", "account_id"),
        Index("transactions", "merchant_id"), Index("transactions", "occurred_at"),
        Index("transactions", "status")}
  /\ \A t \in Tables : Table(t) \in SchemaObjects(t) /\ \A o \in SchemaObjects(t) : o[1] = t
  <1>1. \A t \in Tables \ {"transactions"} : Index("transactions", "ingested_at") \notin ModelObjects(t)
    BY ModelParts, ObjectParts
  <1>2. SchemaObjects("transactions") =
       {Table("transactions"), Unique("transactions", "external_id"),
        References("transactions", "accounts"), References("transactions", "merchants"),
        Index("transactions", "external_id"), Index("transactions", "account_id"),
        Index("transactions", "merchant_id"), Index("transactions", "occurred_at"),
        Index("transactions", "status")}
    BY ModelTables, IngestedAt DEF SchemaObjects
  <1>3. \A t \in Tables : Table(t) \in SchemaObjects(t) /\ \A o \in SchemaObjects(t) : o[1] = t
    BY ModelParts, IngestedAt DEF SchemaObjects
  <1>4. QED
    BY <1>1, <1>2, <1>3 DEF SchemaObjects

LEMMA SchemaUnion ==
  /\ Schemas[1] = {}
  /\ Schemas[2] = UNION {SchemaObjects(t) : t \in Tables \ {"risk_assessments"}}
  /\ Schemas[3] = Schemas[2] \cup SchemaObjects("risk_assessments")
  /\ \A o \in Schemas[2] : o[1] \in Tables \ {"risk_assessments"}
  <1>1. \A s, x : x \in ModelOf(s) <=> \E t \in s : x \in SchemaObjects(t)
    <2>1. SUFFICES ASSUME NEW s, NEW x
                   PROVE  x \in ModelOf(s) <=> \E t \in s : x \in SchemaObjects(t)
      OBVIOUS
    <2> DEFINE missing == Index("transactions", "ingested_at")
    <2> DEFINE objects == UNION {ModelObjects(t) : t \in s}
    <2>2. x \in ModelOf(s) <=> x # missing /\ \E t \in s : x \in ModelObjects(t)
      <3>1. ModelOf(s) = objects \ {missing}
        BY DEF ModelOf
      <3>2. x \in objects <=> \E t \in s : x \in ModelObjects(t)
        OBVIOUS
      <3> HIDE DEF objects, missing
      <3>3. QED
        BY <3>1, <3>2
    <2>3. \A t : x \in SchemaObjects(t) <=> x # missing /\ x \in ModelObjects(t)
      BY DEF SchemaObjects
    <2> HIDE DEF missing
    <2>4. QED
      BY <2>2, <2>3
  <1>2. Schemas[2] = UNION {SchemaObjects(t) : t \in Tables \ {"risk_assessments"}}
    BY <1>1, Schema
  <1>3. Schemas[3] = UNION {SchemaObjects(t) : t \in Tables}
    BY <1>1, Schema
  <1>4. "risk_assessments" \in Tables
    BY DEF Tables
  <1>5. Schemas[3] = Schemas[2] \cup SchemaObjects("risk_assessments")
    BY <1>2, <1>3, <1>4
  <1>6. QED
    BY <1>2, <1>5, Schema, SchemaTables

(* A table is created with its keys, and then its indexes, one by one.     *)
Creates(t, p, i) ==
  /\ p \in Seq(StatementType) /\ Len(p) > 0 /\ Removes(p) = {}
  /\ Table(t) \in p[1].adds /\ p[1].removes = {}
  /\ i \in Seq(StatementType) /\ Removes(i) = {}
  /\ Adds(p) \cup Adds(i) = SchemaObjects(t)

LEMMA TableWithIndexes ==
  ASSUME NEW t \in Names, NEW uniques \in SUBSET Names, NEW others \in SUBSET Names,
         NEW i \in Seq(StatementType), Removes(i) = {},
         WithKeys(t, uniques, others) \cup Adds(i) = SchemaObjects(t)
  PROVE  Creates(t, CreateTable(t, uniques, others), i)
  <1> DEFINE objects == WithKeys(t, uniques, others)
             p == CreateTable(t, uniques, others)
  <1>1. /\ p \in Seq(StatementType) /\ Len(p) = 1 /\ Adds(p) = objects /\ Removes(p) = {}
        /\ p[1] = [adds |-> objects, removes |-> {}]
    BY CreateTableType
  <1>2. Table(t) \in objects
    BY DEF WithKeys
  <1> HIDE DEF p, objects
  <1>3. p[1].adds = objects /\ p[1].removes = {}
    BY <1>1
  <1>4. Adds(p) \cup Adds(i) = SchemaObjects(t)
    BY <1>1 DEF objects
  <1>5. Creates(t, p, i)
    BY <1>1, <1>2, <1>3, <1>4 DEF Creates
  <1>6. QED
    BY <1>5 DEF p

LEMMA CreatedTables ==
  /\ Creates("accounts", CreateTable("accounts", {"external_id"}, {}),
        CreateIndexes("accounts",
          <<"external_id", "status">>))
  /\ Creates("merchants", CreateTable("merchants", {"external_id"}, {}),
        CreateIndexes("merchants",
          <<"external_id">>))
  /\ Creates("transactions", CreateTable("transactions", {"external_id"}, {"accounts", "merchants"}),
        CreateIndexes("transactions",
          <<"external_id", "account_id", "merchant_id", "occurred_at", "status">>))
  /\ Creates("risk_evaluations", CreateTable("risk_evaluations", {}, {"transactions"}),
        CreateIndexes("risk_evaluations",
          <<"transaction_id", "score", "outcome">>))
  /\ Creates("alerts", CreateTable("alerts", {}, {"transactions"}),
        CreateIndexes("alerts",
          <<"transaction_id", "severity", "is_resolved">>))
  /\ Creates("transaction_audit_logs", CreateTable("transaction_audit_logs", {}, {"transactions"}),
        CreateIndexes("transaction_audit_logs",
          <<"transaction_id", "action", "request_id">>))
  /\ Creates("risk_assessments", CreateTable("risk_assessments", {"event_id"}, {"transactions"}),
        CreateIndexes("risk_assessments",
          <<"transaction_id", "risk_level", "decision">>))
  <1>1. Creates("accounts", CreateTable("accounts", {"external_id"}, {}),
          CreateIndexes("accounts",
            <<"external_id", "status">>))
    <2> DEFINE i == CreateIndexes("accounts",
                       <<"external_id", "status">>)
    <2>1. /\ "accounts" \in Names /\ {"external_id"} \in SUBSET Names
          /\ {} \in SUBSET Names
          /\ {"external_id", "status"} \subseteq Names
      BY DEF Names, Tables, Columns
    <2>2. /\ i \in Seq(StatementType) /\ Removes(i) = {}
          /\ Adds(i) =
               {Index("accounts", "external_id"), Index("accounts", "status")}
      BY <2>1, TwoIndexes
    <2> HIDE DEF i
    <2>3. WithKeys("accounts", {"external_id"}, {}) =
            {Table("accounts"), Unique("accounts", "external_id")}
      BY DEF WithKeys
    <2>4. SchemaObjects("accounts") =
            {Table("accounts"), Unique("accounts", "external_id")}
            \cup {Index("accounts", "external_id"), Index("accounts", "status")}
      BY ModelTables, SchemaTables DEF Tables
    <2>5. Creates("accounts", CreateTable("accounts", {"external_id"}, {}), i)
      BY <2>1, <2>2, <2>3, <2>4, TableWithIndexes
    <2>6. QED
      BY <2>5 DEF i
  <1>2. Creates("merchants", CreateTable("merchants", {"external_id"}, {}),
          CreateIndexes("merchants",
            <<"external_id">>))
    <2> DEFINE i == CreateIndexes("merchants",
                       <<"external_id">>)
    <2>1. /\ "merchants" \in Names /\ {"external_id"} \in SUBSET Names
          /\ {} \in SUBSET Names
          /\ {"external_id"} \subseteq Names
      BY DEF Names, Tables, Columns
    <2>2. /\ i \in Seq(StatementType) /\ Removes(i) = {}
          /\ Adds(i) =
               {Index("merchants", "external_id")}
      BY <2>1, OneIndex
    <2> HIDE DEF i
    <2>3. WithKeys("merchants", {"external_id"}, {}) =
            {Table("merchants"), Unique("merchants", "external_id")}
      BY DEF WithKeys
    <2>4. SchemaObjects("merchants") =
            {Table("merchants"), Unique("merchants", "external_id")}
            \cup {Index("merchants", "external_id")}
      BY ModelTables, SchemaTables DEF Tables
    <2>5. Creates("merchants", CreateTable("merchants", {"external_id"}, {}), i)
      BY <2>1, <2>2, <2>3, <2>4, TableWithIndexes
    <2>6. QED
      BY <2>5 DEF i
  <1>3. Creates("transactions", CreateTable("transactions", {"external_id"}, {"accounts", "merchants"}),
          CreateIndexes("transactions",
            <<"external_id", "account_id", "merchant_id", "occurred_at", "status">>))
    <2> DEFINE i == CreateIndexes("transactions",
                       <<"external_id", "account_id", "merchant_id", "occurred_at", "status">>)
    <2>1. /\ "transactions" \in Names /\ {"external_id"} \in SUBSET Names
          /\ {"accounts", "merchants"} \in SUBSET Names
          /\ {"external_id", "account_id", "merchant_id", "occurred_at", "status"} \subseteq Names
      BY DEF Names, Tables, Columns
    <2>2. /\ i \in Seq(StatementType) /\ Removes(i) = {}
          /\ Adds(i) =
               {Index("transactions", "external_id"), Index("transactions", "account_id"),
                Index("transactions", "merchant_id"), Index("transactions", "occurred_at"),
                Index("transactions", "status")}
      <3> DEFINE l == <<"external_id", "account_id", "merchant_id", "occurred_at", "status">>
      <3>1. l \in Seq(Names) /\ Len(l) = 5
        BY <2>1
      <3>2. /\ l[1] = "external_id" /\ l[2] = "account_id" /\ l[3] = "merchant_id"
            /\ l[4] = "occurred_at" /\ l[5] = "status"
        OBVIOUS
      <3> HIDE DEF l
      <3>3. LET c == CreateIndexes("transactions", l) IN
            /\ c \in Seq(StatementType) /\ Removes(c) = {}
            /\ Adds(c) = {Index("transactions", l[1]), Index("transactions", l[2]),
                          Index("transactions", l[3]), Index("transactions", l[4]),
                          Index("transactions", l[5])}
        BY <2>1, <3>1, FiveIndexes
      <3>4. QED
        BY <3>2, <3>3 DEF l
    <2> HIDE DEF i
    <2>3. WithKeys("transactions", {"external_id"}, {"accounts", "merchants"}) =
            {Table("transactions"), Unique("transactions", "external_id"),
             References("transactions", "accounts"), References("transactions", "merchants")}
      BY DEF WithKeys
    <2>4. SchemaObjects("transactions") =
            {Table("transactions"), Unique("transactions", "external_id"),
             References("transactions", "accounts"), References("transactions", "merchants")}
            \cup {Index("transactions", "external_id"), Index("transactions", "account_id"),
                  Index("transactions", "merchant_id"), Index("transactions", "occurred_at"),
                  Index("transactions", "status")}
      BY ModelTables, SchemaTables DEF Tables
    <2>5. Creates("transactions", CreateTable("transactions", {"external_id"}, {"accounts", "merchants"}), i)
      BY <2>1, <2>2, <2>3, <2>4, TableWithIndexes
    <2>6. QED
      BY <2>5 DEF i
  <1>4. Creates("risk_evaluations", CreateTable("risk_evaluations", {}, {"transactions"}),
          CreateIndexes("risk_evaluations",
            <<"transaction_id", "score", "outcome">>))
    <2> DEFINE i == CreateIndexes("risk_evaluations",
                       <<"transaction_id", "score", "outcome">>)
    <2>1. /\ "risk_evaluations" \in Names /\ {} \in SUBSET Names
          /\ {"transactions"} \in SUBSET Names
          /\ {"transaction_id", "score", "outcome"} \subseteq Names
      BY DEF Names, Tables, Columns
    <2>2. /\ i \in Seq(StatementType) /\ Removes(i) = {}
          /\ Adds(i) =
               {Index("risk_evaluations", "transaction_id"), Index("risk_evaluations", "score"),
                Index("risk_evaluations", "outcome")}
      BY <2>1, ThreeIndexes
    <2> HIDE DEF i
    <2>3. WithKeys("risk_evaluations", {}, {"transactions"}) =
            {Table("risk_evaluations"), References("risk_evaluations", "transactions")}
      BY DEF WithKeys
    <2>4. SchemaObjects("risk_evaluations") =
            {Table("risk_evaluations"), References("risk_evaluations", "transactions")}
            \cup {Index("risk_evaluations", "transaction_id"),
                  Index("risk_evaluations", "score"), Index("risk_evaluations", "outcome")}
      BY ModelTables, SchemaTables DEF Tables
    <2>5. Creates("risk_evaluations", CreateTable("risk_evaluations", {}, {"transactions"}), i)
      BY <2>1, <2>2, <2>3, <2>4, TableWithIndexes
    <2>6. QED
      BY <2>5 DEF i
  <1>5. Creates("alerts", CreateTable("alerts", {}, {"transactions"}),
          CreateIndexes("alerts",
            <<"transaction_id", "severity", "is_resolved">>))
    <2> DEFINE i == CreateIndexes("alerts",
                       <<"transaction_id", "severity", "is_resolved">>)
    <2>1. /\ "alerts" \in Names /\ {} \in SUBSET Names
          /\ {"transactions"} \in SUBSET Names
          /\ {"transaction_id", "severity", "is_resolved"} \subseteq Names
      BY DEF Names, Tables, Columns
    <2>2. /\ i \in Seq(StatementType) /\ Removes(i) = {}
          /\ Adds(i) =
               {Index("alerts", "transaction_id"), Index("alerts", "severity"),
                Index("alerts", "is_resolved")}
      BY <2>1, ThreeIndexes
    <2> HIDE DEF i
    <2>3. WithKeys("alerts", {}, {"transactions"}) =
            {Table("alerts"), References("alerts", "transactions")}
      BY DEF WithKeys
    <2>4. SchemaObjects("alerts") =
            {Table("alerts"), References("alerts", "transactions")}
            \cup {Index("alerts", "transaction_id"), Index("alerts", "severity"),
                  Index("alerts", "is_resolved")}
      BY ModelTables, SchemaTables DEF Tables
    <2>5. Creates("alerts", CreateTable("alerts", {}, {"transactions"}), i)
      BY <2>1, <2>2, <2>3, <2>4, TableWithIndexes
    <2>6. QED
      BY <2>5 DEF i
  <1>6. Creates("transaction_audit_logs", CreateTable("transaction_audit_logs", {}, {"transactions"}),
          CreateIndexes("transaction_audit_logs",
            <<"transaction_id", "action", "request_id">>))
    <2> DEFINE i == CreateIndexes("transaction_audit_logs",
                       <<"transaction_id", "action", "request_id">>)
    <2>1. /\ "transaction_audit_logs" \in Names /\ {} \in SUBSET Names
          /\ {"transactions"} \in SUBSET Names
          /\ {"transaction_id", "action", "request_id"} \subseteq Names
      BY DEF Names, Tables, Columns
    <2>2. /\ i \in Seq(StatementType) /\ Removes(i) = {}
          /\ Adds(i) =
               {Index("transaction_audit_logs", "transaction_id"),
                Index("transaction_audit_logs", "action"),
                Index("transaction_audit_logs", "request_id")}
      BY <2>1, ThreeIndexes
    <2> HIDE DEF i
    <2>3. WithKeys("transaction_audit_logs", {}, {"transactions"}) =
            {Table("transaction_audit_logs"),
             References("transaction_audit_logs", "transactions")}
      BY DEF WithKeys
    <2>4. SchemaObjects("transaction_audit_logs") =
            {Table("transaction_audit_logs"),
             References("transaction_audit_logs", "transactions")}
            \cup {Index("transaction_audit_logs", "transaction_id"),
                  Index("transaction_audit_logs", "action"),
                  Index("transaction_audit_logs", "request_id")}
      BY ModelTables, SchemaTables DEF Tables
    <2>5. Creates("transaction_audit_logs", CreateTable("transaction_audit_logs", {}, {"transactions"}), i)
      BY <2>1, <2>2, <2>3, <2>4, TableWithIndexes
    <2>6. QED
      BY <2>5 DEF i
  <1>7. Creates("risk_assessments", CreateTable("risk_assessments", {"event_id"}, {"transactions"}),
          CreateIndexes("risk_assessments",
            <<"transaction_id", "risk_level", "decision">>))
    <2> DEFINE i == CreateIndexes("risk_assessments",
                       <<"transaction_id", "risk_level", "decision">>)
    <2>1. /\ "risk_assessments" \in Names /\ {"event_id"} \in SUBSET Names
          /\ {"transactions"} \in SUBSET Names
          /\ {"transaction_id", "risk_level", "decision"} \subseteq Names
      BY DEF Names, Tables, Columns
    <2>2. /\ i \in Seq(StatementType) /\ Removes(i) = {}
          /\ Adds(i) =
               {Index("risk_assessments", "transaction_id"),
                Index("risk_assessments", "risk_level"), Index("risk_assessments", "decision")}
      BY <2>1, ThreeIndexes
    <2> HIDE DEF i
    <2>3. WithKeys("risk_assessments", {"event_id"}, {"transactions"}) =
            {Table("risk_assessments"), Unique("risk_assessments", "event_id"),
             References("risk_assessments", "transactions")}
      BY DEF WithKeys
    <2>4. SchemaObjects("risk_assessments") =
            {Table("risk_assessments"), Unique("risk_assessments", "event_id"),
             References("risk_assessments", "transactions")}
            \cup {Index("risk_assessments", "transaction_id"),
                  Index("risk_assessments", "risk_level"),
                  Index("risk_assessments", "decision")}
      BY ModelTables, SchemaTables DEF Tables
    <2>5. Creates("risk_assessments", CreateTable("risk_assessments", {"event_id"}, {"transactions"}), i)
      BY <2>1, <2>2, <2>3, <2>4, TableWithIndexes
    <2>6. QED
      BY <2>5 DEF i
  <1>8. QED
    BY <1>1, <1>2, <1>3, <1>4, <1>5, <1>6, <1>7

(* A list that only creates, continued by another one.                     *)
LEMMA Continued ==
  ASSUME NEW p \in Seq(StatementType), NEW q \in Seq(StatementType), Len(p) > 0,
         Removes(p) = {}, Removes(q) = {}
  PROVE  /\ p \o q \in Seq(StatementType) /\ Len(p \o q) > 0
         /\ (p \o q)[1] = p[1]
         /\ Removes(p \o q) = {} /\ Adds(p \o q) = Adds(p) \cup Adds(q)
  BY Concatenation

(* The first upgrade creates the six tables of its schema.                 *)
LEMMA Creates0001 ==
  /\ Upgrade0001 \in Seq(StatementType) /\ Len(Upgrade0001) > 0
  /\ Table("accounts") \in Upgrade0001[1].adds /\ Upgrade0001[1].removes = {}
  /\ Removes(Upgrade0001) = {} /\ Adds(Upgrade0001) = Schemas[2]
  <1> DEFINE p1 == CreateTable("accounts", {"external_id"}, {})
             i1 == CreateIndexes("accounts", <<"external_id", "status">>)
             p2 == CreateTable("merchants", {"external_id"}, {})
             i2 == CreateIndexes("merchants", <<"external_id">>)
             p3 == CreateTable("transactions", {"external_id"}, {"accounts", "merchants"})
             i3 == CreateIndexes("transactions",
                     <<"external_id", "account_id", "merchant_id", "occurred_at", "status">>)
             p4 == CreateTable("risk_evaluations", {}, {"transactions"})
             i4 == CreateIndexes("risk_evaluations", <<"transaction_id", "score", "outcome">>)
             p5 == CreateTable("alerts", {}, {"transactions"})
             i5 == CreateIndexes("alerts", <<"transaction_id", "severity", "is_resolved">>)
             p6 == CreateTable("transaction_audit_logs", {}, {"transactions"})
             i6 == CreateIndexes("transaction_audit_logs",
                     <<"transaction_id", "action", "request_id">>)
  <1>1. /\ p1 \in Seq(StatementType) /\ Len(p1) > 0 /\ Removes(p1) = {}
        /\ i1 \in Seq(StatementType) /\ Removes(i1) = {}
        /\ p2 \in Seq(StatementType) /\ Len(p2) > 0 /\ Removes(p2) = {}
        /\ i2 \in Seq(StatementType) /\ Removes(i2) = {}
        /\ p3 \in Seq(StatementType) /\ Len(p3) > 0 /\ Removes(p3) = {}
        /\ i3 \in Seq(StatementType) /\ Removes(i3) = {}
        /\ p4 \in Seq(StatementType) /\ Len(p4) > 0 /\ Removes(p4) = {}
        /\ i4 \in Seq(StatementType) /\ Removes(i4) = {}
        /\ p5 \in Seq(StatementType) /\ Len(p5) > 0 /\ Removes(p5) = {}
        /\ i5 \in Seq(StatementType) /\ Removes(i5) = {}
        /\ p6 \in Seq(StatementType) /\ Len(p6) > 0 /\ Removes(p6) = {}
        /\ i6 \in Seq(StatementType) /\ Removes(i6) = {}
        /\ Table("accounts") \in p1[1].adds /\ p1[1].removes = {}
    BY CreatedTables DEF Creates
  <1>2. /\ Adds(p1) \cup Adds(i1) = SchemaObjects("accounts")
        /\ Adds(p2) \cup Adds(i2) = SchemaObjects("merchants")
        /\ Adds(p3) \cup Adds(i3) = SchemaObjects("transactions")
        /\ Adds(p4) \cup Adds(i4) = SchemaObjects("risk_evaluations")
        /\ Adds(p5) \cup Adds(i5) = SchemaObjects("alerts")
        /\ Adds(p6) \cup Adds(i6) = SchemaObjects("transaction_audit_logs")
    BY CreatedTables DEF Creates
  <1>3. Upgrade0001 = p1 \o i1 \o p2 \o i2 \o p3 \o i3
                        \o p4 \o i4 \o p5 \o i5 \o p6 \o i6
    BY DEF Upgrade0001
  <1> HIDE DEF p1, i1, p2, i2, p3, i3, p4, i4, p5, i5, p6, i6
  <1> DEFINE s2 == p1 \o i1
  <1>4. /\ s2 \in Seq(StatementType) /\ Len(s2) > 0 /\ s2[1] = p1[1]
        /\ Removes(s2) = {} /\ Adds(s2) = Adds(p1) \cup Adds(i1)
    BY <1>1, Continued
  <1> HIDE DEF s2
  <1> DEFINE s3 == s2 \o p2
  <1>5. /\ s3 \in Seq(StatementType) /\ Len(s3) > 0 /\ s3[1] = s2[1]
        /\ Removes(s3) = {} /\ Adds(s3) = Adds(s2) \cup Adds(p2)
    BY <1>1, <1>4, Continued
  <1> HIDE DEF s3
  <1> DEFINE s4 == s3 \o i2
  <1>6. /\ s4 \in Seq(StatementType) /\ Len(s4) > 0 /\ s4[1] = s3[1]
        /\ Removes(s4) = {} /\ Adds(s4) = Adds(s3) \cup Adds(i2)
    BY <1>1, <1>5, Continued
  <1> HIDE DEF s4
  <1> DEFINE s5 == s4 \o p3
  <1>7. /\ s5 \in Seq(StatementType) /\ Len(s5) > 0 /\ s5[1] = s4[1]
        /\ Removes(s5) = {} /\ Adds(s5) = Adds(s4) \cup Adds(p3)
    BY <1>1, <1>6, Continued
  <1> HIDE DEF s5
  <1> DEFINE s6 == s5 \o i3
  <1>8. /\ s6 \in Seq(StatementType) /\ Len(s6) > 0 /\ s6[1] = s5[1]
        /\ Removes(s6) = {} /\ Adds(s6) = Adds(s5) \cup Adds(i3)
    BY <1>1, <1>7, Continued
  <1> HIDE DEF s6
  <1> DEFINE s7 == s6 \o p4
  <1>9. /\ s7 \in Seq(StatementType) /\ Len(s7) > 0 /\ s7[1] = s6[1]
        /\ Removes(s7) = {} /\ Adds(s7) = Adds(s6) \cup Adds(p4)
    BY <1>1, <1>8, Continued
  <1> HIDE DEF s7
  <1> DEFINE s8 == s7 \o i4
  <1>10. /\ s8 \in Seq(StatementType) /\ Len(s8) > 0 /\ s8[1] = s7[1]
        /\ Removes(s8) = {} /\ Adds(s8) = Adds(s7) \cup Adds(i4)
    BY <1>1, <1>9, Continued
  <1> HIDE DEF s8
  <1> DEFINE s9 == s8 \o p5
  <1>11. /\ s9 \in Seq(StatementType) /\ Len(s9) > 0 /\ s9[1] = s8[1]
        /\ Removes(s9) = {} /\ Adds(s9) = Adds(s8) \cup Adds(p5)
    BY <1>1, <1>10, Continued
  <1> HIDE DEF s9
  <1> DEFINE s10 == s9 \o i5
  <1>12. /\ s10 \in Seq(StatementType) /\ Len(s10) > 0 /\ s10[1] = s9[1]
        /\ Removes(s10) = {} /\ Adds(s10) = Adds(s9) \cup Adds(i5)
    BY <1>1, <1>11, Continued
  <1> HIDE DEF s10
  <1> DEFINE s11 == s10 \o p6
  <1>13. /\ s11 \in Seq(StatementType) /\ Len(s11) > 0 /\ s11[1] = s10[1]
        /\ Removes(s11) = {} /\ Adds(s11) = Adds(s10) \cup Adds(p6)
    BY <1>1, <1>12, Continued
  <1> HIDE DEF s11
  <1> DEFINE s12 == s11 \o i6
  <1>14. /\ s12 \in Seq(StatementType) /\ Len(s12) > 0 /\ s12[1] = s11[1]
        /\ Removes(s12) = {} /\ Adds(s12) = Adds(s11) \cup Adds(i6)
    BY <1>1, <1>13, Continued
  <1> HIDE DEF s12
  <1>15. Upgrade0001 = s12
    BY <1>3 DEF s2, s3, s4, s5, s6, s7, s8, s9, s10, s11, s12
  <1>16. s12[1] = p1[1]
    BY <1>4, <1>5, <1>6, <1>7, <1>8, <1>9, <1>10, <1>11, <1>12, <1>13, <1>14
  <1>17. Adds(s12) = SchemaObjects("accounts") \cup SchemaObjects("merchants")
                      \cup SchemaObjects("transactions") \cup SchemaObjects("risk_evaluations")
                      \cup SchemaObjects("alerts") \cup SchemaObjects("transaction_audit_logs")
    <2>1. Adds(s12) = (Adds(p1) \cup Adds(i1)) \cup (Adds(p2) \cup Adds(i2))
                      \cup (Adds(p3) \cup Adds(i3)) \cup (Adds(p4) \cup Adds(i4))
                      \cup (Adds(p5) \cup Adds(i5)) \cup (Adds(p6) \cup Adds(i6))
      BY <1>4, <1>5, <1>6, <1>7, <1>8, <1>9, <1>10, <1>11, <1>12, <1>13, <1>14
    <2>2. QED
      BY <1>2, <2>1
  <1>18. Tables \ {"risk_assessments"}
           = {"accounts", "merchants", "transactions", "risk_evaluations", "alerts", "transaction_audit_logs"}
    BY DEF Tables
  <1>19. Adds(s12) = Schemas[2]
    BY <1>17, <1>18, SchemaUnion
  <1>20. QED
    BY <1>1, <1>14, <1>15, <1>16, <1>19

LEMMA Creates0002 ==
  /\ Upgrade0002 \in Seq(StatementType) /\ Len(Upgrade0002) > 0
  /\ Table("risk_assessments") \in Upgrade0002[1].adds
  /\ References("risk_assessments", "transactions") \in Upgrade0002[1].adds
  /\ Removes(Upgrade0002) = {} /\ Adds(Upgrade0002) = SchemaObjects("risk_assessments")
  <1> DEFINE p == CreateTable("risk_assessments", {"event_id"}, {"transactions"})
             i == CreateIndexes("risk_assessments",
                     <<"transaction_id", "risk_level", "decision">>)
  <1>1. /\ p \in Seq(StatementType) /\ Len(p) > 0 /\ Removes(p) = {}
        /\ Table("risk_assessments") \in p[1].adds
        /\ i \in Seq(StatementType) /\ Removes(i) = {}
        /\ Adds(p) \cup Adds(i) = SchemaObjects("risk_assessments")
    BY CreatedTables DEF Creates
  <1>2. References("risk_assessments", "transactions") \in p[1].adds
    <2> DEFINE s == [adds |-> {Table("risk_assessments")}
                       \cup {Unique("risk_assessments", c) : c \in {"event_id"}}
                       \cup {References("risk_assessments", u) : u \in {"transactions"}},
                     removes |-> {}]
    <2>1. p = <<s>>
      BY DEF CreateTable
    <2>2. References("risk_assessments", "transactions") \in s.adds
      OBVIOUS
    <2> HIDE DEF s, p
    <2>3. QED
      BY <2>1, <2>2
  <1>3. Upgrade0002 = p \o i
    BY DEF Upgrade0002
  <1> HIDE DEF p, i
  <1>4. QED
    BY <1>1, <1>2, <1>3, Continued

(* Dropping tables one after the other, each with its indexes first.       *)
Dropping(p, tables) ==
  /\ p \in Seq(StatementType) /\ Len(p) > 0
  /\ Adds(p) = {}
  /\ \A t \in tables : Table(t) \in Removes(p)
  /\ \A o \in Removes(p) : o[1] \in tables

LEMMA DroppingOne ==
  ASSUME NEW t \in Names, NEW columns \in Seq(Names), Len(columns) > 0
  PROVE  /\ Dropping(DropTable(t, columns), {t})
         /\ DropTable(t, columns)[1].removes = {Index(t, columns[1])}
  BY DroppedTable DEF Dropping

LEMMA DroppingMore ==
  ASSUME NEW p, NEW q, NEW tables, NEW others, Dropping(p, tables), Dropping(q, others)
  PROVE  /\ Dropping(p \o q, tables \cup others)
         /\ (p \o q)[1] = p[1]
  <1>1. /\ p \in Seq(StatementType) /\ q \in Seq(StatementType) /\ Len(p) > 0 /\ Len(q) > 0
    BY DEF Dropping
  <1>2. /\ p \o q \in Seq(StatementType)
        /\ Len(p \o q) = Len(p) + Len(q)
        /\ Adds(p \o q) = Adds(p) \cup Adds(q)
        /\ Removes(p \o q) = Removes(p) \cup Removes(q)
        /\ (p \o q)[1] = p[1]
    BY <1>1, Concatenation
  <1> DEFINE s == p \o q
  <1> HIDE DEF s
  <1>3. Len(s) > 0
    BY <1>1, <1>2 DEF s
  <1>4. QED
    BY <1>2, <1>3 DEF Dropping, s

LEMMA Drops0001 ==
  /\ Dropping(Downgrade0001, Tables \ {"risk_assessments"})
  /\ Downgrade0001[1].removes = {Index("alerts", "is_resolved")}
  <1> DEFINE l1 == <<"is_resolved", "severity", "transaction_id">>
             l2 == <<"request_id", "action", "transaction_id">>
             l3 == <<"outcome", "score", "transaction_id">>
             l4 == <<"status", "occurred_at", "merchant_id", "account_id", "external_id">>
             l5 == <<"external_id">>
             l6 == <<"status", "external_id">>
             d1 == DropTable("alerts", l1)
             d2 == DropTable("transaction_audit_logs", l2)
             d3 == DropTable("risk_evaluations", l3)
             d4 == DropTable("transactions", l4)
             d5 == DropTable("merchants", l5)
             d6 == DropTable("accounts", l6)
  <1>1. Tables \subseteq Names /\ Columns \subseteq Names
    BY DEF Names
  <1>2. /\ l1 \in Seq(Names) /\ Len(l1) > 0 /\ l1[1] = "is_resolved"
        /\ l2 \in Seq(Names) /\ Len(l2) > 0 /\ l3 \in Seq(Names) /\ Len(l3) > 0
        /\ l4 \in Seq(Names) /\ Len(l4) > 0 /\ l5 \in Seq(Names) /\ Len(l5) > 0
        /\ l6 \in Seq(Names) /\ Len(l6) > 0
    BY NameLists DEF Names, Columns
  <1>3. /\ "alerts" \in Names /\ "transaction_audit_logs" \in Names
        /\ "risk_evaluations" \in Names /\ "transactions" \in Names
        /\ "merchants" \in Names /\ "accounts" \in Names
    BY DEF Names, Tables
  <1>4. Downgrade0001 = d1 \o d2 \o d3 \o d4 \o d5 \o d6
    BY DEF Downgrade0001
  <1> HIDE DEF l1, l2, l3, l4, l5, l6
  <1>5. /\ Dropping(d1, {"alerts"}) /\ Dropping(d2, {"transaction_audit_logs"})
        /\ Dropping(d3, {"risk_evaluations"}) /\ Dropping(d4, {"transactions"})
        /\ Dropping(d5, {"merchants"}) /\ Dropping(d6, {"accounts"})
        /\ d1[1].removes = {Index("alerts", "is_resolved")}
    <2>1. Dropping(d1, {"alerts"})
      BY <1>2, <1>3, DroppingOne
    <2>2. Dropping(d2, {"transaction_audit_logs"})
      BY <1>2, <1>3, DroppingOne
    <2>3. Dropping(d3, {"risk_evaluations"})
      BY <1>2, <1>3, DroppingOne
    <2>4. Dropping(d4, {"transactions"})
      BY <1>2, <1>3, DroppingOne
    <2>5. Dropping(d5, {"merchants"})
      BY <1>2, <1>3, DroppingOne
    <2>6. Dropping(d6, {"accounts"})
      BY <1>2, <1>3, DroppingOne
    <2>7. d1[1].removes = {Index("alerts", "is_resolved")}
      BY <1>2, <1>3, DroppingOne
    <2>8. QED
      BY <2>1, <2>2, <2>3, <2>4, <2>5, <2>6, <2>7
  <1> HIDE DEF d1, d2, d3, d4, d5, d6
  <1> DEFINE s2 == d1 \o d2
             s3 == s2 \o d3
             s4 == s3 \o d4
             s5 == s4 \o d5
             s6 == s5 \o d6
             t2 == {"alerts"} \cup {"transaction_audit_logs"}
             t3 == t2 \cup {"risk_evaluations"}
             t4 == t3 \cup {"transactions"}
             t5 == t4 \cup {"merchants"}
             t6 == t5 \cup {"accounts"}
  <1>6. Tables \ {"risk_assessments"} = t6
    BY DEF Tables
  <1>7. Downgrade0001 = s6
    BY <1>4
  <1> HIDE DEF s2, s3, s4, s5, s6, t2, t3, t4, t5, t6
  <1>8. Dropping(s2, t2) /\ s2[1] = d1[1]
    BY <1>5, DroppingMore DEF s2, t2
  <1>9. Dropping(s3, t3) /\ s3[1] = s2[1]
    BY <1>5, <1>8, DroppingMore DEF s3, t3
  <1>10. Dropping(s4, t4) /\ s4[1] = s3[1]
    BY <1>5, <1>9, DroppingMore DEF s4, t4
  <1>11. Dropping(s5, t5) /\ s5[1] = s4[1]
    BY <1>5, <1>10, DroppingMore DEF s5, t5
  <1>12. Dropping(s6, t6) /\ s6[1] = s5[1]
    BY <1>5, <1>11, DroppingMore DEF s6, t6
  <1>13. QED
    BY <1>5, <1>6, <1>7, <1>8, <1>9, <1>10, <1>11, <1>12

LEMMA Drops0002 ==
  /\ Dropping(Downgrade0002, {"risk_assessments"})
  /\ Downgrade0002[1].removes = {Index("risk_assessments", "decision")}
  <1> DEFINE l == <<"decision", "risk_level", "transaction_id">>
  <1>1. l \in Seq(Names) /\ Len(l) > 0 /\ l[1] = "decision"
    BY NameLists DEF Names, Columns
  <1>2. "risk_assessments" \in Names
    BY DEF Names, Tables
  <1>3. Downgrade0002 = DropTable("risk_assessments", l)
    BY DEF Downgrade0002
  <1> HIDE DEF l
  <1>4. QED
    BY <1>1, <1>2, <1>3, DroppingOne

-----------------------------------------------------------------------------
(* The plans.                                                              *)

Up == "upgrade head"
Down == "downgrade -1"

PlanOf(c, v) == IF c = Up THEN UpgradeHead[v + 1] ELSE DowngradeOne[v + 1]
TargetOf(c, v) == IF c = Up THEN 2 ELSE v - 1

(* A plan drops a table with all it drops of the table, and creates        *)
(* nothing in a table it drops.                                            *)
Coherent(p) ==
  /\ p \in Seq(StatementType)
  /\ \A o \in Removes(p) : o[1] = "alembic_version" \/ Table(o[1]) \in Removes(p)
  /\ \A o \in Adds(p) : Table(o[1]) \notin Removes(p)

(* Its last statement records the version it leads to.                     *)
Concludes(p, v) ==
  LET s == p[Len(p)] IN
  /\ Len(p) > 1
  /\ v # 0 => VersionRow(v) \in s.adds /\ VersionRow(3 - v) \in s.removes
  /\ v = 0 => VersionRow(1) \in s.removes
  /\ \A w \in {1, 2} \ {v} : VersionRow(w) \notin s.adds

LEMMA UpgradePlans ==
  /\ \A p \in {UpgradeHead[1], UpgradeHead[2]} :
       Coherent(p) /\ Concludes(p, 2) /\ Removes(p) = {VersionRow(1)}
  /\ Table("accounts") \in UpgradeHead[1][1].adds
  /\ Adds(UpgradeHead[1]) = Schemas[3] \cup {VersionRow(1), VersionRow(2)}
  /\ Table("risk_assessments") \in UpgradeHead[2][1].adds
  /\ References("risk_assessments", "transactions") \in UpgradeHead[2][1].adds
  /\ Adds(UpgradeHead[2]) = SchemaObjects("risk_assessments") \cup {VersionRow(2)}
  /\ UpgradeHead[3] = << >>
  <1> DEFINE a == Upgrade0001
             b == Upgrade0002
             v == SetVersion(0, 1)
             w == SetVersion(1, 2)
             p == a \o v \o b \o w
             q == b \o w
  <1>1. UpgradeHead[1] = p /\ UpgradeHead[2] = q /\ UpgradeHead[3] = << >>
    BY DEF UpgradeHead
  <1>2. /\ v \in Seq(StatementType) /\ Len(v) = 1 /\ Adds(v) =
            {VersionRow(1)} /\ Removes(v) = {}
        /\ w \in Seq(StatementType) /\ Len(w) = 1 /\ Adds(w) = {VersionRow(2)}
        /\ Removes(w) = {VersionRow(1)} /\ w[1].adds = {VersionRow(2)} /\ w[1].removes =
                  {VersionRow(1)}
    <2>1. 0 \in 0..2 /\ 1 \in 0..2 /\ 2 \in 0..2
      OBVIOUS
    <2>2. QED
      BY <2>1, SetVersionType
  <1>3. /\ a \in Seq(StatementType) /\ Len(a) > 0 /\ Removes(a) = {} /\ Adds(a) = Schemas[2]
        /\ Table("accounts") \in a[1].adds
    BY Creates0001
  <1>4. /\ b \in Seq(StatementType) /\ Len(b) > 0 /\ Removes(b) = {}
        /\ Adds(b) = SchemaObjects("risk_assessments")
        /\ Table("risk_assessments") \in b[1].adds
        /\ References("risk_assessments", "transactions") \in b[1].adds
    BY Creates0002
  <1> HIDE DEF a, b, v, w
  <1> DEFINE av == a \o v
             avb == av \o b
  <1>5. /\ av \in Seq(StatementType) /\ Len(av) > 0 /\ av[1] = a[1] /\ Removes(av) = {}
        /\ Adds(av) = Adds(a) \cup Adds(v)
    BY <1>2, <1>3, Continued
  <1> HIDE DEF av
  <1>6. /\ avb \in Seq(StatementType) /\ Len(avb) > 0 /\ avb[1] = av[1] /\ Removes(avb) = {}
        /\ Adds(avb) = Adds(av) \cup Adds(b)
    BY <1>4, <1>5, Continued
  <1>7. p = avb \o w
    BY DEF av
  <1> HIDE DEF avb, p, q
  <1>8. ASSUME NEW c \in Seq(StatementType), Len(c) > 0, Removes(c) = {},
               \A o \in Adds(c) : o[1] # "alembic_version" \/ o = VersionRow(1)
        PROVE  /\ Coherent(c \o w) /\ Concludes(c \o w, 2) /\ Removes(c \o w) = {VersionRow(1)}
               /\ Adds(c \o w) = Adds(c) \cup {VersionRow(2)} /\ (c \o w)[1] = c[1]
    <2> DEFINE d == c \o w
    <2>1. /\ d \in Seq(StatementType) /\ Len(d) = Len(c) + 1
          /\ Adds(d) = Adds(c) \cup {VersionRow(2)} /\ Removes(d) = {VersionRow(1)}
          /\ d[1] = c[1] /\ d[Len(d)] = w[1]
      BY <1>2, <1>8, Concatenation
    <2> HIDE DEF d
    <2>2. Coherent(d)
      BY <2>1, VersionRows DEF Coherent
    <2>3. Len(c) \in Nat
      BY <1>8
    <2>4. Concludes(d, 2)
      BY <1>2, <1>8, <2>1, <2>3, VersionRows DEF Concludes
    <2>5. QED
      BY <2>1, <2>2, <2>4 DEF d
  <1>9. /\ \A o \in Adds(avb) : o[1] # "alembic_version" \/ o = VersionRow(1)
        /\ \A o \in Adds(b) : o[1] # "alembic_version"
    <2>1. "alembic_version" \notin Tables /\ "risk_assessments" \in Tables
      BY DEF Tables
    <2>2. \A o \in Adds(b) : o[1] = "risk_assessments"
      BY <1>4, <2>1, SchemaTables
    <2>3. \A o \in Adds(a) : o[1] \in Tables
      BY <1>3, SchemaUnion
    <2>4. QED
      BY <1>2, <1>5, <1>6, <2>1, <2>2, <2>3
  <1>10. Adds(avb) = Schemas[3] \cup {VersionRow(1)}
    BY <1>2, <1>3, <1>4, <1>5, <1>6, SchemaUnion
  <1>11. /\ Coherent(p) /\ Concludes(p, 2) /\ Removes(p) = {VersionRow(1)}
         /\ Adds(p) = Schemas[3] \cup {VersionRow(1), VersionRow(2)} /\ p[1] = a[1]
    BY <1>5, <1>6, <1>7, <1>8, <1>9, <1>10
  <1>12. /\ Coherent(q) /\ Concludes(q, 2) /\ Removes(q) = {VersionRow(1)}
         /\ Adds(q) = SchemaObjects("risk_assessments") \cup {VersionRow(2)} /\ q[1] = b[1]
    BY <1>4, <1>8, <1>9 DEF q
  <1>13. QED
    BY <1>1, <1>3, <1>4, <1>11, <1>12

LEMMA DowngradePlans ==
  /\ Coherent(DowngradeOne[2]) /\ Concludes(DowngradeOne[2], 0)
  /\ Index("alerts", "is_resolved") \in DowngradeOne[2][1].removes
  /\ Adds(DowngradeOne[2]) = {}
  /\ \A t : Table(t) \in Removes(DowngradeOne[2]) <=> t \in Tables \ {"risk_assessments"}
  /\ Coherent(DowngradeOne[3]) /\ Concludes(DowngradeOne[3], 1)
  /\ Index("risk_assessments", "decision") \in DowngradeOne[3][1].removes
  /\ Adds(DowngradeOne[3]) = {VersionRow(1)}
  /\ \A t : Table(t) \in Removes(DowngradeOne[3]) <=> t = "risk_assessments"
  /\ DowngradeOne[1] = << >>
  <1> DEFINE a == Downgrade0001
             b == Downgrade0002
             v == SetVersion(1, 0)
             w == SetVersion(2, 1)
  <1>1. DowngradeOne[2] = a \o v /\ DowngradeOne[3] = b \o w /\ DowngradeOne[1] = << >>
    BY DEF DowngradeOne
  <1>2. /\ v \in Seq(StatementType) /\ Len(v) = 1 /\ Adds(v) = {} /\ Removes(v) =
            {VersionRow(1)}
        /\ v[1].adds = {} /\ v[1].removes = {VersionRow(1)}
        /\ w \in Seq(StatementType) /\ Len(w) = 1 /\ Adds(w) = {VersionRow(1)}
        /\ Removes(w) = {VersionRow(2)} /\ w[1].adds = {VersionRow(1)} /\ w[1].removes =
                  {VersionRow(2)}
    <2>1. 0 \in 0..2 /\ 1 \in 0..2 /\ 2 \in 0..2
      OBVIOUS
    <2>2. QED
      BY <2>1, SetVersionType
  <1>3. /\ Dropping(a, Tables \ {"risk_assessments"})
        /\ a[1].removes = {Index("alerts", "is_resolved")}
        /\ Dropping(b, {"risk_assessments"})
        /\ b[1].removes = {Index("risk_assessments", "decision")}
    BY Drops0001, Drops0002
  <1> HIDE DEF a, b, v, w
  <1>4. ASSUME NEW c, NEW tables \in SUBSET Tables, Dropping(c, tables), NEW u \in Seq(StatementType), Len(u) = 1,
               NEW old \in {1, 2}, Removes(u) =
                       {VersionRow(old)}, Adds(u) \subseteq {VersionRow(1)}
        PROVE  /\ Coherent(c \o u) /\ Len(c \o u) > 1 /\ Adds(c \o u) = Adds(u)
               /\ \A t : Table(t) \in Removes(c \o u) <=> t \in tables
               /\ (c \o u)[1] = c[1] /\ (c \o u)[Len(c \o u)] = u[1]
    <2> DEFINE d == c \o u
    <2>0. c \in Seq(StatementType) /\ Len(c) > 0 /\ Adds(c) = {}
      BY <1>4 DEF Dropping
    <2>1. c \in Seq(StatementType) /\ Len(c) \in Nat /\ Len(c) > 0 /\ Adds(c) = {}
      BY <2>0
    <2>2. /\ d \in Seq(StatementType) /\ Len(d) = Len(c) + 1
          /\ Adds(d) = Adds(u) /\ Removes(d) = Removes(c) \cup {VersionRow(old)}
          /\ d[1] = c[1] /\ d[Len(d)] = u[1]
      <3>1. /\ d \in Seq(StatementType) /\ Len(d) = Len(c) + Len(u)
            /\ Adds(d) = Adds(c) \cup Adds(u) /\ Removes(d) = Removes(c) \cup Removes(u)
            /\ Len(c) > 0 => d[1] = c[1]
            /\ Len(u) > 0 => d[Len(d)] = u[Len(u)]
        BY <1>4, <2>1, Concatenation
      <3> HIDE DEF d
      <3>2. QED
        BY <1>4, <2>1, <3>1
    <2> HIDE DEF d
    <2>3. \A t : Table(t) \in Removes(d) <=> t \in tables
      <3>1. \A t : Table(t) # VersionRow(old)
        BY VersionRows
      <3>2. \A t : Table(t) \in Removes(c) <=> t \in tables
        BY <1>4, ObjectParts DEF Dropping
      <3>3. QED
        BY <2>2, <3>1, <3>2
    <2>4. "alembic_version" \notin tables
      BY DEF Tables
    <2>5. Coherent(d)
      <3>1. VersionRow(old)[1] = "alembic_version"
        BY VersionRows
      <3>2. \A o \in Removes(c) : o[1] \in tables
        BY <1>4 DEF Dropping
      <3>3. QED
        BY <1>4, <2>2, <2>3, <2>4, <3>1, <3>2, VersionRows DEF Coherent
    <2>6. QED
      BY <2>1, <2>2, <2>3, <2>5 DEF d
  <1>5. "risk_assessments" \in Tables
    BY DEF Tables
  <1> DEFINE p == a \o v
             q == b \o w
             six == Tables \ {"risk_assessments"}
  <1>6. /\ Coherent(p) /\ Len(p) > 1 /\ Adds(p) = {}
        /\ \A t : Table(t) \in Removes(p) <=> t \in six
        /\ p[1] = a[1] /\ p[Len(p)] = v[1]
    <2>1. six \in SUBSET Tables /\ Dropping(a, six) /\ 1 \in {1, 2}
      BY <1>3
    <2> HIDE DEF six, p
    <2>2. QED
      BY <1>2, <1>4, <2>1 DEF p
  <1>7. /\ Coherent(q) /\ Len(q) > 1 /\ Adds(q) = {VersionRow(1)}
        /\ \A t : Table(t) \in Removes(q) <=> t = "risk_assessments"
        /\ q[1] = b[1] /\ q[Len(q)] = w[1]
    <2> DEFINE one == {"risk_assessments"}
    <2>1. one \in SUBSET Tables /\ Dropping(b, one) /\ 2 \in {1, 2} /\ \A t : t \in one <=> t = "risk_assessments"
      BY <1>3, <1>5
    <2> HIDE DEF one, q
    <2>2. QED
      BY <1>2, <1>4, <2>1 DEF q
  <1> HIDE DEF p, q
  <1>8. Concludes(p, 0)
    BY <1>2, <1>6 DEF Concludes
  <1>9. Concludes(q, 1)
    BY <1>2, <1>7, VersionRows DEF Concludes
  <1>10. QED
    BY <1>1, <1>3, <1>6, <1>7, <1>8, <1>9 DEF p, q

LEMMA CommandNames == Commands = {Up, Down} /\ Up # Down
  BY Zenon DEF Commands, Up, Down

(* Every plan is coherent, and unless it is empty it records its target.   *)
LEMMA PlanCases ==
  /\ PlanOf(Up, 0) = UpgradeHead[1] /\ PlanOf(Up, 1) = UpgradeHead[2]
  /\ PlanOf(Up, 2) = << >> /\ PlanOf(Down, 0) = << >>
  /\ PlanOf(Down, 1) = DowngradeOne[2] /\ PlanOf(Down, 2) = DowngradeOne[3]
  /\ \A v : TargetOf(Up, v) = 2
  /\ TargetOf(Down, 1) = 0 /\ TargetOf(Down, 2) = 1
  <1>1. UpgradeHead[3] = << >> /\ DowngradeOne[1] = << >>
    BY DEF UpgradeHead, DowngradeOne
  <1>2. 0 + 1 = 1 /\ 1 + 1 = 2 /\ 2 + 1 = 3 /\ 1 - 1 = 0 /\ 2 - 1 = 1
    OBVIOUS
  <1>3. Up # Down
    BY CommandNames
  <1>4. QED
    BY <1>1, <1>2, <1>3 DEF PlanOf, TargetOf

LEMMA Plans ==
  ASSUME NEW c \in Commands, NEW v \in 0..2
  PROVE  /\ PlanOf(c, v) \in Seq(StatementType) /\ Coherent(PlanOf(c, v))
         /\ PlanOf(c, v) = << >> \/ Concludes(PlanOf(c, v), TargetOf(c, v))
  <1>1. Coherent(<< >>)
    BY DEF Coherent, Adds, Removes
  <1>2. \A p : Coherent(p) => p \in Seq(StatementType)
    BY DEF Coherent
  <1>3. /\ Coherent(UpgradeHead[1]) /\ Concludes(UpgradeHead[1], 2)
        /\ Coherent(UpgradeHead[2]) /\ Concludes(UpgradeHead[2], 2)
    BY UpgradePlans
  <1>4. /\ Coherent(DowngradeOne[2]) /\ Concludes(DowngradeOne[2], 0)
        /\ Coherent(DowngradeOne[3]) /\ Concludes(DowngradeOne[3], 1)
    BY DowngradePlans
  <1>5. (c = Up \/ c = Down) /\ (v = 0 \/ v = 1 \/ v = 2)
    BY CommandNames
  <1>6. QED
    BY <1>1, <1>2, <1>3, <1>4, <1>5, PlanCases

-----------------------------------------------------------------------------
(* Catalogs. A catalog is whole when its tables are those of the version   *)
(* it records.                                                             *)

TablesOf(objects) == {o \in objects : o[1] # "alembic_version"}

Records(objects, v) == \A w \in {1, 2} : VersionRow(w) \in objects <=> w = v

Whole(objects, v) == TablesOf(objects) = Schemas[v + 1] /\ Records(objects, v)

(* What tells the versions apart.                                          *)
LEMMA TellVersions ==
  ASSUME NEW objects, NEW v \in 0..2, Whole(objects, v)
  PROVE  /\ \A o \in {Table("accounts"), Table("transactions"), Table("alerts"),
                      Index("alerts", "is_resolved")} : o \in objects <=> v # 0
         /\ \A o \in {Table("risk_assessments"), Index("risk_assessments", "decision"),
                      References("risk_assessments", "transactions")} : o \in objects <=> v = 2
  <1>1. /\ "accounts" \in Tables \ {"risk_assessments"}
        /\ "transactions" \in Tables \ {"risk_assessments"}
        /\ "alerts" \in Tables \ {"risk_assessments"}
        /\ "risk_assessments" \in Tables /\ "alembic_version" \notin Tables
    BY DEF Tables
  <1>2. \A o : o[1] \in Tables => (o \in objects <=> o \in Schemas[v + 1])
    BY <1>1 DEF Whole, TablesOf
  <1>3. \A o \in {Table("accounts"), Table("transactions"), Table("alerts"),
                  Index("alerts", "is_resolved")} :
          o[1] \in Tables /\ o \in Schemas[2] /\ o \in Schemas[3] /\ o \notin Schemas[1]
    <2>1. /\ Table("accounts") \in SchemaObjects("accounts")
          /\ Table("transactions") \in SchemaObjects("transactions")
          /\ Table("alerts") \in SchemaObjects("alerts")
          /\ Index("alerts", "is_resolved") \in SchemaObjects("alerts")
      BY <1>1, SchemaTables, ModelTables
    <2>2. \A t \in Tables \ {"risk_assessments"} : SchemaObjects(t) \subseteq Schemas[2]
      BY SchemaUnion
    <2>3. QED
      BY <1>1, <2>1, <2>2, SchemaUnion, ObjectParts
  <1>4. \A o \in {Table("risk_assessments"), Index("risk_assessments", "decision"),
                  References("risk_assessments", "transactions")} :
          o[1] \in Tables /\ o \notin Schemas[2] /\ o \in Schemas[3] /\ o \notin Schemas[1]
    <2>1. \A o \in {Table("risk_assessments"), Index("risk_assessments", "decision"),
                    References("risk_assessments", "transactions")} :
            o[1] = "risk_assessments" /\ o \in SchemaObjects("risk_assessments")
      BY <1>1, SchemaTables, ModelTables, ObjectParts
    <2>2. QED
      BY <1>1, <2>1, SchemaUnion
  <1>5. v = 0 \/ v = 1 \/ v = 2
    OBVIOUS
  <1>6. QED
    BY <1>2, <1>3, <1>4, <1>5

LEMMA OneVersion ==
  ASSUME NEW objects, NEW v \in 0..2, NEW w \in 0..2, Whole(objects, v), Whole(objects, w)
  PROVE  v = w
  BY TellVersions DEF Whole, Records

-----------------------------------------------------------------------------
(* A run, by the plan it executes, the statement it is at, the catalog,    *)
(* and what it has added, removed and locked.                              *)

DoneOf(p, k) == {p[i] : i \in 1..(k - 1)}

StatementAt(p, k) == IF k = 0 THEN CreateTable("alembic_version", {}, {})[1] ELSE p[k]

Seen(objects, new, gone) == (objects \ gone) \cup new

(* Its locks cover what it has changed, and what it has referred to.       *)
Covered(done, new, gone, locks) ==
  /\ \A o \in new \cup gone : o[1] \in locks
  /\ \A s \in done :
       /\ \A o \in s.adds \cup s.removes : o[1] \in locks
       /\ \A o \in s.adds : IsReference(o) => o[3] \in locks

(* It has changed what its statements say, and of a table it has dropped   *)
(* nothing is left.                                                        *)
Effects(p, k, objects, new, gone) ==
  /\ \A o \in new : o = Table("alembic_version") \/ \E s \in DoneOf(p, k) : o \in s.adds
  /\ \A s \in DoneOf(p, k) : TablesOf(s.adds) \subseteq new
  /\ \A o \in gone : o[1] = "alembic_version" \/ Table(o[1]) \in Removes(p)
  /\ \A s \in DoneOf(p, k) : \A o \in Seen(objects, new, gone) : Table(o[1]) \notin s.removes
  /\ k <= 1 => gone = {}

(* From its first statement on, the version it has read is the present     *)
(* one. Only the downgrade of the first revision may meet a later one,     *)
(* until it drops the transactions.                                        *)
Early(c, v, done) ==
  c = Down /\ v = 1 /\ \A s \in done : Table("transactions") \notin s.removes

Current(c, v, done, objects) ==
  Whole(objects, v) \/ (Early(c, v, done) /\ Whole(objects, 2))

Consistent(c, v, k, objects, new, gone, locks) ==
  LET p == PlanOf(c, v) IN
  /\ Covered(DoneOf(p, k), new, gone, locks)
  /\ Effects(p, k, objects, new, gone)
  /\ k >= 2 => Current(c, v, DoneOf(p, k), objects)
  /\ k >= 2 /\ k > Len(p) => Records(Seen(objects, new, gone), TargetOf(c, v))

LEMMA DoneFacts ==
  ASSUME NEW p \in Seq(StatementType), NEW k \in 0..(Len(p) + 1)
  PROVE  /\ \A s \in DoneOf(p, k) : s.adds \subseteq Adds(p) /\ s.removes \subseteq Removes(p)
         /\ k <= 1 => DoneOf(p, k) = {}
         /\ k >= 2 => p[1] \in DoneOf(p, k)
         /\ k > Len(p) => \A o \in Adds(p) : \E s \in DoneOf(p, k) : o \in s.adds
         /\ k > Len(p) => \A o \in Removes(p) : \E s \in DoneOf(p, k) : o \in s.removes
         /\ k > Len(p) /\ k >= 2 => p[Len(p)] \in DoneOf(p, k)
         /\ k \in 1..Len(p) => DoneOf(p, k + 1) = DoneOf(p, k) \cup {p[k]}
  <1> DEFINE n == Len(p)
  <1>1. n \in Nat /\ k \in Int
    OBVIOUS
  <1>2. \A i \in 1..(k - 1) : i \in 1..n
    OBVIOUS
  <1>3. k > n => 1..(k - 1) = 1..n
    OBVIOUS
  <1> HIDE DEF n
  <1>4. \A s \in DoneOf(p, k) : s.adds \subseteq Adds(p) /\ s.removes \subseteq Removes(p)
    BY <1>2 DEF DoneOf, Adds, Removes, n
  <1>5. k <= 1 => DoneOf(p, k) = {}
    BY <1>1 DEF DoneOf
  <1>6. k >= 2 => p[1] \in DoneOf(p, k)
    BY <1>1 DEF DoneOf
  <1>7. k > n => \A o \in Adds(p) : \E s \in DoneOf(p, k) : o \in s.adds
    BY <1>3 DEF DoneOf, Adds, n
  <1>8. k > n => \A o \in Removes(p) : \E s \in DoneOf(p, k) : o \in s.removes
    BY <1>3 DEF DoneOf, Removes, n
  <1>9. k > n /\ k >= 2 => p[n] \in DoneOf(p, k)
    BY <1>1, <1>3 DEF DoneOf
  <1>10. ASSUME k \in 1..n PROVE DoneOf(p, k + 1) = DoneOf(p, k) \cup {p[k]}
    <2>1. k + 1 - 1 = k
      BY <1>1
    <2>2. \A i : i \in 1..k <=> i \in 1..(k - 1) \/ i = k
      BY <1>1, <1>10
    <2>3. QED
      BY <2>1, <2>2 DEF DoneOf
  <1>11. QED
    BY <1>4, <1>5, <1>6, <1>7, <1>8, <1>9, <1>10 DEF n

(* The first statement, of the version table.                              *)
LEMMA FirstTable ==
  LET s == CreateTable("alembic_version", {}, {})[1] IN
  s.adds = {Table("alembic_version")} /\ s.removes = {}
  <1> DEFINE s == [adds |-> {Table("alembic_version")}
          \cup {Unique("alembic_version", x) : x \in {}}
                     \cup {References("alembic_version", u) : u \in {}},
                   removes |-> {}]
  <1>1. CreateTable("alembic_version", {}, {}) = <<s>>
    BY DEF CreateTable
  <1>2. s.adds = {Table("alembic_version")} /\ s.removes = {}
    OBVIOUS
  <1> HIDE DEF s
  <1>3. QED
    BY <1>1, <1>2

-----------------------------------------------------------------------------
(* One statement.                                                          *)

DroppedBy(seen, s) == {o \in seen : o \in s.removes \/ Table(o[1]) \in s.removes}

LockedBy(seen, s) ==
  LET objects == s.adds \cup DroppedBy(seen, s) IN
  {o[1] : o \in objects} \cup {o[3] : o \in {x \in objects : IsReference(x)}}

Possible(seen, s) ==
  /\ s.adds \cap seen = {}
  /\ s.removes \subseteq seen
  /\ \A o \in s.adds : IsReference(o) => Table(o[3]) \in seen
  /\ \A o \in seen \ DroppedBy(seen, s) : IsReference(o) => Table(o[3]) \notin s.removes

(* What a statement is to its plan.                                        *)
LEMMA StatementFacts ==
  ASSUME NEW p, Coherent(p), NEW k \in 0..Len(p)
  PROVE  LET s == StatementAt(p, k) IN
         /\ k = 0 => s.adds = {Table("alembic_version")} /\ s.removes = {}
         /\ k >= 1 => s = p[k] /\ s.adds \subseteq Adds(p)
         /\ k >= 1 => DoneOf(p, k + 1) = DoneOf(p, k) \cup {s}
         /\ k = 0 => DoneOf(p, k) = {} /\ DoneOf(p, k + 1) = {}
         /\ \A x \in DoneOf(p, k + 1) : x.adds \subseteq Adds(p) /\ x.removes \subseteq Removes(p)
         /\ s.removes \subseteq Removes(p)
         /\ \A x \in DoneOf(p, k) : x \in DoneOf(p, k + 1)
  <1> DEFINE s == StatementAt(p, k)
  <1>1. p \in Seq(StatementType) /\ Len(p) \in Nat /\ k \in 0..(Len(p) + 1) /\ k + 1 \in 0..(Len(p) + 1)
    <2>1. p \in Seq(StatementType)
      BY DEF Coherent
    <2>2. QED
      BY <2>1
  <1>2. CASE k = 0
    <2>1. DoneOf(p, 0) = {} /\ DoneOf(p, 1) = {}
      BY DEF DoneOf
    <2>2. s.adds = {Table("alembic_version")} /\ s.removes = {}
      BY <1>2, FirstTable DEF StatementAt
    <2> HIDE DEF s
    <2>3. QED
      BY <1>2, <2>1, <2>2 DEF s
  <1>3. CASE k >= 1
    <2>1. k \in 1..Len(p) /\ k # 0
      BY <1>1, <1>3
    <2>2. s = p[k]
      BY <2>1 DEF StatementAt
    <2>3. s.adds \subseteq Adds(p) /\ s.removes \subseteq Removes(p)
      BY <2>1, <2>2 DEF Adds, Removes
    <2>4. DoneOf(p, k + 1) = DoneOf(p, k) \cup {p[k]}
      BY <1>1, <2>1, DoneFacts
    <2>5. \A x \in DoneOf(p, k) : x.adds \subseteq Adds(p) /\ x.removes \subseteq Removes(p)
      BY <1>1, DoneFacts
    <2> HIDE DEF s
    <2>6. QED
      BY <2>1, <2>2, <2>3, <2>4, <2>5 DEF s
  <1>4. QED
    BY <1>1, <1>2, <1>3

LEMMA SeenAfter ==
  ASSUME NEW objects, NEW new, NEW gone, NEW s
  PROVE  LET seen == Seen(objects, new, gone)
             d == DroppedBy(seen, s)
         IN  Seen(objects, (new \ d) \cup s.adds, gone \cup (d \cap objects)) = (seen \ d) \cup s.adds
  BY DEF Seen, DroppedBy

LEMMA ExecutedCovered ==
  ASSUME NEW p, Coherent(p), NEW k \in 0..Len(p), NEW objects, NEW new, NEW gone, NEW locks,
         Covered(DoneOf(p, k), new, gone, locks),
         Possible(Seen(objects, new, gone), StatementAt(p, k))
  PROVE  LET s == StatementAt(p, k)
             seen == Seen(objects, new, gone)
             d == DroppedBy(seen, s)
         IN  Covered(DoneOf(p, k + 1), (new \ d) \cup s.adds, gone \cup (d \cap objects),
                     locks \cup LockedBy(seen, s))
  <1> DEFINE s == StatementAt(p, k)
             seen == Seen(objects, new, gone)
             d == DroppedBy(seen, s)
             l == LockedBy(seen, s)
             done == DoneOf(p, k)
             next == DoneOf(p, k + 1)
  <1>1. /\ k = 0 => next = {}
        /\ k >= 1 => next = done \cup {s}
    BY StatementFacts
  <1>2. /\ \A o \in s.adds \cup d : o[1] \in l
        /\ \A o \in s.adds : IsReference(o) => o[3] \in l
    BY DEF LockedBy
  <1>3. s.removes \subseteq d
    BY DEF Possible, DroppedBy
  <1>4. k = 0 \/ k >= 1
    OBVIOUS
  <1>5. Covered(done, new, gone, locks)
    OBVIOUS
  <1> HIDE DEF s, seen, d, l, done, next
  <1>6. Covered(next, (new \ d) \cup s.adds, gone \cup (d \cap objects), locks \cup l)
    BY <1>1, <1>2, <1>3, <1>4, <1>5 DEF Covered
  <1>7. QED
    BY <1>6 DEF s, seen, d, l, done, next

LEMMA ExecutedEffects ==
  ASSUME NEW p, Coherent(p), NEW k \in 0..Len(p), NEW objects, NEW new, NEW gone,
         Effects(p, k, objects, new, gone)
  PROVE  LET s == StatementAt(p, k)
             d == DroppedBy(Seen(objects, new, gone), s)
         IN  Effects(p, k + 1, objects, (new \ d) \cup s.adds, gone \cup (d \cap objects))
  <1> DEFINE s == StatementAt(p, k)
             seen == Seen(objects, new, gone)
             d == DroppedBy(seen, s)
             done == DoneOf(p, k)
             next == DoneOf(p, k + 1)
             new1 == (new \ d) \cup s.adds
             gone1 == gone \cup (d \cap objects)
             seen1 == Seen(objects, new1, gone1)
  <1>1. /\ k = 0 => s.adds = {Table("alembic_version")} /\ s.removes = {} /\ next = {}
        /\ k >= 1 => s.adds \subseteq Adds(p) /\ next = done \cup {s}
        /\ \A x \in next : x.adds \subseteq Adds(p) /\ x.removes \subseteq Removes(p)
        /\ \A x \in done : x \in next
        /\ s.removes \subseteq Removes(p)
    BY StatementFacts
  <1>2. seen1 = (seen \ d) \cup s.adds
    BY SeenAfter
  <1>3. k = 0 \/ k >= 1
    OBVIOUS
  <1>4. /\ \A o \in Removes(p) : o[1] = "alembic_version" \/ Table(o[1]) \in Removes(p)
        /\ \A o \in Adds(p) : Table(o[1]) \notin Removes(p)
    BY DEF Coherent
  <1>5. \A o \in d : o \in s.removes \/ Table(o[1]) \in s.removes
    BY DEF DroppedBy
  <1>6. \A o \in seen \ d : Table(o[1]) \notin s.removes
    BY DEF DroppedBy
  <1>7. /\ \A o \in new : o = Table("alembic_version") \/ \E x \in done : o \in x.adds
        /\ \A x \in done : TablesOf(x.adds) \subseteq new
        /\ \A o \in gone : o[1] = "alembic_version" \/ Table(o[1]) \in Removes(p)
        /\ \A x \in done : \A o \in seen : Table(o[1]) \notin x.removes
        /\ k <= 1 => gone = {}
    BY DEF Effects
  <1>8. new1 = (new \ d) \cup s.adds /\ gone1 = gone \cup (d \cap objects)
    OBVIOUS
  <1> HIDE DEF s, seen, d, done, next, new1, gone1, seen1
  <1>9. \A o \in new1 : o = Table("alembic_version") \/ \E x \in next : o \in x.adds
    BY <1>1, <1>3, <1>7, <1>8
  <1>10. \A x \in next : TablesOf(x.adds) \subseteq new1
    <2> SUFFICES ASSUME NEW x \in next, NEW o \in x.adds, o[1] # "alembic_version"
                 PROVE  o \in new1
      BY DEF TablesOf
    <2>1. CASE x = s
      BY <1>8, <2>1
    <2>2. CASE x \in done
      <3>1. o \in new
        BY <1>7, <2>2 DEF TablesOf
      <3>2. o \in Adds(p) /\ Table(o[1]) \notin Removes(p)
        BY <1>1, <1>4
      <3>3. o \notin d
        BY <1>1, <1>4, <1>5, <3>2
      <3>4. QED
        BY <1>8, <3>1, <3>3
    <2>3. QED
      BY <1>1, <1>3, <2>1, <2>2
  <1>11. \A o \in gone1 : o[1] = "alembic_version" \/ Table(o[1]) \in Removes(p)
    BY <1>1, <1>4, <1>5, <1>7, <1>8
  <1>12. \A x \in next : \A o \in seen1 : Table(o[1]) \notin x.removes
    <2> SUFFICES ASSUME NEW x \in next, NEW o \in seen1
                 PROVE  Table(o[1]) \notin x.removes
      OBVIOUS
    <2>1. CASE o \in s.adds
      BY <1>1, <1>3, <1>4, <2>1
    <2>2. CASE o \in seen \ d
      BY <1>1, <1>3, <1>6, <1>7, <2>2
    <2>3. QED
      BY <1>2, <2>1, <2>2
  <1>13. k + 1 <= 1 => gone1 = {}
    <2> SUFFICES ASSUME k + 1 <= 1 PROVE gone1 = {}
      OBVIOUS
    <2>1. k = 0 /\ k <= 1
      OBVIOUS
    <2>2. d = {}
      BY <1>1, <1>5, <2>1
    <2>3. QED
      BY <1>7, <1>8, <2>1, <2>2
  <1>14. Effects(p, k + 1, objects, new1, gone1)
    BY <1>9, <1>10, <1>11, <1>12, <1>13 DEF Effects, seen1, next
  <1>15. QED
    BY <1>14 DEF new1, gone1, s, seen, d

(* Before its first statement a run sees the catalog as it is.             *)
LEMMA SeenFirst ==
  ASSUME NEW p \in Seq(StatementType), NEW k \in {0, 1}, NEW objects, NEW new, NEW gone,
         Effects(p, k, objects, new, gone)
  PROVE  /\ \A o : o # Table("alembic_version") =>
                     (o \in Seen(objects, new, gone) <=> o \in objects)
         /\ DoneOf(p, k) = {}
  <1>1. DoneOf(p, k) = {}
    BY DEF DoneOf
  <1>2. k <= 1
    OBVIOUS
  <1>3. QED
    BY <1>1, <1>2 DEF Effects, Seen

(* The first statement of a plan only works in the version it is made for; *)
(* the first one of the downgrade to nothing works in both versions.       *)
LEMMA FirstStatement ==
  ASSUME NEW c \in Commands, NEW v \in 0..2, PlanOf(c, v) # << >>,
         NEW objects, NEW new, NEW gone, NEW w \in 0..2, Whole(objects, w),
         Effects(PlanOf(c, v), 1, objects, new, gone),
         Possible(Seen(objects, new, gone), PlanOf(c, v)[1])
  PROVE  w = v \/ (c = Down /\ v = 1 /\ w = 2)
  <1> DEFINE p == PlanOf(c, v)
             seen == Seen(objects, new, gone)
             s == p[1]
  <1>1. p \in Seq(StatementType)
    BY Plans
  <1>2. \A o : o # Table("alembic_version") => (o \in seen <=> o \in objects)
    BY <1>1, SeenFirst
  <1>3. s.adds \cap seen = {} /\ s.removes \subseteq seen
        /\ \A o \in s.adds : IsReference(o) => Table(o[3]) \in seen
    BY DEF Possible
  <1>4. \A t : t # "alembic_version" => \A u :
          Table(t) # Table("alembic_version") /\ Index(t, u) # Table("alembic_version")
    BY ObjectParts
  <1>5. /\ Table("accounts") \in seen <=> w # 0
        /\ Table("transactions") \in seen <=> w # 0
        /\ Table("risk_assessments") \in seen <=> w = 2
        /\ Index("alerts", "is_resolved") \in seen <=> w # 0
        /\ Index("risk_assessments", "decision") \in seen <=> w = 2
    BY <1>2, <1>4, TellVersions
  <1> HIDE DEF seen, s
  <1>6. CASE c = Up /\ v = 0
    <2>1. Table("accounts") \in s.adds
      BY <1>6, PlanCases, UpgradePlans DEF s
    <2>2. QED
      BY <1>3, <1>5, <1>6, <2>1
  <1>7. CASE c = Up /\ v = 1
    <2>1. /\ Table("risk_assessments") \in s.adds
          /\ References("risk_assessments", "transactions") \in s.adds
      BY <1>7, PlanCases, UpgradePlans DEF s
    <2>2. Table("transactions") \in seen
      BY <1>3, <2>1, ObjectParts
    <2>3. QED
      BY <1>3, <1>5, <1>7, <2>1, <2>2
  <1>8. CASE c = Down /\ v = 1
    <2>1. Index("alerts", "is_resolved") \in s.removes
      BY <1>8, PlanCases, DowngradePlans DEF s
    <2>2. QED
      BY <1>3, <1>5, <1>8, <2>1
  <1>9. CASE c = Down /\ v = 2
    <2>1. Index("risk_assessments", "decision") \in s.removes
      BY <1>9, PlanCases, DowngradePlans DEF s
    <2>2. QED
      BY <1>3, <1>5, <1>9, <2>1
  <1>10. QED
    BY <1>6, <1>7, <1>8, <1>9, CommandNames, PlanCases

(* While assessments refer to the transactions, these cannot be dropped.   *)
LEMMA TransactionsInUse ==
  ASSUME NEW k \in 0..Len(PlanOf(Down, 1)), NEW objects, NEW new, NEW gone,
         Whole(objects, 2), Effects(PlanOf(Down, 1), k, objects, new, gone),
         Possible(Seen(objects, new, gone), StatementAt(PlanOf(Down, 1), k))
  PROVE  Table("transactions") \notin StatementAt(PlanOf(Down, 1), k).removes
  <1> DEFINE p == PlanOf(Down, 1)
             seen == Seen(objects, new, gone)
             s == StatementAt(p, k)
             o == References("risk_assessments", "transactions")
  <1>1. /\ Coherent(p)
        /\ \A t : Table(t) \in Removes(p) <=> t \in Tables \ {"risk_assessments"}
    BY PlanCases, DowngradePlans
  <1>2. s.removes \subseteq Removes(p)
    BY <1>1, StatementFacts
  <1>3. /\ o[1] = "risk_assessments" /\ o[3] = "transactions" /\ IsReference(o)
        /\ "risk_assessments" # "alembic_version"
    BY ObjectParts
  <1>4. o \in objects
    BY TellVersions
  <1>5. Table(o[1]) \notin Removes(p)
    BY <1>1, <1>3
  <1>6. o \notin Removes(p)
    BY <1>1, <1>3, <1>5 DEF Coherent
  <1> HIDE DEF p, s, o
  <1>7. o \in seen
    BY <1>3, <1>4, <1>5 DEF Effects, Seen, p
  <1>8. o \notin DroppedBy(seen, s)
    BY <1>2, <1>5, <1>6 DEF DroppedBy
  <1>9. QED
    BY <1>3, <1>7, <1>8 DEF Possible, p, s

LEMMA ExecutedCurrent ==
  ASSUME NEW c \in Commands, NEW v \in 0..2, NEW k \in 1..Len(PlanOf(c, v)),
         NEW objects, NEW new, NEW gone, NEW w \in 0..2, Whole(objects, w),
         Effects(PlanOf(c, v), k, objects, new, gone),
         Possible(Seen(objects, new, gone), StatementAt(PlanOf(c, v), k)),
         k >= 2 => Current(c, v, DoneOf(PlanOf(c, v), k), objects)
  PROVE  Current(c, v, DoneOf(PlanOf(c, v), k + 1), objects)
  <1> DEFINE p == PlanOf(c, v)
             s == StatementAt(p, k)
             done == DoneOf(p, k)
  <1>1. p \in Seq(StatementType) /\ Coherent(p)
    BY Plans
  <1>2. k \in 0..Len(p) /\ k # 0 /\ Len(p) \in Nat
    BY <1>1
  <1>3. s = p[k] /\ DoneOf(p, k + 1) = done \cup {s}
    BY <1>1, <1>2, StatementFacts
  <1>4. Current(c, v, done, objects)
    <2>1. CASE k = 1
      <3>1. p # << >>
        BY <2>1
      <3>2. p[1] = s /\ DoneOf(p, 1) = {}
        BY <1>3, <2>1 DEF DoneOf
      <3>3. w = v \/ (c = Down /\ v = 1 /\ w = 2)
        BY <2>1, <3>1, <3>2, FirstStatement
      <3>4. QED
        BY <2>1, <3>2, <3>3 DEF Current, Early
    <2>2. QED
      BY <1>2, <2>1
  <1>5. CASE Whole(objects, v)
    BY <1>5 DEF Current
  <1>6. CASE Early(c, v, done) /\ Whole(objects, 2)
    <2>1. c = Down /\ v = 1
      BY <1>6 DEF Early
    <2>2. Table("transactions") \notin s.removes
      BY <1>2, <1>6, <2>1, TransactionsInUse
    <2>3. Early(c, v, done \cup {s})
      BY <1>6, <2>2 DEF Early
    <2>4. QED
      BY <1>3, <1>6, <2>3 DEF Current
  <1>7. QED
    BY <1>4, <1>5, <1>6 DEF Current

LEMMA ExecutedRecorded ==
  ASSUME NEW c \in Commands, NEW v \in 0..2, NEW k \in 1..Len(PlanOf(c, v)), k = Len(PlanOf(c, v)),
         NEW objects, NEW new, NEW gone,
         Effects(PlanOf(c, v), k, objects, new, gone),
         Current(c, v, DoneOf(PlanOf(c, v), k + 1), objects)
  PROVE  LET seen == Seen(objects, new, gone)
             s == StatementAt(PlanOf(c, v), k)
         IN  Records((seen \ DroppedBy(seen, s)) \cup s.adds, TargetOf(c, v))
  <1> DEFINE p == PlanOf(c, v)
             t == TargetOf(c, v)
             seen == Seen(objects, new, gone)
             s == StatementAt(p, k)
             seen1 == (seen \ DroppedBy(seen, s)) \cup s.adds
  <1>1. p \in Seq(StatementType) /\ Coherent(p) /\ p # << >> /\ k \in 0..Len(p)
        /\ k + 1 \in 0..(Len(p) + 1) /\ k + 1 > Len(p) /\ k >= 1
    <2>1. p \in Seq(StatementType) /\ Coherent(p)
      BY Plans
    <2>2. QED
      BY <2>1
  <1>2. s = p[Len(p)] /\ Concludes(p, t)
    BY <1>1, StatementFacts, Plans
  <1>3. /\ t # 0 => VersionRow(t) \in s.adds /\ VersionRow(3 - t) \in s.removes
        /\ t = 0 => VersionRow(1) \in s.removes
        /\ \A u \in {1, 2} \ {t} : VersionRow(u) \notin s.adds
    BY <1>2 DEF Concludes
  <1>4. \A o \in s.removes : o \notin seen \ DroppedBy(seen, s)
    BY DEF DroppedBy
  <1>5. CASE t = 1 \/ t = 2
    <2> HIDE DEF s, t, seen
    <2>1. \A u \in {1, 2} : u # t => u = 3 - t
      BY <1>5
    <2>2. VersionRow(t) \in s.adds
      BY <1>3, <1>5
    <2>3. \A u \in {1, 2} : u # t => VersionRow(u) \in s.removes
      BY <1>3, <1>5, <2>1
    <2>4. \A u \in {1, 2} : u # t => VersionRow(u) \notin seen1
      BY <1>3, <1>4, <2>3
    <2>5. VersionRow(t) \in seen1
      BY <2>2
    <2> HIDE DEF seen1
    <2>6. Records(seen1, t)
      BY <2>4, <2>5 DEF Records
    <2>7. QED
      BY <2>6 DEF seen1, s, t, seen
  <1>6. CASE t \notin {1, 2}
    <2>1. c = Down /\ v = 1 /\ t = 0
      BY <1>1, <1>6, CommandNames, PlanCases
    <2>2. Adds(p) = {} /\ Table("transactions") \in Removes(p)
      BY <2>1, PlanCases, DowngradePlans DEF Tables
    <2>3. ~Early(c, v, DoneOf(p, k + 1))
      BY <1>1, <2>2, DoneFacts DEF Early
    <2>4. VersionRow(2) \notin objects
      BY <2>1, <2>3 DEF Current, Whole, Records
    <2>5. VersionRow(2) \notin new
      <3>1. \A x \in DoneOf(p, k) : x.adds \subseteq Adds(p)
        BY <1>1, DoneFacts
      <3>2. QED
        BY <2>2, <3>1, VersionRows DEF Effects
    <2>6. VersionRow(2) \notin seen
      BY <2>4, <2>5 DEF Seen
    <2> HIDE DEF s, seen, t
    <2>7. VersionRow(1) \notin seen1 /\ VersionRow(2) \notin seen1
      BY <1>3, <1>4, <2>1, <2>6
    <2> HIDE DEF seen1
    <2>8. Records(seen1, t)
      BY <1>6, <2>7 DEF Records
    <2>9. QED
      BY <2>8 DEF seen1, s, t, seen
  <1>7. QED
    BY <1>5, <1>6

LEMMA Executed ==
  ASSUME NEW c \in Commands, NEW v \in 0..2, NEW k \in 0..Len(PlanOf(c, v)),
         NEW objects, NEW new, NEW gone, NEW locks, NEW w \in 0..2, Whole(objects, w),
         Consistent(c, v, k, objects, new, gone, locks),
         Possible(Seen(objects, new, gone), StatementAt(PlanOf(c, v), k))
  PROVE  LET s == StatementAt(PlanOf(c, v), k)
             seen == Seen(objects, new, gone)
             d == DroppedBy(seen, s)
         IN  Consistent(c, v, k + 1, objects, (new \ d) \cup s.adds,
                        gone \cup (d \cap objects), locks \cup LockedBy(seen, s))
  <1> DEFINE p == PlanOf(c, v)
             s == StatementAt(p, k)
             seen == Seen(objects, new, gone)
             d == DroppedBy(seen, s)
             new1 == (new \ d) \cup s.adds
             gone1 == gone \cup (d \cap objects)
             locks1 == locks \cup LockedBy(seen, s)
  <1>1. /\ Covered(DoneOf(p, k), new, gone, locks)
        /\ Effects(p, k, objects, new, gone)
        /\ k >= 2 => Current(c, v, DoneOf(p, k), objects)
    BY DEF Consistent
  <1>2. p \in Seq(StatementType) /\ Coherent(p)
    BY Plans
  <1>3. Len(p) \in Nat
    BY <1>2
  <1>4. Covered(DoneOf(p, k + 1), new1, gone1, locks1)
    BY <1>1, <1>2, ExecutedCovered
  <1>5. Effects(p, k + 1, objects, new1, gone1)
    BY <1>1, <1>2, ExecutedEffects
  <1>6. ASSUME k + 1 >= 2 PROVE Current(c, v, DoneOf(p, k + 1), objects)
    <2>1. k \in 1..Len(p)
      BY <1>3, <1>6
    <2>2. QED
      BY <1>1, <2>1, ExecutedCurrent
  <1>7. ASSUME k + 1 >= 2, k + 1 > Len(p)
        PROVE  Records(Seen(objects, new1, gone1), TargetOf(c, v))
    <2>1. k \in 1..Len(p) /\ k = Len(p)
      BY <1>3, <1>7
    <2>2. Records((seen \ d) \cup s.adds, TargetOf(c, v))
      BY <1>1, <1>6, <1>7, <2>1, ExecutedRecorded
    <2>3. Seen(objects, new1, gone1) = (seen \ d) \cup s.adds
      BY SeenAfter
    <2>4. QED
      BY <2>2, <2>3
  <1> HIDE DEF new1, gone1, locks1
  <1>8. Consistent(c, v, k + 1, objects, new1, gone1, locks1)
    BY <1>4, <1>5, <1>6, <1>7 DEF Consistent
  <1>9. QED
    BY <1>8 DEF new1, gone1, locks1

-----------------------------------------------------------------------------
(* A run that has executed its plan sees a whole schema. If it leads from  *)
(* the first version to the second, it has locked the transactions.        *)

LEMMA FinishedEmpty ==
  ASSUME NEW c \in Commands, NEW v \in 0..2, PlanOf(c, v) = << >>, NEW k \in {0, 1},
         NEW objects, NEW new, NEW gone, NEW locks, NEW w \in 0..2, Whole(objects, w),
         Consistent(c, v, k, objects, new, gone, locks)
  PROVE  Whole(Seen(objects, new, gone), w)
  <1> DEFINE seen == Seen(objects, new, gone)
             p == PlanOf(c, v)
  <1>1. p \in Seq(StatementType) /\ Effects(p, k, objects, new, gone)
    BY Plans DEF Consistent
  <1> HIDE DEF p
  <1>2. \A o : o # Table("alembic_version") => (o \in seen <=> o \in objects)
    BY <1>1, SeenFirst
  <1> HIDE DEF seen
  <1>3. Table("alembic_version")[1] = "alembic_version"
    BY ObjectParts
  <1>4. TablesOf(seen) = TablesOf(objects)
    BY <1>2, <1>3 DEF TablesOf
  <1>5. \A u \in {1, 2} : VersionRow(u) \in seen <=> VersionRow(u) \in objects
    <2>1. VersionRow(1) # Table("alembic_version") /\ VersionRow(2) # Table("alembic_version")
      BY VersionRows
    <2>2. QED
      BY <1>2, <2>1
  <1>6. QED
    BY <1>4, <1>5 DEF Whole, Records, seen

(* The tables a run sees after its last statement.                         *)
LEMMA FinishedTables ==
  ASSUME NEW c \in Commands, NEW v \in 0..2, NEW k \in Nat,
         k = Len(PlanOf(c, v)) + 1, PlanOf(c, v) # << >>,
         NEW objects, NEW new, NEW gone, NEW locks,
         Consistent(c, v, k, objects, new, gone, locks)
  PROVE  /\ Whole(Seen(objects, new, gone), TargetOf(c, v))
         /\ Whole(objects, v)
         /\ c = Up /\ v = 1 => "transactions" \in locks
  <1> DEFINE p == PlanOf(c, v)
             seen == Seen(objects, new, gone)
             done == DoneOf(p, k)
  <1>1. p \in Seq(StatementType) /\ Coherent(p) /\ p # << >>
    BY Plans
  <1>2. k \in 0..(Len(p) + 1) /\ k > Len(p) /\ k >= 2
    BY <1>1
  <1>3. /\ \A x \in done : x.adds \subseteq Adds(p) /\ x.removes \subseteq Removes(p)
        /\ p[1] \in done
        /\ \A o \in Adds(p) : \E x \in done : o \in x.adds
        /\ \A o \in Removes(p) : \E x \in done : o \in x.removes
    BY <1>1, <1>2, DoneFacts
  <1>4. /\ Covered(done, new, gone, locks)
        /\ Effects(p, k, objects, new, gone)
        /\ Current(c, v, done, objects)
        /\ Records(seen, TargetOf(c, v))
    BY <1>2 DEF Consistent
  <1>5. \A o \in Adds(p) : o[1] # "alembic_version" => o \in new
    BY <1>3, <1>4 DEF Effects, TablesOf
  <1>6. \A o \in new : o[1] # "alembic_version" => o \in Adds(p)
    BY <1>3, <1>4, ObjectParts DEF Effects
  <1>7. \A o \in gone : o[1] = "alembic_version" \/ Table(o[1]) \in Removes(p)
    BY <1>4 DEF Effects
  <1>8. \A o \in seen : Table(o[1]) \notin Removes(p)
    BY <1>3, <1>4 DEF Effects
  <1>9. Whole(objects, v)
    <2>1. CASE c = Down /\ v = 1
      <3>1. Table("transactions") \in Removes(p)
        BY <2>1, PlanCases, DowngradePlans DEF Tables
      <3>2. QED
        BY <1>3, <1>4, <3>1 DEF Current, Early
    <2>2. QED
      BY <1>4, <2>1 DEF Current, Early
  <1>10. \A o : o \in seen <=> o \in new \/ (o \in objects /\ o \notin gone)
    BY DEF Seen
  <1> HIDE DEF seen, done, p
  <1>11. \A o : o[1] # "alembic_version" => (o \in objects <=> o \in Schemas[v + 1])
    BY <1>9 DEF Whole, TablesOf
  <1>12. SUFFICES /\ TablesOf(seen) = Schemas[TargetOf(c, v) + 1]
                  /\ c = Up /\ v = 1 => "transactions" \in locks
    BY <1>4, <1>9 DEF Whole, seen
  <1>13. "alembic_version" \notin Tables /\ "risk_assessments" \in Tables
    BY DEF Tables
  <1>14. \A x \in Schemas[3] : x[1] \in Tables
    BY <1>13, SchemaUnion, SchemaTables
  <1>15. CASE c = Up /\ v = 0
    <2>1. Adds(p) = Schemas[3] \cup {VersionRow(1), VersionRow(2)} /\ Removes(p) =
              {VersionRow(1)}
          /\ TargetOf(c, v) = 2
      BY <1>15, PlanCases, UpgradePlans DEF p
    <2>2. \A o : o[1] # "alembic_version" => (o \in seen <=> o \in Schemas[3])
      BY <1>5, <1>6, <1>7, <1>10, <1>11, <1>15, <2>1, SchemaUnion, VersionRows
    <2>3. QED
      BY <1>13, <1>14, <1>15, <2>1, <2>2 DEF TablesOf
  <1>16. CASE c = Up /\ v = 1
    <2>1. /\ Adds(p) = SchemaObjects("risk_assessments") \cup {VersionRow(2)}
          /\ Removes(p) = {VersionRow(1)} /\ TargetOf(c, v) = 2
          /\ References("risk_assessments", "transactions") \in p[1].adds
      BY <1>16, PlanCases, UpgradePlans DEF p
    <2>2. \A o : o[1] # "alembic_version" => (o \in seen <=> o \in Schemas[3])
      BY <1>5, <1>6, <1>7, <1>10, <1>11, <1>16, <2>1, SchemaUnion, VersionRows
    <2>3. "transactions" \in locks
      BY <1>3, <1>4, <2>1, ObjectParts DEF Covered
    <2>4. QED
      BY <1>13, <1>14, <2>1, <2>2, <2>3 DEF TablesOf
  <1>17. CASE c = Down /\ v = 1
    <2>1. /\ Adds(p) = {} /\ TargetOf(c, v) = 0
          /\ \A t : Table(t) \in Removes(p) <=> t \in Tables \ {"risk_assessments"}
      BY <1>17, PlanCases, DowngradePlans DEF p
    <2>2. \A o : o[1] # "alembic_version" => o \notin seen
      BY <1>6, <1>8, <1>10, <1>11, <1>17, <2>1, SchemaUnion
    <2>3. QED
      BY <1>17, <2>1, <2>2, SchemaUnion, CommandNames DEF TablesOf
  <1>18. CASE c = Down /\ v = 2
    <2>1. /\ Adds(p) = {VersionRow(1)} /\ TargetOf(c, v) = 1
          /\ \A t : Table(t) \in Removes(p) <=> t = "risk_assessments"
      BY <1>18, PlanCases, DowngradePlans DEF p
    <2>2. \A o : o[1] # "alembic_version" => (o \in seen <=> o \in Schemas[2])
      <3>1. \A o \in SchemaObjects("risk_assessments") : o[1] = "risk_assessments"
        BY <1>13, SchemaTables
      <3>2. \A o : o \in Schemas[3] <=> o \in Schemas[2] \/ o \in SchemaObjects("risk_assessments")
        BY SchemaUnion
      <3>3. \A o \in Schemas[2] : o[1] # "risk_assessments" /\ o[1] # "alembic_version"
        BY <1>13, SchemaUnion
      <3>4. \A o : o[1] # "alembic_version" => o \notin new
        BY <1>6, <2>1, VersionRows
      <3>5. QED
        BY <1>7, <1>8, <1>10, <1>11, <1>18, <2>1, <3>1, <3>2, <3>3, <3>4
    <2>3. \A o \in Schemas[2] : o[1] # "alembic_version"
      BY <1>13, SchemaUnion
    <2>4. QED
      BY <1>18, <2>1, <2>2, <2>3, CommandNames DEF TablesOf
  <1>19. QED
    BY <1>1, <1>15, <1>16, <1>17, <1>18, CommandNames, PlanCases DEF p

LEMMA Finished ==
  ASSUME NEW c \in Commands, NEW v \in 0..2, NEW k \in 0..(Len(PlanOf(c, v)) + 1),
         k > Len(PlanOf(c, v)),
         NEW objects, NEW new, NEW gone, NEW locks, NEW w \in 0..2, Whole(objects, w),
         Consistent(c, v, k, objects, new, gone, locks), ~(c = Down /\ v = 0)
  PROVE  \E u \in 0..2 :
           /\ Whole(Seen(objects, new, gone), u)
           /\ w = 1 /\ u = 2 => "transactions" \in locks
  <1>1. PlanOf(c, v) \in Seq(StatementType)
    BY Plans
  <1>2. CASE PlanOf(c, v) = << >>
    <2>1. k \in {0, 1}
      BY <1>2
    <2>2. Whole(Seen(objects, new, gone), w)
      BY <1>2, <2>1, FinishedEmpty
    <2>3. QED
      BY <2>2
  <1>3. CASE PlanOf(c, v) # << >>
    <2>1. k \in Nat /\ k = Len(PlanOf(c, v)) + 1
      BY <1>1
    <2>2. /\ Whole(Seen(objects, new, gone), TargetOf(c, v))
          /\ Whole(objects, v)
          /\ c = Up /\ v = 1 => "transactions" \in locks
      BY <1>3, <2>1, FinishedTables
    <2>3. v = w
      BY <2>2, OneVersion
    <2>4. TargetOf(c, v) \in 0..2 /\ (TargetOf(c, v) = 2 => c = Up)
      <3>1. v = 0 \/ v = 1 \/ v = 2
        OBVIOUS
      <3>2. QED
        BY <3>1, CommandNames, PlanCases
    <2>5. QED
      BY <2>2, <2>3, <2>4
  <1>4. QED
    BY <1>2, <1>3

(* What rivals commit leaves a run consistent: they have not touched the   *)
(* tables it has locked, and they lead from the first version to the       *)
(* second only if it has not locked the transactions.                      *)
LEMMA RivalCurrent ==
  ASSUME NEW c \in Commands, NEW v \in 0..2, NEW k \in 2..(Len(PlanOf(c, v)) + 1),
         NEW objects, NEW later, NEW locks, NEW w \in 0..2, Whole(later, w),
         \A o : o[1] \in locks => (o \in later <=> o \in objects),
         Whole(objects, 1) /\ w = 2 => "transactions" \notin locks,
         \A s \in DoneOf(PlanOf(c, v), k) :
           /\ \A o \in s.adds \cup s.removes : o[1] \in locks
           /\ \A o \in s.adds : IsReference(o) => o[3] \in locks,
         Current(c, v, DoneOf(PlanOf(c, v), k), objects)
  PROVE  Current(c, v, DoneOf(PlanOf(c, v), k), later)
  <1> DEFINE p == PlanOf(c, v)
             done == DoneOf(p, k)
  <1>1. p \in Seq(StatementType) /\ k \in 0..(Len(p) + 1) /\ k >= 2 /\ p # << >>
    <2>1. p \in Seq(StatementType)
      BY Plans
    <2>2. QED
      BY <2>1
  <1>2. p[1] \in done
    BY <1>1, DoneFacts
  <1>3. /\ \A o \in p[1].adds \cup p[1].removes : o[1] \in locks
        /\ \A o \in p[1].adds : IsReference(o) => o[3] \in locks
    BY <1>2
  <1>4. /\ \A o \in {Table("accounts"), Table("transactions"), Table("alerts")} :
             (o \in later <=> w # 0) /\ \A u \in 0..2 : Whole(objects, u)
                     => (o \in objects <=> u # 0)
        /\ Table("risk_assessments") \in later <=> w = 2
        /\ \A u \in 0..2 : Whole(objects, u)
                  => (Table("risk_assessments") \in objects <=> u = 2)
    BY TellVersions
  <1>5. \A t \in locks : Table(t) \in later <=> Table(t) \in objects
    BY ObjectParts
  <1>6. 0 \in 0..2 /\ 1 \in 0..2 /\ 2 \in 0..2 /\ (w = 0 \/ w = 1 \/ w = 2)
    OBVIOUS
  <1>7. CASE c = Up /\ v = 0
    <2>1. "accounts" \in locks
      BY <1>3, <1>7, PlanCases, UpgradePlans, ObjectParts
    <2>2. Whole(objects, 0)
      BY <1>7, CommandNames DEF Current, Early
    <2>3. w = 0
      BY <1>4, <1>5, <1>6, <2>1, <2>2
    <2>4. QED
      BY <1>7, <2>3 DEF Current
  <1>8. CASE c = Up /\ v = 1
    <2>1. "risk_assessments" \in locks /\ "transactions" \in locks
      BY <1>3, <1>8, PlanCases, UpgradePlans, ObjectParts
    <2>2. Whole(objects, 1)
      BY <1>8, CommandNames DEF Current, Early
    <2>3. w = 1
      BY <1>4, <1>5, <1>6, <2>1, <2>2
    <2>4. QED
      BY <1>8, <2>3 DEF Current
  <1>9. CASE c = Down /\ v = 2
    <2>1. "risk_assessments" \in locks
      BY <1>3, <1>9, PlanCases, DowngradePlans, ObjectParts
    <2>2. Whole(objects, 2)
      BY <1>9 DEF Current
    <2>3. w = 2
      BY <1>4, <1>5, <1>6, <2>1, <2>2
    <2>4. QED
      BY <1>9, <2>3 DEF Current
  <1>10. CASE c = Down /\ v = 1
    <2>1. "alerts" \in locks
      BY <1>3, <1>10, PlanCases, DowngradePlans, ObjectParts
    <2>2. w # 0
      BY <1>4, <1>5, <1>6, <1>10, <2>1 DEF Current
    <2>3. ASSUME w = 2 PROVE Early(c, v, done)
      <3>1. CASE Whole(objects, 1)
        BY <1>10, <2>3, <3>1, ObjectParts DEF Early
      <3>2. QED
        BY <1>10, <3>1 DEF Current
    <2>4. QED
      BY <1>6, <1>10, <2>2, <2>3 DEF Current
  <1>11. QED
    BY <1>1, <1>7, <1>8, <1>9, <1>10, CommandNames, PlanCases

LEMMA Rival ==
  ASSUME NEW c \in Commands, NEW v \in 0..2, NEW k \in 0..(Len(PlanOf(c, v)) + 1),
         NEW objects, NEW later, NEW new, NEW gone, NEW locks, NEW w \in 0..2, Whole(later, w),
         \A o : o[1] \in locks => (o \in later <=> o \in objects),
         Whole(objects, 1) /\ w = 2 => "transactions" \notin locks,
         Consistent(c, v, k, objects, new, gone, locks)
  PROVE  Consistent(c, v, k, later, new, gone, locks)
  <1> DEFINE p == PlanOf(c, v)
             done == DoneOf(p, k)
             seen == Seen(objects, new, gone)
             seen1 == Seen(later, new, gone)
  <1>1. p \in Seq(StatementType)
    BY Plans
  <1>2. /\ Covered(done, new, gone, locks)
        /\ Effects(p, k, objects, new, gone)
        /\ k >= 2 => Current(c, v, done, objects)
        /\ k >= 2 /\ k > Len(p) => Records(seen, TargetOf(c, v))
    BY DEF Consistent
  <1>3. /\ \A s \in done : \A o \in s.adds \cup s.removes : o[1] \in locks
        /\ \A s \in done : \A o \in s.adds : IsReference(o) => o[3] \in locks
    BY <1>2 DEF Covered
  <1>4. \A o : o[1] \in locks => (o \in seen1 <=> o \in seen)
    BY DEF Seen
  <1>5. k >= 2 => Current(c, v, done, later)
    <2>1. ASSUME k >= 2 PROVE k \in 2..(Len(p) + 1)
      BY <1>1, <2>1
    <2>2. QED
      BY <1>2, <1>3, <2>1, RivalCurrent
  <1>6. ASSUME k >= 2, k > Len(p) PROVE Records(seen1, TargetOf(c, v))
    <2>1. p[Len(p)] \in done
      BY <1>1, <1>6, DoneFacts
    <2>2. p # << >>
      BY <1>1, <1>6
    <2>3. Concludes(p, TargetOf(c, v))
      BY <2>2, Plans
    <2>4. "alembic_version" \in locks
      <3>1. \/ VersionRow(1) \in p[Len(p)].removes
            \/ TargetOf(c, v) # 0 /\ VersionRow(TargetOf(c, v)) \in p[Len(p)].adds
        BY <2>3 DEF Concludes
      <3>2. \A u : VersionRow(u)[1] = "alembic_version"
        BY DEF VersionRow
      <3>3. QED
        BY <1>3, <2>1, <3>1, <3>2
    <2>5. QED
      BY <1>2, <1>4, <1>6, <2>4, VersionRows DEF Records
  <1> HIDE DEF seen, seen1, p
  <1>7. Effects(p, k, later, new, gone)
    <2>1. /\ \A o \in new : o = Table("alembic_version") \/ \E s \in done : o \in s.adds
          /\ \A s \in done : TablesOf(s.adds) \subseteq new
          /\ \A o \in gone : o[1] = "alembic_version" \/ Table(o[1]) \in Removes(p)
          /\ \A s \in done : \A o \in seen : Table(o[1]) \notin s.removes
          /\ k <= 1 => gone = {}
      BY <1>2 DEF Effects, seen
    <2>2. \A s \in done : \A o \in seen1 : Table(o[1]) \notin s.removes
      BY <1>3, <1>4, <2>1, ObjectParts
    <2>3. QED
      BY <2>1, <2>2 DEF Effects, seen1
  <1>8. QED
    BY <1>2, <1>5, <1>6, <1>7 DEF Consistent, p, seen1

(* A run that has not executed a statement.                                *)
LEMMA NothingDone ==
  ASSUME NEW c \in Commands, NEW v \in 0..2, NEW k \in {0, 1}, NEW objects
  PROVE  Consistent(c, v, k, objects, {}, {}, {})
  <1>1. DoneOf(PlanOf(c, v), k) = {}
    BY DEF DoneOf
  <1>2. ~(k >= 2)
    OBVIOUS
  <1>3. QED
    BY <1>1, <1>2 DEF Consistent, Covered, Effects

-----------------------------------------------------------------------------
(* The invariant: the catalog is whole, the runs at work are consistent    *)
(* with it, and the others hold nothing.                                   *)

Working(r) ==
  Consistent(command[r], found[r], step[r], catalog, added[r], removed[r], held[r])

Idle(r) ==
  /\ added[r] = {} /\ removed[r] = {} /\ held[r] = {}
  /\ pc[r] \notin Ended => step[r] = 1

Inv ==
  /\ TypeOK
  /\ DOMAIN step = Runs /\ DOMAIN added = Runs /\ DOMAIN removed = Runs /\ DOMAIN held = Runs
  /\ \E v \in 0..2 : Whole(catalog, v)
  /\ \A r \in Runs : IF pc[r] = "run" THEN Working(r) ELSE Idle(r)

(* The actions in terms of plans.                                          *)
LEMMA InTermsOfPlans ==
  ASSUME NEW r \in Runs
  PROVE  /\ Plan(r) = PlanOf(command[r], found[r])
         /\ Statement(r) = StatementAt(PlanOf(command[r], found[r]), step[r])
         /\ View(r) = Seen(catalog, added[r], removed[r])
         /\ \A s : Dropped(r, s) = DroppedBy(View(r), s)
         /\ \A s : Locks(r, s) = LockedBy(View(r), s)
         /\ \A s : Resolves(r, s) /\ ~InUse(r, s) <=> Possible(View(r), s)
         /\ NothingToLeave(r) <=> command[r] = Down /\ found[r] = 0
  <1>1. Plan(r) = PlanOf(command[r], found[r])
    BY Zenon DEF Plan, PlanOf, Up
  <1>2. Statement(r) = StatementAt(PlanOf(command[r], found[r]), step[r])
    BY <1>1 DEF Statement, StatementAt
  <1>3. View(r) = Seen(catalog, added[r], removed[r])
    BY DEF View, Seen
  <1>4. \A s : Dropped(r, s) = DroppedBy(View(r), s)
    BY DEF Dropped, DroppedBy
  <1>5. \A s : Locks(r, s) = LockedBy(View(r), s)
    BY <1>4 DEF Locks, LockedBy
  <1>6. \A s : Resolves(r, s) /\ ~InUse(r, s) <=> Possible(View(r), s)
    BY <1>4 DEF Resolves, InUse, Possible
  <1>7. NothingToLeave(r) <=> command[r] = Down /\ found[r] = 0
    BY Zenon DEF NothingToLeave, Down
  <1>8. QED
    BY <1>1, <1>2, <1>3, <1>4, <1>5, <1>6, <1>7

-----------------------------------------------------------------------------
(* The kinds of steps.                                                     *)

Begins(r) ==
  /\ pc[r] \in {"start", "ensure_table"}
  /\ \/ pc' = [pc EXCEPT ![r] = "run"]
     \/ pc' = [pc EXCEPT ![r] = "ensure_table"] /\ step' = step
  /\ \E v \in 0..2 : found' = [found EXCEPT ![r] = v]
  /\ step'[r] \in {0, 1} /\ DOMAIN step' = DOMAIN step
  /\ \A q \in Runs \ {r} : step'[q] = step[q]
  /\ UNCHANGED <<catalog, command, added, removed, held, overtaken, faults>>

Advances(r) ==
  LET s == Statement(r) IN
  /\ pc[r] = "run" /\ step[r] <= Len(Plan(r))
  /\ Possible(View(r), s) /\ ~Waits(r, s)
  /\ step' = [step EXCEPT ![r] = @ + 1]
  /\ added' = [added EXCEPT ![r] = (@ \ Dropped(r, s)) \cup s.adds]
  /\ removed' = [removed EXCEPT ![r] = @ \cup (Dropped(r, s) \cap catalog)]
  /\ held' = [held EXCEPT ![r] = @ \cup Locks(r, s)]
  /\ UNCHANGED <<catalog, command, pc, found, overtaken, faults>>

Ends(r) ==
  /\ \E outcome \in Ended : End(r, outcome)
  /\ faults' = faults \/ (faults < MaxFaults /\ faults' = faults + 1)
  /\ UNCHANGED <<command, found, step>>

Quits(r) == Ends(r) /\ UNCHANGED <<catalog, overtaken>>

Publishes(r) ==
  /\ Ends(r)
  /\ pc[r] = "run" /\ step[r] > Len(Plan(r)) /\ ~NothingToLeave(r)
  /\ Visible(r)

LEMMA StepKinds ==
  ASSUME Inv, [Next]_vars
  PROVE  \/ \E r \in Runs : Begins(r) \/ Advances(r) \/ Quits(r) \/ Publishes(r)
         \/ UNCHANGED vars
  <1>1. ASSUME NEW r \in Runs, ReadVersion(r) PROVE Begins(r)
    <2>1. step[r] = 1 /\ step' = step /\ DOMAIN step = Runs
      BY <1>1 DEF ReadVersion, Inv, Idle, Ended
    <2>2. step'[r] \in {0, 1} /\ DOMAIN step' = DOMAIN step
      BY <2>1
    <2>3. Version(catalog) \in 0..2
      BY DEF Version
    <2>4. found' = [found EXCEPT ![r] = Version(catalog)]
      BY <1>1 DEF ReadVersion
    <2>5. \E v \in 0..2 : found' = [found EXCEPT ![r] = v]
      BY <2>3, <2>4
    <2>6. \A q \in Runs \ {r} : step'[q] = step[q]
      BY <2>1
    <2>7. /\ pc[r] \in {"start", "ensure_table"}
          /\ UNCHANGED <<catalog, command, added, removed, held, overtaken, faults>>
      BY <1>1 DEF ReadVersion
    <2>8. \/ pc' = [pc EXCEPT ![r] = "run"]
          \/ pc' = [pc EXCEPT ![r] = "ensure_table"]
      <3>1. CASE Version(catalog) = 0
        BY <1>1, <3>1 DEF ReadVersion
      <3>2. CASE Version(catalog) # 0
        BY <1>1, <3>2 DEF ReadVersion
      <3>3. QED
        BY <3>1, <3>2
    <2>9. QED
      BY Zenon, <2>1, <2>2, <2>5, <2>6, <2>7, <2>8 DEF Begins
  <1>2. ASSUME NEW r \in Runs, EnsureVersionTable(r) PROVE Begins(r)
    <2>1. found[r] \in 0..2 /\ found' = [found EXCEPT ![r] = found[r]]
      BY <1>2 DEF EnsureVersionTable, Inv, TypeOK
    <2>2. DOMAIN step = Runs
      BY DEF Inv
    <2>3. QED
      BY <1>2, <2>1, <2>2 DEF EnsureVersionTable, Begins
  <1>3. ASSUME NEW r \in Runs, Execute(r) PROVE Advances(r) \/ Quits(r)
    <2>1. CASE End(r, "failed") /\ UNCHANGED step
      BY <1>3, <2>1 DEF Execute, Quits, Ends, Ended
    <2>2. CASE ~(End(r, "failed") /\ UNCHANGED step)
      <3>1. Resolves(r, Statement(r)) /\ ~InUse(r, Statement(r))
        BY <1>3, <2>2 DEF Execute
      <3>2. Possible(View(r), Statement(r))
        BY <3>1, InTermsOfPlans
      <3>3. QED
        BY <1>3, <2>2, <3>2 DEF Execute, Advances
    <2>3. QED
      BY <2>1, <2>2
  <1>4. ASSUME NEW r \in Runs, Finish(r) PROVE Quits(r) \/ Publishes(r)
    BY <1>4 DEF Finish, Quits, Publishes, Ends, Ended
  <1>5. ASSUME NEW r \in Runs, Die(r) PROVE Quits(r) \/ Publishes(r)
    BY <1>5 DEF Die, Quits, Publishes, Ends, Ended
  <1>6. QED
    BY <1>1, <1>2, <1>3, <1>4, <1>5 DEF Next, Run, AllEnded

-----------------------------------------------------------------------------
(* The steps keep the invariant.                                           *)

(* A step of one run leaves the others their own state.                    *)
Frame(r) ==
  /\ command' = command
  /\ \A q \in Runs \ {r} :
       /\ pc'[q] = pc[q] /\ found'[q] = found[q] /\ step'[q] = step[q]
       /\ added'[q] = added[q] /\ removed'[q] = removed[q] /\ held'[q] = held[q]
  /\ DOMAIN step' = Runs /\ DOMAIN added' = Runs /\ DOMAIN removed' = Runs /\ DOMAIN held' = Runs

LEMMA FrameKept ==
  ASSUME Inv, NEW r \in Runs, Begins(r) \/ Advances(r) \/ Ends(r)
  PROVE  Frame(r)
  <1>1. /\ DOMAIN pc = Runs /\ DOMAIN found = Runs /\ DOMAIN step = Runs
        /\ DOMAIN added = Runs /\ DOMAIN removed = Runs /\ DOMAIN held = Runs
    BY DEF Inv, TypeOK
  <1>2. CASE Begins(r)
    BY <1>1, <1>2 DEF Begins, Frame
  <1>3. CASE Advances(r)
    BY <1>1, <1>3 DEF Advances, Frame
  <1>4. CASE Ends(r)
    BY <1>1, <1>4 DEF Ends, End, Frame
  <1>5. QED
    BY <1>2, <1>3, <1>4

LEMMA OthersKept ==
  ASSUME Inv, NEW r \in Runs, Frame(r), UNCHANGED catalog, NEW q \in Runs \ {r}
  PROVE  IF pc'[q] = "run" THEN Working(q)' ELSE Idle(q)'
  BY DEF Inv, Frame, Working, Idle

(* What an ending run leaves behind.                                       *)
LEMMA Leaves ==
  ASSUME Inv, NEW r \in Runs, Ends(r)
  PROVE  /\ pc'[r] \in Ended /\ pc'[r] # "run" /\ Idle(r)'
         /\ pc' \in [Runs -> {"start", "ensure_table", "run"} \cup Ended]
         /\ held'[r] = {} /\ removed'[r] = {}
  <1>1. PICK outcome \in Ended : End(r, outcome)
    BY DEF Ends
  <1>2. /\ pc \in [Runs -> {"start", "ensure_table", "run"} \cup Ended]
        /\ DOMAIN added = Runs /\ DOMAIN removed = Runs /\ DOMAIN held = Runs
    BY DEF Inv, TypeOK
  <1>3. outcome # "run"
    BY DEF Ended
  <1>4. pc'[r] = outcome /\ added'[r] = {} /\ removed'[r] = {} /\ held'[r] = {}
    BY <1>1, <1>2 DEF End
  <1>5. pc' \in [Runs -> {"start", "ensure_table", "run"} \cup Ended]
    BY <1>1, <1>2 DEF End
  <1>6. QED
    BY <1>3, <1>4, <1>5 DEF Idle

LEMMA PlanLength ==
  ASSUME NEW c \in Commands, NEW v \in 0..2
  PROVE  Len(PlanOf(c, v)) \in Nat
  <1>1. PlanOf(c, v) \in Seq(StatementType)
    BY Plans
  <1>2. QED
    BY <1>1

LEMMA BeginsInRange ==
  ASSUME Inv, NEW r \in Runs, Frame(r), step'[r] \in {0, 1}, found'[r] \in 0..2
  PROVE  \A q \in Runs : step'[q] \in 0..(Len(Plan(q)') + 1)
  <1> SUFFICES ASSUME NEW q \in Runs PROVE step'[q] \in 0..(Len(Plan(q)') + 1)
    OBVIOUS
  <1>1. CASE q = r
    <2>1. PICK c \in Commands, v \in 0..2 : c = command[r] /\ v = found'[r]
      BY DEF Inv, TypeOK
    <2>2. Plan(q)' = PlanOf(c, v)
      BY Zenon, <1>1, <2>1 DEF Plan, PlanOf, Up, Frame
    <2>3. Len(PlanOf(c, v)) \in Nat
      BY PlanLength
    <2>4. QED
      BY <1>1, <2>2, <2>3
  <1>2. CASE q # r
    <2>1. Plan(q)' = Plan(q) /\ step'[q] = step[q]
      BY Zenon, <1>2 DEF Frame, Plan
    <2>2. QED
      BY <2>1 DEF Inv, TypeOK
  <1>3. QED
    BY <1>1, <1>2

LEMMA BeginsKeeps ==
  ASSUME Inv, NEW r \in Runs, Begins(r)
  PROVE  Inv'
  <1>1. Frame(r)
    BY FrameKept
  <1>2. PICK v \in 0..2 : found' = [found EXCEPT ![r] = v]
    BY DEF Begins
  <1>3. PICK k \in {0, 1} : step'[r] = k
    BY DEF Begins
  <1>4. /\ found \in [Runs -> 0..2] /\ DOMAIN step = Runs
        /\ pc \in [Runs -> {"start", "ensure_table", "run"} \cup Ended]
        /\ command \in [Runs -> Commands]
    BY DEF Inv, TypeOK
  <1>5. found'[r] = v /\ step'[r] = k /\ found' \in [Runs -> 0..2]
    BY <1>2, <1>3, <1>4
  <1>6. /\ pc' \in [Runs -> {"start", "ensure_table", "run"} \cup Ended]
        /\ pc'[r] = "run" \/ (pc'[r] = "ensure_table" /\ step' = step)
    BY <1>4 DEF Begins
  <1>7. /\ pc[r] # "run" /\ pc[r] \notin Ended
        /\ added[r] = {} /\ removed[r] = {} /\ held[r] = {} /\ step[r] = 1
    BY DEF Begins, Inv, Idle, Ended
  <1>8. UNCHANGED <<catalog, command, added, removed, held, overtaken, faults>>
    BY DEF Begins
  <1>9. \A q \in Runs : step'[q] \in 0..(Len(Plan(q)') + 1)
    BY <1>1, <1>5, BeginsInRange
  <1>10. \A q \in Runs : held'[q] # {} => pc'[q] = "run"
    BY <1>1, <1>7, <1>8 DEF Frame, Inv, TypeOK
  <1>11. TypeOK'
    BY <1>5, <1>6, <1>8, <1>9, <1>10 DEF Inv, TypeOK
  <1>12. IF pc'[r] = "run" THEN Working(r)' ELSE Idle(r)'
    <2>1. CASE pc'[r] = "run"
      <3>1. PICK c, objects : c \in Commands /\ c = command[r] /\ objects = catalog
        BY <1>4
      <3>2. Consistent(c, v, k, objects, {}, {}, {})
        BY <3>1, NothingDone
      <3>3. Working(r)'
        BY <1>5, <1>7, <1>8, <3>1, <3>2 DEF Working
      <3>4. QED
        BY <2>1, <3>3
    <2>2. CASE pc'[r] = "ensure_table" /\ step' = step
      BY <1>7, <1>8, <2>2 DEF Idle
    <2>3. QED
      BY <1>6, <2>1, <2>2
  <1>13. \A q \in Runs : IF pc'[q] = "run" THEN Working(q)' ELSE Idle(q)'
    BY <1>1, <1>8, <1>12, OthersKept
  <1>14. QED
    BY <1>1, <1>8, <1>11, <1>13 DEF Inv, Frame

LEMMA AdvancesKeeps ==
  ASSUME Inv, NEW r \in Runs, Advances(r)
  PROVE  Inv'
  <1>1. Frame(r)
    BY FrameKept
  <1>2. /\ found \in [Runs -> 0..2] /\ command \in [Runs -> Commands]
        /\ DOMAIN step = Runs /\ DOMAIN added = Runs /\ DOMAIN removed = Runs /\ DOMAIN held = Runs
        /\ step[r] \in 0..(Len(Plan(r)) + 1)
    BY DEF Inv, TypeOK
  <1>3. PICK c, v, k, objects, new, gone, locks :
          /\ c \in Commands /\ v \in 0..2
          /\ c = command[r] /\ v = found[r] /\ k = step[r] /\ objects = catalog
          /\ new = added[r] /\ gone = removed[r] /\ locks = held[r]
    BY <1>2
  <1> DEFINE p == PlanOf(c, v)
             s == StatementAt(p, k)
             seen == Seen(objects, new, gone)
             d == DroppedBy(seen, s)
  <1>4. Plan(r) = p /\ Statement(r) = s /\ View(r) = seen
    BY <1>3, InTermsOfPlans
  <1>5. Dropped(r, s) = d /\ Locks(r, s) = LockedBy(seen, s)
    BY <1>4, InTermsOfPlans
  <1>6. Len(p) \in Nat /\ k \in 0..Len(p)
    <2>1. Len(p) \in Nat
      BY <1>3, PlanLength
    <2>2. step[r] <= Len(Plan(r))
      BY DEF Advances
    <2> HIDE DEF p
    <2>3. QED
      BY <1>2, <1>3, <1>4, <2>1, <2>2
  <1>7. Possible(seen, s)
    BY <1>4 DEF Advances
  <1>8. PICK w \in 0..2 : Whole(objects, w)
    BY <1>3 DEF Inv
  <1>9. Consistent(c, v, k, objects, new, gone, locks)
    BY <1>3 DEF Advances, Inv, Working
  <1>10. Consistent(c, v, k + 1, objects, (new \ d) \cup s.adds, gone \cup (d \cap objects),
                    locks \cup LockedBy(seen, s))
    BY <1>3, <1>6, <1>7, <1>8, <1>9, Executed
  <1> HIDE DEF p, s, seen, d
  <1>11. /\ step'[r] = k + 1 /\ added'[r] = (new \ d) \cup s.adds
         /\ removed'[r] = gone \cup (d \cap objects) /\ held'[r] = locks \cup LockedBy(seen, s)
    BY <1>2, <1>3, <1>4, <1>5 DEF Advances
  <1>12. UNCHANGED <<catalog, command, pc, found, overtaken, faults>> /\ pc[r] = "run"
    BY DEF Advances
  <1>13. Working(r)'
    BY <1>3, <1>10, <1>11, <1>12 DEF Working
  <1>14. \A q \in Runs : IF pc'[q] = "run" THEN Working(q)' ELSE Idle(q)'
    BY <1>1, <1>12, <1>13, OthersKept
  <1>15. \A q \in Runs : step'[q] \in 0..(Len(Plan(q)') + 1)
    <2> SUFFICES ASSUME NEW q \in Runs PROVE step'[q] \in 0..(Len(Plan(q)') + 1)
      OBVIOUS
    <2>1. Plan(q)' = Plan(q)
      BY Zenon, <1>12 DEF Plan
    <2>2. CASE q = r
      BY <1>4, <1>6, <1>11, <2>1, <2>2
    <2>3. CASE q # r
      BY <1>1, <2>1, <2>3 DEF Frame, Inv, TypeOK
    <2>4. QED
      BY <2>2, <2>3
  <1>16. \A q \in Runs : removed'[q] \subseteq catalog' \/ q \in overtaken'
    BY <1>1, <1>3, <1>11, <1>12 DEF Frame, Inv, TypeOK
  <1>17. \A q, x \in Runs : q # x => held'[q] \cap held'[x] = {}
    <2>1. \A q \in Runs \ {r} : LockedBy(seen, s) \cap held[q] = {}
      BY <1>4, <1>5 DEF Advances, Waits
    <2>2. \A q, x \in Runs : q # x => held[q] \cap held[x] = {}
      BY DEF Inv, TypeOK
    <2>3. QED
      BY <1>1, <1>3, <1>11, <2>1, <2>2 DEF Frame
  <1>18. \A q \in Runs : held'[q] # {} => pc'[q] = "run"
    BY <1>1, <1>12 DEF Frame, Inv, TypeOK
  <1>19. TypeOK'
    BY <1>12, <1>15, <1>16, <1>17, <1>18 DEF Inv, TypeOK
  <1>20. QED
    BY <1>1, <1>12, <1>14, <1>19 DEF Inv, Frame

(* Types after a run has ended.                                            *)
LEMMA EndsTypes ==
  ASSUME Inv, NEW r \in Runs, Ends(r),
         \/ UNCHANGED <<catalog, overtaken>>
         \/ Visible(r)
  PROVE  TypeOK'
  <1>1. Frame(r)
    BY FrameKept
  <1>2. /\ pc' \in [Runs -> {"start", "ensure_table", "run"} \cup Ended]
        /\ held'[r] = {} /\ removed'[r] = {}
    BY Leaves
  <1>3. UNCHANGED <<command, found, step>>
    BY DEF Ends
  <1>4. faults' \in 0..MaxFaults
    BY MigrationsAssumption DEF Ends, Inv, TypeOK
  <1>5. \A q \in Runs : step'[q] \in 0..(Len(Plan(q)') + 1)
    <2> SUFFICES ASSUME NEW q \in Runs PROVE step'[q] \in 0..(Len(Plan(q)') + 1)
      OBVIOUS
    <2>1. Plan(q)' = Plan(q) /\ step'[q] = step[q]
      BY Zenon, <1>3 DEF Plan
    <2>2. QED
      BY <2>1 DEF Inv, TypeOK
  <1>6. \A q, x \in Runs : q # x => held'[q] \cap held'[x] = {}
    BY <1>1, <1>2 DEF Frame, Inv, TypeOK
  <1>7. /\ overtaken' \subseteq Runs
        /\ \A q \in Runs : removed'[q] \subseteq catalog' \/ q \in overtaken'
    <2>1. \A q \in Runs : removed[q] \subseteq catalog \/ q \in overtaken
      BY DEF Inv, TypeOK
    <2>2. \A q \in Runs : removed[q] # {} => pc[q] = "run"
      BY DEF Inv, Idle
    <2>3. overtaken \subseteq Runs
      BY DEF Inv, TypeOK
    <2>4. CASE UNCHANGED <<catalog, overtaken>>
      BY <1>1, <1>2, <2>1, <2>3, <2>4 DEF Frame
    <2>5. CASE Visible(r)
      BY <1>1, <1>2, <2>1, <2>2, <2>3, <2>5 DEF Frame, Visible
    <2>6. QED
      BY <2>4, <2>5
  <1>8. \A q \in Runs : held'[q] # {} => pc'[q] = "run"
    BY <1>1, <1>2 DEF Frame, Inv, TypeOK
  <1>9. QED
    BY <1>2, <1>3, <1>4, <1>5, <1>6, <1>7, <1>8 DEF Inv, TypeOK

LEMMA QuitsKeeps ==
  ASSUME Inv, NEW r \in Runs, Quits(r)
  PROVE  Inv'
  <1>1. Ends(r) /\ UNCHANGED <<catalog, overtaken>>
    BY DEF Quits
  <1>2. Frame(r)
    BY <1>1, FrameKept
  <1>3. TypeOK'
    BY <1>1, EndsTypes
  <1>4. pc'[r] # "run" /\ Idle(r)'
    BY <1>1, Leaves
  <1>5. \A q \in Runs : IF pc'[q] = "run" THEN Working(q)' ELSE Idle(q)'
    BY <1>1, <1>2, <1>4, OthersKept
  <1>6. QED
    BY <1>1, <1>2, <1>3, <1>5 DEF Inv, Frame

LEMMA PublishesKeeps ==
  ASSUME Inv, NEW r \in Runs, Publishes(r)
  PROVE  Inv'
  <1>1. Ends(r) /\ Visible(r) /\ pc[r] = "run" /\ step[r] > Len(Plan(r)) /\ ~NothingToLeave(r)
    BY DEF Publishes
  <1>2. Frame(r)
    BY <1>1, FrameKept
  <1>3. TypeOK'
    BY <1>1, EndsTypes
  <1>4. pc'[r] # "run" /\ Idle(r)'
    BY <1>1, Leaves
  <1>5. /\ found \in [Runs -> 0..2] /\ command \in [Runs -> Commands]
        /\ \A q \in Runs : step[q] \in 0..(Len(Plan(q)) + 1)
        /\ \A q, x \in Runs : q # x => held[q] \cap held[x] = {}
    BY DEF Inv, TypeOK
  <1>6. PICK c, v, k, objects, new, gone, locks :
          /\ c \in Commands /\ v \in 0..2
          /\ c = command[r] /\ v = found[r] /\ k = step[r] /\ objects = catalog
          /\ new = added[r] /\ gone = removed[r] /\ locks = held[r]
    BY <1>5
  <1>7. /\ k \in 0..(Len(PlanOf(c, v)) + 1) /\ k > Len(PlanOf(c, v))
        /\ View(r) = Seen(objects, new, gone) /\ ~(c = Down /\ v = 0)
    BY <1>1, <1>5, <1>6, InTermsOfPlans
  <1>8. PICK w \in 0..2 : Whole(objects, w)
    BY <1>6 DEF Inv
  <1>9. Consistent(c, v, k, objects, new, gone, locks)
    BY <1>1, <1>6 DEF Inv, Working
  <1>10. PICK u \in 0..2 :
           /\ Whole(Seen(objects, new, gone), u)
           /\ w = 1 /\ u = 2 => "transactions" \in locks
    BY <1>6, <1>7, <1>8, <1>9, Finished
  <1>11. PICK later : later = Seen(objects, new, gone)
    OBVIOUS
  <1>12. catalog' = later /\ Whole(later, u)
    BY <1>1, <1>7, <1>10, <1>11 DEF Visible
  <1>13. \A o \in new \cup gone : o[1] \in locks
    BY <1>9 DEF Consistent, Covered
  <1>14. \A o : o[1] \notin locks => (o \in later <=> o \in objects)
    BY <1>11, <1>13 DEF Seen
  <1>15. ASSUME NEW q \in Runs \ {r}, pc[q] = "run"
         PROVE  Working(q)'
    <2>1. PICK cq, vq, kq, newq, goneq, locksq :
            /\ cq \in Commands /\ vq \in 0..2
            /\ cq = command[q] /\ vq = found[q] /\ kq = step[q]
            /\ newq = added[q] /\ goneq = removed[q] /\ locksq = held[q]
      BY <1>5
    <2>2. kq \in 0..(Len(PlanOf(cq, vq)) + 1)
      BY <1>5, <2>1, InTermsOfPlans
    <2>3. Consistent(cq, vq, kq, objects, newq, goneq, locksq)
      BY <1>6, <1>15, <2>1 DEF Inv, Working
    <2>4. locks \cap locksq = {}
      BY <1>5, <1>6, <2>1
    <2>5. \A o : o[1] \in locksq => (o \in later <=> o \in objects)
      BY <1>14, <2>4
    <2>6. Whole(objects, 1) /\ u = 2 => "transactions" \notin locksq
      <3>1. Whole(objects, 1) => w = 1
        BY <1>8, OneVersion
      <3>2. QED
        BY <1>10, <2>4, <3>1
    <2>7. Consistent(cq, vq, kq, later, newq, goneq, locksq)
      BY <1>12, <2>1, <2>2, <2>3, <2>5, <2>6, Rival
    <2>8. QED
      BY <1>2, <1>12, <2>1, <2>7 DEF Frame, Working
  <1>16. ASSUME NEW q \in Runs \ {r}, pc[q] # "run"
         PROVE  Idle(q)'
    BY <1>2, <1>16 DEF Inv, Frame, Idle
  <1>17. \A q \in Runs : IF pc'[q] = "run" THEN Working(q)' ELSE Idle(q)'
    BY <1>2, <1>4, <1>15, <1>16 DEF Frame
  <1>18. QED
    BY <1>2, <1>3, <1>12, <1>17 DEF Inv, Frame

LEMMA InvInit == Init => Inv
  <1> SUFFICES ASSUME Init PROVE Inv
    OBVIOUS
  <1>1. \E v \in 0..2 : Whole(catalog, v)
    <2>1. CASE catalog = {}
      <3>1. TablesOf(catalog) = Schemas[0 + 1] /\ Records(catalog, 0)
        BY <2>1, SchemaUnion DEF TablesOf, Records
      <3>2. QED
        BY <3>1 DEF Whole
    <2>2. ASSUME NEW v \in 1..2,
                 catalog = Schemas[v + 1] \cup {Table("alembic_version"), VersionRow(v)}
          PROVE  \E w \in 0..2 : Whole(catalog, w)
      <3>1. \A o \in Schemas[v + 1] : o[1] # "alembic_version"
        <4>1. "risk_assessments" \in Tables /\ "alembic_version" \notin Tables
          BY DEF Tables
        <4>2. v + 1 = 2 \/ v + 1 = 3
          OBVIOUS
        <4>3. QED
          BY <4>1, <4>2, SchemaUnion, SchemaTables
      <3>2. TablesOf(catalog) = Schemas[v + 1]
        BY <2>2, <3>1, VersionRows, ObjectParts DEF TablesOf
      <3>3. Records(catalog, v)
        BY <2>2, <3>1, VersionRows DEF Records
      <3>4. QED
        BY <3>2, <3>3 DEF Whole
    <2>3. QED
      BY <2>1, <2>2 DEF Init
  <1>2. \A r \in Runs : pc[r] # "run" /\ Idle(r)
    BY DEF Init, Idle
  <1>3. /\ found \in [Runs -> 0..2]
        /\ pc \in [Runs -> {"start", "ensure_table", "run"} \cup Ended]
    BY DEF Init
  <1>4. \A r \in Runs : step[r] \in 0..(Len(Plan(r)) + 1)
    <2> SUFFICES ASSUME NEW r \in Runs PROVE step[r] \in 0..(Len(Plan(r)) + 1)
      OBVIOUS
    <2>1. PICK c \in Commands, v \in 0..2 : c = command[r] /\ v = found[r]
      BY DEF Init
    <2>2. Plan(r) = PlanOf(c, v) /\ step[r] = 1
      BY <2>1, InTermsOfPlans DEF Init
    <2>3. Len(PlanOf(c, v)) \in Nat
      BY PlanLength
    <2>4. QED
      BY <2>2, <2>3
  <1>5. TypeOK
    BY <1>3, <1>4, MigrationsAssumption DEF Init, TypeOK
  <1>6. QED
    BY <1>1, <1>2, <1>5 DEF Init, Inv

LEMMA InvStep == Inv /\ [Next]_vars => Inv'
  <1> SUFFICES ASSUME Inv, [Next]_vars PROVE Inv'
    OBVIOUS
  <1>1. CASE UNCHANGED vars
    <2>1. \A r \in Runs : /\ Working(r)' <=> Working(r)
                          /\ Idle(r)' <=> Idle(r)
                          /\ Plan(r)' = Plan(r)
      BY Zenon, <1>1 DEF vars, Working, Idle, Plan
    <2>2. TypeOK'
      BY <1>1, <2>1 DEF vars, Inv, TypeOK
    <2>3. QED
      BY <1>1, <2>1, <2>2 DEF vars, Inv
  <1>2. QED
    BY <1>1, StepKinds, BeginsKeeps, AdvancesKeeps, QuitsKeeps, PublishesKeeps

LEMMA InvHolds == Spec => []Inv
  BY InvInit, InvStep, PTL DEF Spec

-----------------------------------------------------------------------------
(* The types of the state, and that a table is locked by one run at a      *)
(* time, which has begun and not ended, and what a run has dropped is in   *)
(* the catalog until another one commits.                                  *)
THEOREM TypeCorrect == Spec => []TypeOK
  <1>1. Inv => TypeOK
    BY DEF Inv
  <1>2. QED
    BY <1>1, InvHolds, PTL

(* However many runs of `alembic upgrade head` and `alembic downgrade -1`  *)
(* overlap, fail or die between any two of their statements, the recorded  *)
(* version is that of the tables, keys and indexes that are there.         *)
THEOREM VersionTruthful == Spec => []VersionTellsSchema
  <1>1. Inv => VersionTellsSchema
    <2> SUFFICES ASSUME Inv PROVE VersionTellsSchema
      OBVIOUS
    <2>1. PICK v \in 0..2 : Whole(catalog, v)
      BY DEF Inv
    <2>2. Version(catalog) = v
      BY <2>1 DEF Whole, Records, Version
    <2>3. QED
      BY <2>1, <2>2 DEF Whole, TablesOf, VersionTellsSchema
  <1>2. QED
    BY <1>1, InvHolds, PTL

-----------------------------------------------------------------------------
(* A plan can be executed alone. A list of statements leads from one       *)
(* catalog to another if each statement is possible after those before it. *)

After(x, s) == (x \ DroppedBy(x, s)) \cup s.adds

Path(p, f) == \A i \in 1..Len(p) : Possible(f[i], p[i]) /\ f[i + 1] = After(f[i], p[i])

Leads(p, x, y) == \E f : f[1] = x /\ f[Len(p) + 1] = y /\ Path(p, f)

LEMMA OneAfterTheOther ==
  ASSUME NEW p \in Seq(StatementType), NEW q \in Seq(StatementType),
         NEW x, NEW y, NEW z, Leads(p, x, y), Leads(q, y, z)
  PROVE  Leads(p \o q, x, z)
  <1> DEFINE n == Len(p)
             m == Len(q)
             s == p \o q
  <1>1. n \in Nat /\ m \in Nat /\ Len(s) = n + m
    OBVIOUS
  <1>2. \A i \in 1..n : s[i] = p[i]
    OBVIOUS
  <1>3. \A i \in (n + 1)..(n + m) : s[i] = q[i - n]
    OBVIOUS
  <1>4. PICK f : f[1] = x /\ f[n + 1] = y /\ Path(p, f)
    BY DEF Leads
  <1>5. PICK g : g[1] = y /\ g[m + 1] = z /\ Path(q, g)
    BY DEF Leads
  <1> DEFINE h == [i \in 1..(n + m + 1) |-> IF i <= n + 1 THEN f[i] ELSE g[i - n]]
  <1> HIDE DEF s
  <1>6. h[1] = x
    BY <1>1, <1>4
  <1>7. \A i \in 1..(m + 1) : h[n + i] = g[i]
    <2> SUFFICES ASSUME NEW i \in 1..(m + 1) PROVE h[n + i] = g[i]
      OBVIOUS
    <2>1. CASE i = 1
      BY <1>1, <1>4, <1>5, <2>1
    <2>2. CASE i # 1
      <3>1. n + i \in 1..(n + m + 1) /\ ~(n + i <= n + 1) /\ n + i - n = i
        BY <1>1, <2>2
      <3>2. QED
        BY <3>1
    <2>3. QED
      BY <2>1, <2>2
  <1>8. \A i \in 1..(n + 1) : h[i] = f[i]
    BY <1>1
  <1> HIDE DEF h, n, m
  <1>9. h[n + m + 1] = z
    <2>1. m + 1 \in 1..(m + 1) /\ n + (m + 1) = n + m + 1
      BY <1>1
    <2>2. h[n + (m + 1)] = g[m + 1]
      BY <1>7, <2>1
    <2>3. QED
      BY <1>5, <2>1, <2>2
  <1>10. ASSUME NEW i \in 1..(n + m)
         PROVE  Possible(h[i], s[i]) /\ h[i + 1] = After(h[i], s[i])
    <2>1. CASE i <= n
      <3>1. i \in 1..n /\ i \in 1..(n + 1) /\ i + 1 \in 1..(n + 1)
        BY <1>1, <2>1
      <3>2. s[i] = p[i] /\ h[i] = f[i] /\ h[i + 1] = f[i + 1]
        BY <1>2, <1>8, <3>1
      <3>3. QED
        BY <1>4, <3>1, <3>2 DEF Path, n
    <2>2. CASE ~(i <= n)
      <3> DEFINE j == i - n
      <3>1. j \in 1..m /\ j \in 1..(m + 1) /\ j + 1 \in 1..(m + 1) /\ i \in (n + 1)..(n + m)
            /\ n + j = i /\ n + (j + 1) = i + 1
        BY <1>1, <2>2
      <3>2. s[i] = q[j]
        BY <1>3, <3>1
      <3> HIDE DEF j
      <3>3. h[i] = g[j] /\ h[i + 1] = g[j + 1]
        <4>1. h[n + j] = g[j] /\ h[n + (j + 1)] = g[j + 1]
          BY <1>7, <3>1
        <4>2. QED
          BY <3>1, <4>1
      <3>4. QED
        BY <1>5, <3>1, <3>2, <3>3 DEF Path, m
    <2>3. QED
      BY <2>1, <2>2
  <1>11. Path(s, h) /\ h[Len(s) + 1] = z
    BY <1>1, <1>9, <1>10 DEF Path
  <1>12. Leads(s, x, z)
    BY <1>6, <1>11 DEF Leads
  <1>13. QED
    BY <1>12 DEF s

LEMMA LeadsOne ==
  ASSUME NEW p \in Seq(StatementType), Len(p) = 1, NEW x, Possible(x, p[1])
  PROVE  Leads(p, x, After(x, p[1]))
  <1> DEFINE y == After(x, p[1])
             f == <<x, y>>
  <1>1. f[1] = x /\ f[2] = y
    OBVIOUS
  <1> HIDE DEF f
  <1>2. \A i \in 1..Len(p) : i = 1 /\ i + 1 = 2
    OBVIOUS
  <1>3. Path(p, f)
    BY <1>1, <1>2 DEF Path
  <1> HIDE DEF y
  <1>4. QED
    BY <1>1, <1>3 DEF Leads, y

(* The kinds of objects.                                                   *)
LEMMA Kinds ==
  ASSUME NEW t, NEW c
  PROVE  /\ \A u : Table(t) = Table(u) => t = u
         /\ \A u : Index(t, c) # Table(u) /\ Unique(t, c) # Table(u) /\ References(t, c) # Table(u)
         /\ ~IsReference(Table(t)) /\ ~IsReference(Unique(t, c)) /\ ~IsReference(Index(t, c))
         /\ ~IsReference(VersionRow(c))
         /\ \A d : Index(t, c) = Index(t, d) => c = d
         /\ \A d : Index(t, c) # Unique(t, d) /\ Index(t, c) # References(t, d)
         /\ \A u : VersionRow(c) # Table(u)
  <1>1. /\ \A u : Len(Table(u)) = 1 /\ Table(u)[1] = u
        /\ \A d : Len(Index(t, d)) = 3 /\ Index(t, d)[2] = "index" /\ Index(t, d)[3] = d
        /\ \A d : Len(Unique(t, d)) = 3 /\ Unique(t, d)[2] = "unique"
        /\ \A d : Len(References(t, d)) = 3 /\ References(t, d)[2] = "references"
        /\ Len(VersionRow(c)) = 3 /\ VersionRow(c)[2] = "row"
    BY DEF Table, Index, Unique, References, VersionRow
  <1>2. QED
    BY <1>1 DEF IsReference

LEMMA CreatingTable ==
  ASSUME NEW t \in Names, NEW uniques \in SUBSET Names, NEW others \in SUBSET Names,
         NEW x, \A o \in x : o[1] # t, \A u \in others : Table(u) \in x
  PROVE  Leads(CreateTable(t, uniques, others), x, x \cup WithKeys(t, uniques, others))
  <1> DEFINE p == CreateTable(t, uniques, others)
             objects == WithKeys(t, uniques, others)
             s == p[1]
  <1>1. p \in Seq(StatementType) /\ Len(p) = 1 /\ s = [adds |-> objects, removes |-> {}]
    BY CreateTableType
  <1>2. \A o \in objects : o[1] = t /\ (IsReference(o) => Table(o[3]) \in x)
    <2>1. \A o \in objects : \/ o = Table(t)
                             \/ \E c \in uniques : o = Unique(t, c)
                             \/ \E u \in others : o = References(t, u)
      BY DEF WithKeys
    <2> HIDE DEF objects
    <2>2. QED
      BY <2>1, Kinds, ObjectParts
  <1> HIDE DEF p, objects
  <1>3. s.adds = objects /\ s.removes = {}
    BY <1>1
  <1> HIDE DEF s
  <1>4. Possible(x, s) /\ After(x, s) = x \cup objects
    BY <1>2, <1>3 DEF Possible, After, DroppedBy
  <1>5. QED
    BY <1>1, <1>4, LeadsOne DEF p, objects, s

Distinct(columns) ==
  \A i, j \in 1..Len(columns) : i # j => columns[i] # columns[j]

LEMMA CreatingIndexes ==
  ASSUME NEW t \in Names, NEW columns \in Seq(Names), Distinct(columns),
         NEW x, \A i \in 1..Len(columns) : Index(t, columns[i]) \notin x
  PROVE  Leads(CreateIndexes(t, columns), x, x \cup {Index(t, columns[i]) : i \in 1..Len(columns)})
  <1> DEFINE p == CreateIndexes(t, columns)
             n == Len(columns)
             f == [i \in 1..(n + 1) |-> x \cup {Index(t, columns[j]) : j \in 1..(i - 1)}]
  <1>1. n \in Nat /\ Len(p) = n /\ DOMAIN columns = 1..n
    BY CreateIndexesType
  <1>2. \A i \in 1..n : p[i].adds = {Index(t, columns[i])} /\ p[i].removes = {}
    BY <1>1 DEF CreateIndexes
  <1> HIDE DEF p
  <1>3. f[1] = x
    <2>1. 1 \in 1..(n + 1) /\ 1..(1 - 1) = {}
      BY <1>1
    <2>2. QED
      BY <2>1
  <1>4. f[n + 1] = x \cup {Index(t, columns[i]) : i \in 1..n}
    <2>1. n + 1 \in 1..(n + 1) /\ n + 1 - 1 = n
      BY <1>1
    <2>2. QED
      BY <2>1
  <1>5. \A i \in 1..(n + 1) : \A o :
          o \in f[i] <=> o \in x \/ \E j \in 1..(i - 1) : o = Index(t, columns[j])
    OBVIOUS
  <1> HIDE DEF f, n
  <1>6. ASSUME NEW i \in 1..n
        PROVE  Possible(f[i], p[i]) /\ f[i + 1] = After(f[i], p[i])
    <2>1. /\ i \in 1..(n + 1) /\ i + 1 \in 1..(n + 1)
          /\ \A j : j \in 1..(i + 1 - 1) <=> j \in 1..(i - 1) \/ j = i
          /\ \A j \in 1..(i - 1) : j \in 1..n /\ j # i
      BY <1>1
    <2>2. Index(t, columns[i]) \notin f[i]
      <3>1. \A j \in 1..(i - 1) : columns[i] # columns[j]
        BY <2>1 DEF Distinct, n
      <3>2. \A j \in 1..(i - 1) : Index(t, columns[i]) # Index(t, columns[j])
        BY <3>1, Kinds
      <3>3. QED
        BY <1>5, <2>1, <3>2 DEF n
    <2>3. ~IsReference(Index(t, columns[i]))
      BY Kinds
    <2>4. Possible(f[i], p[i])
      BY <1>2, <2>2, <2>3 DEF Possible
    <2>5. After(f[i], p[i]) = f[i] \cup {Index(t, columns[i])}
      BY <1>2 DEF After, DroppedBy
    <2>6. \A o : o \in f[i + 1] <=> o \in f[i] \/ o = Index(t, columns[i])
      BY <1>5, <2>1
    <2>7. f[i + 1] = f[i] \cup {Index(t, columns[i])}
      <3> DEFINE g == f[i + 1]
                 e == f[i]
      <3>1. g \subseteq e \cup {Index(t, columns[i])} /\ e \cup {Index(t, columns[i])} \subseteq g
        BY <2>6
      <3>2. QED
        BY <1>5, <3>1, <2>5
    <2>8. QED
      BY <2>4, <2>5, <2>7
  <1>7. QED
    BY <1>1, <1>3, <1>4, <1>6 DEF Leads, Path, p, n

LEMMA DropStatements ==
  ASSUME NEW t \in Names, NEW columns \in Seq(Names)
  PROVE  LET p == DropTable(t, columns)
             n == Len(columns)
         IN  /\ Len(p) = n + 1
             /\ \A i \in 1..n : p[i].adds = {} /\ p[i].removes = {Index(t, columns[i])}
             /\ p[n + 1].adds = {} /\ p[n + 1].removes = {Table(t)}
  <1> DEFINE n == Len(columns)
             a == [i \in DOMAIN columns |-> [adds |-> {}, removes |-> {Index(t, columns[i])}]]
             s == [adds |-> {}, removes |-> {Table(t)}]
             p == a \o <<s>>
  <1>1. n \in Nat /\ DOMAIN columns = 1..n /\ \A i \in 1..n : columns[i] \in Names
    OBVIOUS
  <1>2. Table(t) \in Objects /\ \A i \in 1..n : Index(t, columns[i]) \in Objects
    <2>1. 1 \in {1, 2}
      OBVIOUS
    <2>2. QED
      BY <1>1, <2>1, ObjectsType
  <1>3. a \in [1..n -> StatementType] /\ s \in StatementType
    <2>1. s \in StatementType
      BY <1>2 DEF StatementType
    <2>2. \A i \in 1..n : [adds |-> {}, removes |-> {Index(t, columns[i])}] \in StatementType
      BY <1>2 DEF StatementType
    <2>3. QED
      BY <1>1, <2>1, <2>2
  <1>4. \A i \in 1..n : a[i].adds = {} /\ a[i].removes = {Index(t, columns[i])}
    BY <1>1
  <1>5. s.adds = {} /\ s.removes = {Table(t)} /\ DropTable(t, columns) = p
    BY DEF DropTable
  <1> HIDE DEF a, s, n
  <1>6. a \in Seq(StatementType) /\ Len(a) = n
    BY <1>1, <1>3
  <1>7. Len(p) = n + 1 /\ p[n + 1] = s /\ \A i \in 1..n : p[i] = a[i]
    BY <1>1, <1>3, <1>6
  <1> HIDE DEF p
  <1>8. QED
    BY <1>4, <1>5, <1>7 DEF n

(* A table is dropped, unless another one refers to it.                    *)
Without(x, t) == {o \in x : o[1] # t}

LEMMA DroppingTable ==
  ASSUME NEW t \in Names, NEW columns \in Seq(Names), Distinct(columns),
         NEW x, Table(t) \in x, \A i \in 1..Len(columns) : Index(t, columns[i]) \in x,
         \A o \in Without(x, t) : IsReference(o) => o[3] # t
  PROVE  Leads(DropTable(t, columns), x, Without(x, t))
  <1> DEFINE p == DropTable(t, columns)
             n == Len(columns)
             f == [i \in 1..(n + 2) |->
                     IF i = n + 2 THEN Without(x, t)
                     ELSE x \ {Index(t, columns[j]) : j \in 1..(i - 1)}]
  <1>1. /\ Len(p) = n + 1
        /\ \A i \in 1..n : p[i].adds = {} /\ p[i].removes = {Index(t, columns[i])}
        /\ p[n + 1].adds = {} /\ p[n + 1].removes = {Table(t)}
    BY DropStatements
  <1>2. n \in Nat
    OBVIOUS
  <1> HIDE DEF p
  <1>3. f[1] = x
    <2>1. 1 \in 1..(n + 2) /\ 1..(1 - 1) = {} /\ 1 # n + 2
      BY <1>2
    <2>2. QED
      BY <2>1
  <1>4. f[n + 2] = Without(x, t)
    <2>1. n + 2 \in 1..(n + 2)
      BY <1>2
    <2>2. QED
      BY <2>1
  <1>5. \A i \in 1..(n + 1) : \A o :
          o \in f[i] <=> o \in x /\ \A j \in 1..(i - 1) : o # Index(t, columns[j])
    <2>1. \A i \in 1..(n + 1) : i # n + 2 /\ i \in 1..(n + 2)
      BY <1>2
    <2> HIDE DEF n
    <2>2. QED
      BY <2>1
  <1>6. \A i \in 1..(n + 1) : f[i] = x \ {Index(t, columns[j]) : j \in 1..(i - 1)}
    <2>1. \A i \in 1..(n + 1) : i # n + 2 /\ i \in 1..(n + 2)
      BY <1>2
    <2> HIDE DEF n
    <2>2. QED
      BY <2>1
  <1> HIDE DEF f, n
  <1>7. ASSUME NEW i \in 1..n
        PROVE  Possible(f[i], p[i]) /\ f[i + 1] = After(f[i], p[i])
    <2> DEFINE ix == Index(t, columns[i])
    <2>1. /\ i \in 1..(n + 1) /\ i + 1 \in 1..(n + 1)
          /\ \A j : j \in 1..(i + 1 - 1) <=> j \in 1..(i - 1) \/ j = i
          /\ \A j \in 1..(i - 1) : j \in 1..n /\ j # i
      BY <1>2
    <2>2. ix \in f[i]
      <3>1. \A j \in 1..(i - 1) : columns[i] # columns[j]
        BY <2>1 DEF Distinct, n
      <3>2. \A j \in 1..(i - 1) : ix # Index(t, columns[j])
        BY <3>1, Kinds
      <3>3. QED
        BY <1>5, <2>1, <3>2 DEF n
    <2>3. \A u : ix # Table(u)
      BY Kinds
    <2>4. p[i].adds = {} /\ p[i].removes = {ix}
      BY <1>1
    <2> HIDE DEF ix
    <2>5. Possible(f[i], p[i])
      BY <2>2, <2>3, <2>4 DEF Possible
    <2>6. After(f[i], p[i]) = f[i] \ {ix}
      BY <2>3, <2>4 DEF After, DroppedBy
    <2>7. \A o : o \in f[i + 1] <=> o \in f[i] /\ o # ix
      BY <1>5, <2>1 DEF ix
    <2>8. f[i + 1] = f[i] \ {ix}
      <3> DEFINE g == f[i + 1]
                 e == f[i]
      <3>1. g \subseteq e \ {ix} /\ e \ {ix} \subseteq g
        BY <2>7
      <3>2. QED
        BY <1>6, <2>1, <3>1
    <2>9. QED
      BY <2>5, <2>6, <2>8
  <1>8. Possible(f[n + 1], p[n + 1]) /\ f[n + 2] = After(f[n + 1], p[n + 1])
    <2> DEFINE y == f[n + 1]
               s == p[n + 1]
    <2>1. n + 1 \in 1..(n + 1)
      BY <1>2
    <2>2. y \subseteq x /\ \A o \in x : o[1] # t => o \in y
      <3>1. \A j : Index(t, columns[j])[1] = t
        BY ObjectParts
      <3>2. QED
        BY <1>5, <2>1, <3>1
    <2>3. Table(t) \in y
      <3>1. \A j : Index(t, columns[j]) # Table(t)
        BY Kinds
      <3>2. QED
        BY <1>5, <2>1, <3>1
    <2>4. s.adds = {} /\ s.removes = {Table(t)}
      BY <1>1
    <2> HIDE DEF y, s
    <2>5. \A o \in y : o \in DroppedBy(y, s) <=> o[1] = t
      <3>1. \A o : Table(o[1]) = Table(t) <=> o[1] = t
        BY Kinds
      <3>2. Table(t)[1] = t
        BY ObjectParts
      <3>3. QED
        BY <2>4, <3>1, <3>2 DEF DroppedBy
    <2>6. After(y, s) = Without(x, t)
      BY <2>2, <2>4, <2>5 DEF After, Without
    <2>7. \A o \in y \ DroppedBy(y, s) : IsReference(o) => Table(o[3]) # Table(t)
      <3> SUFFICES ASSUME NEW o \in y, o[1] # t, IsReference(o) PROVE Table(o[3]) # Table(t)
        BY <2>5
      <3>1. o[3] # t
        BY <2>2 DEF Without
      <3>2. QED
        BY <3>1, Kinds
    <2>8. Possible(y, s)
      BY <2>3, <2>4, <2>7 DEF Possible
    <2>9. QED
      BY <1>4, <2>6, <2>8 DEF y, s
  <1>9. \A i \in 1..(n + 1) : i \in 1..n \/ i = n + 1
    BY <1>2
  <1>10. n + 1 + 1 = n + 2
    BY <1>2
  <1>11. Path(p, f)
    BY <1>1, <1>7, <1>8, <1>9, <1>10 DEF Path
  <1>12. QED
    BY <1>1, <1>3, <1>4, <1>10, <1>11 DEF Leads, p, n

(* Alembic's own table refers to no other.                                 *)
Clean(objects) == \A o \in objects : o[1] = "alembic_version" => ~IsReference(o)

(* The version changes.                                                    *)
LEMMA SettingVersion ==
  ASSUME NEW old \in 0..2, NEW new \in 0..2, old # new, NEW x, Records(x, old), Clean(x)
  PROVE  \E y : /\ Leads(SetVersion(old, new), x, y)
                /\ TablesOf(y) = TablesOf(x) /\ Records(y, new) /\ Clean(y)
  <1> DEFINE p == SetVersion(old, new)
             s == p[1]
             y == After(x, s)
  <1>1. /\ p \in Seq(StatementType) /\ Len(p) = 1
        /\ s.adds = (IF new = 0 THEN {} ELSE {VersionRow(new)})
        /\ s.removes = (IF old = 0 THEN {} ELSE {VersionRow(old)})
    BY SetVersionType
  <1> HIDE DEF p
  <1>2. \A v \in {1, 2} : ~IsReference(VersionRow(v))
                          /\ VersionRow(v)[1] = "alembic_version" /\ \A t : Table(t) # VersionRow(v)
    BY Kinds, VersionRows
  <1>3. /\ new # 0 => new \in {1, 2}
        /\ old # 0 => old \in {1, 2}
    OBVIOUS
  <1> HIDE DEF s
  <1>4. /\ \A o \in s.adds : o = VersionRow(new) /\ new \in {1, 2}
        /\ \A o \in s.removes : o = VersionRow(old) /\ old \in {1, 2}
    BY <1>1, <1>3
  <1>5. \A v : Records(x, v) => \A w \in {1, 2} : VersionRow(w) \in x <=> w = v
    BY DEF Records
  <1>6. Possible(x, s)
    <2>1. s.adds \cap x = {}
      BY <1>4, <1>5
    <2>2. s.removes \subseteq x
      BY <1>4, <1>5
    <2>3. \A o \in s.adds : ~IsReference(o)
      BY <1>2, <1>4
    <2>4. \A t : Table(t) \notin s.removes
      BY <1>2, <1>4
    <2>5. QED
      BY <2>1, <2>2, <2>3, <2>4 DEF Possible
  <1>7. \A o : o \in y <=> (o \in x /\ o \notin s.removes) \/ o \in s.adds
    <2>1. \A t : Table(t) \notin s.removes
      BY <1>2, <1>4
    <2>2. QED
      BY <2>1 DEF After, DroppedBy
  <1>8. Leads(p, x, y)
    BY <1>1, <1>6, LeadsOne DEF s
  <1> HIDE DEF y
  <1>9. TablesOf(y) = TablesOf(x)
    BY <1>2, <1>4, <1>7 DEF TablesOf
  <1>10. Records(y, new)
    <2> SUFFICES ASSUME NEW w \in {1, 2} PROVE VersionRow(w) \in y <=> w = new
      BY DEF Records
    <2>1. \A v \in {1, 2} : VersionRow(v) = VersionRow(w) <=> v = w
      BY VersionRows
    <2>2. w = new => VersionRow(w) \in s.adds
      BY <1>1
    <2>3. VersionRow(w) \in s.adds => w = new
      BY <1>4, <2>1
    <2>4. VersionRow(w) \in x <=> w = old
      BY DEF Records
    <2>5. w = old => VersionRow(w) \in s.removes
      BY <1>1
    <2>6. QED
      BY <1>7, <2>2, <2>3, <2>4, <2>5
  <1>11. Clean(y)
    BY <1>2, <1>4, <1>7 DEF Clean
  <1>12. QED
    BY <1>8, <1>9, <1>10, <1>11 DEF p

(* What a catalog holds: the tables of a set with all that belongs to them,*)
(* and the row of a version.                                               *)
Holds(objects, tables, v) ==
  /\ TablesOf(objects) = UNION {SchemaObjects(t) : t \in tables}
  /\ Records(objects, v)
  /\ Clean(objects)

(* Statements that can be executed wherever some tables and a version are, *)
(* and that lead to others.                                                *)
Transforms(p, tables, v, others, w) ==
  /\ p \in Seq(StatementType)
  /\ \A x : Holds(x, tables, v) => \E y : Leads(p, x, y) /\ Holds(y, others, w)

LEMMA TransformsThrough ==
  ASSUME NEW p, NEW q, NEW a, NEW b, NEW c, NEW u, NEW v, NEW w,
         Transforms(p, a, u, b, v), Transforms(q, b, v, c, w)
  PROVE  Transforms(p \o q, a, u, c, w)
  <1>1. p \in Seq(StatementType) /\ q \in Seq(StatementType)
    BY DEF Transforms
  <1>2. p \o q \in Seq(StatementType)
    BY <1>1, Concatenation
  <1>3. ASSUME NEW x, Holds(x, a, u)
        PROVE  \E z : Leads(p \o q, x, z) /\ Holds(z, c, w)
    <2>1. PICK y : Leads(p, x, y) /\ Holds(y, b, v)
      BY <1>3 DEF Transforms
    <2>2. PICK z : Leads(q, y, z) /\ Holds(z, c, w)
      BY <2>1 DEF Transforms
    <2>3. Leads(p \o q, x, z)
      BY <1>1, <2>1, <2>2, OneAfterTheOther
    <2>4. QED
      BY <2>2, <2>3
  <1>4. QED
    BY <1>2, <1>3 DEF Transforms

LEMMA HeldObjects ==
  ASSUME NEW x, NEW tables \in SUBSET Tables, NEW v, Holds(x, tables, v)
  PROVE  /\ \A o \in x : o[1] = "alembic_version" \/ \E t \in tables : o \in SchemaObjects(t) /\ o[1] = t
         /\ \A t \in tables : \A o \in SchemaObjects(t) : o \in x /\ o[1] = t
         /\ "alembic_version" \notin Tables
  <1>1. "alembic_version" \notin Tables
    BY DEF Tables
  <1>2. \A t \in Tables : \A o \in SchemaObjects(t) : o[1] = t
    BY SchemaTables
  <1>3. QED
    BY <1>1, <1>2 DEF Holds, TablesOf

LEMMA CreatingBoth ==
  ASSUME NEW t \in Tables, NEW tables \in SUBSET (Tables \ {t}), NEW v,
         NEW uniques \in SUBSET Names, NEW others \in SUBSET tables,
         NEW columns \in Seq(Names), Distinct(columns),
         Creates(t, CreateTable(t, uniques, others), CreateIndexes(t, columns)),
         NEW x, Holds(x, tables, v)
  PROVE  \E y, z : /\ Leads(CreateTable(t, uniques, others), x, y)
                   /\ Leads(CreateIndexes(t, columns), y, z)
                   /\ Holds(z, tables \cup {t}, v)
  <1> DEFINE K == WithKeys(t, uniques, others)
             I == {Index(t, columns[i]) : i \in 1..Len(columns)}
             y == x \cup K
             z == y \cup I
  <1>1. t \in Names /\ others \in SUBSET Names /\ t # "alembic_version"
    BY DEF Names, Tables
  <1>2. K \cup I = SchemaObjects(t)
    <2>1. Adds(CreateTable(t, uniques, others)) = K
      BY <1>1, CreateTableType
    <2>2. Adds(CreateIndexes(t, columns)) = I
      BY <1>1, CreateIndexesType
    <2>3. QED
      BY <2>1, <2>2 DEF Creates
  <1>3. (\A o \in x : o[1] # t) /\ \A u \in others : Table(u) \in x
    <2>1. tables \in SUBSET Tables
      OBVIOUS
    <2>2. \A u \in Tables : Table(u) \in SchemaObjects(u)
      BY SchemaTables
    <2>3. QED
      BY <1>1, <2>1, <2>2, HeldObjects
  <1>4. Leads(CreateTable(t, uniques, others), x, y)
    BY <1>1, <1>3, CreatingTable
  <1>5. \A i \in 1..Len(columns) : Index(t, columns[i]) \notin y
    <2> SUFFICES ASSUME NEW c PROVE Index(t, c) \notin y
      OBVIOUS
    <2>1. Index(t, c) \notin x
      BY <1>3, ObjectParts
    <2>2. /\ Index(t, c) # Table(t)
          /\ \A d : Index(t, c) # Unique(t, d) /\ Index(t, c) # References(t, d)
      BY Kinds
    <2>3. QED
      BY <2>1, <2>2 DEF WithKeys
  <1>6. Leads(CreateIndexes(t, columns), y, z)
    BY <1>1, <1>5, CreatingIndexes
  <1>7. z = x \cup SchemaObjects(t)
    BY <1>2
  <1> HIDE DEF y, z, K, I
  <1>8. \A o \in SchemaObjects(t) : o[1] = t
    BY SchemaTables
  <1>9. TablesOf(z) = UNION {SchemaObjects(u) : u \in tables \cup {t}}
    BY <1>1, <1>7, <1>8 DEF TablesOf, Holds
  <1>10. Records(z, v)
    <2>1. \A w \in {1, 2} : VersionRow(w) \notin SchemaObjects(t)
      BY <1>1, <1>8, VersionRows
    <2>2. QED
      BY <1>7, <2>1 DEF Records, Holds
  <1>11. Clean(z)
    BY <1>1, <1>7, <1>8 DEF Clean, Holds
  <1>12. QED
    BY <1>4, <1>6, <1>9, <1>10, <1>11 DEF Holds

LEMMA CreatingFirst ==
  ASSUME NEW t \in Tables, NEW tables \in SUBSET (Tables \ {t}), NEW v,
         NEW uniques \in SUBSET Names, NEW others \in SUBSET tables,
         NEW columns \in Seq(Names), Distinct(columns),
         Creates(t, CreateTable(t, uniques, others), CreateIndexes(t, columns))
  PROVE  Transforms(CreateTable(t, uniques, others) \o CreateIndexes(t, columns),
                    tables, v, tables \cup {t}, v)
  <1> DEFINE p == CreateTable(t, uniques, others)
             i == CreateIndexes(t, columns)
  <1>1. p \in Seq(StatementType) /\ i \in Seq(StatementType) /\ p \o i \in Seq(StatementType)
    BY Concatenation DEF Creates
  <1>2. ASSUME NEW x, Holds(x, tables, v)
        PROVE  \E z : Leads(p \o i, x, z) /\ Holds(z, tables \cup {t}, v)
    <2>1. PICK y, z : Leads(p, x, y) /\ Leads(i, y, z) /\ Holds(z, tables \cup {t}, v)
      BY <1>2, CreatingBoth
    <2> HIDE DEF p, i
    <2>2. Leads(p \o i, x, z)
      BY <1>1, <2>1, OneAfterTheOther
    <2>3. QED
      BY <2>1, <2>2
  <1>3. QED
    BY <1>1, <1>2 DEF Transforms

LEMMA CreatingNext ==
  ASSUME NEW s, NEW before, NEW u, NEW t \in Tables, NEW tables \in SUBSET (Tables \ {t}), NEW v,
         Transforms(s, before, u, tables, v),
         NEW uniques \in SUBSET Names, NEW others \in SUBSET tables,
         NEW columns \in Seq(Names), Distinct(columns),
         Creates(t, CreateTable(t, uniques, others), CreateIndexes(t, columns))
  PROVE  Transforms(s \o CreateTable(t, uniques, others) \o CreateIndexes(t, columns),
                    before, u, tables \cup {t}, v)
  <1> DEFINE p == CreateTable(t, uniques, others)
             i == CreateIndexes(t, columns)
             sp == s \o p
  <1>1. /\ s \in Seq(StatementType) /\ p \in Seq(StatementType) /\ i \in Seq(StatementType)
        /\ sp \in Seq(StatementType)
    BY Concatenation DEF Creates, Transforms
  <1>2. sp \o i \in Seq(StatementType)
    BY <1>1, Concatenation
  <1>3. ASSUME NEW x, Holds(x, before, u)
        PROVE  \E z : Leads(sp \o i, x, z) /\ Holds(z, tables \cup {t}, v)
    <2>1. PICK w : Leads(s, x, w) /\ Holds(w, tables, v)
      BY <1>3 DEF Transforms
    <2>2. PICK y, z : Leads(p, w, y) /\ Leads(i, y, z) /\ Holds(z, tables \cup {t}, v)
      BY <2>1, CreatingBoth
    <2> HIDE DEF p, i
    <2>3. Leads(sp, x, y)
      BY <1>1, <2>1, <2>2, OneAfterTheOther
    <2> HIDE DEF sp
    <2>4. Leads(sp \o i, x, z)
      BY <1>1, <2>2, <2>3, OneAfterTheOther
    <2>5. QED
      BY <2>2, <2>4
  <1>4. QED
    BY <1>2, <1>3 DEF Transforms

LEMMA DroppingNext ==
  ASSUME NEW tables \in SUBSET Tables, NEW t \in tables, NEW v,
         NEW columns \in Seq(Names), Distinct(columns), Len(columns) > 0,
         \A i \in 1..Len(columns) : Index(t, columns[i]) \in SchemaObjects(t),
         \A u \in tables \ {t} : \A o \in SchemaObjects(u) : IsReference(o) => o[3] # t
  PROVE  Transforms(DropTable(t, columns), tables, v, tables \ {t}, v)
  <1> DEFINE p == DropTable(t, columns)
  <1>1. t \in Names /\ t \in Tables /\ t # "alembic_version"
    BY DEF Names, Tables
  <1>2. p \in Seq(StatementType)
    BY <1>1, DropTableType
  <1>3. ASSUME NEW x, Holds(x, tables, v)
        PROVE  \E y : Leads(p, x, y) /\ Holds(y, tables \ {t}, v)
    <2> DEFINE y == Without(x, t)
    <2>1. /\ \A o \in x : o[1] = "alembic_version" \/ \E u \in tables : o \in SchemaObjects(u) /\ o[1] = u
          /\ \A u \in tables : \A o \in SchemaObjects(u) : o \in x /\ o[1] = u
      BY <1>3, HeldObjects
    <2>2. Table(t) \in x /\ \A i \in 1..Len(columns) : Index(t, columns[i]) \in x
      <3>1. Table(t) \in SchemaObjects(t)
        BY <1>1, SchemaTables
      <3>2. QED
        BY <2>1, <3>1
    <2>3. \A o \in y : IsReference(o) => o[3] # t
      BY <1>3, <2>1 DEF Without, Holds, Clean
    <2>4. Leads(p, x, y)
      BY <1>1, <2>2, <2>3, DroppingTable
    <2>5. TablesOf(y) = UNION {SchemaObjects(u) : u \in tables \ {t}}
      <3>1. \A o \in TablesOf(y) : \E u \in tables \ {t} : o \in SchemaObjects(u)
        BY <2>1 DEF TablesOf, Without
      <3>2. ASSUME NEW u \in tables \ {t}, NEW o \in SchemaObjects(u)
            PROVE  o \in TablesOf(y)
        <4>1. o \in x /\ o[1] = u /\ u # t /\ u # "alembic_version"
          BY <2>1 DEF Tables
        <4>2. QED
          BY <4>1 DEF TablesOf, Without
      <3>3. QED
        BY <3>1, <3>2
    <2>6. Records(y, v)
      BY <1>1, <1>3, VersionRows DEF Records, Holds, Without
    <2>7. Clean(y)
      BY <1>3 DEF Clean, Holds, Without
    <2>8. QED
      BY <2>4, <2>5, <2>6, <2>7 DEF Holds
  <1>4. QED
    BY <1>2, <1>3 DEF Transforms

LEMMA VersionSet ==
  ASSUME NEW tables, NEW old \in 0..2, NEW new \in 0..2, old # new
  PROVE  Transforms(SetVersion(old, new), tables, old, tables, new)
  <1> DEFINE p == SetVersion(old, new)
  <1>1. p \in Seq(StatementType)
    BY SetVersionType
  <1>2. ASSUME NEW x, Holds(x, tables, old)
        PROVE  \E y : Leads(p, x, y) /\ Holds(y, tables, new)
    <2>1. Records(x, old) /\ Clean(x)
      BY <1>2 DEF Holds
    <2>2. PICK y : /\ Leads(p, x, y) /\ TablesOf(y) = TablesOf(x) /\ Records(y, new)
                   /\ Clean(y)
      BY <2>1, SettingVersion
    <2>3. QED
      BY <1>2, <2>2 DEF Holds
  <1>3. QED
    BY <1>1, <1>2 DEF Transforms

LEMMA DistinctColumns ==
  /\ \A a : Distinct(<<a>>)
  /\ \A a, b : a # b => Distinct(<<a, b>>)
  /\ \A a, b, c : a # b /\ a # c /\ b # c => Distinct(<<a, b, c>>)
  /\ \A a, b, c, d, e :
       a # b /\ a # c /\ a # d /\ a # e /\ b # c /\ b # d /\ b # e /\ c # d /\ c # e /\ d # e
       => Distinct(<<a, b, c, d, e>>)
  BY DEF Distinct

(* The revisions, table by table.                                          *)
LEMMA UpgradesTransform ==
  /\ Transforms(Upgrade0001, {}, 0, Tables \ {"risk_assessments"}, 0)
  /\ Transforms(Upgrade0002, Tables \ {"risk_assessments"}, 1, Tables, 1)
  <1> DEFINE l1 == <<"external_id", "status">>
             l2 == <<"external_id">>
             l3 == <<"external_id", "account_id", "merchant_id", "occurred_at", "status">>
             l4 == <<"transaction_id", "score", "outcome">>
             l5 == <<"transaction_id", "severity", "is_resolved">>
             l6 == <<"transaction_id", "action", "request_id">>
             l7 == <<"transaction_id", "risk_level", "decision">>
             p1 == CreateTable("accounts", {"external_id"}, {})
             p2 == CreateTable("merchants", {"external_id"}, {})
             p3 == CreateTable("transactions", {"external_id"}, {"accounts", "merchants"})
             p4 == CreateTable("risk_evaluations", {}, {"transactions"})
             p5 == CreateTable("alerts", {}, {"transactions"})
             p6 == CreateTable("transaction_audit_logs", {}, {"transactions"})
             p7 == CreateTable("risk_assessments", {"event_id"}, {"transactions"})
             i1 == CreateIndexes("accounts", l1)
             i2 == CreateIndexes("merchants", l2)
             i3 == CreateIndexes("transactions", l3)
             i4 == CreateIndexes("risk_evaluations", l4)
             i5 == CreateIndexes("alerts", l5)
             i6 == CreateIndexes("transaction_audit_logs", l6)
             i7 == CreateIndexes("risk_assessments", l7)
             t1 == {} \cup {"accounts"}
             t2 == t1 \cup {"merchants"}
             t3 == t2 \cup {"transactions"}
             t4 == t3 \cup {"risk_evaluations"}
             t5 == t4 \cup {"alerts"}
             t6 == t5 \cup {"transaction_audit_logs"}
             t7 == t6 \cup {"risk_assessments"}
             s1 == p1 \o i1
             s2 == s1 \o p2 \o i2
             s3 == s2 \o p3 \o i3
             s4 == s3 \o p4 \o i4
             s5 == s4 \o p5 \o i5
             s6 == s5 \o p6 \o i6
             s7 == p7 \o i7
  <1>1. Upgrade0001 = s6 /\ Upgrade0002 = s7
    BY DEF Upgrade0001, Upgrade0002
  <1>2. t6 = Tables \ {"risk_assessments"} /\ t7 = Tables
    BY DEF Tables
  <1>3. /\ l1 \in Seq(Names) /\ l2 \in Seq(Names) /\ l3 \in Seq(Names) /\ l4 \in Seq(Names)
        /\ l5 \in Seq(Names) /\ l6 \in Seq(Names) /\ l7 \in Seq(Names)
    BY NameLists DEF Names, Columns
  <1>4. /\ Distinct(l1) /\ Distinct(l2) /\ Distinct(l3) /\ Distinct(l4)
        /\ Distinct(l5) /\ Distinct(l6) /\ Distinct(l7)
    BY DistinctColumns
  <1>5. {"external_id"} \in SUBSET Names /\ {"event_id"} \in SUBSET Names /\ {} \in SUBSET Names
    BY DEF Names, Columns
  <1>6. /\ Creates("accounts", p1, i1) /\ Creates("merchants", p2, i2)
        /\ Creates("transactions", p3, i3) /\ Creates("risk_evaluations", p4, i4)
        /\ Creates("alerts", p5, i5) /\ Creates("transaction_audit_logs", p6, i6)
        /\ Creates("risk_assessments", p7, i7)
    BY CreatedTables
  <1>7. /\ {} \in SUBSET (Tables \ {"accounts"}) /\ "accounts" \in Tables
        /\ t1 \in SUBSET (Tables \ {"merchants"}) /\ "merchants" \in Tables
        /\ t2 \in SUBSET (Tables \ {"transactions"}) /\ "transactions" \in Tables
        /\ t3 \in SUBSET (Tables \ {"risk_evaluations"}) /\ "risk_evaluations" \in Tables
        /\ t4 \in SUBSET (Tables \ {"alerts"}) /\ "alerts" \in Tables
        /\ t5 \in SUBSET (Tables \ {"transaction_audit_logs"}) /\ "transaction_audit_logs" \in Tables
        /\ t6 \in SUBSET (Tables \ {"risk_assessments"}) /\ "risk_assessments" \in Tables
    BY DEF Tables
  <1>8. /\ {"accounts", "merchants"} \in SUBSET t2
        /\ {"transactions"} \in SUBSET t3 /\ {"transactions"} \in SUBSET t4
        /\ {"transactions"} \in SUBSET t5 /\ {"transactions"} \in SUBSET t6
        /\ {} \in SUBSET {} /\ {} \in SUBSET t1
    OBVIOUS
  <1> HIDE DEF l1, l2, l3, l4, l5, l6, l7, t1, t2, t3, t4, t5, t6, t7, s1, s2, s3, s4, s5, s6, s7
  <1>9. Transforms(s1, {}, 0, t1, 0)
    BY <1>3, <1>4, <1>5, <1>6, <1>7, <1>8, CreatingFirst DEF s1, t1
  <1>10. Transforms(s2, {}, 0, t2, 0)
    BY <1>3, <1>4, <1>5, <1>6, <1>7, <1>8, <1>9, CreatingNext DEF s2, t2
  <1>11. Transforms(s3, {}, 0, t3, 0)
    BY <1>3, <1>4, <1>5, <1>6, <1>7, <1>8, <1>10, CreatingNext DEF s3, t3
  <1>12. Transforms(s4, {}, 0, t4, 0)
    BY <1>3, <1>4, <1>5, <1>6, <1>7, <1>8, <1>11, CreatingNext DEF s4, t4
  <1>13. Transforms(s5, {}, 0, t5, 0)
    BY <1>3, <1>4, <1>5, <1>6, <1>7, <1>8, <1>12, CreatingNext DEF s5, t5
  <1>14. Transforms(s6, {}, 0, t6, 0)
    BY <1>3, <1>4, <1>5, <1>6, <1>7, <1>8, <1>13, CreatingNext DEF s6, t6
  <1>15. Transforms(s7, t6, 1, t7, 1)
    BY <1>3, <1>4, <1>5, <1>6, <1>7, <1>8, CreatingFirst DEF s7, t7
  <1>16. QED
    BY <1>1, <1>2, <1>14, <1>15

(* Which tables refer to which.                                            *)
LEMMA SchemaReferences ==
  /\ \A t \in {"accounts", "merchants"} : \A o \in SchemaObjects(t) : ~IsReference(o)
  /\ \A o \in SchemaObjects("transactions") : IsReference(o) => o[3] \in {"accounts", "merchants"}
  /\ \A t \in Tables \ {"accounts", "merchants", "transactions"} :
       \A o \in SchemaObjects(t) : IsReference(o) => o[3] = "transactions"
  <1>1. \A t, c : ~IsReference(Table(t)) /\ ~IsReference(Unique(t, c)) /\ ~IsReference(Index(t, c))
    BY Kinds
  <1>2. \A t, u : References(t, u)[3] = u
    BY ObjectParts
  <1>3. /\ \A t \in Tables \ {"transactions"} : SchemaObjects(t) = ModelObjects(t)
        /\ "accounts" \in Tables /\ "merchants" \in Tables
    BY SchemaTables DEF Tables
  <1>4. ASSUME NEW t \in {"accounts", "merchants"}, NEW o \in SchemaObjects(t)
        PROVE  ~IsReference(o)
    <2>1. o \in ModelObjects(t)
      BY <1>3
    <2>2. \E c : o = Table(t) \/ o = Unique(t, c) \/ o = Index(t, c)
      BY <2>1, ModelTables
    <2>3. QED
      BY <1>1, <2>2
  <1>5. ASSUME NEW o \in SchemaObjects("transactions"), IsReference(o)
        PROVE  o[3] \in {"accounts", "merchants"}
    <2>1. \/ \E t, c : o = Table(t) \/ o = Unique(t, c) \/ o = Index(t, c)
          \/ o = References("transactions", "accounts") \/ o = References("transactions", "merchants")
      BY SchemaTables
    <2>2. QED
      BY <1>1, <1>2, <1>5, <2>1
  <1>6. ASSUME NEW t \in Tables \ {"accounts", "merchants", "transactions"},
               NEW o \in SchemaObjects(t), IsReference(o)
        PROVE  o[3] = "transactions"
    <2>1. o \in ModelObjects(t)
      BY <1>3
    <2>2. t \in {"risk_evaluations", "alerts", "transaction_audit_logs", "risk_assessments"}
      BY DEF Tables
    <2>3. (\E c : o = Table(t) \/ o = Unique(t, c) \/ o = Index(t, c)) \/ o = References(t, "transactions")
      BY <2>1, <2>2, ModelTables
    <2>4. QED
      BY <1>1, <1>2, <1>6, <2>3
  <1>7. QED
    BY <1>4, <1>5, <1>6

LEMMA DowngradesTransform ==
  /\ Transforms(Downgrade0001, Tables \ {"risk_assessments"}, 1, {}, 1)
  /\ Transforms(Downgrade0002, Tables, 2, Tables \ {"risk_assessments"}, 2)
  <1> DEFINE l1 == <<"is_resolved", "severity", "transaction_id">>
             l2 == <<"request_id", "action", "transaction_id">>
             l3 == <<"outcome", "score", "transaction_id">>
             l4 == <<"status", "occurred_at", "merchant_id", "account_id", "external_id">>
             l5 == <<"external_id">>
             l6 == <<"status", "external_id">>
             l7 == <<"decision", "risk_level", "transaction_id">>
             d1 == DropTable("alerts", l1)
             d2 == DropTable("transaction_audit_logs", l2)
             d3 == DropTable("risk_evaluations", l3)
             d4 == DropTable("transactions", l4)
             d5 == DropTable("merchants", l5)
             d6 == DropTable("accounts", l6)
             d7 == DropTable("risk_assessments", l7)
             t0 == Tables \ {"risk_assessments"}
             t1 == t0 \ {"alerts"}
             t2 == t1 \ {"transaction_audit_logs"}
             t3 == t2 \ {"risk_evaluations"}
             t4 == t3 \ {"transactions"}
             t5 == t4 \ {"merchants"}
             t6 == t5 \ {"accounts"}
             s2 == d1 \o d2
             s3 == s2 \o d3
             s4 == s3 \o d4
             s5 == s4 \o d5
             s6 == s5 \o d6
  <1>1. Downgrade0001 = s6 /\ Downgrade0002 = d7
    BY DEF Downgrade0001, Downgrade0002
  <1>2. /\ l1 \in Seq(Names) /\ Len(l1) > 0 /\ l2 \in Seq(Names) /\ Len(l2) > 0
        /\ l3 \in Seq(Names) /\ Len(l3) > 0 /\ l4 \in Seq(Names) /\ Len(l4) > 0
        /\ l5 \in Seq(Names) /\ Len(l5) > 0 /\ l6 \in Seq(Names) /\ Len(l6) > 0
        /\ l7 \in Seq(Names) /\ Len(l7) > 0
    BY NameLists DEF Names, Columns
  <1>3. /\ Distinct(l1) /\ Distinct(l2) /\ Distinct(l3) /\ Distinct(l4)
        /\ Distinct(l5) /\ Distinct(l6) /\ Distinct(l7)
    BY DistinctColumns
  <1>4. /\ \A i \in 1..Len(l1) : Index("alerts", l1[i]) \in SchemaObjects("alerts")
        /\ \A i \in 1..Len(l2) :
             Index("transaction_audit_logs", l2[i]) \in SchemaObjects("transaction_audit_logs")
        /\ \A i \in 1..Len(l3) : Index("risk_evaluations", l3[i]) \in SchemaObjects("risk_evaluations")
        /\ \A i \in 1..Len(l4) : Index("transactions", l4[i]) \in SchemaObjects("transactions")
        /\ \A i \in 1..Len(l5) : Index("merchants", l5[i]) \in SchemaObjects("merchants")
        /\ \A i \in 1..Len(l6) : Index("accounts", l6[i]) \in SchemaObjects("accounts")
        /\ \A i \in 1..Len(l7) : Index("risk_assessments", l7[i]) \in SchemaObjects("risk_assessments")
    <2>1. /\ "alerts" \in Tables \ {"transactions"}
          /\ "transaction_audit_logs" \in Tables \ {"transactions"}
          /\ "risk_evaluations" \in Tables \ {"transactions"}
          /\ "merchants" \in Tables \ {"transactions"} /\ "accounts" \in Tables \ {"transactions"}
          /\ "risk_assessments" \in Tables \ {"transactions"}
      BY DEF Tables
    <2>2. \A i \in 1..Len(l1) : Index("alerts", l1[i]) \in ModelObjects("alerts")
      BY ModelTables
    <2>3. \A i \in 1..Len(l2) :
            Index("transaction_audit_logs", l2[i]) \in ModelObjects("transaction_audit_logs")
      BY ModelTables
    <2>4. \A i \in 1..Len(l3) : Index("risk_evaluations", l3[i]) \in ModelObjects("risk_evaluations")
      BY ModelTables
    <2>5. \A i \in 1..Len(l4) : Index("transactions", l4[i]) \in SchemaObjects("transactions")
      BY SchemaTables
    <2>6. \A i \in 1..Len(l5) : Index("merchants", l5[i]) \in ModelObjects("merchants")
      BY ModelTables
    <2>7. \A i \in 1..Len(l6) : Index("accounts", l6[i]) \in ModelObjects("accounts")
      BY ModelTables
    <2>8. \A i \in 1..Len(l7) : Index("risk_assessments", l7[i]) \in ModelObjects("risk_assessments")
      BY ModelTables
    <2> HIDE DEF l1, l2, l3, l4, l5, l6, l7
    <2>9. QED
      BY <2>1, <2>2, <2>3, <2>4, <2>5, <2>6, <2>7, <2>8, SchemaTables
  <1>5. /\ t0 \in SUBSET Tables /\ "alerts" \in t0
        /\ t1 \in SUBSET Tables /\ "transaction_audit_logs" \in t1
        /\ t2 \in SUBSET Tables /\ "risk_evaluations" \in t2
        /\ t3 \in SUBSET Tables /\ "transactions" \in t3
        /\ t4 \in SUBSET Tables /\ "merchants" \in t4
        /\ t5 \in SUBSET Tables /\ "accounts" \in t5
        /\ Tables \in SUBSET Tables /\ "risk_assessments" \in Tables
        /\ t6 = {}
    BY DEF Tables
  <1>6. /\ \A u \in Tables : \A o \in SchemaObjects(u) :
             IsReference(o) => o[3] \in {"accounts", "merchants", "transactions"}
        /\ \A u \in {"accounts", "merchants", "transactions"} : \A o \in SchemaObjects(u) :
             IsReference(o) => o[3] \in {"accounts", "merchants"}
        /\ \A u \in {"accounts", "merchants"} : \A o \in SchemaObjects(u) : ~IsReference(o)
    BY SchemaReferences
  <1>7. t3 = {"accounts", "merchants", "transactions"} /\ t4 = {"accounts", "merchants"}
        /\ t5 = {"accounts"}
    BY DEF Tables
  <1>8. /\ \A t \in {"alerts", "transaction_audit_logs", "risk_evaluations", "risk_assessments"} :
             \A u \in Tables : \A o \in SchemaObjects(u) : IsReference(o) => o[3] # t
        /\ \A u \in t3 : \A o \in SchemaObjects(u) : IsReference(o) => o[3] # "transactions"
        /\ \A t : \A u \in t4 : \A o \in SchemaObjects(u) : IsReference(o) => o[3] # t
        /\ \A t : \A u \in t5 : \A o \in SchemaObjects(u) : IsReference(o) => o[3] # t
    BY <1>6, <1>7
  <1> HIDE DEF l1, l2, l3, l4, l5, l6, l7, t0, t1, t2, t3, t4, t5, t6, s2, s3, s4, s5, s6,
               d1, d2, d3, d4, d5, d6, d7
  <1>9. Transforms(d1, t0, 1, t1, 1)
    BY <1>2, <1>3, <1>4, <1>5, <1>8, DroppingNext DEF d1, t1
  <1>10. Transforms(d2, t1, 1, t2, 1)
    BY <1>2, <1>3, <1>4, <1>5, <1>8, DroppingNext DEF d2, t2
  <1>11. Transforms(d3, t2, 1, t3, 1)
    BY <1>2, <1>3, <1>4, <1>5, <1>8, DroppingNext DEF d3, t3
  <1>12. Transforms(d4, t3, 1, t4, 1)
    BY <1>2, <1>3, <1>4, <1>5, <1>8, DroppingNext DEF d4, t4
  <1>13. Transforms(d5, t4, 1, t5, 1)
    BY <1>2, <1>3, <1>4, <1>5, <1>8, DroppingNext DEF d5, t5
  <1>14. Transforms(d6, t5, 1, t6, 1)
    BY <1>2, <1>3, <1>4, <1>5, <1>8, DroppingNext DEF d6, t6
  <1>15. Transforms(d7, Tables, 2, t0, 2)
    BY <1>2, <1>3, <1>4, <1>5, <1>8, DroppingNext DEF d7, t0
  <1>16. Transforms(s2, t0, 1, t2, 1)
    BY <1>9, <1>10, TransformsThrough DEF s2
  <1>17. Transforms(s3, t0, 1, t3, 1)
    BY <1>11, <1>16, TransformsThrough DEF s3
  <1>18. Transforms(s4, t0, 1, t4, 1)
    BY <1>12, <1>17, TransformsThrough DEF s4
  <1>19. Transforms(s5, t0, 1, t5, 1)
    BY <1>13, <1>18, TransformsThrough DEF s5
  <1>20. Transforms(s6, t0, 1, t6, 1)
    BY <1>14, <1>19, TransformsThrough DEF s6
  <1>21. QED
    BY <1>1, <1>5, <1>15, <1>20 DEF t0

(* Every plan can be executed alone, from the version it is made for.      *)
LEMMA PlansPossible ==
  ASSUME NEW c \in Commands, NEW v \in 0..2, NEW x, Whole(x, v), Clean(x)
  PROVE  \E f : f[1] = x /\ Path(PlanOf(c, v), f)
  <1> DEFINE six == Tables \ {"risk_assessments"}
  <1>1. /\ v = 0 => Holds(x, {}, 0)
        /\ v = 1 => Holds(x, six, 1)
        /\ v = 2 => Holds(x, Tables, 2)
    <2> DEFINE objects(tables) == UNION {SchemaObjects(t) : t \in tables}
    <2>1. objects({}) = {}
      OBVIOUS
    <2>2. objects(Tables) = objects(six) \cup SchemaObjects("risk_assessments")
      BY DEF Tables
    <2>3. Schemas[2] = objects(six)
      BY SchemaUnion
    <2>4. \A tables : Holds(x, tables, v) <=> TablesOf(x) = objects(tables)
      BY DEF Holds, Whole
    <2> HIDE DEF objects, six
    <2>5. Schemas[1] = objects({}) /\ Schemas[3] = objects(Tables)
      BY <2>1, <2>2, <2>3, SchemaUnion
    <2>6. TablesOf(x) = Schemas[v + 1]
      BY DEF Whole
    <2>7. 0 + 1 = 1 /\ 1 + 1 = 2 /\ 2 + 1 = 3
      OBVIOUS
    <2>8. v = 0 => Holds(x, {}, 0)
      BY <2>4, <2>5, <2>6, <2>7
    <2>9. v = 1 => Holds(x, six, 1)
      BY <2>3, <2>4, <2>6, <2>7
    <2>10. v = 2 => Holds(x, Tables, 2)
      BY <2>4, <2>5, <2>6, <2>7
    <2>11. QED
      BY <2>8, <2>9, <2>10
  <1>2. /\ Transforms(SetVersion(0, 1), six, 0, six, 1)
        /\ Transforms(SetVersion(1, 2), Tables, 1, Tables, 2)
        /\ Transforms(SetVersion(1, 0), {}, 1, {}, 0)
        /\ Transforms(SetVersion(2, 1), six, 2, six, 1)
    <2>1. 0 \in 0..2 /\ 1 \in 0..2 /\ 2 \in 0..2
      OBVIOUS
    <2>2. QED
      BY <2>1, VersionSet
  <1>3. /\ Transforms(Upgrade0001, {}, 0, six, 0) /\ Transforms(Upgrade0002, six, 1, Tables, 1)
        /\ Transforms(Downgrade0001, six, 1, {}, 1) /\ Transforms(Downgrade0002, Tables, 2, six, 2)
    BY UpgradesTransform, DowngradesTransform
  <1> HIDE DEF six
  <1>4. Transforms(Upgrade0001 \o SetVersion(0, 1) \o Upgrade0002 \o SetVersion(1, 2),
                   {}, 0, Tables, 2)
    <2>1. Transforms(Upgrade0001 \o SetVersion(0, 1), {}, 0, six, 1)
      BY <1>2, <1>3, TransformsThrough
    <2>2. Transforms(Upgrade0001 \o SetVersion(0, 1) \o Upgrade0002, {}, 0, Tables, 1)
      BY <1>3, <2>1, TransformsThrough
    <2>3. QED
      BY <1>2, <2>2, TransformsThrough
  <1>5. /\ Transforms(Upgrade0002 \o SetVersion(1, 2), six, 1, Tables, 2)
        /\ Transforms(Downgrade0001 \o SetVersion(1, 0), six, 1, {}, 0)
        /\ Transforms(Downgrade0002 \o SetVersion(2, 1), Tables, 2, six, 1)
    BY <1>2, <1>3, TransformsThrough
  <1>6. /\ UpgradeHead[1] = Upgrade0001 \o SetVersion(0, 1) \o Upgrade0002 \o SetVersion(1, 2)
        /\ UpgradeHead[2] = Upgrade0002 \o SetVersion(1, 2)
        /\ DowngradeOne[2] = Downgrade0001 \o SetVersion(1, 0)
        /\ DowngradeOne[3] = Downgrade0002 \o SetVersion(2, 1)
    BY DEF UpgradeHead, DowngradeOne
  <1>7. CASE PlanOf(c, v) = << >>
    <2> DEFINE f == <<x>>
    <2>1. f[1] = x /\ \A i \in 1..Len(<< >>) : FALSE
      OBVIOUS
    <2> HIDE DEF f
    <2>2. QED
      BY <1>7, <2>1 DEF Path
  <1>8. CASE PlanOf(c, v) # << >>
    <2>1. \E y : Leads(PlanOf(c, v), x, y)
      <3>1. c = Up \/ c = Down
        BY CommandNames
      <3>2. v = 0 \/ v = 1 \/ v = 2
        OBVIOUS
      <3>3. CASE v = 0
        BY <1>1, <1>4, <1>6, <1>8, <3>1, <3>3, PlanCases DEF Transforms
      <3>4. CASE v = 1
        BY <1>1, <1>5, <1>6, <1>8, <3>1, <3>4, PlanCases DEF Transforms
      <3>5. CASE v = 2
        BY <1>1, <1>5, <1>6, <1>8, <3>1, <3>5, PlanCases DEF Transforms
      <3>6. QED
        BY <3>2, <3>3, <3>4, <3>5
    <2>2. QED
      BY <2>1 DEF Leads
  <1>9. QED
    BY <1>7, <1>8

-----------------------------------------------------------------------------
(* A run that nobody overtakes follows a path of its plan.                 *)

CanContinue(p, k, seen) ==
  \E f : /\ Path(p, f)
         /\ IF k = 0 THEN Table("alembic_version") \notin seen
                          /\ f[1] = seen \cup {Table("alembic_version")}
            ELSE f[k] = seen

Ready(r) ==
  /\ pc[r] = "ensure_table" => found[r] = 0 /\ Whole(catalog, 0)
  /\ pc[r] = "run" => CanContinue(Plan(r), step[r], View(r))

AllClean == Clean(catalog) /\ \A r \in Runs : Clean(added[r])

Undisturbed ==
  /\ Inv
  /\ AllClean
  /\ \A r \in Runs \ overtaken : pc[r] # "failed" /\ Ready(r)

LEMMA Continues ==
  ASSUME NEW p \in Seq(StatementType), NEW k \in 0..Len(p), NEW seen, CanContinue(p, k, seen)
  PROVE  /\ Possible(seen, StatementAt(p, k))
         /\ CanContinue(p, k + 1, After(seen, StatementAt(p, k)))
  <1> DEFINE s == StatementAt(p, k)
  <1>1. PICK f : /\ Path(p, f)
                 /\ IF k = 0 THEN Table("alembic_version") \notin seen
                                  /\ f[1] = seen \cup {Table("alembic_version")}
                    ELSE f[k] = seen
    BY DEF CanContinue
  <1>2. k + 1 # 0 /\ (k = 0 => k + 1 = 1)
    OBVIOUS
  <1>3. CASE k = 0
    <2>1. s.adds = {Table("alembic_version")} /\ s.removes = {}
      BY <1>3, FirstTable DEF StatementAt
    <2> HIDE DEF s
    <2>2. ~IsReference(Table("alembic_version"))
      BY Kinds
    <2>3. Possible(seen, s)
      BY <1>1, <1>3, <2>1, <2>2 DEF Possible
    <2>4. After(seen, s) = seen \cup {Table("alembic_version")}
      BY <2>1 DEF After, DroppedBy
    <2>5. CanContinue(p, k + 1, After(seen, s))
      BY <1>1, <1>2, <1>3, <2>4 DEF CanContinue
    <2>6. QED
      BY <2>3, <2>5 DEF s
  <1>4. CASE k # 0
    <2>1. k \in 1..Len(p) /\ s = p[k] /\ f[k] = seen
      BY <1>1, <1>4 DEF StatementAt
    <2> HIDE DEF s
    <2>2. Possible(seen, s) /\ f[k + 1] = After(seen, s)
      BY <1>1, <2>1 DEF Path
    <2>3. CanContinue(p, k + 1, After(seen, s))
      BY <1>1, <1>2, <2>2 DEF CanContinue
    <2>4. QED
      BY <2>2, <2>3 DEF s
  <1>5. QED
    BY <1>3, <1>4

LEMMA CanStart ==
  ASSUME NEW c \in Commands, NEW v \in 0..2, NEW x, Whole(x, v), Clean(x)
  PROVE  CanContinue(PlanOf(c, v), 1, x)
  <1>1. PICK f : f[1] = x /\ Path(PlanOf(c, v), f)
    BY PlansPossible
  <1>2. QED
    BY <1>1 DEF CanContinue

LEMMA CanStartBefore ==
  ASSUME NEW c \in Commands, NEW v \in 0..2, NEW x, Whole(x, v), Clean(x),
         Table("alembic_version") \notin x
  PROVE  CanContinue(PlanOf(c, v), 0, x)
  <1> DEFINE t == Table("alembic_version")
             y == x \cup {t}
  <1>1. t[1] = "alembic_version" /\ ~IsReference(t) /\ t # VersionRow(1) /\ t # VersionRow(2)
    BY Kinds, ObjectParts, VersionRows
  <1> HIDE DEF t
  <1>2. Whole(y, v)
    BY <1>1 DEF Whole, TablesOf, Records
  <1>3. Clean(y)
    BY <1>1 DEF Clean
  <1>4. PICK f : f[1] = y /\ Path(PlanOf(c, v), f)
    BY <1>2, <1>3, PlansPossible
  <1>5. QED
    BY <1>4 DEF CanContinue, t

LEMMA PlansClean ==
  ASSUME NEW c \in Commands, NEW v \in 0..2
  PROVE  Clean(Adds(PlanOf(c, v)))
  <1>1. "alembic_version" \notin Tables /\ "risk_assessments" \in Tables
    BY DEF Tables
  <1>2. Clean({VersionRow(1), VersionRow(2)})
    BY Kinds DEF Clean
  <1>3. Clean(SchemaObjects("risk_assessments"))
    BY <1>1, SchemaTables DEF Clean
  <1>4. Clean(Schemas[2])
    BY <1>1, SchemaUnion DEF Clean
  <1>5. Clean(Schemas[3])
    BY <1>3, <1>4, SchemaUnion DEF Clean
  <1>6. Clean({}) /\ Clean(Adds(<< >>))
    BY DEF Clean, Adds
  <1>7. \A p \in {UpgradeHead[1], UpgradeHead[2], DowngradeOne[2], DowngradeOne[3], << >>} :
          Clean(Adds(p))
    BY <1>2, <1>3, <1>5, <1>6, UpgradePlans, DowngradePlans DEF Clean
  <1>8. c = Up \/ c = Down
    BY CommandNames
  <1>9. v = 0 \/ v = 1 \/ v = 2
    OBVIOUS
  <1>10. QED
    BY <1>7, <1>8, <1>9, PlanCases

(* Steps in terms of what a run sees.                                      *)
LEMMA AdvanceFacts ==
  ASSUME Inv, NEW r \in Runs, pc[r] = "run", step[r] <= Len(Plan(r))
  PROVE  /\ Plan(r) \in Seq(StatementType) /\ Coherent(Plan(r))
         /\ step[r] \in 0..Len(Plan(r))
         /\ Statement(r) = StatementAt(Plan(r), step[r])
         /\ Clean(Adds(Plan(r)))
  <1>1. found[r] \in 0..2 /\ command[r] \in Commands
    BY DEF Inv, TypeOK
  <1>2. Plan(r) = PlanOf(command[r], found[r])
    BY InTermsOfPlans
  <1>3. Statement(r) = StatementAt(Plan(r), step[r])
    BY <1>2, InTermsOfPlans
  <1>4. Plan(r) \in Seq(StatementType) /\ Coherent(Plan(r)) /\ Clean(Adds(Plan(r)))
    BY <1>1, <1>2, Plans, PlansClean
  <1>5. Len(Plan(r)) \in Nat
    BY <1>4
  <1>6. step[r] \in 0..(Len(Plan(r)) + 1)
    BY DEF Inv, TypeOK
  <1>7. step[r] \in 0..Len(Plan(r))
    BY <1>5, <1>6
  <1>8. QED
    BY <1>3, <1>4, <1>7

LEMMA SeesAfter ==
  ASSUME Inv, NEW r \in Runs, Advances(r)
  PROVE  /\ View(r)' = After(View(r), Statement(r))
         /\ step'[r] = step[r] + 1
         /\ Plan(r)' = Plan(r)
         /\ added'[r] = (added[r] \ Dropped(r, Statement(r))) \cup Statement(r).adds
  <1> DEFINE s == Statement(r)
             d == DroppedBy(View(r), s)
  <1>1. DOMAIN step = Runs /\ DOMAIN added = Runs /\ DOMAIN removed = Runs
    BY DEF Inv
  <1>2. Dropped(r, s) = d /\ View(r) = Seen(catalog, added[r], removed[r])
    BY InTermsOfPlans
  <1>3. /\ added'[r] = (added[r] \ Dropped(r, s)) \cup s.adds
        /\ removed'[r] = removed[r] \cup (Dropped(r, s) \cap catalog)
        /\ step'[r] = step[r] + 1
        /\ UNCHANGED <<catalog, command, found>>
    BY <1>1 DEF Advances
  <1>4. View(r)' = Seen(catalog, added'[r], removed'[r])
    BY <1>3 DEF View, Seen
  <1> HIDE DEF s
  <1>5. Seen(catalog, (added[r] \ d) \cup s.adds, removed[r] \cup (d \cap catalog))
        = (View(r) \ d) \cup s.adds
    BY <1>2, SeenAfter
  <1>6. View(r)' = After(View(r), s)
    BY <1>2, <1>3, <1>4, <1>5 DEF After
  <1>7. Plan(r)' = Plan(r)
    BY Zenon, <1>3 DEF Plan
  <1>8. QED
    BY <1>3, <1>6, <1>7 DEF s

LEMMA StaysClean ==
  ASSUME Inv, AllClean, [Next]_vars
  PROVE  AllClean'
  <1>1. CASE UNCHANGED vars
    BY <1>1 DEF vars, AllClean, Clean
  <1>2. ASSUME NEW r \in Runs, Begins(r) PROVE AllClean'
    BY <1>2 DEF Begins, AllClean, Clean
  <1>3. ASSUME NEW r \in Runs, Advances(r) PROVE AllClean'
    <2>1. Frame(r) /\ UNCHANGED catalog
      BY <1>3, FrameKept DEF Advances
    <2> DEFINE s == Statement(r)
               p == Plan(r)
               k == step[r]
    <2>2. pc[r] = "run" /\ k <= Len(p)
      BY <1>3 DEF Advances
    <2>3. Coherent(p) /\ k \in 0..Len(p) /\ s = StatementAt(p, k) /\ Clean(Adds(p))
      BY <2>2, AdvanceFacts
    <2>4. added'[r] \subseteq added[r] \cup s.adds
      BY <1>3, SeesAfter
    <2> HIDE DEF s, p, k
    <2>5. (k = 0 => s.adds = {Table("alembic_version")}) /\ (k >= 1 => s.adds \subseteq Adds(p))
      BY <2>3, StatementFacts
    <2>6. Clean(s.adds)
      <3>1. Clean({Table("alembic_version")})
        BY Kinds DEF Clean
      <3>2. CASE k = 0
        BY <2>5, <3>1, <3>2
      <3>3. CASE k # 0
        BY <2>3, <2>5, <3>3 DEF Clean
      <3>4. QED
        BY <3>2, <3>3
    <2>7. Clean(added'[r])
      BY <2>4, <2>6 DEF AllClean, Clean
    <2>8. QED
      BY <2>1, <2>7 DEF Frame, AllClean, Clean
  <1>4. ASSUME NEW r \in Runs, Ends(r), UNCHANGED catalog \/ Visible(r) PROVE AllClean'
    <2>1. Frame(r)
      BY <1>4, FrameKept
    <2>2. added'[r] = {}
      BY <1>4, Leaves DEF Idle
    <2>3. catalog' \subseteq catalog \cup added[r]
      BY <1>4 DEF Visible, View
    <2>4. QED
      BY <2>1, <2>2, <2>3 DEF Frame, AllClean, Clean
  <1>5. QED
    BY <1>1, <1>2, <1>3, <1>4, StepKinds DEF Quits, Publishes

LEMMA OthersReady ==
  ASSUME Undisturbed, NEW r \in Runs, Frame(r), UNCHANGED <<catalog, overtaken>>,
         NEW q \in Runs \ overtaken, q # r
  PROVE  pc'[q] # "failed" /\ Ready(q)'
  <1>1. pc[q] # "failed" /\ Ready(q)
    BY DEF Undisturbed
  <1>2. /\ pc'[q] = pc[q] /\ found'[q] = found[q] /\ step'[q] = step[q] /\ command'[q] = command[q]
        /\ added'[q] = added[q] /\ removed'[q] = removed[q] /\ catalog' = catalog
    BY DEF Frame
  <1>3. Plan(q)' = Plan(q)
    BY Zenon, <1>2 DEF Plan
  <1>4. View(q)' = View(q)
    BY <1>2 DEF View
  <1>5. Whole(catalog, 0)' <=> Whole(catalog, 0)
    BY <1>2 DEF Whole, TablesOf, Records
  <1>6. CanContinue(Plan(q), step[q], View(q))' <=> CanContinue(Plan(q), step[q], View(q))
    BY <1>2, <1>3, <1>4 DEF CanContinue
  <1>7. QED
    BY <1>1, <1>2, <1>5, <1>6 DEF Ready

LEMMA ReadyAfterRead ==
  ASSUME Undisturbed, NEW r \in Runs, ReadVersion(r)
  PROVE  /\ Frame(r) /\ UNCHANGED <<catalog, overtaken>>
         /\ pc'[r] # "failed" /\ Ready(r)'
  <1>1. Inv /\ Clean(catalog)
    BY DEF Undisturbed, AllClean
  <1>2. /\ DOMAIN pc = Runs /\ DOMAIN found = Runs /\ DOMAIN step = Runs
        /\ DOMAIN added = Runs /\ DOMAIN removed = Runs /\ DOMAIN held = Runs
        /\ command[r] \in Commands
    BY <1>1 DEF Inv, TypeOK
  <1>3. pc[r] = "start" /\ step[r] = 1 /\ added[r] = {} /\ removed[r] = {}
    BY <1>1 DEF ReadVersion, Inv, Idle, Ended
  <1>4. PICK v \in 0..2 : Whole(catalog, v)
    BY <1>1 DEF Inv
  <1>5. Version(catalog) = v
    BY <1>4 DEF Whole, Records, Version
  <1>6. /\ pc' = [pc EXCEPT ![r] = IF v = 0 THEN "ensure_table" ELSE "run"]
        /\ found' = [found EXCEPT ![r] = v]
        /\ UNCHANGED <<catalog, command, step, added, removed, held, overtaken, faults>>
    BY <1>5 DEF ReadVersion
  <1>7. /\ pc'[r] = (IF v = 0 THEN "ensure_table" ELSE "run") /\ found'[r] = v
        /\ step'[r] = 1 /\ added'[r] = {} /\ removed'[r] = {} /\ catalog' = catalog
        /\ command'[r] = command[r]
    BY <1>2, <1>3, <1>6
  <1>8. Frame(r)
    BY <1>2, <1>6 DEF Frame
  <1>9. Plan(r)' = PlanOf(command[r], v)
    BY Zenon, <1>7 DEF Plan, PlanOf, Up
  <1>10. View(r)' = catalog
    BY <1>7 DEF View
  <1>11. CanContinue(PlanOf(command[r], v), 1, catalog)
    BY <1>1, <1>2, <1>4, CanStart
  <1>12. CanContinue(Plan(r), step[r], View(r))'
    BY <1>7, <1>9, <1>10, <1>11 DEF CanContinue
  <1>13. v = 0 => Whole(catalog, 0)'
    BY <1>4, <1>7 DEF Whole, TablesOf, Records
  <1>14. QED
    BY <1>6, <1>7, <1>8, <1>12, <1>13 DEF Ready

LEMMA ReadyAfterEnsure ==
  ASSUME Undisturbed, NEW r \in Runs, EnsureVersionTable(r)
  PROVE  /\ Frame(r) /\ UNCHANGED <<catalog, overtaken>>
         /\ r \notin overtaken => pc'[r] # "failed" /\ Ready(r)'
  <1>1. Inv /\ Clean(catalog)
    BY DEF Undisturbed, AllClean
  <1>2. /\ DOMAIN pc = Runs /\ DOMAIN found = Runs /\ DOMAIN step = Runs
        /\ DOMAIN added = Runs /\ DOMAIN removed = Runs /\ DOMAIN held = Runs
        /\ command[r] \in Commands
    BY <1>1 DEF Inv, TypeOK
  <1>3. pc[r] = "ensure_table" /\ added[r] = {} /\ removed[r] = {}
    BY <1>1 DEF EnsureVersionTable, Inv, Idle
  <1> DEFINE k == IF Table("alembic_version") \in catalog THEN 1 ELSE 0
  <1>4. /\ pc' = [pc EXCEPT ![r] = "run"] /\ step' = [step EXCEPT ![r] = k]
        /\ UNCHANGED <<catalog, command, found, added, removed, held, overtaken, faults>>
    BY DEF EnsureVersionTable
  <1>5. /\ pc'[r] = "run" /\ step'[r] = k /\ added'[r] = {} /\ removed'[r] = {}
        /\ catalog' = catalog /\ command'[r] = command[r] /\ found'[r] = found[r]
    BY <1>2, <1>3, <1>4
  <1>6. Frame(r)
    BY <1>2, <1>4 DEF Frame
  <1>7. ASSUME r \notin overtaken PROVE pc'[r] # "failed" /\ Ready(r)'
    <2>1. found[r] = 0 /\ Whole(catalog, 0)
      BY <1>3, <1>7 DEF Undisturbed, Ready
    <2>2. Plan(r)' = PlanOf(command[r], 0)
      BY Zenon, <1>5, <2>1 DEF Plan, PlanOf, Up
    <2>3. View(r)' = catalog
      BY <1>5 DEF View
    <2>4. CanContinue(PlanOf(command[r], 0), k, catalog)
      <3>1. 0 \in 0..2
        OBVIOUS
      <3>2. CASE Table("alembic_version") \in catalog
        <4>1. k = 1
          BY <3>2
        <4>2. QED
          BY <1>1, <1>2, <2>1, <3>1, <4>1, CanStart
      <3>3. CASE Table("alembic_version") \notin catalog
        <4>1. k = 0
          BY <3>3
        <4>2. QED
          BY <1>1, <1>2, <2>1, <3>1, <3>3, <4>1, CanStartBefore
      <3>4. QED
        BY <3>2, <3>3
    <2> HIDE DEF k
    <2>5. CanContinue(Plan(r), step[r], View(r))'
      BY <1>5, <2>2, <2>3, <2>4 DEF CanContinue
    <2>6. QED
      BY <1>5, <2>5 DEF Ready
  <1>8. QED
    BY <1>4, <1>6, <1>7

LEMMA ReadyAfterStatement ==
  ASSUME Undisturbed, NEW r \in Runs, Execute(r)
  PROVE  /\ Frame(r) /\ UNCHANGED <<catalog, overtaken>>
         /\ r \notin overtaken => pc'[r] # "failed" /\ Ready(r)'
  <1>1. Inv
    BY DEF Undisturbed
  <1>2. pc[r] = "run" /\ step[r] <= Len(Plan(r)) /\ UNCHANGED <<catalog, overtaken>>
    BY DEF Execute
  <1>3. Advances(r) \/ (Ends(r) /\ ~Possible(View(r), Statement(r)))
    <2>1. CASE Resolves(r, Statement(r)) /\ ~InUse(r, Statement(r))
      <3>1. Possible(View(r), Statement(r))
        BY <2>1, InTermsOfPlans
      <3>2. QED
        BY <2>1, <3>1 DEF Execute, Advances
    <2>2. CASE ~(Resolves(r, Statement(r)) /\ ~InUse(r, Statement(r)))
      <3>1. ~Possible(View(r), Statement(r))
        BY <2>2, InTermsOfPlans
      <3>2. Ends(r)
        BY <2>2 DEF Execute, Ends, Ended
      <3>3. QED
        BY <3>1, <3>2
    <2>3. QED
      BY <2>1, <2>2
  <1>4. Frame(r)
    BY <1>1, <1>3, FrameKept
  <1>5. ASSUME r \notin overtaken PROVE pc'[r] # "failed" /\ Ready(r)'
    <2>1. CanContinue(Plan(r), step[r], View(r))
      BY <1>2, <1>5 DEF Undisturbed, Ready
    <2>2. /\ Plan(r) \in Seq(StatementType) /\ step[r] \in 0..Len(Plan(r))
          /\ Statement(r) = StatementAt(Plan(r), step[r])
      BY <1>1, <1>2, AdvanceFacts
    <2>3. /\ Possible(View(r), Statement(r))
          /\ CanContinue(Plan(r), step[r] + 1, After(View(r), Statement(r)))
      BY <2>1, <2>2, Continues
    <2>4. Advances(r)
      BY <1>3, <2>3
    <2>5. /\ View(r)' = After(View(r), Statement(r)) /\ step'[r] = step[r] + 1 /\ Plan(r)' = Plan(r)
      BY <1>1, <2>4, SeesAfter
    <2>6. CanContinue(Plan(r), step[r], View(r))'
      BY <2>3, <2>5 DEF CanContinue
    <2>7. pc'[r] = "run"
      BY <1>2, <2>4 DEF Advances
    <2>8. QED
      BY <2>6, <2>7 DEF Ready
  <1>6. QED
    BY <1>2, <1>4, <1>5

(* A run that ends otherwise leaves the rest as it was, or overtakes it.   *)
LEMMA ReadyAfterEnd ==
  ASSUME Undisturbed, NEW r \in Runs, Finish(r) \/ Die(r), NEW q \in Runs \ overtaken'
  PROVE  pc'[q] # "failed" /\ Ready(q)'
  <1>1. Inv
    BY DEF Undisturbed
  <1>2. /\ \E outcome \in Ended : outcome # "failed" /\ End(r, outcome)
        /\ Ends(r)
        /\ UNCHANGED <<catalog, overtaken>> \/ Visible(r)
    <2>1. CASE Finish(r)
      BY <2>1 DEF Finish, Ends, Ended
    <2>2. CASE Die(r)
      BY <2>2 DEF Die, Ends, Ended
    <2>3. QED
      BY <2>1, <2>2
  <1>3. Frame(r) /\ pc'[r] \in Ended
    BY <1>1, <1>2, FrameKept, Leaves
  <1>4. CASE q = r
    <2>1. pc'[r] # "failed"
      BY <1>1, <1>2 DEF End, Inv, TypeOK
    <2>2. pc'[r] \notin {"ensure_table", "run"}
      BY <1>3 DEF Ended
    <2>3. QED
      BY <1>4, <2>1, <2>2 DEF Ready
  <1>5. CASE q # r /\ UNCHANGED <<catalog, overtaken>>
    BY <1>3, <1>5, OthersReady
  <1>6. CASE q # r /\ ~UNCHANGED <<catalog, overtaken>>
    <2>1. Visible(r)
      BY <1>2, <1>6
    <2>2. q \notin overtaken /\ pc[q] \notin {"ensure_table", "run"}
      BY <1>6, <2>1 DEF Visible
    <2>3. pc[q] # "failed" /\ pc'[q] = pc[q]
      BY <1>3, <1>6, <2>2 DEF Undisturbed, Frame
    <2>4. QED
      BY <2>2, <2>3 DEF Ready
  <1>7. QED
    BY <1>4, <1>5, <1>6

LEMMA UndisturbedStep == Undisturbed /\ [Next]_vars => Undisturbed'
  <1> SUFFICES ASSUME Undisturbed, [Next]_vars PROVE Undisturbed'
    OBVIOUS
  <1>1. Inv' /\ AllClean'
    BY InvStep, StaysClean DEF Undisturbed
  <1>2. ASSUME NEW q \in Runs \ overtaken'
        PROVE  pc'[q] # "failed" /\ Ready(q)'
    <2>1. ASSUME NEW r \in Runs, ReadVersion(r) PROVE pc'[q] # "failed" /\ Ready(q)'
      BY <2>1, ReadyAfterRead, OthersReady
    <2>2. ASSUME NEW r \in Runs, EnsureVersionTable(r) PROVE pc'[q] # "failed" /\ Ready(q)'
      BY <2>2, ReadyAfterEnsure, OthersReady
    <2>3. ASSUME NEW r \in Runs, Execute(r) PROVE pc'[q] # "failed" /\ Ready(q)'
      BY <2>3, ReadyAfterStatement, OthersReady
    <2>4. ASSUME NEW r \in Runs, Finish(r) \/ Die(r) PROVE pc'[q] # "failed" /\ Ready(q)'
      BY <2>4, ReadyAfterEnd
    <2>5. CASE UNCHANGED vars
      <3>1. Plan(q)' = Plan(q)
        BY Zenon, <2>5 DEF vars, Plan
      <3>2. View(q)' = View(q)
        BY <2>5 DEF vars, View
      <3>3. Whole(catalog, 0)' <=> Whole(catalog, 0)
        BY <2>5 DEF vars, Whole, TablesOf, Records
      <3>4. CanContinue(Plan(q), step[q], View(q))' <=> CanContinue(Plan(q), step[q], View(q))
        BY <2>5, <3>1, <3>2 DEF vars, CanContinue
      <3>5. Ready(q)' <=> Ready(q)
        BY <2>5, <3>3, <3>4 DEF vars, Ready
      <3>6. QED
        BY <2>5, <3>5 DEF vars, Undisturbed
    <2>6. QED
      BY <2>1, <2>2, <2>3, <2>4, <2>5 DEF Next, Run, AllEnded
  <1>3. QED
    BY <1>1, <1>2 DEF Undisturbed

LEMMA UndisturbedInit == Init => Undisturbed
  <1> SUFFICES ASSUME Init PROVE Undisturbed
    OBVIOUS
  <1>1. Inv
    BY InvInit
  <1>2. Clean(catalog)
    <2>1. CASE catalog = {}
      BY <2>1 DEF Clean
    <2>2. ASSUME NEW v \in 1..2,
                 catalog = Schemas[v + 1] \cup {Table("alembic_version"), VersionRow(v)}
          PROVE  Clean(catalog)
      <3>1. \A o \in Schemas[v + 1] : o[1] # "alembic_version"
        <4>1. "risk_assessments" \in Tables /\ "alembic_version" \notin Tables
          BY DEF Tables
        <4>2. v + 1 = 2 \/ v + 1 = 3
          OBVIOUS
        <4>3. QED
          BY <4>1, <4>2, SchemaUnion, SchemaTables
      <3>2. QED
        BY <2>2, <3>1, Kinds DEF Clean
    <2>3. QED
      BY <2>1, <2>2 DEF Init
  <1>3. \A r \in Runs : Clean(added[r])
    BY DEF Init, Clean
  <1>4. \A r \in Runs : pc[r] = "start"
    BY DEF Init
  <1>5. QED
    BY <1>1, <1>2, <1>3, <1>4 DEF Undisturbed, AllClean, Ready

LEMMA UndisturbedHolds == Spec => []Undisturbed
  BY UndisturbedInit, UndisturbedStep, PTL DEF Spec

(* Every plan can be executed from the version it is made for, so a run of *)
(* alembic fails only when another one has changed the catalog after it    *)
(* had read the version, whatever the order of their statements.           *)
THEOREM FailuresNeedRivals == Spec => []FailureNeedsRival
  <1>1. Undisturbed => FailureNeedsRival
    BY DEF Undisturbed, FailureNeedsRival
  <1>2. QED
    BY <1>1, UndisturbedHolds, PTL

-----------------------------------------------------------------------------
(* Locks are taken in an order. Nobody locks a table before the one its    *)
(* plan begins with, a downgrade locks no other until it drops that one,   *)
(* and then it also locks what the table refers to, the transactions.      *)

First(v) == IF v = 1 THEN "alerts" ELSE "risk_assessments"

LockOrder(c, v, k, objects, new, gone, locks) ==
  /\ k = 0 => v = 0 /\ locks = {}
  /\ k = 1 => /\ locks \subseteq {"alembic_version"}
              /\ locks # {} => v = 0 /\ Table("alembic_version") \notin objects
  /\ v = 0 /\ k >= 1 => Table("alembic_version") \in objects \cup new
  /\ Table("alembic_version") \notin gone
  /\ c = Down /\ v # 0 /\ k <= 4 => locks \subseteq {First(v)} /\ \A o \in gone : ~IsReference(o)
  /\ c = Down /\ k >= 5 => "transactions" \in locks

Ordered(r) ==
  LockOrder(command[r], found[r], step[r], catalog, added[r], removed[r], held[r])

Orderly ==
  /\ Inv
  /\ AllClean
  /\ Records(catalog, 0) \/ Table("alembic_version") \in catalog
  /\ \A r \in Runs : /\ pc[r] = "ensure_table" => found[r] = 0
                     /\ pc[r] = "run" => Ordered(r)

(* How a downgrade begins.                                                 *)
BeginsDropping(p, t) ==
  /\ p \in Seq(StatementType) /\ Len(p) >= 4
  /\ \A i \in 1..3 : p[i].adds = {} /\ \E column : p[i].removes = {Index(t, column)}
  /\ p[4].adds = {} /\ p[4].removes = {Table(t)}

LEMMA DropsFirst ==
  ASSUME NEW t \in Names, NEW columns \in Seq(Names), Len(columns) = 3
  PROVE  BeginsDropping(DropTable(t, columns), t)
  <1> DEFINE p == DropTable(t, columns)
  <1>1. /\ Len(p) = 3 + 1
        /\ \A i \in 1..3 : p[i].adds = {} /\ p[i].removes = {Index(t, columns[i])}
        /\ p[3 + 1].adds = {} /\ p[3 + 1].removes = {Table(t)}
    BY DropStatements
  <1>2. p \in Seq(StatementType)
    <2>1. Len(columns) > 0
      OBVIOUS
    <2>2. QED
      BY <2>1, DropTableType
  <1> HIDE DEF p
  <1>3. 3 + 1 = 4
    OBVIOUS
  <1>4. BeginsDropping(p, t)
    BY <1>1, <1>2, <1>3 DEF BeginsDropping
  <1>5. QED
    BY <1>4 DEF p

LEMMA PrefixKept ==
  ASSUME NEW p \in Seq(StatementType), NEW q \in Seq(StatementType)
  PROVE  \A i \in 1..Len(p) : (p \o q)[i] = p[i]
  OBVIOUS

LEMMA StillDropsFirst ==
  ASSUME NEW p, NEW t, BeginsDropping(p, t), NEW q \in Seq(StatementType)
  PROVE  BeginsDropping(p \o q, t)
  <1>1. p \in Seq(StatementType) /\ Len(p) >= 4
    BY DEF BeginsDropping
  <1> DEFINE s == p \o q
  <1>2. \A i \in 1..Len(p) : s[i] = p[i]
    BY <1>1, PrefixKept
  <1>3. s \in Seq(StatementType) /\ Len(s) = Len(p) + Len(q)
    BY <1>1, Concatenation
  <1>4. Len(p) \in Nat /\ Len(q) \in Nat
    BY <1>1
  <1> HIDE DEF s
  <1>5. Len(s) >= 4 /\ s[4] = p[4] /\ \A i \in 1..3 : s[i] = p[i]
    BY <1>1, <1>2, <1>3, <1>4
  <1>6. BeginsDropping(s, t)
    BY <1>3, <1>5 DEF BeginsDropping
  <1>7. QED
    BY <1>6 DEF s

LEMMA DowngradesBegin ==
  ASSUME NEW v \in {1, 2}
  PROVE  BeginsDropping(PlanOf(Down, v), First(v))
  <1> DEFINE l1 == <<"is_resolved", "severity", "transaction_id">>
             l2 == <<"request_id", "action", "transaction_id">>
             l3 == <<"outcome", "score", "transaction_id">>
             l4 == <<"status", "occurred_at", "merchant_id", "account_id", "external_id">>
             l5 == <<"external_id">>
             l6 == <<"status", "external_id">>
             l7 == <<"decision", "risk_level", "transaction_id">>
             d1 == DropTable("alerts", l1)
             d2 == DropTable("transaction_audit_logs", l2)
             d3 == DropTable("risk_evaluations", l3)
             d4 == DropTable("transactions", l4)
             d5 == DropTable("merchants", l5)
             d6 == DropTable("accounts", l6)
             d7 == DropTable("risk_assessments", l7)
             u1 == SetVersion(1, 0)
             u2 == SetVersion(2, 1)
  <1>1. /\ DowngradeOne[2] = d1 \o d2 \o d3 \o d4 \o d5 \o d6 \o u1
        /\ DowngradeOne[3] = d7 \o u2
    BY DEF DowngradeOne, Downgrade0001, Downgrade0002
  <1>2. /\ l1 \in Seq(Names) /\ Len(l1) > 0 /\ l2 \in Seq(Names) /\ Len(l2) > 0
        /\ l3 \in Seq(Names) /\ Len(l3) > 0 /\ l4 \in Seq(Names) /\ Len(l4) > 0
        /\ l5 \in Seq(Names) /\ Len(l5) > 0 /\ l6 \in Seq(Names) /\ Len(l6) > 0
        /\ l7 \in Seq(Names) /\ Len(l7) > 0
    BY NameLists DEF Names, Columns
  <1>3. Len(l1) = 3 /\ Len(l7) = 3
    OBVIOUS
  <1>4. /\ "alerts" \in Names /\ "transaction_audit_logs" \in Names
        /\ "risk_evaluations" \in Names /\ "transactions" \in Names
        /\ "merchants" \in Names /\ "accounts" \in Names /\ "risk_assessments" \in Names
    BY DEF Names, Tables
  <1> HIDE DEF l1, l2, l3, l4, l5, l6, l7
  <1>5. /\ d2 \in Seq(StatementType) /\ d3 \in Seq(StatementType) /\ d4 \in Seq(StatementType)
        /\ d5 \in Seq(StatementType) /\ d6 \in Seq(StatementType)
    BY <1>2, <1>4, DropTableType
  <1>6. u1 \in Seq(StatementType) /\ u2 \in Seq(StatementType)
    <2>1. 0 \in 0..2 /\ 1 \in 0..2 /\ 2 \in 0..2
      OBVIOUS
    <2>2. QED
      BY <2>1, SetVersionType
  <1>7. BeginsDropping(d1, "alerts") /\ BeginsDropping(d7, "risk_assessments")
    BY <1>2, <1>3, <1>4, DropsFirst
  <1> HIDE DEF d1, d2, d3, d4, d5, d6, d7, u1, u2
  <1>8. BeginsDropping(d1 \o d2, "alerts")
    BY <1>5, <1>7, StillDropsFirst
  <1>9. BeginsDropping(d1 \o d2 \o d3, "alerts")
    BY <1>5, <1>8, StillDropsFirst
  <1>10. BeginsDropping(d1 \o d2 \o d3 \o d4, "alerts")
    BY <1>5, <1>9, StillDropsFirst
  <1>11. BeginsDropping(d1 \o d2 \o d3 \o d4 \o d5, "alerts")
    BY <1>5, <1>10, StillDropsFirst
  <1>12. BeginsDropping(d1 \o d2 \o d3 \o d4 \o d5 \o d6, "alerts")
    BY <1>5, <1>11, StillDropsFirst
  <1>13. BeginsDropping(d1 \o d2 \o d3 \o d4 \o d5 \o d6 \o u1, "alerts")
    BY <1>6, <1>12, StillDropsFirst
  <1>14. BeginsDropping(d7 \o u2, "risk_assessments")
    BY <1>6, <1>7, StillDropsFirst
  <1>15. v = 1 \/ v = 2
    OBVIOUS
  <1>16. First(1) = "alerts" /\ First(2) = "risk_assessments"
    BY DEF First
  <1>17. QED
    BY <1>1, <1>13, <1>14, <1>15, <1>16, PlanCases

(* No plan drops Alembic's own table.                                      *)
LEMMA VersionTableStays ==
  ASSUME NEW c \in Commands, NEW v \in 0..2
  PROVE  Table("alembic_version") \notin Removes(PlanOf(c, v))
  <1>1. "alembic_version" \notin Tables /\ "risk_assessments" \in Tables
    BY DEF Tables
  <1>2. Removes(<< >>) = {}
    BY DEF Removes
  <1>3. \A p \in {UpgradeHead[1], UpgradeHead[2], DowngradeOne[2], DowngradeOne[3], << >>} :
          Table("alembic_version") \notin Removes(p)
    BY <1>1, <1>2, UpgradePlans, DowngradePlans, VersionRows
  <1>4. c = Up \/ c = Down
    BY CommandNames
  <1>5. v = 0 \/ v = 1 \/ v = 2
    OBVIOUS
  <1>6. QED
    BY <1>3, <1>4, <1>5, PlanCases

(* What a downgrade drops first refers to the transactions.                *)
LEMMA FirstRefers ==
  ASSUME NEW v \in {1, 2}, NEW w \in {1, 2}, v <= w, NEW objects, Whole(objects, w)
  PROVE  References(First(v), "transactions") \in objects
  <1>1. /\ "alerts" \in Tables \ {"transactions"} /\ "risk_assessments" \in Tables \ {"transactions"}
        /\ "alerts" \in Tables \ {"risk_assessments"}
    BY DEF Tables
  <1>2. /\ References("alerts", "transactions") \in SchemaObjects("alerts")
        /\ References("risk_assessments", "transactions") \in SchemaObjects("risk_assessments")
    BY <1>1, SchemaTables, ModelTables
  <1>3. /\ References("alerts", "transactions") \in Schemas[2]
        /\ References("alerts", "transactions") \in Schemas[3]
        /\ References("risk_assessments", "transactions") \in Schemas[3]
    BY <1>1, <1>2, SchemaUnion
  <1>4. TablesOf(objects) = Schemas[w + 1]
    BY DEF Whole
  <1>5. 1 + 1 = 2 /\ 2 + 1 = 3 /\ (v = 1 \/ v = 2) /\ (w = 1 \/ w = 2) /\ (v = 2 => w = 2)
    OBVIOUS
  <1>6. First(1) = "alerts" /\ First(2) = "risk_assessments"
    BY DEF First
  <1>7. References(First(v), "transactions") \in TablesOf(objects)
    BY <1>3, <1>4, <1>5, <1>6
  <1>8. QED
    BY <1>7 DEF TablesOf

(* A statement takes its locks in the order.                               *)
LEMMA ExecutedInOrder ==
  ASSUME NEW c \in Commands, NEW v \in 0..2, NEW k \in 0..Len(PlanOf(c, v)),
         NEW objects, NEW new, NEW gone, NEW locks,
         Consistent(c, v, k, objects, new, gone, locks),
         LockOrder(c, v, k, objects, new, gone, locks),
         Possible(Seen(objects, new, gone), StatementAt(PlanOf(c, v), k))
  PROVE  LET s == StatementAt(PlanOf(c, v), k)
             seen == Seen(objects, new, gone)
             d == DroppedBy(seen, s)
         IN  LockOrder(c, v, k + 1, objects, (new \ d) \cup s.adds,
                       gone \cup (d \cap objects), locks \cup LockedBy(seen, s))
  <1> DEFINE p == PlanOf(c, v)
             s == StatementAt(p, k)
             seen == Seen(objects, new, gone)
             d == DroppedBy(seen, s)
             t == Table("alembic_version")
  <1>1. p \in Seq(StatementType) /\ Coherent(p) /\ t \notin Removes(p)
    BY Plans, VersionTableStays
  <1>2. /\ k = 0 => s.adds = {t} /\ s.removes = {}
        /\ k >= 1 => s = p[k]
        /\ s.removes \subseteq Removes(p)
    BY <1>1, StatementFacts
  <1>3. Possible(seen, s)
    OBVIOUS
  <1>4. k <= 1 => gone = {}
    BY DEF Consistent, Effects
  <1>5. t[1] = "alembic_version" /\ ~IsReference(t)
    BY ObjectParts, Kinds
  <1> HIDE DEF t
  <1>6. t \notin d
    BY <1>1, <1>2, <1>5 DEF DroppedBy, t
  <1> HIDE DEF s
  <1>7. k = 0 => LockedBy(seen, s) = {"alembic_version"} /\ v = 0 /\ locks = {} /\ t \notin objects
    <2> SUFFICES ASSUME k = 0
                 PROVE  /\ LockedBy(seen, s) = {"alembic_version"}
                        /\ v = 0 /\ locks = {} /\ t \notin objects
      OBVIOUS
    <2>1. s.adds = {t} /\ s.removes = {} /\ d = {}
      BY <1>2 DEF DroppedBy
    <2>2. LockedBy(seen, s) = {"alembic_version"}
      BY <1>5, <2>1 DEF LockedBy
    <2>3. t \notin seen /\ gone = {}
      BY <1>3, <1>4, <2>1 DEF Possible
    <2>4. t \notin objects
      BY <2>3 DEF Seen
    <2>5. QED
      BY <2>2, <2>4 DEF LockOrder
  <1>8. v = 0 => t \in objects \cup ((new \ d) \cup s.adds)
    <2>1. CASE k = 0
      BY <1>2, <2>1
    <2>2. CASE k # 0
      BY <1>6, <2>2 DEF LockOrder, t
    <2>3. QED
      BY <2>1, <2>2
  <1>9. t \notin gone \cup (d \cap objects)
    BY <1>6 DEF LockOrder, t
  <1>10. ASSUME c = Down, v # 0, k + 1 <= 4
         PROVE  /\ locks \cup LockedBy(seen, s) \subseteq {First(v)}
                /\ \A o \in gone \cup (d \cap objects) : ~IsReference(o)
    <2>1. k # 0
      BY <1>7, <1>10
    <2>2. k \in 1..3 /\ k <= 4 /\ k >= 1 /\ v \in {1, 2}
      BY <1>10, <2>1
    <2>3. BeginsDropping(p, First(v))
      BY <1>10, <2>2, DowngradesBegin
    <2>4. PICK column : s.adds = {} /\ s.removes = {Index(First(v), column)}
      BY <1>2, <2>2, <2>3 DEF BeginsDropping
    <2> DEFINE ix == Index(First(v), column)
    <2>5. ix[1] = First(v) /\ ~IsReference(ix) /\ \A u : ix # Table(u)
      BY ObjectParts, Kinds
    <2> HIDE DEF ix
    <2>6. d \subseteq {ix}
      BY <2>4, <2>5 DEF DroppedBy, ix
    <2>7. LockedBy(seen, s) \subseteq {First(v)}
      BY <2>4, <2>5, <2>6 DEF LockedBy
    <2>8. locks \subseteq {First(v)} /\ \A o \in gone : ~IsReference(o)
      BY <1>10, <2>2 DEF LockOrder
    <2>9. QED
      BY <2>5, <2>6, <2>7, <2>8
  <1>11. ASSUME c = Down, k + 1 >= 5
         PROVE  "transactions" \in locks \cup LockedBy(seen, s)
    <2>1. CASE k >= 5
      BY <1>11, <2>1 DEF LockOrder
    <2>2. CASE k < 5
      <3>1. k = 4 /\ k >= 2 /\ k >= 1 /\ k <= 4
        BY <1>11, <2>2
      <3>2. v \in {1, 2}
        <4>1. CASE v = 0
          <5>1. p = << >>
            BY <1>11, <4>1, PlanCases
          <5>2. Len(p) = 0
            BY <5>1
          <5> HIDE DEF p
          <5>3. k \in 0..Len(p)
            BY DEF p
          <5>4. QED
            BY <3>1, <5>2, <5>3
        <4>2. QED
          BY <4>1
      <3>3. BeginsDropping(p, First(v))
        BY <1>11, <3>2, DowngradesBegin
      <3>4. s.removes = {Table(First(v))}
        BY <1>2, <3>1, <3>3 DEF BeginsDropping
      <3> DEFINE o == References(First(v), "transactions")
      <3>5. o[1] = First(v) /\ o[3] = "transactions" /\ IsReference(o)
        BY ObjectParts
      <3>6. o \in objects
        <4>1. Whole(objects, v) \/ (v = 1 /\ Whole(objects, 2))
          BY <3>1 DEF Consistent, Current, Early
        <4>2. v <= v /\ v <= 2 /\ 2 \in {1, 2}
          BY <3>2
        <4>3. QED
          BY <3>2, <4>1, <4>2, FirstRefers
      <3>7. o \notin gone
        <4>1. v # 0
          BY <3>2
        <4>2. QED
          BY <1>11, <3>1, <3>5, <4>1 DEF LockOrder
      <3> HIDE DEF o
      <3>8. o \in d
        BY <3>4, <3>5, <3>6, <3>7 DEF DroppedBy, Seen
      <3>9. QED
        BY <3>5, <3>8 DEF LockedBy
    <2>3. QED
      BY <2>1, <2>2
  <1>12. k + 1 # 0 /\ (k + 1 = 1 => k = 0) /\ k + 1 >= 1
    OBVIOUS
  <1> HIDE DEF seen, d, p
  <1>13. LockOrder(c, v, k + 1, objects, (new \ d) \cup s.adds,
                   gone \cup (d \cap objects), locks \cup LockedBy(seen, s))
    BY <1>7, <1>8, <1>9, <1>10, <1>11, <1>12 DEF LockOrder, t
  <1>14. QED
    BY <1>13 DEF seen, d, s, p

LEMMA OrderedStart ==
  ASSUME NEW c, NEW v \in 0..2, NEW k \in {0, 1}, NEW objects,
         k = 0 => v = 0, v = 0 /\ k = 1 => Table("alembic_version") \in objects
  PROVE  LockOrder(c, v, k, objects, {}, {}, {})
  <1>1. ~(k >= 5)
    OBVIOUS
  <1>2. v = 0 /\ k >= 1 => Table("alembic_version") \in objects
    OBVIOUS
  <1>3. QED
    BY <1>1, <1>2 DEF LockOrder

(* What another run publishes keeps the order.                             *)
LEMMA RivalOrder ==
  ASSUME NEW c, NEW v, NEW k, NEW objects, NEW later, NEW new, NEW gone, NEW locks,
         LockOrder(c, v, k, objects, new, gone, locks),
         \A o : o[1] \in locks => (o \in later <=> o \in objects),
         Table("alembic_version") \in objects => Table("alembic_version") \in later
  PROVE  LockOrder(c, v, k, later, new, gone, locks)
  <1> DEFINE t == Table("alembic_version")
  <1>1. t[1] = "alembic_version"
    BY ObjectParts
  <1> HIDE DEF t
  <1>2. ASSUME k = 1, locks # {} PROVE t \notin later
    <2>1. "alembic_version" \in locks /\ t \notin objects
      BY <1>2 DEF LockOrder, t
    <2>2. QED
      BY <1>1, <2>1
  <1>3. QED
    BY <1>2 DEF LockOrder, t

LEMMA OthersOrdered ==
  ASSUME Orderly, NEW r \in Runs, Frame(r), UNCHANGED catalog, NEW q \in Runs \ {r}
  PROVE  /\ pc'[q] = "ensure_table" => found'[q] = 0
         /\ pc'[q] = "run" => Ordered(q)'
  <1>1. /\ pc'[q] = pc[q] /\ found'[q] = found[q] /\ step'[q] = step[q] /\ command'[q] = command[q]
        /\ added'[q] = added[q] /\ removed'[q] = removed[q] /\ held'[q] = held[q]
        /\ catalog' = catalog
    BY DEF Frame
  <1>2. Ordered(q)' <=> Ordered(q)
    BY <1>1 DEF Ordered
  <1>3. QED
    BY <1>1, <1>2 DEF Orderly

LEMMA OrderAfterBegin ==
  ASSUME Orderly, NEW r \in Runs, ReadVersion(r) \/ EnsureVersionTable(r)
  PROVE  /\ Frame(r) /\ UNCHANGED catalog
         /\ pc'[r] = "ensure_table" => found'[r] = 0
         /\ pc'[r] = "run" => Ordered(r)'
  <1>1. Inv
    BY DEF Orderly
  <1>2. /\ DOMAIN pc = Runs /\ DOMAIN found = Runs /\ DOMAIN step = Runs
        /\ DOMAIN added = Runs /\ DOMAIN removed = Runs /\ DOMAIN held = Runs
        /\ found[r] \in 0..2
    BY <1>1 DEF Inv, TypeOK
  <1>3. added[r] = {} /\ removed[r] = {} /\ held[r] = {}
    BY <1>1 DEF ReadVersion, EnsureVersionTable, Inv, Idle
  <1>4. CASE ReadVersion(r)
    <2>1. step[r] = 1
      BY <1>1, <1>4 DEF ReadVersion, Inv, Idle, Ended
    <2> DEFINE v == Version(catalog)
    <2>2. v \in 0..2
      BY DEF Version
    <2> HIDE DEF v
    <2>3. /\ pc' = [pc EXCEPT ![r] = IF v = 0 THEN "ensure_table" ELSE "run"]
          /\ found' = [found EXCEPT ![r] = v]
          /\ UNCHANGED <<catalog, command, step, added, removed, held, overtaken, faults>>
      BY <1>4 DEF ReadVersion, v
    <2>4. /\ pc'[r] = (IF v = 0 THEN "ensure_table" ELSE "run") /\ found'[r] = v
          /\ step'[r] = 1 /\ added'[r] = {} /\ removed'[r] = {} /\ held'[r] = {}
          /\ catalog' = catalog /\ command'[r] = command[r]
      BY <1>2, <1>3, <2>1, <2>3
    <2>5. Frame(r)
      BY <1>2, <2>3 DEF Frame
    <2>6. v # 0 => LockOrder(command[r], v, 1, catalog, {}, {}, {})
      <3>1. 1 \in {0, 1}
        OBVIOUS
      <3>2. QED
        BY <2>2, <3>1, OrderedStart
    <2>7. v # 0 => Ordered(r)'
      BY <2>4, <2>6 DEF Ordered
    <2>8. QED
      BY <2>4, <2>5, <2>7
  <1>5. CASE EnsureVersionTable(r)
    <2> DEFINE k == IF Table("alembic_version") \in catalog THEN 1 ELSE 0
    <2>1. k \in {0, 1} /\ (k = 1 => Table("alembic_version") \in catalog)
      OBVIOUS
    <2>2. /\ pc[r] = "ensure_table" /\ pc' = [pc EXCEPT ![r] = "run"]
          /\ step' = [step EXCEPT ![r] = k]
          /\ UNCHANGED <<catalog, command, found, added, removed, held, overtaken, faults>>
      BY <1>5 DEF EnsureVersionTable
    <2> HIDE DEF k
    <2>3. found[r] = 0
      BY <2>2 DEF Orderly
    <2>4. /\ pc'[r] = "run" /\ found'[r] = 0
          /\ step'[r] = k /\ added'[r] = {} /\ removed'[r] = {} /\ held'[r] = {}
          /\ catalog' = catalog /\ command'[r] = command[r]
      BY <1>2, <1>3, <2>2, <2>3
    <2>5. Frame(r)
      BY <1>2, <2>2 DEF Frame
    <2>6. LockOrder(command[r], 0, k, catalog, {}, {}, {})
      <3>1. 0 \in 0..2
        OBVIOUS
      <3>2. QED
        BY <2>1, <3>1, OrderedStart
    <2>7. Ordered(r)'
      BY <2>4, <2>6 DEF Ordered
    <2>8. QED
      BY <2>4, <2>5, <2>7
  <1>6. QED
    BY <1>4, <1>5

LEMMA OrderAfterStatement ==
  ASSUME Orderly, NEW r \in Runs, Advances(r)
  PROVE  Ordered(r)'
  <1>1. Inv /\ pc[r] = "run"
    BY DEF Orderly, Advances
  <1>2. PICK c, v, k, objects, new, gone, locks :
          /\ c = command[r] /\ v = found[r] /\ k = step[r] /\ objects = catalog
          /\ new = added[r] /\ gone = removed[r] /\ locks = held[r]
    OBVIOUS
  <1> DEFINE p == PlanOf(c, v)
             s == StatementAt(p, k)
             seen == Seen(objects, new, gone)
             d == DroppedBy(seen, s)
  <1>3. Plan(r) = p /\ Statement(r) = s /\ View(r) = seen
    BY <1>2, InTermsOfPlans
  <1>4. Dropped(r, s) = d /\ Locks(r, s) = LockedBy(seen, s)
    BY <1>3, InTermsOfPlans
  <1>5. k \in 0..Len(p)
    <2>1. step[r] \in 0..Len(Plan(r))
      BY <1>1, AdvanceFacts DEF Advances
    <2>2. QED
      BY <1>2, <1>3, <2>1
  <1>6. Possible(seen, s)
    BY <1>3 DEF Advances
  <1>7. Consistent(c, v, k, objects, new, gone, locks)
    BY <1>1, <1>2 DEF Inv, Working
  <1>8. LockOrder(c, v, k, objects, new, gone, locks)
    BY <1>1, <1>2 DEF Orderly, Ordered
  <1>9. c \in Commands /\ v \in 0..2
    BY <1>1, <1>2 DEF Inv, TypeOK
  <1>10. LockOrder(c, v, k + 1, objects, (new \ d) \cup s.adds,
                   gone \cup (d \cap objects), locks \cup LockedBy(seen, s))
    BY <1>5, <1>6, <1>7, <1>8, <1>9, ExecutedInOrder
  <1> HIDE DEF p, s, seen, d
  <1>11. DOMAIN step = Runs /\ DOMAIN added = Runs /\ DOMAIN removed = Runs /\ DOMAIN held = Runs
    BY <1>1 DEF Inv
  <1>12. /\ step'[r] = k + 1 /\ added'[r] = (new \ d) \cup s.adds
         /\ removed'[r] = gone \cup (d \cap objects) /\ held'[r] = locks \cup LockedBy(seen, s)
    BY <1>2, <1>3, <1>4, <1>11 DEF Advances
  <1>13. UNCHANGED <<catalog, command, found>>
    BY DEF Advances
  <1>14. QED
    BY <1>2, <1>10, <1>12, <1>13 DEF Ordered

(* A run that publishes leaves a catalog with Alembic's own table, unless  *)
(* it is one without a version.                                            *)
LEMMA PublishedVersionTable ==
  ASSUME Orderly, NEW r \in Runs, Publishes(r)
  PROVE  /\ catalog' = View(r)
         /\ Table("alembic_version") \in catalog => Table("alembic_version") \in catalog'
         /\ Records(catalog', 0) \/ Table("alembic_version") \in catalog'
  <1> DEFINE t == Table("alembic_version")
  <1>1. Inv /\ pc[r] = "run" /\ catalog' = View(r) /\ step[r] > Len(Plan(r))
    BY DEF Orderly, Publishes, Visible
  <1>2. PICK c, v, k, objects, new, gone, locks :
          /\ c = command[r] /\ v = found[r] /\ k = step[r] /\ objects = catalog
          /\ new = added[r] /\ gone = removed[r] /\ locks = held[r]
    OBVIOUS
  <1>3. c \in Commands /\ v \in 0..2
    BY <1>1, <1>2 DEF Inv, TypeOK
  <1>4. Plan(r) = PlanOf(c, v) /\ View(r) = Seen(objects, new, gone)
    BY <1>2, InTermsOfPlans
  <1>5. k \in 0..(Len(PlanOf(c, v)) + 1) /\ k > Len(PlanOf(c, v))
    BY <1>1, <1>2, <1>4 DEF Inv, TypeOK
  <1>6. Len(PlanOf(c, v)) \in Nat
    BY <1>3, PlanLength
  <1>7. Consistent(c, v, k, objects, new, gone, locks)
    BY <1>1, <1>2 DEF Inv, Working
  <1>8. LockOrder(c, v, k, objects, new, gone, locks)
    BY <1>1, <1>2 DEF Orderly, Ordered
  <1>9. PICK w \in 0..2 : Whole(objects, w)
    BY <1>1, <1>2 DEF Inv
  <1> DEFINE later == Seen(objects, new, gone)
  <1>10. t \in objects => t \in later
    BY <1>8 DEF LockOrder, Seen
  <1>11. Records(later, 0) \/ t \in later
    <2>1. CASE t \in objects
      BY <1>10, <2>1
    <2>2. CASE t \notin objects
      <3>1. Records(objects, 0)
        BY <1>2, <2>2 DEF Orderly
      <3>2. w = 0
        BY <1>9, <3>1 DEF Whole, Records
      <3>3. CASE PlanOf(c, v) = << >>
        <4>1. k \in {0, 1}
          <5>1. Len(<< >>) = 0
            OBVIOUS
          <5>2. QED
            BY <1>5, <3>3, <5>1
        <4>2. Whole(later, w)
          BY <1>3, <1>7, <1>9, <3>3, <4>1, FinishedEmpty
        <4>3. QED
          BY <3>2, <4>2 DEF Whole
      <3>4. CASE PlanOf(c, v) # << >>
        <4>1. k = Len(PlanOf(c, v)) + 1 /\ k \in Nat
          BY <1>5, <1>6
        <4>2. Whole(objects, v)
          BY <1>3, <1>7, <3>4, <4>1, FinishedTables
        <4>3. v = 0
          BY <1>3, <1>9, <3>2, <4>2, OneVersion
        <4>4. k >= 1
          BY <1>6, <4>1
        <4>5. t \in objects \cup new
          BY <1>8, <4>3, <4>4 DEF LockOrder
        <4>6. QED
          BY <2>2, <4>5 DEF Seen
      <3>5. QED
        BY <3>3, <3>4
    <2>3. QED
      BY <2>1, <2>2
  <1>12. QED
    BY <1>1, <1>2, <1>4, <1>10, <1>11

LEMMA OrderAfterEnd ==
  ASSUME Orderly, NEW r \in Runs, Quits(r) \/ Publishes(r), NEW q \in Runs
  PROVE  /\ pc'[q] = "ensure_table" => found'[q] = 0
         /\ pc'[q] = "run" => Ordered(q)'
  <1>1. Inv /\ Ends(r)
    BY DEF Orderly, Quits, Publishes
  <1>2. Frame(r) /\ pc'[r] \in Ended
    BY <1>1, FrameKept, Leaves
  <1>3. CASE q = r
    BY <1>2, <1>3 DEF Ended
  <1>4. CASE q # r /\ Quits(r)
    BY <1>2, <1>4, OthersOrdered DEF Quits
  <1>5. CASE q # r /\ Publishes(r)
    <2>1. /\ pc'[q] = pc[q] /\ found'[q] = found[q] /\ step'[q] = step[q]
          /\ command'[q] = command[q]
          /\ added'[q] = added[q] /\ removed'[q] = removed[q] /\ held'[q] = held[q]
      BY <1>2, <1>5 DEF Frame
    <2>2. ASSUME pc[q] = "run" PROVE Ordered(q)'
      <3>1. LockOrder(command[q], found[q], step[q], catalog, added[q], removed[q], held[q])
        BY <2>2 DEF Orderly, Ordered
      <3>2. /\ catalog' = (catalog \ removed[r]) \cup added[r]
            /\ Table("alembic_version") \in catalog => Table("alembic_version") \in catalog'
        BY <1>5, PublishedVersionTable DEF View
      <3>3. \A o \in added[r] \cup removed[r] : o[1] \in held[r]
        BY <1>1, <1>5 DEF Publishes, Inv, Working, Consistent, Covered
      <3>4. held[r] \cap held[q] = {}
        BY <1>1, <1>5 DEF Inv, TypeOK
      <3>5. \A o : o[1] \in held[q] => (o \in catalog' <=> o \in catalog)
        BY <3>2, <3>3, <3>4
      <3>6. LockOrder(command[q], found[q], step[q], catalog', added[q], removed[q], held[q])
        BY <3>1, <3>2, <3>5, RivalOrder
      <3>7. QED
        BY <2>1, <3>6 DEF Ordered
    <2>3. QED
      BY <2>1, <2>2 DEF Orderly
  <1>6. QED
    BY <1>3, <1>4, <1>5

LEMMA OrderlyStep == Orderly /\ [Next]_vars => Orderly'
  <1> SUFFICES ASSUME Orderly, [Next]_vars PROVE Orderly'
    OBVIOUS
  <1> DEFINE Fine(q) == /\ pc[q] = "ensure_table" => found[q] = 0
                        /\ pc[q] = "run" => Ordered(q)
             Known == Records(catalog, 0) \/ Table("alembic_version") \in catalog
  <1>1. Inv /\ Inv' /\ AllClean'
    BY InvStep, StaysClean DEF Orderly
  <1>2. ASSUME UNCHANGED catalog PROVE Known'
    BY <1>2 DEF Orderly, Records
  <1>3. ASSUME NEW r \in Runs, ReadVersion(r) \/ EnsureVersionTable(r)
        PROVE  Known' /\ \A q \in Runs : Fine(q)'
    <2>1. Frame(r) /\ UNCHANGED catalog /\ Fine(r)'
      BY <1>3, OrderAfterBegin
    <2>2. \A q \in Runs \ {r} : Fine(q)'
      BY <2>1, OthersOrdered
    <2> HIDE DEF Known, Fine
    <2>3. QED
      BY <1>2, <2>1, <2>2
  <1>4. ASSUME NEW r \in Runs, Advances(r)
        PROVE  Known' /\ \A q \in Runs : Fine(q)'
    <2>1. Frame(r) /\ UNCHANGED catalog /\ pc'[r] = "run"
      BY <1>1, <1>4, FrameKept DEF Advances
    <2>2. Fine(r)'
      BY <1>4, <2>1, OrderAfterStatement
    <2>3. \A q \in Runs \ {r} : Fine(q)'
      BY <2>1, OthersOrdered
    <2> HIDE DEF Known, Fine
    <2>4. QED
      BY <1>2, <2>1, <2>2, <2>3
  <1>5. ASSUME NEW r \in Runs, Quits(r) \/ Publishes(r)
        PROVE  Known' /\ \A q \in Runs : Fine(q)'
    <2>1. \A q \in Runs : Fine(q)'
      BY <1>5, OrderAfterEnd
    <2>2. CASE Quits(r)
      BY <1>2, <2>1, <2>2 DEF Quits
    <2>3. CASE Publishes(r)
      <3>1. Records(catalog', 0) \/ Table("alembic_version") \in catalog'
        BY <2>3, PublishedVersionTable
      <3>2. Known'
        BY <3>1 DEF Records
      <3> HIDE DEF Known, Fine
      <3>3. QED
        BY <2>1, <3>2
    <2>4. QED
      BY <1>5, <2>2, <2>3
  <1>6. CASE UNCHANGED vars
    <2>1. Known'
      BY <1>2, <1>6 DEF vars
    <2>2. \A q \in Runs : Ordered(q)' <=> Ordered(q)
      BY <1>6 DEF vars, Ordered
    <2>3. \A q \in Runs : Fine(q)'
      BY <1>6, <2>2 DEF vars, Orderly
    <2>4. QED
      BY <1>1, <2>1, <2>3 DEF Orderly
  <1>7. CASE Next
    <2>1. ASSUME NEW r \in Runs, Execute(r)
          PROVE  Advances(r) \/ Quits(r)
      <3>1. CASE Resolves(r, Statement(r)) /\ ~InUse(r, Statement(r))
        <4>1. Possible(View(r), Statement(r))
          BY <3>1, InTermsOfPlans
        <4>2. QED
          BY <2>1, <3>1, <4>1 DEF Execute, Advances
      <3>2. CASE ~(Resolves(r, Statement(r)) /\ ~InUse(r, Statement(r)))
        BY <2>1, <3>2 DEF Execute, Quits, Ends, Ended
      <3>3. QED
        BY <3>1, <3>2
    <2>2. ASSUME NEW r \in Runs, Finish(r) \/ Die(r)
          PROVE  Quits(r) \/ Publishes(r)
      <3>1. CASE Finish(r)
        BY <3>1 DEF Finish, Quits, Publishes, Ends, Ended
      <3>2. CASE Die(r)
        BY <3>2 DEF Die, Quits, Publishes, Ends, Ended
      <3>3. QED
        BY <2>2, <3>1, <3>2
    <2>3. \/ \E r \in Runs : \/ ReadVersion(r) \/ EnsureVersionTable(r)
                             \/ Advances(r) \/ Quits(r) \/ Publishes(r)
          \/ UNCHANGED vars
      BY <1>7, <2>1, <2>2 DEF Next, Run, AllEnded
    <2> HIDE DEF Fine, Known
    <2>4. (Known' /\ \A q \in Runs : Fine(q)') \/ UNCHANGED vars
      BY <1>3, <1>4, <1>5, <2>3
    <2>5. Known' /\ (\A q \in Runs : Fine(q)') => Orderly'
      BY <1>1 DEF Orderly, Fine, Known
    <2>6. QED
      BY <1>6, <2>4, <2>5
  <1>8. QED
    BY <1>6, <1>7

LEMMA OrderlyInit == Init => Orderly
  <1> SUFFICES ASSUME Init PROVE Orderly
    OBVIOUS
  <1>1. Inv /\ AllClean
    BY InvInit, UndisturbedInit DEF Undisturbed
  <1>2. Records(catalog, 0) \/ Table("alembic_version") \in catalog
    BY DEF Init, Records
  <1>3. \A r \in Runs : pc[r] = "start"
    BY DEF Init
  <1>4. QED
    BY <1>1, <1>2, <1>3 DEF Orderly

LEMMA OrderlyHolds == Spec => []Orderly
  BY OrderlyInit, OrderlyStep, PTL DEF Spec

-----------------------------------------------------------------------------
(* Who can hold locks, and what a statement can wait for.                  *)

LEMMA Holders ==
  ASSUME NEW c \in Commands, NEW v \in 0..2, NEW k \in 0..(Len(PlanOf(c, v)) + 1),
         NEW objects, NEW new, NEW gone, NEW locks, locks # {},
         Consistent(c, v, k, objects, new, gone, locks),
         LockOrder(c, v, k, objects, new, gone, locks),
         NEW w \in 0..2, Whole(objects, w),
         Records(objects, 0) \/ Table("alembic_version") \in objects
  PROVE  /\ w = 0 => \/ /\ "alembic_version" \in locks
                        /\ Table("alembic_version") \notin objects
                     \/ /\ "accounts" \in locks
                        /\ "alembic_version" \in locks \/ Table("alembic_version") \in objects
         /\ w = 1 => \/ c = Up /\ v = 1 /\ "transactions" \in locks
                     \/ c = Down /\ v = 1 /\ "alerts" \in locks
         /\ w = 2 => \/ c = Down /\ v = 2 /\ "risk_assessments" \in locks
                     \/ c = Down /\ v = 1 /\ "alerts" \in locks
  <1> DEFINE p == PlanOf(c, v)
             t == Table("alembic_version")
  <1>1. p \in Seq(StatementType) /\ Len(p) \in Nat
    BY Plans, PlanLength
  <1>2. k = 0 \/ k = 1 \/ k >= 2
    OBVIOUS
  <1>3. CASE k = 0
    BY <1>3 DEF LockOrder
  <1>4. CASE k = 1
    <2>1. t \notin objects /\ "alembic_version" \in locks
      BY <1>4 DEF LockOrder
    <2>2. Records(objects, 0)
      BY <2>1
    <2>3. w = 0
      BY <2>2 DEF Whole, Records
    <2>4. QED
      BY <2>1, <2>3
  <1>5. CASE k >= 2
    <2>1. Whole(objects, v) \/ (c = Down /\ v = 1 /\ Whole(objects, 2))
      BY <1>5 DEF Consistent, Current, Early
    <2>2. w = v \/ (c = Down /\ v = 1 /\ w = 2)
      <3>1. 2 \in 0..2
        OBVIOUS
      <3>2. QED
        BY <2>1, <3>1, OneVersion
    <2>3. p # << >>
      <3>1. ASSUME p = << >> PROVE FALSE
        <4>1. Len(p) = 0
          BY <3>1
        <4> HIDE DEF p
        <4>2. k \in 0..(Len(p) + 1)
          BY DEF p
        <4>3. QED
          BY <1>5, <4>1, <4>2
      <3>2. QED
        BY <3>1
    <2>4. /\ ~(c = Up /\ v = 2) /\ ~(c = Down /\ v = 0)
      BY <2>3, PlanCases
    <2>5. p[1] \in DoneOf(p, k)
      BY <1>1, <1>5, DoneFacts
    <2>6. /\ \A o \in new : o[1] \in locks
          /\ \A o \in p[1].adds \cup p[1].removes : o[1] \in locks
          /\ \A o \in p[1].adds : IsReference(o) => o[3] \in locks
      BY <2>5 DEF Consistent, Covered
    <2>7. c = Up \/ c = Down
      BY CommandNames
    <2>8. Up # Down
      BY CommandNames
    <2>9. c = Up /\ v = 0 => /\ "accounts" \in locks
                             /\ "alembic_version" \in locks \/ t \in objects
      <3> SUFFICES ASSUME c = Up, v = 0
                   PROVE  "accounts" \in locks /\ ("alembic_version" \in locks \/ t \in objects)
        OBVIOUS
      <3>1. Table("accounts") \in p[1].adds
        BY UpgradePlans, PlanCases
      <3>2. "accounts" \in locks
        BY <2>6, <3>1, ObjectParts
      <3>3. t \in objects \cup new
        BY <1>5 DEF LockOrder
      <3>4. t \in new => "alembic_version" \in locks
        BY <2>6, ObjectParts
      <3>5. QED
        BY <3>2, <3>3, <3>4
    <2>10. c = Up /\ v = 1 => "transactions" \in locks
      <3> SUFFICES ASSUME c = Up, v = 1 PROVE "transactions" \in locks
        OBVIOUS
      <3>1. References("risk_assessments", "transactions") \in p[1].adds
        BY UpgradePlans, PlanCases
      <3>2. QED
        BY <2>6, <3>1, ObjectParts
    <2>11. c = Down /\ v = 1 => "alerts" \in locks
      <3> SUFFICES ASSUME c = Down, v = 1 PROVE "alerts" \in locks
        OBVIOUS
      <3>1. Index("alerts", "is_resolved") \in p[1].removes
        BY DowngradePlans, PlanCases
      <3>2. QED
        BY <2>6, <3>1, ObjectParts
    <2>12. c = Down /\ v = 2 => "risk_assessments" \in locks
      <3> SUFFICES ASSUME c = Down, v = 2 PROVE "risk_assessments" \in locks
        OBVIOUS
      <3>1. Index("risk_assessments", "decision") \in p[1].removes
        BY DowngradePlans, PlanCases
      <3>2. QED
        BY <2>6, <3>1, ObjectParts
    <2> HIDE DEF p, t
    <2>13. QED
      BY <2>2, <2>4, <2>7, <2>8, <2>9, <2>10, <2>11, <2>12 DEF t
  <1>6. QED
    BY <1>2, <1>3, <1>4, <1>5

(* No foreign key of the schema refers to the table a downgrade begins     *)
(* with.                                                                   *)
Targets == {"accounts", "merchants", "transactions"}

LEMMA SchemaTargets ==
  /\ \A o \in Schemas[1] \cup Schemas[2] \cup Schemas[3] : IsReference(o) => o[3] \in Targets
  /\ \A o \in SchemaObjects("risk_assessments") : IsReference(o) => o[3] \in Targets
  <1>1. \A u \in Tables : \A o \in SchemaObjects(u) : IsReference(o) => o[3] \in Targets
    BY SchemaReferences DEF Targets
  <1>2. "risk_assessments" \in Tables
    BY DEF Tables
  <1>3. \A o \in Schemas[2] : IsReference(o) => o[3] \in Targets
    <2>1. \A o \in Schemas[2] : \E u \in Tables : o \in SchemaObjects(u)
      BY SchemaUnion
    <2>2. QED
      BY <1>1, <2>1
  <1>4. QED
    BY <1>1, <1>2, <1>3, SchemaUnion

LEMMA PlanTargets ==
  ASSUME NEW c \in Commands, NEW v \in 0..2
  PROVE  \A o \in Adds(PlanOf(c, v)) : IsReference(o) => o[3] \in Targets
  <1>1. \A w \in {1, 2} : ~IsReference(VersionRow(w))
    BY Kinds
  <1>2. Adds(<< >>) = {}
    BY DEF Adds
  <1>3. \A p \in {UpgradeHead[1], UpgradeHead[2], DowngradeOne[2], DowngradeOne[3], << >>} :
          \A o \in Adds(p) : IsReference(o) => o[3] \in Targets
    BY <1>1, <1>2, SchemaTargets, UpgradePlans, DowngradePlans
  <1>4. c = Up \/ c = Down
    BY CommandNames
  <1>5. v = 0 \/ v = 1 \/ v = 2
    OBVIOUS
  <1>6. QED
    BY <1>3, <1>4, <1>5, PlanCases

LEMMA LockScope ==
  ASSUME NEW c \in Commands, NEW v \in 0..2, NEW k \in 0..Len(PlanOf(c, v)),
         NEW objects, NEW new, NEW gone, NEW w \in 0..2, Whole(objects, w), Clean(objects),
         Effects(PlanOf(c, v), k, objects, new, gone)
  PROVE  LET locks == LockedBy(Seen(objects, new, gone), StatementAt(PlanOf(c, v), k)) IN
         /\ c = Up /\ v = 1 => "alerts" \notin locks
         /\ c = Down /\ v = 2 => "alerts" \notin locks
         /\ c = Down /\ v = 1 => "risk_assessments" \notin locks
  <1> DEFINE p == PlanOf(c, v)
             s == StatementAt(p, k)
             seen == Seen(objects, new, gone)
             d == DroppedBy(seen, s)
             t == Table("alembic_version")
  <1>1. p \in Seq(StatementType) /\ Coherent(p)
    BY Plans
  <1>2. /\ k = 0 => s.adds = {t} /\ s.removes = {}
        /\ k >= 1 => s.adds \subseteq Adds(p)
        /\ s.removes \subseteq Removes(p)
    BY <1>1, StatementFacts
  <1>3. t[1] = "alembic_version" /\ ~IsReference(t)
    BY ObjectParts, Kinds
  <1>4. \A o \in Adds(p) : IsReference(o) => o[3] \in Targets
    BY PlanTargets
  <1>5. \A x \in DoneOf(p, k) : x.adds \subseteq Adds(p)
    BY <1>1, StatementFacts
  <1> HIDE DEF s, t
  <1>6. \A o \in s.adds : o = t \/ o \in Adds(p)
    <2>1. k = 0 \/ k >= 1
      OBVIOUS
    <2>2. QED
      BY <1>2, <2>1
  <1>7. \A o \in seen : IsReference(o) => o[3] \in Targets
    <2>1. \A o \in objects : IsReference(o) => o[3] \in Targets
      <3>1. TablesOf(objects) = Schemas[w + 1]
        BY DEF Whole
      <3>2. w + 1 = 1 \/ w + 1 = 2 \/ w + 1 = 3
        OBVIOUS
      <3>3. \A o \in TablesOf(objects) : IsReference(o) => o[3] \in Targets
        BY <3>1, <3>2, SchemaTargets
      <3>4. QED
        BY <3>3 DEF TablesOf, Clean
    <2>2. \A o \in new : o = t \/ o \in Adds(p)
      BY <1>5 DEF Effects, t
    <2>3. QED
      BY <1>3, <1>4, <2>1, <2>2 DEF Seen
  <1>8. \A o \in s.adds \cup d : IsReference(o) => o[3] \in Targets
    BY <1>3, <1>4, <1>6, <1>7 DEF DroppedBy
  <1>9. "alerts" \notin Targets /\ "risk_assessments" \notin Targets
    BY DEF Targets
  <1>10. ASSUME NEW a, a \notin Targets, a # "alembic_version",
                \A o \in Adds(p) : o[1] # a, Table(a) \notin Removes(p), \A o \in Removes(p) : o[1] # a
         PROVE  a \notin LockedBy(seen, s)
    <2>1. \A o \in s.adds : o[1] # a
      BY <1>3, <1>6, <1>10
    <2>2. \A o \in d : o[1] # a
      BY <1>2, <1>10 DEF DroppedBy
    <2> HIDE DEF d
    <2>3. \A o \in s.adds \cup d : o[1] # a /\ (IsReference(o) => o[3] # a)
      BY <1>8, <1>10, <2>1, <2>2
    <2>4. QED
      BY <2>3 DEF LockedBy, d
  <1>11. /\ "risk_assessments" \in Tables /\ "alembic_version" \notin Tables
         /\ "alerts" \in Tables
    BY DEF Tables
  <1>12. \A r \in {VersionRow(1), VersionRow(2)} : r[1] = "alembic_version"
    BY VersionRows
  <1>13. ASSUME c = Up, v = 1 PROVE "alerts" \notin LockedBy(seen, s)
    <2>1. Adds(p) = SchemaObjects("risk_assessments") \cup {VersionRow(2)}
          /\ Removes(p) = {VersionRow(1)}
      BY <1>13, UpgradePlans, PlanCases
    <2>2. \A o \in SchemaObjects("risk_assessments") : o[1] = "risk_assessments"
      BY <1>11, SchemaTables
    <2>3. \A o \in Adds(p) : o[1] # "alerts"
      BY <1>12, <2>1, <2>2
    <2>4. Table("alerts") \notin Removes(p) /\ \A o \in Removes(p) : o[1] # "alerts"
      BY <1>12, <2>1, VersionRows
    <2> HIDE DEF p, seen
    <2>5. QED
      BY <1>9, <1>10, <2>3, <2>4
  <1>14. ASSUME c = Down, v = 2 PROVE "alerts" \notin LockedBy(seen, s)
    <2>1. /\ Adds(p) = {VersionRow(1)}
          /\ \A a : Table(a) \in Removes(p) <=> a = "risk_assessments"
      BY <1>14, DowngradePlans, PlanCases
    <2>2. \A o \in Removes(p) : o[1] = "alembic_version" \/ Table(o[1]) \in Removes(p)
      BY <1>1 DEF Coherent
    <2>3. \A o \in Adds(p) : o[1] # "alerts"
      BY <1>12, <2>1
    <2> HIDE DEF p, seen
    <2>4. QED
      BY <1>9, <1>10, <2>1, <2>2, <2>3
  <1>15. ASSUME c = Down, v = 1 PROVE "risk_assessments" \notin LockedBy(seen, s)
    <2>1. /\ Adds(p) = {}
          /\ \A a : Table(a) \in Removes(p) <=> a \in Tables \ {"risk_assessments"}
      BY <1>15, DowngradePlans, PlanCases
    <2>2. \A o \in Removes(p) : o[1] = "alembic_version" \/ Table(o[1]) \in Removes(p)
      BY <1>1 DEF Coherent
    <2> HIDE DEF p, seen
    <2>3. QED
      BY <1>9, <1>10, <2>1, <2>2
  <1>16. QED
    BY <1>13, <1>14, <1>15 DEF s

(* The one who holds the transactions, or anyone if nobody does, can go on *)
LEMMA NotHeldUp ==
  ASSUME Orderly, NEW q \in Runs, held[q] # {},
         "transactions" \in held[q] \/ \A y \in Runs : "transactions" \notin held[y]
  PROVE  pc[q] = "run" /\ ~Blocked(q)
  <1>1. Inv /\ AllClean
    BY DEF Orderly
  <1>2. PICK w \in 0..2 : Whole(catalog, w)
    BY <1>1 DEF Inv
  <1>3. \A y \in Runs : held[y] # {} => pc[y] = "run"
    BY <1>1 DEF Inv, Idle
  <1>4. ASSUME NEW y \in Runs, held[y] # {}
        PROVE  /\ command[y] \in Commands /\ found[y] \in 0..2
               /\ step[y] \in 0..(Len(PlanOf(command[y], found[y])) + 1) /\ step[y] \in Nat
               /\ Consistent(command[y], found[y], step[y], catalog, added[y], removed[y], held[y])
               /\ LockOrder(command[y], found[y], step[y], catalog, added[y], removed[y], held[y])
    <2>1. pc[y] = "run"
      BY <1>3, <1>4
    <2>2. command[y] \in Commands /\ found[y] \in 0..2
      BY <1>1 DEF Inv, TypeOK
    <2>3. Plan(y) = PlanOf(command[y], found[y])
      BY InTermsOfPlans
    <2>4. step[y] \in 0..(Len(PlanOf(command[y], found[y])) + 1)
      BY <1>1, <2>3 DEF Inv, TypeOK
    <2>5. Consistent(command[y], found[y], step[y], catalog, added[y], removed[y], held[y])
      BY <1>1, <2>1 DEF Inv, Working
    <2>6. LockOrder(command[y], found[y], step[y], catalog, added[y], removed[y], held[y])
      BY <2>1 DEF Orderly, Ordered
    <2>7. QED
      BY <2>2, <2>4, <2>5, <2>6
  <1> DEFINE t == Table("alembic_version")
  <1>5. Records(catalog, 0) \/ t \in catalog
    BY DEF Orderly
  <1>6. ASSUME NEW y \in Runs, held[y] # {}
        PROVE  /\ w = 0 => \/ "alembic_version" \in held[y] /\ t \notin catalog
                           \/ /\ "accounts" \in held[y]
                              /\ "alembic_version" \in held[y] \/ t \in catalog
               /\ w = 1 => \/ command[y] = Up /\ found[y] = 1 /\ "transactions" \in held[y]
                           \/ command[y] = Down /\ found[y] = 1 /\ "alerts" \in held[y]
               /\ w = 2 => \/ command[y] = Down /\ found[y] = 2 /\ "risk_assessments" \in held[y]
                           \/ command[y] = Down /\ found[y] = 1 /\ "alerts" \in held[y]
    <2>1. PICK c, v, k, objects, new, gone, locks :
            /\ c = command[y] /\ v = found[y] /\ k = step[y] /\ objects = catalog
            /\ new = added[y] /\ gone = removed[y] /\ locks = held[y]
      OBVIOUS
    <2>2. /\ c \in Commands /\ v \in 0..2 /\ k \in 0..(Len(PlanOf(c, v)) + 1) /\ locks # {}
          /\ Consistent(c, v, k, objects, new, gone, locks)
          /\ LockOrder(c, v, k, objects, new, gone, locks)
          /\ Whole(objects, w) /\ (Records(objects, 0) \/ t \in objects)
      BY <1>2, <1>4, <1>5, <1>6, <2>1
    <2>3. /\ w = 0 => \/ "alembic_version" \in locks /\ t \notin objects
                      \/ "accounts" \in locks /\ ("alembic_version" \in locks \/ t \in objects)
          /\ w = 1 => \/ c = Up /\ v = 1 /\ "transactions" \in locks
                      \/ c = Down /\ v = 1 /\ "alerts" \in locks
          /\ w = 2 => \/ c = Down /\ v = 2 /\ "risk_assessments" \in locks
                      \/ c = Down /\ v = 1 /\ "alerts" \in locks
      BY <2>2, Holders
    <2>4. QED
      BY <2>1, <2>3
  <1> HIDE DEF t
  (* Without the transactions, a downgrade has locked its first table.     *)
  <1>7. ASSUME NEW y \in Runs, held[y] # {}, command[y] = Down, found[y] # 0,
               "transactions" \notin held[y]
        PROVE  held[y] \subseteq {First(found[y])}
    <2>1. step[y] \in Nat
          /\ LockOrder(command[y], found[y], step[y], catalog, added[y], removed[y], held[y])
      BY <1>4, <1>7
    <2>2. ~(step[y] >= 5)
      BY <1>7, <2>1 DEF LockOrder
    <2>3. step[y] <= 4
      BY <2>1, <2>2
    <2>4. QED
      BY <1>7, <2>1, <2>3 DEF LockOrder
  <1>8. ASSUME Blocked(q) PROVE FALSE
    <2> DEFINE s == Statement(q)
    <2>1. PICK y \in Runs \ {q} : Locks(q, s) \cap held[y] # {}
      BY <1>8 DEF Blocked, Waits
    <2>2. held[y] # {} /\ held[q] \cap held[y] = {}
      BY <1>1, <2>1 DEF Inv, TypeOK
    <2>3. "transactions" \notin held[y]
      BY <2>2
    <2>4. /\ command[q] = Up /\ found[q] = 1 => "alerts" \notin Locks(q, s)
          /\ command[q] = Down /\ found[q] = 2 => "alerts" \notin Locks(q, s)
          /\ command[q] = Down /\ found[q] = 1 => "risk_assessments" \notin Locks(q, s)
      <3>1. PICK c, v, k, objects, new, gone :
              /\ c = command[q] /\ v = found[q] /\ k = step[q] /\ objects = catalog
              /\ new = added[q] /\ gone = removed[q]
        OBVIOUS
      <3>2. Plan(q) = PlanOf(c, v) /\ s = StatementAt(PlanOf(c, v), k)
            /\ View(q) = Seen(objects, new, gone)
        BY <3>1, InTermsOfPlans
      <3>3. Locks(q, s) = LockedBy(Seen(objects, new, gone), s)
        BY <3>2, InTermsOfPlans
      <3>4. pc[q] = "run" /\ step[q] <= Len(Plan(q))
        BY <1>8 DEF Blocked
      <3>5. step[q] \in 0..Len(Plan(q))
        BY <1>1, <3>4, AdvanceFacts
      <3>6. k \in 0..Len(PlanOf(c, v))
        BY <3>1, <3>2, <3>5
      <3>7. c \in Commands /\ v \in 0..2
        BY <1>4, <3>1
      <3>8. Effects(PlanOf(c, v), k, objects, new, gone)
        BY <1>4, <3>1 DEF Consistent
      <3>9. Whole(objects, w) /\ Clean(objects)
        BY <1>1, <1>2, <3>1 DEF AllClean
      <3> HIDE DEF s
      <3>10. /\ c = Up /\ v = 1 => "alerts" \notin Locks(q, s)
             /\ c = Down /\ v = 2 => "alerts" \notin Locks(q, s)
             /\ c = Down /\ v = 1 => "risk_assessments" \notin Locks(q, s)
        BY <3>2, <3>3, <3>6, <3>7, <3>8, <3>9, LockScope
      <3>11. QED
        BY <3>1, <3>10
    <2> HIDE DEF s
    <2>5. Up # Down /\ First(1) = "alerts" /\ First(2) = "risk_assessments"
      BY CommandNames DEF First
    <2>6. CASE w = 0
      BY <1>6, <2>2, <2>6
    <2>7. CASE w = 1
      <3>1. command[y] = Down /\ found[y] = 1 /\ "alerts" \in held[y]
        BY <1>6, <2>2, <2>3, <2>7
      <3>2. held[y] \subseteq {"alerts"}
        BY <1>7, <2>2, <2>3, <2>5, <3>1
      <3>3. command[q] = Up /\ found[q] = 1
        BY <1>6, <2>2, <2>7, <3>1
      <3>4. QED
        BY <2>1, <2>4, <3>2, <3>3
    <2>8. CASE w = 2
      <3>1. CASE command[y] = Down /\ found[y] = 2 /\ "risk_assessments" \in held[y]
        <4>1. held[y] \subseteq {"risk_assessments"}
          BY <1>7, <2>2, <2>3, <2>5, <3>1
        <4>2. command[q] = Down /\ found[q] = 1
          BY <1>6, <2>2, <2>8, <3>1
        <4>3. QED
          BY <2>1, <2>4, <4>1, <4>2
      <3>2. CASE command[y] = Down /\ found[y] = 1 /\ "alerts" \in held[y]
        <4>1. held[y] \subseteq {"alerts"}
          BY <1>7, <2>2, <2>3, <2>5, <3>2
        <4>2. command[q] = Down /\ found[q] = 2
          BY <1>6, <2>2, <2>8, <3>2
        <4>3. QED
          BY <2>1, <2>4, <4>1, <4>2
      <3>3. QED
        BY <1>6, <2>2, <2>8, <3>1, <3>2
    <2>9. QED
      BY <2>6, <2>7, <2>8
  <1>9. QED
    BY <1>3, <1>8

(* Runs of `alembic upgrade head` and `alembic downgrade -1` never wait    *)
(* for each other's tables in a circle, however many of them overlap: when *)
(* a statement is held up by another run's locks, one of the runs that     *)
(* hold any can go on.                                                     *)
THEOREM NobodyWaitsInACircle == Spec => []NoCircularWait
  <1>1. Orderly => NoCircularWait
    <2> SUFFICES ASSUME Orderly, NEW r \in Runs, Blocked(r)
                 PROVE  \E q \in Runs : held[q] # {} /\ pc[q] \notin Ended /\ ~Blocked(q)
      BY DEF NoCircularWait
    <2>1. PICK x \in Runs : held[x] # {}
      BY DEF Blocked, Waits
    <2>2. \E q \in Runs : /\ held[q] # {}
                          /\ \/ "transactions" \in held[q]
                             \/ \A y \in Runs : "transactions" \notin held[y]
      BY <2>1
    <2>3. "run" \notin Ended
      BY DEF Ended
    <2>4. QED
      BY <2>2, <2>3, NotHeldUp
  <1>2. QED
    BY <1>1, OrderlyHolds, PTL
=============================================================================
