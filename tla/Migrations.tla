----------------------------- MODULE Migrations -----------------------------
(***************************************************************************)
(* The schema and the two Alembic revisions that create it. A run of       *)
(* `alembic upgrade head` or `alembic downgrade -1` reads the recorded     *)
(* version, and then executes every statement of the revisions it has      *)
(* planned, and the bookkeeping of the version, in one database            *)
(* transaction (env.py; DDL is transactional in PostgreSQL). Several runs  *)
(* may overlap, and any of them may die.                                   *)
(*                                                                         *)
(* Code: alembic/env.py, alembic/versions/*.py, shared/models.py.          *)
(***************************************************************************)
EXTENDS Integers, Sequences

CONSTANTS
  Runs,       \* invocations of alembic
  MaxFaults   \* bound: runs that die

ASSUME MigrationsAssumption == MaxFaults \in Nat

Commands == {"upgrade head", "downgrade -1"}

-----------------------------------------------------------------------------
(* Objects of the catalog: a table <<t>>, and what belongs to it: its      *)
(* unique constraints, foreign keys and indexes; the row of                *)
(* alembic_version that holds the version.                                 *)

Table(t) == <<t>>
Unique(t, column) == <<t, "unique", column>>
References(t, other) == <<t, "references", other>>
Index(t, column) == <<t, "index", column>>
VersionRow(v) == <<"alembic_version", "row", v>>

IsReference(o) == Len(o) = 3 /\ o[2] = "references"

(* What the ORM declares: keys that the services rely on, and indexes.     *)
(* unique=True with index=True declares one unique index, which the        *)
(* revisions create as a unique constraint and a plain index: told here in *)
(* their terms, since both keep the key unique and indexed.                *)
Model ==
  [accounts |->
     [unique |-> {"external_id"}, references |-> {}, index |-> {"external_id", "status"}],
   merchants |->
     [unique |-> {"external_id"}, references |-> {}, index |-> {"external_id"}],
   transactions |->
     [unique |-> {"external_id"}, references |-> {"accounts", "merchants"},
      index |-> {"external_id", "account_id", "merchant_id", "occurred_at", "ingested_at",
                 "status"}],
   transaction_audit_logs |->
     [unique |-> {}, references |-> {"transactions"},
      index |-> {"transaction_id", "action", "request_id"}],
   risk_evaluations |->
     [unique |-> {}, references |-> {"transactions"},
      index |-> {"transaction_id", "score", "outcome"}],
   alerts |->
     [unique |-> {}, references |-> {"transactions"},
      index |-> {"transaction_id", "severity", "is_resolved"}],
   risk_assessments |->
     [unique |-> {"event_id"}, references |-> {"transactions"},
      index |-> {"transaction_id", "risk_level", "decision"}]]

ModelObjects(t) ==
  {Table(t)}
  \cup {Unique(t, c) : c \in Model[t].unique}
  \cup {References(t, u) : u \in Model[t].references}
  \cup {Index(t, c) : c \in Model[t].index}

-----------------------------------------------------------------------------
(* The revisions. A statement adds and removes objects of the catalog.     *)

CreateTable(t, uniques, others) ==
  <<[adds |-> {Table(t)} \cup {Unique(t, c) : c \in uniques}
                \cup {References(t, u) : u \in others},
     removes |-> {}]>>

CreateIndexes(t, columns) ==
  [i \in DOMAIN columns |-> [adds |-> {Index(t, columns[i])}, removes |-> {}]]

DropTable(t, columns) ==
  [i \in DOMAIN columns |-> [adds |-> {}, removes |-> {Index(t, columns[i])}]]
  \o <<[adds |-> {}, removes |-> {Table(t)}]>>

(* HeadMaintainer: INSERT, UPDATE or DELETE of the version row.            *)
SetVersion(old, new) ==
  <<[adds |-> IF new = 0 THEN {} ELSE {VersionRow(new)},
     removes |-> IF old = 0 THEN {} ELSE {VersionRow(old)}]>>

Upgrade0001 ==
  CreateTable("accounts", {"external_id"}, {})
  \o CreateIndexes("accounts", <<"external_id", "status">>)
  \o CreateTable("merchants", {"external_id"}, {})
  \o CreateIndexes("merchants", <<"external_id">>)
  \o CreateTable("transactions", {"external_id"}, {"accounts", "merchants"})
  \o CreateIndexes("transactions",
       <<"external_id", "account_id", "merchant_id", "occurred_at", "status">>)
  \o CreateTable("risk_evaluations", {}, {"transactions"})
  \o CreateIndexes("risk_evaluations", <<"transaction_id", "score", "outcome">>)
  \o CreateTable("alerts", {}, {"transactions"})
  \o CreateIndexes("alerts", <<"transaction_id", "severity", "is_resolved">>)
  \o CreateTable("transaction_audit_logs", {}, {"transactions"})
  \o CreateIndexes("transaction_audit_logs", <<"transaction_id", "action", "request_id">>)

(* Mutant: transactions are dropped before what refers to them.            *)
Downgrade0001Reordered ==
  DropTable("transactions",
    <<"status", "occurred_at", "merchant_id", "account_id", "external_id">>)
  \o DropTable("alerts", <<"is_resolved", "severity", "transaction_id">>)
  \o DropTable("transaction_audit_logs", <<"request_id", "action", "transaction_id">>)
  \o DropTable("risk_evaluations", <<"outcome", "score", "transaction_id">>)
  \o DropTable("merchants", <<"external_id">>)
  \o DropTable("accounts", <<"status", "external_id">>)

Downgrade0001 ==
  DropTable("alerts", <<"is_resolved", "severity", "transaction_id">>)
  \o DropTable("transaction_audit_logs", <<"request_id", "action", "transaction_id">>)
  \o DropTable("risk_evaluations", <<"outcome", "score", "transaction_id">>)
  \o DropTable("transactions",
       <<"status", "occurred_at", "merchant_id", "account_id", "external_id">>)
  \o DropTable("merchants", <<"external_id">>)
  \o DropTable("accounts", <<"status", "external_id">>)

Upgrade0002 ==
  CreateTable("risk_assessments", {"event_id"}, {"transactions"})
  \o CreateIndexes("risk_assessments", <<"transaction_id", "risk_level", "decision">>)

Downgrade0002 ==
  DropTable("risk_assessments", <<"decision", "risk_level", "transaction_id">>)

(* The statements of each command, by the version it finds: 0 (none), 1, 2 *)
(* at positions 1, 2, 3.                                                   *)
UpgradeHead ==
  << Upgrade0001 \o SetVersion(0, 1) \o Upgrade0002 \o SetVersion(1, 2),
     Upgrade0002 \o SetVersion(1, 2),
     << >> >>

DowngradeOne ==
  << << >>, Downgrade0001 \o SetVersion(1, 0), Downgrade0002 \o SetVersion(2, 1) >>

-----------------------------------------------------------------------------
VARIABLES
  catalog,    \* committed objects
  command,    \* of each run
  pc,         \* where each run is, and how it ended
  found,      \* the version each run has read
  step,       \* the statement each run is at, 0 for alembic_version's CREATE
  added,      \* objects each run's transaction has created
  removed,    \* committed objects each run's transaction has dropped
  held,       \* tables and names each run's transaction has locked
  overtaken,  \* history: runs during which another run changed the catalog
  faults      \* history: faults so far

vars == <<catalog, command, pc, found, step, added, removed, held, overtaken, faults>>

Ended == {"committed", "failed", "refused", "lost"}

Version(objects) ==
  IF VersionRow(1) \in objects THEN 1 ELSE IF VersionRow(2) \in objects THEN 2 ELSE 0

Plan(r) ==
  IF command[r] = "upgrade head" THEN UpgradeHead[found[r] + 1] ELSE DowngradeOne[found[r] + 1]

Statement(r) ==
  IF step[r] = 0 THEN CreateTable("alembic_version", {}, {})[1] ELSE Plan(r)[step[r]]

(* The catalog as a run's own statements see it.                           *)
View(r) == (catalog \ removed[r]) \cup added[r]

(* Dropping a table drops what belongs to it.                              *)
Dropped(r, s) == {o \in View(r) : o \in s.removes \/ Table(o[1]) \in s.removes}

(* Tables and names a statement locks: its own, and both ends of a foreign *)
(* key that comes or goes.                                                 *)
Locks(r, s) ==
  LET objects == s.adds \cup Dropped(r, s) IN
  {o[1] : o \in objects} \cup {o[3] : o \in {x \in objects : IsReference(x)}}

Waits(r, s) == \E q \in Runs \ {r} : Locks(r, s) \cap held[q] # {}

(* Names resolve: nothing that exists is created, nothing that does not is *)
(* dropped, updated or referred to.                                        *)
Resolves(r, s) ==
  /\ s.adds \cap View(r) = {}
  /\ s.removes \subseteq View(r)
  /\ \A o \in s.adds : IsReference(o) => Table(o[3]) \in View(r)

(* A table cannot be dropped while another one refers to it.               *)
InUse(r, s) ==
  \E o \in View(r) \ Dropped(r, s) : IsReference(o) /\ Table(o[3]) \in s.removes

-----------------------------------------------------------------------------
(* Mutant: a failed run keeps its connection, and with it its locks.       *)
EndLeavingSession(r, outcome) ==
  /\ pc' = [pc EXCEPT ![r] = outcome]
  /\ added' = [added EXCEPT ![r] = {}]
  /\ removed' = [removed EXCEPT ![r] = {}]
  /\ UNCHANGED held

(* The run's transaction is over; what it has locked is free.              *)
End(r, outcome) ==
  /\ pc' = [pc EXCEPT ![r] = outcome]
  /\ added' = [added EXCEPT ![r] = {}]
  /\ removed' = [removed EXCEPT ![r] = {}]
  /\ held' = [held EXCEPT ![r] = {}]

(* get_current_heads, and the plan made from them.                         *)
ReadVersion(r) ==
  /\ pc[r] = "start"
  /\ pc' = [pc EXCEPT ![r] = IF Version(catalog) = 0 THEN "ensure_table" ELSE "run"]
  /\ found' = [found EXCEPT ![r] = Version(catalog)]
  /\ UNCHANGED <<catalog, command, step, added, removed, held, overtaken, faults>>

(* Without heads, alembic_version is created first if it does not exist.   *)
EnsureVersionTable(r) ==
  /\ pc[r] = "ensure_table"
  /\ pc' = [pc EXCEPT ![r] = "run"]
  /\ step' = [step EXCEPT ![r] = IF Table("alembic_version") \in catalog THEN 1 ELSE 0]
  /\ UNCHANGED <<catalog, command, found, added, removed, held, overtaken, faults>>

(* Mutant: no transaction around the migrations, every statement commits.  *)
ExecuteAutocommit(r) ==
  /\ pc[r] = "run"
  /\ step[r] <= Len(Plan(r))
  /\ LET s == Statement(r) IN
     IF Resolves(r, s) /\ ~InUse(r, s)
       THEN /\ step' = [step EXCEPT ![r] = @ + 1]
            /\ catalog' = (catalog \ Dropped(r, s)) \cup s.adds
            /\ UNCHANGED <<pc, added, removed, held>>
       ELSE End(r, "failed") /\ UNCHANGED <<catalog, step>>
  /\ UNCHANGED <<command, found, overtaken, faults>>

(* One statement: it waits for what another transaction has locked, and    *)
(* any error ends the run and rolls its transaction back.                  *)
Execute(r) ==
  /\ pc[r] = "run"
  /\ step[r] <= Len(Plan(r))
  /\ LET s == Statement(r) IN
     \/ /\ ~Resolves(r, s) \/ (InUse(r, s) /\ ~Waits(r, s))
        /\ End(r, "failed")
        /\ UNCHANGED step
     \/ /\ Resolves(r, s) /\ ~Waits(r, s) /\ ~InUse(r, s)
        /\ step' = [step EXCEPT ![r] = @ + 1]
        /\ added' = [added EXCEPT ![r] = (@ \ Dropped(r, s)) \cup s.adds]
        /\ removed' = [removed EXCEPT ![r] = @ \cup (Dropped(r, s) \cap catalog)]
        /\ held' = [held EXCEPT ![r] = @ \cup Locks(r, s)]
        /\ UNCHANGED pc
  /\ UNCHANGED <<catalog, command, found, overtaken, faults>>

(* `downgrade -1` without a version to leave: CommandError.                *)
NothingToLeave(r) == command[r] = "downgrade -1" /\ found[r] = 0

Visible(r) ==
  /\ catalog' = View(r)
  /\ overtaken' = IF catalog' = catalog THEN overtaken
                  ELSE overtaken \cup {q \in Runs \ {r} : pc[q] \in {"ensure_table", "run"}}

(* Leaving context.begin_transaction().                                    *)
Finish(r) ==
  /\ pc[r] = "run"
  /\ step[r] > Len(Plan(r))
  /\ IF NothingToLeave(r)
       THEN End(r, "refused") /\ UNCHANGED <<catalog, overtaken>>
       ELSE End(r, "committed") /\ Visible(r)
  /\ UNCHANGED <<command, found, step, faults>>

(* The process or its connection dies, perhaps after the COMMIT.           *)
Die(r) ==
  /\ pc[r] \notin Ended
  /\ faults < MaxFaults
  /\ faults' = faults + 1
  /\ End(r, "lost")
  /\ \/ UNCHANGED <<catalog, overtaken>>
     \/ pc[r] = "run" /\ step[r] > Len(Plan(r)) /\ ~NothingToLeave(r) /\ Visible(r)
  /\ UNCHANGED <<command, found, step>>

-----------------------------------------------------------------------------
(* What the models declare for the tables of each version, but for the     *)
(* index on transactions.ingested_at, which no revision creates.           *)
ModelOf(tables) ==
  (UNION {ModelObjects(t) : t \in tables}) \ {Index("transactions", "ingested_at")}

Schemas ==
  << {}, ModelOf(DOMAIN Model \ {"risk_assessments"}), ModelOf(DOMAIN Model) >>

Init ==
  /\ \/ catalog = {}
     \/ \E v \in 1..2 : catalog = Schemas[v + 1] \cup {Table("alembic_version"), VersionRow(v)}
  /\ command \in [Runs -> Commands]
  /\ pc = [r \in Runs |-> "start"]
  /\ found = [r \in Runs |-> 0]
  /\ step = [r \in Runs |-> 1]
  /\ added = [r \in Runs |-> {}]
  /\ removed = [r \in Runs |-> {}]
  /\ held = [r \in Runs |-> {}]
  /\ overtaken = {}
  /\ faults = 0

Run(r) == ReadVersion(r) \/ EnsureVersionTable(r) \/ Execute(r) \/ Finish(r)

(* Every run is over: nothing left to do.                                  *)
AllEnded == (\A r \in Runs : pc[r] \in Ended) /\ UNCHANGED vars

Next == (\E r \in Runs : Run(r) \/ Die(r)) \/ AllEnded

Spec == Init /\ [][Next]_vars

-----------------------------------------------------------------------------
(* The types of the state; a table is locked by one run at a time, and by  *)
(* none that has yet to begin its transaction or has ended.                *)
TypeOK ==
  /\ command \in [Runs -> Commands]
  /\ pc \in [Runs -> {"start", "ensure_table", "run"} \cup Ended]
  /\ \A r \in Runs : removed[r] \subseteq catalog \/ r \in overtaken
  /\ \A q, r \in Runs : q # r => held[q] \cap held[r] = {}
  /\ \A r \in Runs : held[r] # {} => pc[r] = "run"
  /\ found \in [Runs -> 0..2]
  /\ \A r \in Runs : step[r] \in 0..(Len(Plan(r)) + 1)
  /\ overtaken \subseteq Runs
  /\ faults \in 0..MaxFaults

(* The recorded version tells what is there, every table with its keys and *)
(* indexes, whatever runs raced, failed or died halfway: services started  *)
(* after `alembic upgrade head` find the tables their models declare, but  *)
(* for the index that Schemas leaves out.                                  *)
VersionTellsSchema ==
  {o \in catalog : o[1] # "alembic_version"} = Schemas[Version(catalog) + 1]

(* Alone, every command works from every version: a run only fails when    *)
(* another one changed the schema after this one had read the version.     *)
FailureNeedsRival == \A r \in Runs : pc[r] = "failed" => r \in overtaken

(* Upgrades and downgrades that wait for each other's tables never do so   *)
(* in a circle: whenever a run is held up, one of those that hold locks    *)
(* can go on (and there are finitely many statements, so every run ends).  *)
Blocked(r) ==
  /\ pc[r] = "run"
  /\ step[r] <= Len(Plan(r))
  /\ Resolves(r, Statement(r)) /\ Waits(r, Statement(r))

NoCircularWait ==
  \A r \in Runs :
    Blocked(r) => \E q \in Runs : held[q] # {} /\ pc[q] \notin Ended /\ ~Blocked(q)
=============================================================================
