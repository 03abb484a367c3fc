----------------------------- MODULE Migrations -----------------------------
(***************************************************************************)
(* The Alembic migrations, run up and down while the application writes.   *)
(*                                                                         *)
(*   src/migrations/env.py, src/migrations/versions/*.py                   *)
(*   src/src/eventcart/modules/*/models.py                                 *)
(*                                                                         *)
(* The tests create their tables from the models; a deployment gets them   *)
(* from the migrations.  The keys the other modules rely on (inbox_events, *)
(* idempotency_keys, the SKU of an item) are those of the migrations.      *)
(*                                                                         *)
(* A table is what decides whether a statement is accepted: its columns,   *)
(* by whether an INSERT must give them, may omit them, or may set them to  *)
(* NULL; its keys; and the tables it refers to.  Column types and indexes  *)
(* are left out.  Of the rows only whether there are any is kept.          *)
(* The database is PostgreSQL: DDL is transactional.                       *)
(***************************************************************************)
EXTENDS Integers, Sequences, FiniteSets, SequencesExt

VARIABLES
  revision,   \* alembic_version: how many revisions are applied
  schema,     \* the tables: name -> table
  filled      \* the tables that have rows

migrationVars == <<revision, schema, filled>>

Table(required, nullable, keys, parents) ==
  [required |-> required, defaulted |-> {}, nullable |-> nullable, keys |-> keys,
   parents |-> parents]

Columns(table) == table.required \cup table.defaulted \cup table.nullable

\* A table with a column more, in one of the three classes, or a column less.
Widened(table, column, class) == [table EXCEPT ![class] = @ \cup {column}]

Narrowed(table, column) ==
  [required |-> table.required \ {column}, defaulted |-> table.defaulted \ {column},
   nullable |-> table.nullable \ {column},
   keys |-> table.keys, parents |-> table.parents]

ById == {{"id"}}

-----------------------------------------------------------------------------
(* The models                                                              *)

OrderModels ==
  [orders |-> Table({"id", "status", "customer_email", "created_at"}, {}, ById, {}),
   order_items |->
     Table({"id", "order_id", "sku", "quantity", "unit_price_cents"}, {"product_name"},
           ById, {"orders"})]

InventoryModels ==
  [inventory_items |->
     Table({"id", "sku", "name", "quantity_available", "unit_price_cents",
            "created_at"}, {}, {{"id"}, {"sku"}}, {})]

EventModels ==
  [outbox_events |->
     Table({"event_id", "event_type", "event_version", "aggregate_type",
            "aggregate_id", "correlation_id", "occurred_at", "payload", "status",
            "failure_count"},
           {"causation_id", "published_at", "next_attempt_at", "last_error"},
           {{"event_id"}}, {}),
   event_processing_attempts |->
     Table({"id", "event_id", "consumer_name", "attempt_number", "error",
            "attempted_at"}, {}, ById, {"outbox_events"}),
   dead_letter_events |->
     Table({"id", "event_id", "event_type", "event_version", "aggregate_type",
            "aggregate_id", "correlation_id", "consumer_name", "attempt_number",
            "error", "payload", "failed_at"},
           {"causation_id", "replayed_at"}, ById, {})]

IdempotencyModels ==
  [idempotency_keys |->
     Table({"key", "request_hash", "expires_at", "created_at", "updated_at"},
           {"response_body", "status_code"}, {{"key"}}, {}),
   inbox_events |->
     Table({"consumer_name", "event_id", "processed_at"}, {},
           {{"consumer_name", "event_id"}}, {})]

PaymentModels ==
  [payments |-> Table({"id", "order_id", "status", "amount_cents", "created_at"},
                      {"failure_reason"}, ById, {})]

InvoiceModels ==
  [invoices |-> Table({"id", "order_id", "payment_id", "status", "amount_cents",
                       "created_at"}, {}, ById, {})]

NotificationModels ==
  [notifications |->
     Table({"id", "order_id", "notification_type", "status", "payload", "sent_at",
            "created_at"}, {"recipient_email"}, ById, {})]

\* Base.metadata once every model module is imported.
Models ==
  [orders |-> OrderModels.orders,
   order_items |-> OrderModels.order_items,
   inventory_items |-> InventoryModels.inventory_items,
   outbox_events |-> EventModels.outbox_events,
   event_processing_attempts |-> EventModels.event_processing_attempts,
   dead_letter_events |-> EventModels.dead_letter_events,
   idempotency_keys |-> IdempotencyModels.idempotency_keys,
   inbox_events |-> IdempotencyModels.inbox_events,
   payments |-> PaymentModels.payments,
   invoices |-> InvoiceModels.invoices,
   notifications |-> NotificationModels.notifications]

-----------------------------------------------------------------------------
(* Statements of a migration                                               *)

CreateTable(name, table) == [kind |-> "create", name |-> name, table |-> table]
DropTable(name) == [kind |-> "drop", name |-> name]
AddColumn(name, column, class) ==
  [kind |-> "add", name |-> name, column |-> column, class |-> class]
DropColumn(name, column) == [kind |-> "remove", name |-> name, column |-> column]

\* A database in the middle of a transaction; ok is FALSE once a statement was
\* refused, and what follows is refused too.
Database(s, f) == [ok |-> TRUE, schema |-> s, filled |-> f]

Refused(db) == [db EXCEPT !.ok = FALSE]

Created(db, name, table) ==
  IF name \notin DOMAIN db.schema /\ table.parents \subseteq DOMAIN db.schema
  THEN [db EXCEPT !.schema =
          [t \in DOMAIN db.schema \cup {name} |->
             IF t = name THEN table ELSE db.schema[t]]]
  ELSE Refused(db)

\* DROP TABLE without CASCADE is refused while another table refers to it.
Dropped(db, name) ==
  LET others == DOMAIN db.schema \ {name}
  IN  IF /\ name \in DOMAIN db.schema
         /\ \A t \in others : name \notin db.schema[t].parents
      THEN [db EXCEPT !.schema = Restrict(@, others), !.filled = @ \ {name}]
      ELSE Refused(db)

\* A column that is neither nullable nor has a server default cannot be added to a
\* table with rows.
Added(db, name, column, class) ==
  IF /\ name \in DOMAIN db.schema
     /\ column \notin Columns(db.schema[name])
     /\ class = "required" => name \notin db.filled
  THEN [db EXCEPT !.schema[name] = Widened(@, column, class)]
  ELSE Refused(db)

Removed(db, name, column) ==
  IF name \in DOMAIN db.schema /\ column \in Columns(db.schema[name])
  THEN [db EXCEPT !.schema[name] = Narrowed(@, column)]
  ELSE Refused(db)

Executed(db, st) ==
  CASE ~db.ok -> db
    [] db.ok /\ st.kind = "create" -> Created(db, st.name, st.table)
    [] db.ok /\ st.kind = "drop" -> Dropped(db, st.name)
    [] db.ok /\ st.kind = "add" -> Added(db, st.name, st.column, st.class)
    [] db.ok /\ st.kind = "remove" -> Removed(db, st.name, st.column)

-----------------------------------------------------------------------------
(* The revisions: what upgrade() and downgrade() execute                   *)

\* Most revisions create one table.
Creating(name, table) ==
  [up |-> <<CreateTable(name, table)>>, down |-> <<DropTable(name)>>]

OrderStatements ==
  <<CreateTable("orders",
      Table({"id", "status", "customer_email", "created_at"}, {}, ById, {})),
    CreateTable("order_items",
      Table({"id", "order_id", "sku", "quantity", "unit_price_cents"},
            {"product_name"}, ById, {"orders"}))>>

\* Mutant: the tables are dropped in the order they were created in.
OrdersDroppedFirst ==
  [up |-> OrderStatements, down |-> <<DropTable("orders"), DropTable("order_items")>>]

CreateOrders ==
  [up |-> OrderStatements, down |-> <<DropTable("order_items"), DropTable("orders")>>]

CreateInventoryItems ==
  Creating("inventory_items",
    Table({"id", "sku", "name", "quantity_available", "unit_price_cents",
           "created_at"}, {}, {{"id"}, {"sku"}}, {}))

CreateOutboxEvents ==
  Creating("outbox_events",
    Table({"event_id", "event_type", "event_version", "aggregate_type",
           "aggregate_id", "correlation_id", "occurred_at", "payload", "status",
           "failure_count"},
          {"causation_id", "published_at", "last_error"}, {{"event_id"}}, {}))

CreateIdempotencyKeys ==
  Creating("idempotency_keys",
    Table({"key", "request_hash", "expires_at", "created_at", "updated_at"},
          {"response_body", "status_code"}, {{"key"}}, {}))

\* Mutant: the inbox is keyed by the event alone.
InboxKeyedByEvent ==
  Creating("inbox_events",
    Table({"consumer_name", "event_id", "processed_at"}, {}, {{"event_id"}}, {}))

CreateInboxEvents ==
  Creating("inbox_events",
    Table({"consumer_name", "event_id", "processed_at"}, {},
          {{"consumer_name", "event_id"}}, {}))

CreatePayments ==
  Creating("payments",
    Table({"id", "order_id", "status", "amount_cents", "created_at"},
          {"failure_reason"}, ById, {}))

CreateInvoices ==
  Creating("invoices",
    Table({"id", "order_id", "payment_id", "status", "amount_cents", "created_at"},
          {}, ById, {}))

CreateNotifications ==
  Creating("notifications",
    Table({"id", "order_id", "notification_type", "status", "payload", "sent_at",
           "created_at"}, {"recipient_email"}, ById, {}))

CreateEventProcessingAttempts ==
  Creating("event_processing_attempts",
    Table({"id", "event_id", "consumer_name", "attempt_number", "error",
           "attempted_at"}, {}, ById, {"outbox_events"}))

\* Mutant: the downgrade drops the index and not the column.
NextAttemptKept ==
  [up |-> <<AddColumn("outbox_events", "next_attempt_at", "nullable")>>, down |-> <<>>]

AddOutboxNextAttemptAt ==
  [up |-> <<AddColumn("outbox_events", "next_attempt_at", "nullable")>>,
   down |-> <<DropColumn("outbox_events", "next_attempt_at")>>]

CreateDeadLetterEvents ==
  Creating("dead_letter_events",
    Table({"id", "event_id", "event_type", "aggregate_type", "aggregate_id",
           "consumer_name", "attempt_number", "error", "payload", "failed_at"},
          {"replayed_at"}, ById, {}))

ReplayFields ==
  <<AddColumn("dead_letter_events", "event_version", "defaulted"),
    AddColumn("dead_letter_events", "correlation_id", "required"),
    AddColumn("dead_letter_events", "causation_id", "nullable")>>

\* Mutant: the downgrade forgets a column.
CausationKept ==
  [up |-> ReplayFields,
   down |-> <<DropColumn("dead_letter_events", "correlation_id"),
              DropColumn("dead_letter_events", "event_version")>>]

\* Mutant: the table is created anew, so that there are no rows in the way.
DeadLettersRecreated ==
  [up |-> CreateDeadLetterEvents.down \o CreateDeadLetterEvents.up \o ReplayFields,
   down |-> <<DropColumn("dead_letter_events", "causation_id"),
              DropColumn("dead_letter_events", "correlation_id"),
              DropColumn("dead_letter_events", "event_version")>>]

AddDeadLetterReplayFields ==
  [up |-> ReplayFields,
   down |-> <<DropColumn("dead_letter_events", "causation_id"),
              DropColumn("dead_letter_events", "correlation_id"),
              DropColumn("dead_letter_events", "event_version")>>]

Revisions ==
  <<CreateOrders, CreateInventoryItems, CreateOutboxEvents, CreateIdempotencyKeys,
    CreateInboxEvents, CreatePayments, CreateInvoices, CreateNotifications,
    CreateEventProcessingAttempts, AddOutboxNextAttemptAt, CreateDeadLetterEvents,
    AddDeadLetterReplayFields>>

Latest == Len(Revisions)

-----------------------------------------------------------------------------

MigrationsInit == revision = 0 /\ schema = <<>> /\ filled = {}

\* The statements that lead from revision m to revision n.
Path(m, n) ==
  IF m <= n THEN FlattenSeq([i \in 1 .. n - m |-> Revisions[m + i].up])
            ELSE FlattenSeq([i \in 1 .. m - n |-> Revisions[m - i + 1].down])

\* The database after all statements of the path, in one transaction.
Migrated(n) == FoldLeft(Executed, Database(schema, filled), Path(revision, n))

\* alembic upgrade or downgrade: run_migrations_online wraps all revisions of one
\* command in a single transaction; if a statement is refused nothing changes.
Migrate(n) ==
  LET db == Migrated(n)
  IN  /\ n # revision
      /\ db.ok
      /\ revision' = n
      /\ schema' = db.schema
      /\ filled' = db.filled

\* The database takes the INSERT of a model: it knows the columns, gets those it
\* requires, and takes NULL where the model may leave one.
Accepts(table, model) ==
  /\ Columns(model) \subseteq Columns(table)
  /\ table.required \subseteq model.required
  /\ model.nullable \subseteq table.nullable

\* The application, at the code of the head, inserts a row of a model.
Write(t) ==
  /\ t \in DOMAIN schema
  /\ Accepts(schema[t], Models[t])
  /\ Models[t].parents \subseteq filled
  /\ filled' = filled \cup {t}
  /\ UNCHANGED <<revision, schema>>

MigrationsNext ==
  \/ \E n \in 0 .. Latest : Migrate(n)
  \/ \E t \in DOMAIN Models : Write(t)

MigrationsSpec == MigrationsInit /\ [][MigrationsNext]_migrationVars

-----------------------------------------------------------------------------
(* Properties                                                              *)

\* What revision n creates in an empty database.
Built(n) == FoldLeft(Executed, Database(<<>>, {}), Path(0, n)).schema

\* The tables depend on the revision alone, whatever commands led there: every
\* downgrade() undoes exactly what its upgrade() did (versions/*.py).
SchemaOfRevision == schema = Built(revision)

\* At the head the migrations have made the tables of the models: each takes the
\* INSERTs of its model, and has its keys and references, on which process_once
\* and start_request rely.  The tests never run the migrations.
HeadServes ==
  revision = Latest =>
    /\ DOMAIN schema = DOMAIN Models
    /\ \A t \in DOMAIN Models :
         /\ Accepts(schema[t], Models[t])
         /\ Columns(schema[t]) = Columns(Models[t])
         /\ schema[t].keys = Models[t].keys
         /\ schema[t].parents = Models[t].parents

\* A release can always be taken back, to any earlier revision and whatever rows
\* were written: no downgrade() is refused.
DowngradePossible == \A n \in 0 .. revision : Migrated(n).ok

\* An upgrade is refused in one case only: dead letters have outlived the downgrade
\* of revision 0012, whose correlation_id has no default for them.
DeadLettersAloneBlockUpgrade ==
  \A n \in revision .. Latest :
    Migrated(n).ok <=> ~(revision = 11 /\ n = 12 /\ "dead_letter_events" \in filled)

\* No upgrade empties a table (upgrade() in versions/*.py).
UpgradesKeepRows == [][revision' >= revision => filled \subseteq filled']_migrationVars

=============================================================================
