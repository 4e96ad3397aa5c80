------------------------------- MODULE Startup -------------------------------
(***************************************************************************)
(* The database schema and AutoMigrate, which every start of the service   *)
(* runs before it serves anything.                                         *)
(*                                                                         *)
(* A database left by an old template has bigint id columns.  AutoMigrate  *)
(* recognises it by one column of one table, drops nine tables in as many  *)
(* statements whose errors are ignored, and lets GORM create what is       *)
(* missing.  The process can end between any two statements.               *)
(***************************************************************************)
EXTENDS Integers, SequencesExt

CONSTANT MaxMishaps   \* bound on the faults and signals of a behaviour

ASSUME MishapAssumption == MaxMishaps \in Nat

VARIABLES
    schema,       \* table -> type of its id columns, "none" if there is no table
    stage,        \* what the main goroutine does next
    step,         \* the statement of the stage it has come to
    interrupted,  \* a DROP failed, or the process ended among the DROPs
    mishaps       \* faults and signals so far

database == <<schema, stage, step, interrupted, mishaps>>

Drops ==
    <<"invoice_items", "payments", "invoices", "customer_rms", "contact_rms",
      "item_rms", "work_order_part_line_rms", "work_order_service_line_rms",
      "work_order_rms">>

\* GORM migrates the tables one by one.
Models ==
    <<"invoices", "invoice_items", "payments", "customer_rms", "contact_rms",
      "item_rms", "invoice_audit_logs", "work_order_rms",
      "work_order_service_line_rms", "work_order_part_line_rms">>

Tables == ToSet(Models)

\* The databases a deployment starts from: an empty one, one of this version, and
\* the old template's, which had no audit log and perhaps no read models.
Fresh    == [t \in Tables |-> "none"]
Current  == [t \in Tables |-> "uuid"]
Old(had) == [t \in Tables |-> IF t \in had THEN "int8" ELSE "none"]

Databases ==
    {Fresh, Current, Old(ToSet(Drops)), Old({"invoices", "invoice_items", "payments"})}

SchemaInit ==
    /\ schema \in Databases
    /\ step = 1
    /\ interrupted = FALSE
    /\ mishaps = 0

Mishap == mishaps < MaxMishaps /\ mishaps' = mishaps + 1

\* log.Fatalf in the main goroutine.
Fatal == stage' = "fatal" /\ UNCHANGED <<schema, step, interrupted>>

-----------------------------------------------------------------------------
(* AutoMigrate.                                                             *)

\* Bug for the mutation check: udt_name never says "bigint".
DetectedByName == schema["invoices"] = "bigint"

\* Bug for the mutation check: any invoices table is an old one.
DetectedByTable == schema["invoices"] # "none"

Detected == schema["invoices"] \in {"int8", "bigint"}

Detect ==
    /\ stage = "detect"
    /\ stage' = IF Detected THEN "drop" ELSE "migrate"
    /\ step' = 1
    /\ UNCHANGED <<schema, interrupted, mishaps>>

\* The query fails, its error is not looked at and its result is empty.
DetectFails ==
    /\ stage = "detect"
    /\ Mishap
    /\ stage' = "migrate"
    /\ step' = 1
    /\ UNCHANGED <<schema, interrupted>>

\* Bug for the mutation check: one statement too many.
NextDropLate ==
    IF step > Len(Drops)
    THEN stage' = "migrate" /\ step' = 1
    ELSE stage' = "drop" /\ step' = step + 1

\* Bug for the mutation check: the last table is forgotten.
NextDropEarly ==
    IF step = Len(Drops) - 1
    THEN stage' = "migrate" /\ step' = 1
    ELSE stage' = "drop" /\ step' = step + 1

\* On to the next DROP, or to GORM.
NextDrop ==
    IF step = Len(Drops)
    THEN stage' = "migrate" /\ step' = 1
    ELSE stage' = "drop" /\ step' = step + 1

DropTable ==
    /\ stage = "drop"
    /\ schema' = [schema EXCEPT ![Drops[step]] = "none"]
    /\ NextDrop
    /\ UNCHANGED <<interrupted, mishaps>>

\* A DROP fails (a lock, a lost connection) and its error is not looked at.
DropFails ==
    /\ stage = "drop"
    /\ Mishap
    /\ interrupted' = TRUE
    /\ NextDrop
    /\ UNCHANGED schema

\* Bug for the mutation check: GORM's error is not looked at either.
MigrateRegardless ==
    /\ stage = "migrate"
    /\ schema' = [schema EXCEPT ![Models[step]] = IF @ = "none" THEN "uuid" ELSE @]
    /\ IF step = Len(Models)
       THEN stage' = "producer" /\ step' = 1
       ELSE step' = step + 1 /\ UNCHANGED stage
    /\ UNCHANGED <<interrupted, mishaps>>

MigrateTable ==
    /\ stage = "migrate"
    /\ schema[Models[step]] # "int8"
    /\ schema' = [schema EXCEPT ![Models[step]] = "uuid"]
    /\ IF step = Len(Models)
       THEN stage' = "producer" /\ step' = 1
       ELSE step' = step + 1 /\ UNCHANGED stage
    /\ UNCHANGED <<interrupted, mishaps>>

\* ALTER COLUMN ... TYPE uuid: a bigint cannot be cast.
CastFails ==
    /\ stage = "migrate"
    /\ schema[Models[step]] = "int8"
    /\ Fatal
    /\ UNCHANGED mishaps

Migrate == Detect \/ DropTable \/ MigrateTable \/ CastFails

-----------------------------------------------------------------------------

Migrated == schema = Current

\* Old tables are left, and what they are recognised by is not.
Wedged ==
    /\ stage # "drop"
    /\ schema["invoices"] # "int8"
    /\ \E t \in Tables : schema[t] = "int8"

=============================================================================
