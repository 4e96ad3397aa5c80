---------------------------- MODULE LifecycleProofs ----------------------------
(***************************************************************************)
(* Theorems about Lifecycle, for any set of requests and any number of     *)
(* faults, signals, kills and restarts, and their proofs.                  *)
(***************************************************************************)
EXTENDS Lifecycle, TLAPS

-----------------------------------------------------------------------------
(* The tables, told once, so that the steps need not look at the sequences. *)

\* The nine tables AutoMigrate drops and the ten GORM migrates: positions and names.
LEMMA Sequences ==
    /\ Len(Drops) = 9 /\ DOMAIN Drops = 1 .. 9
    /\ Len(Models) = 10 /\ DOMAIN Models = 1 .. 10
    /\ Models[1] = "invoices"
BY DEF Drops, Models

\* Every table GORM migrates has a place in the migration.
LEMMA ModelTables ==
    /\ \A k \in 1 .. 10 : Models[k] \in Tables
    /\ \A t \in Tables : \E k \in 1 .. 10 : Models[k] = t
BY DEF Models, Tables, ToSet

\* Every table but the audit log, which the old template had not, has a DROP.
LEMMA DropTables ==
    /\ \A k \in 1 .. 9 : Drops[k] \in Tables
    /\ \A t \in Tables \ {"invoice_audit_logs"} : \E k \in 1 .. 9 : Drops[k] = t
    /\ \A k \in 1 .. 9 : Drops[k] # "invoice_audit_logs"
    /\ \E k \in 1 .. 9 : Drops[k] = "invoices"
BY DEF Drops, Models, Tables, ToSet

-----------------------------------------------------------------------------
(* The invariants.                                                          *)

\* As long as the invoices are old, nothing is new: GORM begins with them.
OldTogether == schema["invoices"] = "int8" => \A t \in Tables : schema[t] # "uuid"

\* The DROPs run on a database without a new table.
DropsOld == stage = "drop" => \A t \in Tables : schema[t] # "uuid"

\* GORM has come to table number step.
MigratedSoFar ==
    stage = "migrate" => \A k \in 1 .. 10 : k < step => schema[Models[k]] = "uuid"

AuditNeverOld == schema["invoice_audit_logs"] # "int8"

\* Without an interruption old tables are recognised, and while they are dropped
\* those before the present one are gone.
OldRecognised ==
    ~interrupted =>
        IF stage = "drop"
        THEN \A k \in 1 .. 9 : k < step => schema[Drops[k]] = "none"
        ELSE schema["invoices"] = "int8" \/ \A t \in Tables : schema[t] # "int8"

\* Past the migration, or once there was something to serve with, the database
\* is of this version.
Past == {"producer", "consumer", "listen", "notify", "waiting", "draining",
         "overdue", "stop", "close", "return"}

ServedMigrated ==
    /\ stage \in Past => Migrated
    /\ server # "off" \/ consumer # "off" => Migrated /\ stage \in Past \cup {"fatal"}

\* What is open, and who may still be served, at each stage of main().
Phases ==
    /\ stage \in Past \ {"producer", "return"} => producer = "open"
    /\ server \in {"starting", "listening"} =>
           producer = "open" /\ stage \in {"notify", "waiting"}
    /\ server \in {"closed", "late"} =>
           stage \in {"draining", "overdue", "stop", "close", "return"}
    /\ \A q \in Req : requests[q] \in Accepted =>
           /\ producer = "open"
           /\ server \in {"listening", "failing", "closed"}
           /\ stage \in {"notify", "waiting", "draining", "overdue"}

Inv ==
    /\ TypeOK
    /\ OldTogether /\ DropsOld /\ MigratedSoFar /\ AuditNeverOld /\ OldRecognised
    /\ ServedMigrated
    /\ Phases

-----------------------------------------------------------------------------
(* Initial states.                                                          *)

\* A new process on any of the databases to begin with satisfies every invariant.
LEMMA InitInv == Init => Inv
<1> SUFFICES ASSUME Init PROVE Inv
    OBVIOUS
<1> USE DEF Init
<1> DEFINE Fields == {"none", "int8", "uuid"}
<1>1. /\ schema \in [Tables -> Fields]
      /\ OldTogether /\ AuditNeverOld
      /\ schema["invoices"] = "int8" \/ \A t \in Tables : schema[t] # "int8"
  <2>1. "invoices" \in Tables /\ "invoice_audit_logs" \in Tables
    BY DEF Tables, Models, ToSet
  <2>2. CASE schema \in {Fresh, Current}
    BY <2>1, <2>2 DEF Fresh, Current, OldTogether, AuditNeverOld
  <2>3. ASSUME NEW had \in SUBSET Tables, schema = Old(had),
               "invoices" \in had, "invoice_audit_logs" \notin had
        PROVE  <1>1
    BY <2>1, <2>3 DEF Old, OldTogether, AuditNeverOld
  <2>4. /\ ToSet(Drops) \in SUBSET Tables
        /\ "invoices" \in ToSet(Drops)
        /\ "invoice_audit_logs" \notin ToSet(Drops)
    BY Sequences, DropTables DEF ToSet
  <2>5. /\ {"invoices", "invoice_items", "payments"} \in SUBSET Tables
        /\ "invoice_audit_logs" \notin {"invoices", "invoice_items", "payments"}
    BY DEF Tables, Models, ToSet
  <2> QED
    BY <2>2, <2>3, <2>4, <2>5 DEF SchemaInit, Databases
<1>2. TypeOK
  <2>1. requests \in [Req -> {"unsent", "answered", "cut"} \cup Accepted]
    OBVIOUS
  <2>2. interrupted \in BOOLEAN /\ quit \in BOOLEAN
    BY Zenon DEF SchemaInit
  <2>4. mishaps \in 0 .. MaxMishaps
    BY MishapAssumption DEF SchemaInit
  <2>3. step \in DOMAIN Models
    BY Sequences DEF SchemaInit
  <2> QED
    BY <1>1, <2>1, <2>2, <2>3, <2>4 DEF TypeOK
<1>3. DropsOld /\ MigratedSoFar /\ OldRecognised
  BY <1>1 DEF SchemaInit, DropsOld, MigratedSoFar, OldRecognised
<1>4. ServedMigrated /\ Phases
  BY DEF ServedMigrated, Phases, Past, Accepted
<1> QED
  BY <1>1, <1>2, <1>3, <1>4 DEF Inv

-----------------------------------------------------------------------------
(* Steps.                                                                   *)

\* The actions of a step, one by one; what is proved of each of them is proved of Next.
LEMMA Actions ==
    ASSUME [Next]_vars
    PROVE  \/ Connect \/ NewProducer \/ StartConsumer \/ Listen \/ Notify
           \/ Shutdown \/ Drained \/ TimesOut \/ StopConsumer \/ CloseProducer
           \/ Exit
           \/ (Detect \/ DropTable \/ MigrateTable \/ CastFails) /\ UNCHANGED <<serving, quit>>
           \/ (DetectFails \/ DropFails) /\ UNCHANGED <<serving, quit>>
           \/ StartFails \/ Serve \/ ServeFails
           \/ \E q \in Req : Accept(q) \/ Commit(q) \/ Respond(q)
           \/ ServerExit \/ Kill \/ Signal \/ Boot
           \/ UNCHANGED vars
BY DEF Next, Main, Migrate

\* What the end of a process leaves alone.
LEMMA EndKeepsTypes ==
    ASSUME TypeOK, NEW how \in {"clean", "failed", "timeout", "killed"}, End(how),
           mishaps' \in 0 .. MaxMishaps
    PROVE  TypeOK'
<1>1. requests' \in [Req -> {"unsent", "answered", "cut"} \cup Accepted]
  BY DEF TypeOK, End
<1>2. interrupted' \in BOOLEAN /\ quit' \in BOOLEAN
  BY Zenon DEF TypeOK, End
<1>3. /\ step' \in DOMAIN Models /\ stage' = "down"
      /\ schema' \in [Tables -> {"none", "int8", "uuid"}]
  BY Sequences DEF TypeOK, End
<1>4. server' = "off" /\ consumer' = "off" /\ producer' = "off" /\ exit' = how
  BY DEF End
<1> QED
  BY <1>1, <1>2, <1>3, <1>4 DEF TypeOK

\* Every step keeps the types.
LEMMA TypeNext ==
    ASSUME TypeOK, [Next]_vars
    PROVE  TypeOK'
<1> USE Sequences, MishapAssumption DEF TypeOK
<1>0. ASSUME Mishap PROVE mishaps' \in 0 .. MaxMishaps
  BY <1>0 DEF Mishap
<1>1. CASE Connect \/ NewProducer \/ StartConsumer \/ Listen \/ Notify
  BY <1>1 DEF Connect, NewProducer, StartConsumer, Listen, Notify, Goto, serving
<1>2. CASE Shutdown \/ Drained \/ TimesOut \/ StopConsumer \/ CloseProducer
  <2>1. CASE Shutdown
    BY <2>1 DEF Shutdown, ShutDown, Goto
  <2>2. CASE Drained \/ TimesOut
    BY <2>2 DEF Drained, TimesOut, Goto, serving
  <2>3. CASE StopConsumer \/ CloseProducer
    BY <2>3 DEF StopConsumer, CloseProducer, Goto
  <2> QED
    BY <1>2, <2>1, <2>2, <2>3
<1>3. CASE Exit
  BY <1>3, EndKeepsTypes DEF Exit
<1>4. CASE Detect /\ UNCHANGED <<serving, quit>>
  BY <1>4 DEF Detect, serving
<1>5. CASE DropTable /\ UNCHANGED <<serving, quit>>
  BY <1>5, DropTables DEF DropTable, NextDrop, serving
<1>6. CASE (MigrateTable \/ CastFails) /\ UNCHANGED <<serving, quit>>
  BY <1>6, ModelTables DEF MigrateTable, CastFails, Fatal, serving
<1>7. CASE (DetectFails \/ DropFails) /\ UNCHANGED <<serving, quit>>
  <2>1. CASE DetectFails
    BY <1>0, <1>7, <2>1 DEF DetectFails, serving
  <2>2. CASE DropFails
    <3>1. interrupted' = TRUE /\ schema' = schema /\ mishaps' \in 0 .. MaxMishaps
      BY <1>0, <2>2 DEF DropFails
    <3>2. /\ step' \in IF stage' = "drop" THEN DOMAIN Drops ELSE DOMAIN Models
          /\ stage' \in {"drop", "migrate"}
      BY <2>2 DEF DropFails, NextDrop
    <3> QED
      BY <1>7, <3>1, <3>2 DEF serving
  <2> QED
    BY <1>7, <2>1, <2>2
<1>8. CASE StartFails \/ Serve \/ ServeFails
  BY <1>0, <1>8 DEF StartFails, Serve, ServeFails, Fatal, serving, database
<1>9. CASE \E q \in Req : Accept(q) \/ Commit(q) \/ Respond(q)
  BY <1>9 DEF Accept, Commit, Respond, Becomes, Accepted, database
<1>10. CASE Kill \/ ServerExit
  BY <1>0, <1>10, EndKeepsTypes DEF Kill, ServerExit
<1>11. CASE Signal
  <2>1. CASE Notified
    <3>1. quit' = TRUE /\ UNCHANGED <<schema, stage, step, interrupted, serving>>
      BY <1>11, <2>1 DEF Signal
    <3>2. mishaps' \in 0 .. MaxMishaps
      BY <1>0, <1>11 DEF Signal
    <3> QED
      BY <3>1, <3>2 DEF serving
  <2>2. CASE ~Notified
    BY <1>0, <1>11, <2>2, EndKeepsTypes DEF Signal
  <2> QED
    BY <2>1, <2>2
<1>12. CASE Boot \/ UNCHANGED vars
  BY <1>12 DEF Boot, Goto, vars, serving, database
<1> QED
  BY <1>1, <1>2, <1>3, <1>4, <1>5, <1>6, <1>7, <1>8, <1>9, <1>10, <1>11, <1>12, Actions

\* The stages of main() that neither run a DROP nor hand a table to GORM leave the
\* tables alone, and the database as good as it was.
LEMMA SchemaKept ==
    ASSUME Inv, UNCHANGED schema, interrupted' = (interrupted \/ stage = "drop"),
           stage' # "drop", stage' # "migrate"
    PROVE  /\ OldTogether' /\ DropsOld' /\ MigratedSoFar' /\ AuditNeverOld'
           /\ OldRecognised'
BY DEF Inv, OldTogether, DropsOld, MigratedSoFar, AuditNeverOld, OldRecognised

\* Each step of AutoMigrate and of main() keeps the database in one of the states
\* the invariants allow.
LEMMA SchemaNext ==
    ASSUME Inv, [Next]_vars
    PROVE  /\ OldTogether' /\ DropsOld' /\ MigratedSoFar' /\ AuditNeverOld'
           /\ OldRecognised'
<1> DEFINE Goal == /\ OldTogether /\ DropsOld /\ MigratedSoFar /\ AuditNeverOld
                   /\ OldRecognised
<1> SUFFICES Goal'
    OBVIOUS
<1>t. TypeOK /\ TypeOK'
  BY TypeNext DEF Inv
<1>0. ASSUME UNCHANGED <<schema, interrupted>>, stage # "drop", stage' # "drop",
             stage' # "migrate"
      PROVE  Goal'
  <2>1. interrupted' = (interrupted \/ stage = "drop")
    <3>1. interrupted \in BOOLEAN
      BY <1>t DEF TypeOK
    <3> QED
      BY <1>0, <3>1
  <2> QED
    BY <1>0, <2>1, SchemaKept
<1>1. CASE Connect \/ NewProducer \/ StartConsumer \/ Listen \/ Notify
  BY <1>0, <1>1 DEF Connect, NewProducer, StartConsumer, Listen, Notify, Goto
<1>2. CASE Shutdown \/ Drained \/ TimesOut \/ StopConsumer \/ CloseProducer
  BY <1>0, <1>2 DEF Shutdown, Drained, TimesOut, StopConsumer, CloseProducer, Goto
<1>e. ASSUME NEW how, End(how) PROVE Goal'
  BY <1>e, SchemaKept DEF End
<1>3. CASE Exit \/ ServerExit
  BY <1>3, <1>e DEF Exit, ServerExit
<1>4. CASE Detect
  <2>1. /\ UNCHANGED <<schema, interrupted>> /\ stage # "drop" /\ step' = 1
        /\ IF Detected THEN stage' = "drop" ELSE stage' = "migrate"
    BY <1>4 DEF Detect
  <2>2. Detected <=> schema["invoices"] = "int8"
    <3>1. "invoices" \in Tables
      BY Sequences, ModelTables
    <3> QED
      BY <1>t, <3>1 DEF Detected, TypeOK
  <2> QED
    BY <2>1, <2>2 DEF Inv, OldTogether, DropsOld, MigratedSoFar, AuditNeverOld, OldRecognised
<1>5. CASE DetectFails
  BY <1>5 DEF DetectFails, Inv, OldTogether, DropsOld, MigratedSoFar, AuditNeverOld,
              OldRecognised
<1>6. CASE DropTable
  <2>1. PICK k \in 1 .. 9 : k = step /\ schema' = [schema EXCEPT ![Drops[k]] = "none"]
    BY <1>6, <1>t, Sequences DEF DropTable, TypeOK
  <2>2. /\ Drops[k] \in Tables /\ Drops[k] # "invoice_audit_logs"
        /\ \A t \in Tables : schema'[t] = IF t = Drops[k] THEN "none" ELSE schema[t]
    BY <1>t, <2>1, DropTables DEF TypeOK
  <2>3. "invoices" \in Tables /\ "invoice_audit_logs" \in Tables
    BY DEF Tables, Models, ToSet
  <2>4. /\ interrupted' = interrupted
        /\ IF k = 9 THEN stage' = "migrate" /\ step' = 1
                    ELSE stage' = "drop" /\ step' = k + 1
    BY <1>6, <2>1, Sequences DEF DropTable, NextDrop
  <2>5. \A t \in Tables : schema[t] # "uuid" /\ schema'[t] # "uuid"
    BY <1>6, <2>2 DEF DropTable, Inv, DropsOld
  <2>6. ~interrupted => \A j \in 1 .. 9 : j < k + 1 => schema'[Drops[j]] = "none"
    BY <1>6, <2>1, <2>2, DropTables DEF DropTable, Inv, OldRecognised
  <2>7. ~interrupted /\ k = 9 => \A t \in Tables : schema'[t] # "int8"
    BY <2>2, <2>3, <2>6, DropTables DEF Inv, AuditNeverOld
  <2> QED
    BY <2>2, <2>3, <2>4, <2>5, <2>6, <2>7
    DEF Inv, OldTogether, DropsOld, MigratedSoFar, AuditNeverOld, OldRecognised
<1>7. CASE DropFails
  <2>1. /\ schema' = schema /\ interrupted' = TRUE /\ stage = "drop"
        /\ stage' \in {"drop", "migrate"} /\ (stage' = "migrate" => step' = 1)
    BY <1>7 DEF DropFails, NextDrop
  <2> QED
    BY <2>1 DEF Inv, OldTogether, DropsOld, MigratedSoFar, AuditNeverOld, OldRecognised
<1>8. CASE MigrateTable
  <2>1. PICK k \in 1 .. 10 : k = step
    BY <1>8, <1>t, Sequences DEF MigrateTable, TypeOK
  <2>2. /\ schema[Models[k]] # "int8" /\ Models[k] \in Tables
        /\ \A t \in Tables : schema'[t] = IF t = Models[k] THEN "uuid" ELSE schema[t]
    BY <1>8, <1>t, <2>1, ModelTables DEF MigrateTable, TypeOK
  <2>3. \A j \in 1 .. 10 : j < k + 1 => schema'[Models[j]] = "uuid"
    BY <1>8, <2>1, <2>2, ModelTables DEF MigrateTable, Inv, MigratedSoFar
  <2>4. "invoices" \in Tables /\ "invoice_audit_logs" \in Tables
    BY DEF Tables, Models, ToSet
  <2>5. schema'["invoices"] = "uuid"
    BY <2>3, Sequences
  <2>6. /\ interrupted' = interrupted /\ stage = "migrate" /\ stage' # "drop"
        /\ stage' = "migrate" => step' = k + 1
    BY <1>8, <2>1 DEF MigrateTable
  <2>7. ~interrupted => \A t \in Tables : schema'[t] # "int8"
    <3>1. schema["invoices"] # "int8"
      BY <1>8, <2>1, <2>2, Sequences DEF MigrateTable, Inv, MigratedSoFar
    <3> QED
      BY <2>2, <2>6, <3>1 DEF Inv, OldRecognised
  <2> QED
    BY <2>2, <2>3, <2>4, <2>5, <2>6, <2>7
    DEF Inv, OldTogether, DropsOld, MigratedSoFar, AuditNeverOld, OldRecognised
<1>9. CASE CastFails \/ StartFails
  BY <1>0, <1>9 DEF CastFails, StartFails, Fatal
<1>11. ASSUME UNCHANGED <<schema, stage, step, interrupted>> PROVE Goal'
  BY <1>11 DEF Inv, OldTogether, DropsOld, MigratedSoFar, AuditNeverOld, OldRecognised
<1>12. CASE Serve \/ ServeFails \/ \E q \in Req : Accept(q) \/ Commit(q) \/ Respond(q)
  BY <1>11, <1>12 DEF Serve, ServeFails, Accept, Commit, Respond, Becomes, database
<1>13. CASE Kill \/ Signal
  BY <1>e, <1>11, <1>13 DEF Kill, Signal
<1>14. CASE Boot
  BY <1>0, <1>14 DEF Boot, Up, Goto
<1>15. CASE UNCHANGED vars
  BY <1>11, <1>15 DEF vars, database
<1> QED
  BY <1>1, <1>2, <1>3, <1>4, <1>5, <1>6, <1>7, <1>8, <1>9, <1>12, <1>13, <1>14, <1>15,
     Actions

\* What is served, and on which database.
LEMMA ServedNext ==
    ASSUME Inv, [Next]_vars
    PROVE  ServedMigrated'
<1> USE DEF Past
<1>1. CASE Connect \/ NewProducer \/ StartConsumer \/ Listen \/ Notify
  BY <1>1 DEF Connect, NewProducer, StartConsumer, Listen, Notify, Goto, serving,
              Inv, ServedMigrated, Migrated
<1>2. CASE Shutdown \/ Drained \/ TimesOut \/ StopConsumer \/ CloseProducer
  BY <1>2 DEF Shutdown, ShutDown, Drained, TimesOut, StopConsumer, CloseProducer, Goto,
              serving, Inv, ServedMigrated, Migrated
<1>e. ASSUME NEW how, End(how) PROVE ServedMigrated'
  BY <1>e DEF End, ServedMigrated
<1>3. CASE Exit \/ ServerExit
  BY <1>3, <1>e DEF Exit, ServerExit
<1>4. CASE (Detect \/ DropTable \/ DetectFails \/ DropFails) /\ UNCHANGED <<serving, quit>>
  BY <1>4 DEF Detect, DropTable, DetectFails, DropFails, NextDrop, serving,
              Inv, ServedMigrated
<1>5. CASE MigrateTable /\ UNCHANGED <<serving, quit>>
  <2>1. server = "off" /\ consumer = "off" /\ stage = "migrate" /\ UNCHANGED <<server, consumer>>
    BY <1>5 DEF MigrateTable, serving, Inv, ServedMigrated
  <2>2. ASSUME stage' # "migrate" PROVE Migrated'
    <3>1. /\ step = 10 /\ schema \in [Tables -> {"none", "int8", "uuid"}]
          /\ schema' = [schema EXCEPT ![Models[step]] = "uuid"]
      BY <1>5, <2>1, <2>2, Sequences DEF MigrateTable, Inv, TypeOK
    <3>2. \A t \in Tables : schema'[t] = "uuid"
      <4> SUFFICES ASSUME NEW t \in Tables PROVE schema'[t] = "uuid"
        OBVIOUS
      <4>1. PICK k \in 1 .. 10 : Models[k] = t
        BY ModelTables
      <4>2. k = 10 \/ schema[Models[k]] = "uuid"
        BY <2>1, <3>1 DEF Inv, MigratedSoFar
      <4> QED
        BY <3>1, <4>1, <4>2
    <3> QED
      BY <3>1, <3>2 DEF Migrated, Current
  <2> QED
    BY <1>5, <2>1, <2>2 DEF MigrateTable, ServedMigrated
<1>6. CASE (CastFails \/ StartFails) /\ UNCHANGED <<serving, quit>>
  BY <1>6 DEF CastFails, StartFails, Fatal, serving, Inv, ServedMigrated, Migrated
<1>7. CASE Serve \/ ServeFails
  BY <1>7 DEF Serve, ServeFails, serving, database, Inv, ServedMigrated, Migrated
<1>8. CASE \E q \in Req : Accept(q) \/ Commit(q) \/ Respond(q)
  BY <1>8 DEF Accept, Commit, Respond, Becomes, database, Inv, ServedMigrated, Migrated
<1>9. CASE Kill \/ Signal
  BY <1>9, <1>e DEF Kill, Signal, serving, Inv, ServedMigrated, Migrated
<1>10. CASE Boot \/ UNCHANGED vars
  BY <1>10 DEF Boot, Up, Goto, serving, vars, database, Inv, ServedMigrated, Migrated
<1> QED
  BY <1>1, <1>2, <1>3, <1>4, <1>5, <1>6, <1>7, <1>8, <1>9, <1>10, Actions
     DEF StartFails

\* What is open, and who may still be served.
LEMMA PhasesNext ==
    ASSUME Inv, [Next]_vars
    PROVE  Phases'
<1> USE DEF Past, Accepted
<1>t. TypeOK
  BY DEF Inv
<1>p. Phases /\ ServedMigrated
  BY DEF Inv
<1>1. CASE Connect \/ NewProducer \/ StartConsumer \/ Listen \/ Notify
  BY <1>1, <1>p DEF Connect, NewProducer, StartConsumer, Listen, Notify, Goto, serving,
              ServedMigrated, Phases
<1>2. CASE Shutdown \/ Drained \/ TimesOut
  BY <1>2, <1>p DEF Shutdown, ShutDown, Drained, TimesOut, Goto, serving, Phases
<1>3. CASE StopConsumer \/ CloseProducer
  BY <1>3, <1>p DEF StopConsumer, CloseProducer, Goto, Phases
<1>e. ASSUME NEW how, End(how) PROVE Phases'
  <2>1. \A q \in Req : requests'[q] \notin Accepted
    BY <1>e, <1>t DEF End, TypeOK
  <2> QED
    BY <1>e, <2>1 DEF End, Phases
<1>4. CASE Exit \/ ServerExit
  BY <1>4, <1>e DEF Exit, ServerExit
<1>5. CASE (Detect \/ DropTable \/ DetectFails \/ DropFails) /\ UNCHANGED <<serving, quit>>
  BY <1>5, <1>p DEF Detect, DropTable, DetectFails, DropFails, NextDrop, serving,
              ServedMigrated, Phases
<1>6. CASE (MigrateTable \/ CastFails) /\ UNCHANGED <<serving, quit>>
  BY <1>6, <1>p DEF MigrateTable, CastFails, Fatal, serving, ServedMigrated, Phases
<1>7. CASE StartFails
  BY <1>7, <1>p DEF StartFails, Fatal, serving, Phases
<1>8. CASE Serve \/ ServeFails
  BY <1>8, <1>p DEF Serve, ServeFails, serving, database, ServedMigrated, Phases
<1>9. ASSUME NEW q \in Req, Accept(q) \/ Commit(q) \/ Respond(q)
      PROVE  Phases'
  <2>1. /\ UNCHANGED <<stage, server, producer>>
        /\ \A p \in Req : requests'[p] \in Accepted =>
               requests[p] \in Accepted \/ server = "listening"
    BY <1>9, <1>t DEF Accept, Commit, Respond, Becomes, database, TypeOK
  <2> QED
    BY <1>p, <2>1 DEF Phases
<1>10. CASE Kill
  BY <1>10, <1>e DEF Kill
<1>11. CASE Signal
  BY <1>11, <1>e, <1>p DEF Signal, serving, Phases
<1>12. CASE Boot \/ UNCHANGED vars
  BY <1>12, <1>p DEF Boot, Up, Goto, serving, vars, database, Phases
<1> QED
  BY <1>1, <1>2, <1>3, <1>4, <1>5, <1>6, <1>7, <1>8, <1>9, <1>10, <1>11, <1>12, Actions

-----------------------------------------------------------------------------

\* Every reachable state satisfies the invariants.
THEOREM Invariance == Spec => []Inv
<1>1. Inv /\ [Next]_vars => Inv'
  BY TypeNext, SchemaNext, ServedNext, PhasesNext DEF Inv
<1> QED
  BY InitInv, <1>1, PTL DEF Spec

\* The variables of the process and of the database have their types.
THEOREM TypeCorrect == Spec => []TypeOK
<1>1. Inv => TypeOK
  BY DEF Inv
<1> QED
  BY Invariance, <1>1, PTL

\* However many starts failed or broke off before, the server and the consumer run
\* on a database all of whose tables are of this version.
THEOREM ServesMigrated == Spec => []ServesOnlyMigrated
<1>1. Inv => ServesOnlyMigrated
  BY DEF Inv, ServedMigrated, ServesOnlyMigrated
<1> QED
  BY Invariance, <1>1, PTL

\* A database that AutoMigrate cannot recognise any more was interrupted, or failed,
\* among its DROPs.
THEOREM WedgedWasInterrupted == Spec => []OnlyInterruptionWedges
<1>1. Inv => OnlyInterruptionWedges
  BY DEF Inv, OldRecognised, OnlyInterruptionWedges, Wedged
<1> QED
  BY Invariance, <1>1, PTL

\* No start, whole or broken off, drops a table of this version.
THEOREM TablesKept == Spec => CurrentTablesKept
<1>1. ASSUME Inv, [Next]_vars, NEW t \in Tables, schema[t] = "uuid"
      PROVE  schema'[t] = "uuid"
  <2>1. CASE DropTable
    BY <1>1, <2>1 DEF Inv, DropsOld, DropTable
  <2>2. CASE MigrateTable
    BY <1>1, <2>2 DEF Inv, TypeOK, MigrateTable
  <2>3. CASE UNCHANGED schema
    BY <1>1, <2>3
  <2> QED
    BY <1>1, <2>1, <2>2, <2>3, Actions
       DEF Connect, NewProducer, StartConsumer, Listen, Notify, Shutdown, Drained, TimesOut,
           StopConsumer, CloseProducer, Goto, Exit, End, Detect, CastFails, DetectFails,
           DropFails, StartFails, Serve, ServeFails, ServerExit, Fatal, Accept, Commit, Respond, Becomes,
           Kill, Signal, Boot, vars, database
<1>2. Inv /\ [Next]_vars
      => [\A t \in Tables : schema[t] = "uuid" => schema'[t] = "uuid"]_vars
  BY <1>1
<1> QED
  BY Invariance, <1>2, PTL DEF Spec, CurrentTablesKept

\* A handler that has committed finds the producer open, whatever the process is doing.
THEOREM ProducerOpen == Spec => []PublishesOnOpenProducer
<1>1. Inv => PublishesOnOpenProducer
  BY DEF Inv, Phases, Accepted, PublishesOnOpenProducer
<1> QED
  BY Invariance, <1>1, PTL

\* After Shutdown has closed the server, only its time limit or a kill cuts an accepted
\* request.
THEOREM AcceptedAnswered == Spec => AcceptedIsAnswered
<1>1. ASSUME Inv, [Next]_vars, NEW q \in Req, server = "closed", requests[q] \in Accepted,
             requests'[q] = "cut"
      PROVE  exit' \in {"timeout", "killed"}
  <2>1. CASE Exit
    BY <1>1, <2>1 DEF Exit, End, Inv, Phases
  <2>2. CASE Kill \/ Signal
    BY <1>1, <2>2 DEF Kill, Signal, End, serving, Accepted
  <2>5. CASE ServerExit
    BY <1>1, <2>5 DEF ServerExit
  <2>3. CASE requests' = requests
    BY <1>1, <2>3 DEF Accepted
  <2>4. CASE \E p \in Req : Accept(p) \/ Commit(p) \/ Respond(p)
    BY <1>1, <2>4 DEF Accept, Commit, Respond, Becomes, Accepted, Inv, TypeOK
  <2> QED
    BY <1>1, <2>1, <2>2, <2>3, <2>4, <2>5, Actions
       DEF Connect, NewProducer, StartConsumer, Listen, Notify, Shutdown, Drained, TimesOut,
           StopConsumer, CloseProducer, StartFails, Serve, ServeFails, Boot, serving, vars
<1>2. Inv /\ [Next]_vars
      => [\A q \in Req : server = "closed" /\ requests[q] \in Accepted
             => requests'[q] # "cut" \/ exit' \in {"timeout", "killed"}]_vars
  BY <1>1
<1> QED
  BY Invariance, <1>2, PTL DEF Spec, AcceptedIsAnswered

=============================================================================
