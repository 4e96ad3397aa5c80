# erp-billing-service: a TLA+ verification project

Models of the billing service (Go, PostgreSQL through GORM, Kafka), checked with
TLC on small instances and, but for liveness, proved with TLAPS for every
instance.
Paths below are relative to `src/`.

## 1. Inventory

| Component | State it keeps | Operations | Talks to |
|---|---|---|---|
| Invoice service (`internal/application/invoice_service.go`) | none of its own; a request holds an invoice aggregate in memory between its statements | CreateInvoice, UpdateInvoice, GetInvoice, DeleteInvoice, UpdateStatus; ListInvoices, GetAuditLogs (reads) | the repositories, the read model (GetItem), the publisher |
| Payment service (`internal/application/payment_service.go`) | as above | RecordPayment | the repositories, the publisher |
| Repositories (`internal/adapters/outbound/postgres`) | tables invoices, invoice_items, payments, invoice_audit_logs | Create, Update (gorm `Save`), GetByID (3 reads), Delete (transaction), ClearItems, GetNextInvoiceNumber, audit Create | PostgreSQL |
| Event publisher (`internal/adapters/outbound/kafka`) | none | Publish | the broker |
| HTTP handlers (`internal/adapters/inbound/http`) | none | decode, call the service, encode | the invoice service, one goroutine per request |
| Kafka consumer handler (`internal/adapters/inbound/kafka/handler.go`) | tables customer_rms, contact_rms, item_rms, work_order_rms | Handle, one handler per aggregate type | shared_kafka's consumer group |
| Read-model repository and search (`read_model_repository.go`, `read_model_handler.go`) | none | searches | PostgreSQL, another service |
| Start-up and migration (`internal/database/database.go`) | the schema | AutoMigrate | PostgreSQL |
| Process life cycle (`cmd/api/main.go`) | server, consumer, producer | start, signal, shutdown | all of the above |
| Example service (`internal/application/example_service.go`, gRPC and HTTP handlers) | table examples | Create, Get, List, Update, Delete | its repository, an in-process publisher; `cmd/api/main.go` wires it to nothing |
| Generated gRPC code, configuration, logging, errors, validator | none | | |

How they interact. An HTTP request runs in a goroutine of its own and sends
several statements to the database. The only transactions are those of one
repository call (`Save` with its associations, `Delete`, `ClearItems`, a
`Create`), so the database serves other requests between any two of them, and
the service's pattern everywhere is: load the whole aggregate in three reads,
edit it in memory, save every column of it. Events are published after the
commit and their result is ignored. The consumer runs beside the server and
writes tables the invoice service only reads, through GetItem.

What is hard here:

* **Stale aggregates**: a save writes back a status, total, credit and child rows
  that other requests may have changed or deleted.
* **Read without a transaction**: GetByID assembles an invoice from three moments;
  UpdateInvoice recomputes the credit from it, GetInvoice answers with it.
* **Half-done methods**: UpdateInvoice removes the items before it can fail;
  RecordPayment inserts the payment before it credits it; UpdateStatus writes
  its audit entry afterwards and ignores that it may fail.
* **Counting out numbers**: read in one statement, used in another, under an
  index that spans organisations while the count does not.
* **Crashes and lost events**: no outbox.
* **Redelivery**: read models commit in the database, offsets in the broker.
* **Migration**: a destructive sequence without a transaction, guarded by a
  test that its own third step falsifies.
* **Rounding**: float64 in memory, two decimals in every column, and a status
  decided by comparing a float64 difference with zero.
* **Shutdown**: requests under way, a time limit, deferred calls that a
  `log.Fatalf` skips, a listening goroutine that returns an error on purpose.
* **Check, then act** in the example service: names, ids and the event after
  the commit.

The properties that make each component correct are those of section 4 and the
list `hazards` of `PROJECT.json`, which gives each hazard its line.

## 2. Modules

| Module | What it models |
|---|---|
| `InvoiceStore` | the four tables, every state-changing statement of the three repositories, GetByID as its three reads, requests (program counter, call, memory), failing statements, a crash of the process |
| `InvoiceService` | CreateInvoice, UpdateInvoice, UpdateStatus, DeleteInvoice, GetInvoice; publishing |
| `PaymentService` | RecordPayment |
| `Billing` | both services over one store: Init, Next, fairness, all properties |
| `Ledger` | the abstract specification: accounts on which every call is one step, and what a call that is cut short can damage |
| `BillingLedger` | the refinement mapping from `Billing` to `Ledger` |
| `MCBilling` | the constants of TLC's instances of `Billing` |
| `Sums` | facts about sums over finite sets, which payments, items and columns add up with |
| `BillingProofs` | the theorems about `Billing` and their proofs |
| `InvoiceProofs` | those about invoice numbers and settled invoices |
| `LedgerProofs` | that `Billing` implements `Ledger`, and what follows for totals, credit and audit log |
| `InvoiceTotals` | the arithmetic of one invoice: what the three methods compute and what the columns keep of it |
| `MCTotals` | bodies and amounts for TLC |
| `TotalsProofs` | the theorems about `InvoiceTotals` and their proofs |
| `Startup` | the database schema and AutoMigrate, statement by statement |
| `Lifecycle` | `main()` around it: the listening goroutine, requests, signals, shutdown, kills, restarts |
| `LifecycleProofs` | the theorems about `Lifecycle` and their proofs |
| `ExampleService` | the template's example service behind its gRPC and HTTP handlers |
| `MCExample` | its symmetry for TLC |
| `ExampleProofs` | the theorems about `ExampleService` and their proofs |
| `ReadModel` | the projection: the log of one partition, the read-model tables, the consumer's offset and its commit, crash and restart; checked by itself |
| `ReadModelProofs` | the theorems about `ReadModel` and their proofs |

### Correspondence

* **One request, one process.** `Req` are the requests. `pc[r]` is the next
  statement the method will send, `call[r]` its arguments, `local[r]` the
  aggregate it holds. A request id doubles as the UUID of the invoice or payment
  it creates, since each creates at most one.
* **One statement (or transaction), one step.** `LoadInvoice`, `PreloadItems`,
  `PreloadPayments` are GetByID (`First` with two `Preload`s); `UpdateClear` is
  ClearItems; `UpdateSave`, `StatusSave`, `PaySave` are `Save`; `CreateInsert`,
  `PayRecord`, `StatusAudit` are the three `Create`s; `DeleteCommit` is the
  delete transaction. What the method computes between two statements is part of
  the step of the latter. The arrival of the request is part of its first
  statement: until then it has no effect.
* **GORM's Save.** It updates every column and upserts the loaded `Items` and
  `Payments` (existing rows are left as they are, missing ones inserted). If its
  UPDATE matches no row it goes on to INSERT. In a save with associations the
  foreign keys are violated first, which fails the call; without any, the
  deleted invoice is stored again (`CanSave`).
* **Rejections are actions of their own**: `CreateRejected` (unique index),
  `UpdateRejected`, `StatusRejected`, `PaySaveRejected`, `PayRecordRejected`
  (foreign key), `ItemNameMissing` (an unnamed line whose item the read model
  lacks: whether GetItem finds it is left open, as the read model changes
  independently).
* **Money.** Whole units. `net` is SubTotal − DiscountTotal + TaxTotal; `total`
  adds Adjustment and ExciseDuty. `paid` is the *set of payments* PaidAmount adds
  up, so that a lost or resurrected credit can be told from an equal sum;
  `BalanceAmount` is stored as a number.
* **StatementFails** stands for every way a statement can return an error having
  changed nothing: the database, the request's cancelled context (the handlers
  pass `r.Context()`, cancelled when the client disconnects), a deadlock victim,
  a foreign-key race decided by the database. An audit entry or an event that is
  lost is `AuditLost` / `EventLost`: the services carry on.
* **Answers.** `local[r]` of a GetInvoice that returned is what GetByID gave it;
  `Response` (mapToResponse) is its fields and items without the payments. The
  customer and contact it looks up in the read model are left out.
* **The ledger mapping.** An update takes effect with its save: until then the
  account still has the items the update loaded, although `ClearItems` deleted
  them. A payment is received when it is credited, although it is inserted
  before. Everything else is read off the tables. A request that fails or
  crashes between the two statements makes the difference visible, and that step
  is the ledger's `BreakOff`.
* **Crash** stops every running request where it is. The process comes back
  by serving the requests that have not arrived yet.
* **ReadModel.** `status` stands for each column that events carry and holds the
  *offset* of the event that set it, so the table says whose values are shown.
  `updated_at` holds the offset of the event whose OccurredAt it is, or
  `Processed`: an insert takes OccurredAt, but `OnConflict{UpdateAll}` makes GORM
  write the time of processing over it (`handler.go:77`). Events of customers,
  contacts, services and parts are decoded as creations whatever their type and
  upserted whole, so a partial update blanks the other columns, and a deletion
  blanks the row. (An id that does not parse gives the nil UUID; such rows are left
  out.) A work order is upserted, updated or deleted by type; WorkOrderUpdated sets the
  non-empty fields, and always updated_at. A handler that returns an error leads to
  the stage `failed`. The loop around the handler is shared_kafka's, whose source is not
  in the repository; its actions are marked external and leave open what is not known: after
  an error the next message (`GoOn`, which remembers the aggregate in `skipped`) or the same one
  again (`TryAgain`), commits at any time, of any message handed over. Work-order
  topics are not in the subscription of `cmd/api/main.go`, but the handler handles
  them and is modelled whole.
* **InvoiceTotals.** Memory is in 1/100 cent (quantity and price have two
  decimals, so a product is exact), columns in cents. `Given` rounds what the
  client sent (its decimal form survives JSON, float64 and the driver, and
  PostgreSQL rounds halves away from zero); `Computed` rounds what float64
  computed, where half a cent may have become a little less: either neighbour.
  `Settled` is the comparison with zero: after a sum a difference that is zero in
  exact arithmetic may be computed as a little more. Calls run one after another
  here. Overflow of the columns and magnitudes at which float64 loses whole cents
  are left out.
* **Startup.** `schema` gives each table the type of its id columns. One action
  per DROP and per model GORM migrates; `DetectFails` and `DropFails` are the
  errors AutoMigrate does not look at, `CastFails` the ALTER COLUMN ... TYPE uuid
  that PostgreSQL refuses on a bigint column, which is an error `main` dies of.
  Four databases to begin with: an empty one, one of this version, and the old
  template's with all nine tables or with three.
* **Lifecycle.** `stage` is the line the main goroutine has come to. A request
  goes from accepted to committed to answered; `Shutdown` closes the listener and
  then `Drained` or `TimesOut`; the deferred calls run last in, first out, unless
  `Exit` comes from a `log.Fatalf`. A signal kills before `signal.Notify` and is
  kept in the channel after it. The listening goroutine is on its own: when
  ListenAndServe fails (`ServeFails`) main goes on, into Shutdown even, until that
  goroutine's `log.Fatalf` ends the process (`ServerExit`). A server that Shutdown
  met before it listened is `closed` or `late`: the goroutine may be past its
  first look and still fail to bind. `mishaps` bounds everything that comes from
  outside: faults, kills, signals.
* **ExampleService.** The same one-statement-one-step scheme. Ids come from the
  database's sequence; `Save` of a row that is gone inserts it again under its
  old id; gRPC rejects an empty name and an id of 0 and names its errors, HTTP
  does neither.

The operators marked "Bug for the mutation check" are wrong variants of
the definition they precede; each shows that some property notices that bug.

## 3. Fairness

* `Billing!FairSpec`: weak fairness of the steps of a request that has been
  started. A goroutine of the HTTP server runs to its return; a client need not
  send anything, so arrivals are not fair. Faults are off in the liveness run:
  with them an event may be lost, as the services ignore the result of Publish.
* `ReadModel!FairSpec`: the consumer's goroutine keeps running, and a crashed
  process is restarted. `Handle` and `HandleFails`, and `GoOn` and `TryAgain`, are
  alternatives of the same fair action: nothing obliges a transaction to succeed or
  the consumer to go on. `Converges` therefore says what it needs, that the handler fails no more
  from some time on, as its antecedent. Commits are not fair: offsets may lag for ever.

* `Lifecycle!FairSpec`: the main goroutine runs (this includes its ten-second
  timer), and somebody starts the service whenever it is down. Nothing is assumed
  of requests: a handler may hang for ever, which is what Shutdown's limit is for.

Deadlock checking is off everywhere: requests are one-shot, and the log, the
calls and the mishaps are bounded, so every behaviour ends when they are used up.

## 4. Runs

| Run | Bounds | Question and answer |
|---|---|---|
| `overlap` | 3 requests of any of the 6 operations, 2 bodies, amounts 1 and 2, faults | Whatever overlaps, fails or crashes: credit is backed by payments (`CreditedWasReceived`), an invoice GetByID returned lists the payments it counts (`LoadedShowsCredit`), balance = total − credit or a clamped zero (`BalanceMatchesCredit`), events speak of committed data (`EventsTellTruth`), no save erases a payment (`MoneyNeverErased`) |
| `serial` | 4 requests, two statuses, faults; clients name invoices that exist and wait for answers per invoice | The services implement the ledger (`ImplementsLedger`): each call is one step on one invoice, a reader sees one moment, and a call cut short loses the lines or leaves a payment uncredited and nothing else. Totals are the items', credit is the payments', unless an update resp. payment broke off (`LedgerConsistent`); the audit log is the history of the status unless an entry was lost (`AuditIsHistory`) |
| `payments` | 4 requests, 2 organisations, no updates, faults | `PaidMeansSettled`; `NumbersGapless` as long as no delete was asked for |
| `announced` | 3 requests, no faults, fairness | Every stored invoice and payment is announced (`EverythingAnnounced`) |
| `projection` | 1 CRM aggregate and 1 work order, 3 events, 2 crashes, any transaction may fail, commits may lag | At any moment, handling all messages after the committed offset, on the tables as they are, gives what handling every message once gives (`RestartIsSafe`); once the handler fails no more the tables show what the producers say (`Converges`). Both except for aggregates one of whose messages the consumer gave up, the latter also but for those whose events the handler takes for creations (`Misread`). Both compare the columns carried, not updated_at |
| `totals` | 4 calls, 5 bodies with products half a cent apart, 7 amounts from a refund to 0.80 | Stored totals differ from the stored lines by at most half a cent per rounded column (`TotalsFoot`); the stored balance is never more than a cent off, whatever went before (`BalanceFoots`); credit and payments part only over half cents (`CreditDoesNotDrift`); what a payment may set the status to (`PaymentSettles`) |
| `lifecycle` | 2 requests, 3 mishaps, 4 initial databases | Nothing is served on a database that is not wholly migrated (`ServesOnlyMigrated`), a table of this version is never dropped (`CurrentTablesKept`), only an interrupted or failed DROP makes a database unrecognisable (`OnlyInterruptionWedges`), the service comes up again otherwise (`ComesUp`); handlers find the producer open (`PublishesOnOpenProducer`), a server that Shutdown has closed answers what it accepted, within the time limit (`AcceptedIsAnswered`), a signal ends the process even with a hanging handler (`SignalEnds`) |
| `example` | 3 requests through either handler, 2 names, ids 0 and 1, faults | Two examples share a name only after overlapping creates, a rename, or an update that put a name back over another update or a deletion (`NamesDistinct`); a deleted example comes back only through an overlapping update (`DeletedStaysDeleted`); no spurious NotFound (`FoundUntilDeleted`); without overlaps and losses the last event is true (`LastEventIsTrue`) |
| `doc_totals`, `doc_balance`, `doc_delete`, `doc_numbers` | 2–3 requests, no faults | disagreements between code and documentation, section 5 |

Why the bounds are enough. A property of `Billing` relates one invoice to its
requests; a creating request and two others on the invoice it made give every
pair of operations all interleavings (`overlap`), and the fourth request of
`serial` and `payments` adds sequences such as create, pay, update, status or a
second organisation's invoice. Two amounts distinguish partial from full
payment and two bodies (one with an unnamed line) a grown from a shrunk
total. Requests are interchangeable, so safety runs use symmetry; liveness runs do not.
In `projection`, three events give every pattern "older update replayed over
newer state", and two crashes a crash during a replay.

In `totals` a create and three more calls are enough for any error to show
twice, since each call starts from the columns alone. In `lifecycle` three mishaps
suffice for a migration that is interrupted, restarted and interrupted again, or
for a signal, a fault and a kill. Three requests of `example` give every pair of
operations on one example. A name put back after another example took it needs
a fourth (create, rename, an update overlapping it that leaves the name out, and
a create in between): for that the theorem of section 6 stands.

`Serial` restricts clients, not the server: a client names only invoices it
has created or listed, and sends its next call on an
invoice only after the answer to the one before. Failures and crashes are still
possible. The run `payments` has positive amounts and clients that do not
themselves set the status `paid`, although UpdateStatus accepts any status:
`PaidMeansSettled` is about what RecordPayment writes.

## 5. Findings

1. **`doc_totals`** — with one client and no fault, an update refused for an unnamed line
   has already deleted the invoice's items in a transaction of its own: the totals
   describe items that no longer exist.
2. **`doc_balance`** — an update that overlaps a payment saves a balance
   recalculated without it; the payment is in the table but not in PaidAmount.
3. **`doc_delete`** — a status change (or update) that loaded a childless invoice
   before it was deleted stores it again after the client was told it is gone.
4. **`doc_numbers`** — numbers are counted per organisation under an index that
   spans organisations: the second organisation cannot create its first invoice.

Met while modelling, and not run-checked as disagreements:

* Nothing calls the validator, so bodies without items, which the DTO's
  `required,min=1` forbids, are stored.
* A migration interrupted after `DROP TABLE invoices` leaves a database no later
  start can use (`Wedged`; `ComesUp` needs the exception): the old tables that are
  left are not recognised, and their cast to uuid fails.
* 0.10 and then 0.70 paid on a total of 0.80 can leave the invoice `partial` with
  a stored balance of 0.00 (`Settled`; `PaymentSettles` says ≤ for that reason).
* A refund that brings PaidAmount to zero or below leaves the status as it was,
  `paid` for instance: hence the antecedent of `PaymentSettles`.
* INVOICE_TAX_DISCOUNT_SCHEMA.md:182 leaves the excise duty out of the total, which
  the code adds.
* The handler takes every event of a customer, contact, service or part for a creation:
  a deletion blanks the row and keeps it, an update blanks what it does not carry
  (`Misread`; `handler.go:59` decodes each of them as CustomerCreated).
* After a redelivery or a second upsert, updated_at of a read model is the time of
  processing, which is why nothing could compare it with an event's OccurredAt.
* When ListenAndServe fails shortly before a signal, `log.Fatalf` in its goroutine may
  end the process in the middle of Shutdown, with requests accepted and not
  answered: hence the antecedent of `AcceptedIsAnswered`.
* `SET search_path` in InitGORM reaches one connection of the pool.
* SearchItems calls another service with a client that has no timeout: such a
  request is one of those that may hang in `Lifecycle`.

## 6. Proofs

Every safety and action property of the passing runs is a theorem, for every
value of the constants: any number of requests, organisations, bodies, amounts,
lines, events and crashes. Each component's proofs are laid out in the same way:
a typing invariant that adds to `TypeOK` what each stage of a request knows (a
step reads `call[r].inv` or `local[r].row` without looking again), then one
invariant per argument, with one step per action. The invariants were checked by TLC
on the runs' instances before they were proved.

`Sums` proves what the models need of `SumFunctionOnSet`: it folds over a set in an
order nobody knows, so even that the recursive function inside it exists, and that
a sum does not depend on the element taken first, has to be shown. The induction theorems of the
library take an operator as a parameter, which none of the provers here
instantiates; all inductions of this project are therefore stated as the *least
counterexample* of a set, by well-founded orders (`LeastSubset`).

### Billing (`BillingProofs`, `InvoiceProofs`, `LedgerProofs`)

| Theorem | Statement |
|---|---|
| `TypeCorrect` | `Spec => []TypeOK` |
| `CreditReceived` | `Spec => []CreditedWasReceived` |
| `LoadsShowCredit` | `Spec => []LoadedShowsCredit` |
| `BalancesMatch` | `Spec => []BalanceMatchesCredit` |
| `EventsTrue` | `Spec => []EventsTellTruth` |
| `MoneyKept` | `Spec => MoneyNeverErased` |
| `NumbersHaveNoGaps` | `Spec => []NumbersGapless` |
| `PaidIsSettled` | `Spec => []PaidMeansSettled`, if `Amounts \subseteq Nat` and `"paid" \notin Statuses` |
| `Serialised` | `Spec => [](TypeInv /\ SerialInv)`, if `Serial` |
| `ServicesImplementLedger` | `Spec => ImplementsLedger`, if `Serial` |
| `BooksConsistent` | `Spec => []LedgerConsistent`, if `Serial` |
| `AuditLogIsHistory` | `Spec => []AuditIsHistory`, if `Serial` |

*Credit.* The argument (`CreditInv`) is that *every copy of an invoice* — stored,
or held by a request that passed its loads — claims only payments that are in the
table, or the invoice was deleted: the table is only added to by saves, the
invoice is loaded before its payments, and RecordPayment inserts before it
credits. A stale save then restores nothing that is not there. `EventInv` ties each
stage of a creating or paying request to what it has already committed;
`BalanceInv` says the arithmetic of every copy, so a stale one is as consistent
as a fresh one.

*Numbers* (`NumberInv`). As long as no delete was asked for, rows only come, and
the only one whose number is not there yet is the one being inserted: every request
that is about to insert counted its number when there were no more rows than
now, so the number is taken, and the unique index rejects it, or is the next one.
Copies of stored invoices keep their number, so no save changes one.

*Settlement* (`SettledInv`). Every copy with status `paid` has a total that the
payments in the table cover. The table only grows, and with amounts that are not
negative so does its sum (`SumMonotone`). Both hypotheses are about clients: a
refund takes cover away, and UpdateStatus accepts any status.

*The ledger.* `SerialInv` is what waiting for answers buys: at most one request is
under way on an invoice (`Exclusive`); clients name invoices they were told of
(`Introduced`); what a request holds is what the tables hold, except for its own
changes (`Informed`: after UpdateInvoice cleared the items, after RecordPayment
inserted its payment). From it each action maps to one step of the ledger on one
account, to `BreakOff` when a call is cut short between two of its writes, or to
a stutter; all the other accounts stay. `BooksInv` says the totals and credit of an
invoice *while it is being changed too*, which the property says of quiet ones
only; `LogInv` says that the log's last entry and the status agree but for the
entry that the one request between its save and its audit entry has yet to write.
Without `Serial` calls on one invoice overlap, and the three statements do not
hold: `doc_balance` is such an overlap.

Assumptions: the named `ASSUME`s of `InvoiceStore` and `BillingLedger`, evaluated by TLC
on every run. `AmountAssumption` says amounts are finitely many integers, which a
decimal(15,2) column gives; `ReqAssumption` that requests are finitely many; `NoAccountAssumption`
that "no account" is none. The others are typing.

### The money of one invoice (`TotalsProofs`)

| Theorem | Statement |
|---|---|
| `TypeCorrect` | `Spec => []TypeOK` |
| `ColumnsFoot` | `Spec => []TotalsFoot` |
| `BalanceKept` | `Spec => []BalanceFoots` |
| `CreditKept` | `Spec => []CreditDoesNotDrift` |
| `PaymentsSettle` | `Spec => PaymentSettles` |

A column is half a cent at most off the value it was given (`ComputedClose`,
`GivenClose`), the two kinds of rounding differ in halves only (`SameRounding`), and whole cents go
through both unchanged (`CentsAdded`), which is why roundings do not add up over
calls that begin from the columns. A sum of rounded lines is off by half a cent per line
(`SumRounded`). `MoneyInv` adds to the properties that the rows of payments hold
the rounded amounts and that the credit is not negative as long as nothing is
paid back: without the latter a payment could leave `paid` on what it does not
cover.

### Example service (`ExampleProofs`)

| Theorem | Statement |
|---|---|
| `TypeCorrect` | `Spec => []TypeOK` |
| `NamesStayDistinct` | `Spec => []NamesDistinct` |
| `DeletionIsFinal` | `Spec => []DeletedStaysDeleted` |
| `NotFoundMeansDeleted` | `Spec => []FoundUntilDeleted` |
| `LastEventTellsTheTruth` | `Spec => []LastEventIsTrue` |

The typing includes that ids have one creator each (`GivenIds`). `DeletedInv` goes on from
the row that is back to the update that is *about to* bring it back: it loaded the row
before the deletion, so it overlaps it. `NameInv` follows a name from the
`Exists` that found it free: it is free among the examples created before until an update touches
one of them, and what an update has loaded is what is stored unless another
change overlapped. `TrueInv` says between which statements the row and the last event
disagree: only between one request's write and its own event.

An earlier form of `NamesDistinct` blamed only updates that overlap a *deletion* for
names that are put back. Its proof failed for a reason: an update without a name
that overlaps a *rename* puts the old name back too, when it may have been taken since.
That takes four requests, one more than the run has. `Restored` now names both.

### Read models (`ReadModelProofs`)

| Theorem | Statement |
|---|---|
| `TypeCorrect` | `Spec => []TypeOK` |
| `RestartSafe` | `Spec => []RestartIsSafe` |
| `CaughtUpIsFaithful` | `Spec => [](stage = "polling" /\ next = Len(log) + 1 => Faithful(rows))` |

`RestartIsSafe` compares two computations: the handler run over the messages after the
committed offset on the tables as they are, and over all messages on empty tables. The
invariant needs a closed form of what the latter gives: `Gone` and `Shows` say of an
aggregate, from the log alone, that it has no row or whose values its row carries.
`Repairable` says when the messages after an offset make a row so: one of them
defines the row anew, or it is so already but for what they set. Handling a
message keeps it whether the message was handled before or not (`Repairing`), so it holds of the
tables as long as no message on the aggregate is given up, and of each table of the
replay (`ReplayRepairs`, by the least offset that is a counterexample); at the end of the
log it leaves the closed form. `Once` reaches the same form by the same
induction, from no rows at all. `ShownIsStated` is about what producers mean: unless
the aggregate is misread, the closed form is what they say. `CaughtUpIsFaithful`, the
safety half of `Converges`, follows. Assumed: the bounds are natural numbers, no
work order has the id of a CRM aggregate, and `NoRow` is neither a row nor a number.

### Process life cycle (`LifecycleProofs`)

| Theorem | Statement |
|---|---|
| `TypeCorrect` | `Spec => []TypeOK` |
| `ServesMigrated` | `Spec => []ServesOnlyMigrated` |
| `WedgedWasInterrupted` | `Spec => []OnlyInterruptionWedges` |
| `TablesKept` | `Spec => CurrentTablesKept` |
| `ProducerOpen` | `Spec => []PublishesOnOpenProducer` |
| `AcceptedAnswered` | `Spec => AcceptedIsAnswered` |

For every set of requests and every number of faults, signals, kills and
restarts, on each of the four databases to begin with. A start may find what any
earlier one left, so the invariants speak of the tables, not of the history.
`OldTogether`: as long as the invoices table is old no table is new, because GORM begins
with it; hence the DROPs, which run only when it is old, never meet a new
table (`DropsOld`), and `TablesKept` follows. `MigratedSoFar`: the tables before
the present one are new; at the last one all are, and nothing after the migration
touches a table (`ServedMigrated`). `OldRecognised`: as long as no DROP was
interrupted, either the invoices are old or no table is, and during the DROPs
those before the present one are gone; with `AuditNeverOld`, since the audit log
has no DROP, this gives `WedgedWasInterrupted`. `Phases` ties stage, server,
producer and requests together: a request is accepted only between Notify and the
end of Shutdown, also while the listening goroutine is failing, and the producer is
open for longer than that. `AcceptedAnswered` is about a server that Shutdown has closed:
its goroutine has nothing left to be fatal about, so a request that is cut
is cut by the time limit or by a kill. The only assumption is `MishapAssumption`: the bound
on mishaps is a natural number.

### Only model-checked

Liveness: `EverythingAnnounced`, `Converges` (its liveness half), `SignalEnds`,
`ComesUp`. It depends on fairness and ENABLED, which this prover does not
reason about. The four disagreements of section 5 are counterexamples, which
TLC finds.

## 7. Not modelled, and the plan

Left out for good: generated code, configuration, logging, error helpers, the
search endpoints (single reads), ListInvoices and GetAuditLogs (single reads),
JSON and status codes. The year in an invoice number: the runs are within one.
What shared_kafka does with a member that loses its partition: its source is not in the
repository, and whether a handler's context is cancelled at a handover decides whether an
older event can overwrite a newer one (`internal/adapters/inbound/kafka/handler.go:77`).

Planned, all proofs:

1. `Billing`: the safety half of `EverythingAnnounced`, an invariant on what is
   stored, announced and under way, as `CaughtUpIsFaithful` is for `Converges`.
2. `Billing`: that no two stored invoices share a number, after deletes too (which
   `NumbersGapless` excludes) and although a save may insert a deleted invoice again.
3. `Lifecycle`: the safety halves of `SignalEnds` and `ComesUp`: which stages a
   signalled process, and a start without faults, go through.
