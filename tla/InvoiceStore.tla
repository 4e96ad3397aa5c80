---------------------------- MODULE InvoiceStore ----------------------------
(***************************************************************************)
(* The invoice tables of the billing database, the statements the postgres *)
(* repositories run on them, and the requests that run those statements.   *)
(*                                                                         *)
(* A request is one call of an InvoiceService or PaymentService method.    *)
(* Every statement (or transaction) it sends is one step: between two of   *)
(* them the database serves other requests, which is where this code, that *)
(* loads a whole aggregate, edits it in memory and saves it back, can go   *)
(* wrong.  A request is identified by an element of Req, which doubles as  *)
(* the fresh UUID of the invoice or payment it creates (uuid.New()).       *)
(*                                                                         *)
(* Money is in whole units here; rounding is not part of this module.      *)
(***************************************************************************)
EXTENDS Integers, Sequences, FiniteSetsExt

CONSTANTS
    Req,       \* requests; also the ids of the invoices and payments they create
    Org,       \* organisations
    Carts,     \* the bodies of create and update requests
    Amounts,   \* the amounts clients pay
    Statuses,  \* the statuses clients set
    Ops,       \* the operations clients use
    Serial,    \* TRUE: clients name invoices that were created, and wait for an
               \* answer before the next call on an invoice
    Faults,    \* TRUE: statements may fail and the process may crash
    NoRow,     \* "record not found"
    NoCall     \* the call of a request that has not been made

\* The line totals of the body, Adjustment + ExciseDuty, and whether every line
\* carries a name of its own.
CartType == [lines: Seq(Int), extra: Int, named: BOOLEAN]

AllStatuses == Statuses \cup {"draft", "partial", "paid"}

\* invoice_items and payments: one element per row of the table.
Item    == [by: Req, line: Nat, amount: Int]
Payment == [by: Req, amount: Amounts]

\* invoices: net is SubTotal - DiscountTotal + TaxTotal, total is TotalAmount,
\* balance is BalanceAmount, and paid holds the payments PaidAmount adds up.
Row == [org: Org, num: Nat, status: AllStatuses, net: Int, total: Int,
        paid: SUBSET Payment, balance: Int]

\* invoice_audit_logs, in insertion order.
AuditEntry == [by: Req, old: AllStatuses, new: AllStatuses]

\* What a service method holds in memory: the invoice, its Items, its Payments.
Memory == [row: Row \cup {NoRow}, its: SUBSET Item, pays: SUBSET Payment]
EmptyMemory == [row |-> NoRow, its |-> {}, pays |-> {}]

CreateCall   == [op: {"Create"}, org: Org, cart: Carts]
UpdateCall   == [op: {"Update"}, inv: Req, cart: Carts]
ReadCall     == [op: {"Get"}, inv: Req]
DeleteCall   == [op: {"Delete"}, inv: Req]
StatusCall   == [op: {"Status"}, inv: Req, status: Statuses]
PayCall      == [op: {"Pay"}, inv: Req, amount: Amounts]
ExistingCall == UpdateCall \cup ReadCall \cup DeleteCall \cup StatusCall \cup PayCall
Call         == CreateCall \cup ExistingCall

SumOf(S) == SumFunction([x \in S |-> x.amount])

\* The rows of invoice_items a body asks for.
ItemsOf(r, cart) ==
    {[by |-> r, line |-> k, amount |-> cart.lines[k]] : k \in DOMAIN cart.lines}

ASSUME ReqAssumption   == IsFiniteSet(Req)
ASSUME CartAssumption  == Carts \subseteq CartType
ASSUME AmountAssumption == Amounts \subseteq Int /\ IsFiniteSet(Amounts)
ASSUME SwitchAssumption == Serial \in BOOLEAN /\ Faults \in BOOLEAN
ASSUME NoRowAssumption == NoRow \notin Row
ASSUME NoCallAssumption == NoCall \notin Call

VARIABLES
    invoices,   \* table invoices: id -> Row, or NoRow
    items,      \* table invoice_items, by invoice_id
    payments,   \* table payments, by invoice_id
    audits,     \* table invoice_audit_logs, by invoice_id
    published,  \* the requests whose event reached the broker
    pc,         \* what each request does next
    call,       \* what each request was asked to do
    local       \* what each request holds in memory

tables  == <<invoices, items, payments, audits>>
process == <<pc, call, local>>
vars    == <<tables, published, process>>

Running == {"insert", "publish", "items", "pays", "clear", "save", "audit",
            "record", "delete"}
Answered == {"ok", "failed", "crashed"}

InFlight(r) == pc[r] \in Running
Target(r)   == IF call[r].op = "Create" THEN r ELSE call[r].inv
Live(i)     == invoices[i] # NoRow

StoreInit ==
    /\ invoices = [i \in Req |-> NoRow]
    /\ items = [i \in Req |-> {}]
    /\ payments = [i \in Req |-> {}]
    /\ audits = [i \in Req |-> <<>>]
    /\ published = {}
    /\ pc = [r \in Req |-> "idle"]
    /\ call = [r \in Req |-> NoCall]
    /\ local = [r \in Req |-> EmptyMemory]

-----------------------------------------------------------------------------
(* Control of a request.                                                    *)

Goto(r, l) == pc' = [pc EXCEPT ![r] = l]

\* The method returns; what it held in memory is gone.
Return(r, outcome) ==
    /\ Goto(r, outcome)
    /\ local' = [local EXCEPT ![r] = EmptyMemory]

\* The invoice is not being worked on, for a client that waits for its answers.
Quiet(i) == \A q \in Req : InFlight(q) => Target(q) # i

\* Such a client has the id of an invoice from the request that created it.
Known(i) == call[i] # NoCall /\ call[i].op = "Create"

-----------------------------------------------------------------------------
(* Statements of InvoiceRepository, PaymentRepository, AuditLogRepository.  *)

\* GetNextInvoiceNumber: COUNT of the organisation's invoices, plus one.
NextNumber(org) ==
    Cardinality({i \in Req : Live(i) /\ invoices[i].org = org}) + 1

\* The unique index on invoice_number, which spans all organisations.
NumberFree(i, num) == \A j \in Req \ {i} : Live(j) => invoices[j].num # num

\* Bug for the mutation check: no unique index.
InsertUnindexed(i, row) == ~Live(i)

\* Create: INSERT the invoice and its items.
CanInsert(i, row) == ~Live(i) /\ NumberFree(i, row.num)

Insert(i, row, its) ==
    /\ CanInsert(i, row)
    /\ invoices' = [invoices EXCEPT ![i] = row]
    /\ items' = [items EXCEPT ![i] = @ \cup its]
    /\ UNCHANGED <<payments, audits>>

\* Update: gorm's Save.  An UPDATE of every column, with the Items and Payments
\* held in memory upserted; if no row was hit, a non-empty association breaks its
\* foreign key, and otherwise Save goes on to INSERT the invoice.
CanSave(i, row, its, pays) ==
    \/ Live(i)
    \/ its = {} /\ pays = {} /\ NumberFree(i, row.num)

\* Bug for the mutation check: the associations are replaced, not upserted.
SaveReplacing(i, row, its, pays) ==
    /\ CanSave(i, row, its, pays)
    /\ invoices' = [invoices EXCEPT ![i] = row]
    /\ items' = [items EXCEPT ![i] = its]
    /\ payments' = [payments EXCEPT ![i] = pays]
    /\ UNCHANGED audits

Save(i, row, its, pays) ==
    /\ CanSave(i, row, its, pays)
    /\ invoices' = [invoices EXCEPT ![i] = row]
    /\ items' = [items EXCEPT ![i] = @ \cup its]
    /\ payments' = [payments EXCEPT ![i] = @ \cup pays]
    /\ UNCHANGED audits

\* Bug for the mutation check: the old items stay.
KeepItems(i) == UNCHANGED tables

\* ClearItems: DELETE the items, in a transaction of its own.
ClearItems(i) ==
    /\ items' = [items EXCEPT ![i] = {}]
    /\ UNCHANGED <<invoices, payments, audits>>

\* Delete: items, payments and the invoice, in one transaction.
DeleteRows(i) ==
    /\ items' = [items EXCEPT ![i] = {}]
    /\ payments' = [payments EXCEPT ![i] = {}]
    /\ invoices' = [invoices EXCEPT ![i] = NoRow]
    /\ UNCHANGED audits

\* PaymentRepository.Create: INSERT, the foreign key needs the invoice.
InsertPayment(i, p) ==
    /\ Live(i)
    /\ payments' = [payments EXCEPT ![i] = @ \cup {p}]
    /\ UNCHANGED <<invoices, items, audits>>

\* AuditLogRepository.Create: INSERT, no foreign key.
InsertAudit(i, entry) ==
    /\ audits' = [audits EXCEPT ![i] = Append(@, entry)]
    /\ UNCHANGED <<invoices, items, payments>>

-----------------------------------------------------------------------------
(* GetByID: the invoice, then Preload("Items"), then Preload("Payments"):   *)
(* three statements and no transaction, so other requests run in between.   *)

\* What the method does once the aggregate is loaded.
AfterLoad ==
    [Get |-> "ok", Update |-> "clear", Delete |-> "delete",
     Status |-> "save", Pay |-> "record"]

\* The request arrives and its first statement reads the invoice.
LoadInvoice(r) ==
    \E c \in ExistingCall :
        /\ pc[r] = "idle"
        /\ c.op \in Ops
        /\ Serial => Quiet(c.inv) /\ Known(c.inv)
        /\ call' = [call EXCEPT ![r] = c]
        /\ local' = [local EXCEPT ![r].row = invoices[c.inv]]
        /\ Goto(r, IF Live(c.inv) THEN "items" ELSE "failed")
        /\ UNCHANGED <<tables, published>>

\* Bug for the mutation check: Preload("Items") is forgotten, as List does.
ItemsForgotten(r) ==
    /\ pc[r] = "items"
    /\ Goto(r, "pays")
    /\ UNCHANGED <<tables, published, call, local>>

PreloadItems(r) ==
    /\ pc[r] = "items"
    /\ local' = [local EXCEPT ![r].its = items[call[r].inv]]
    /\ Goto(r, "pays")
    /\ UNCHANGED <<tables, published, call>>

\* Bug for the mutation check: Preload("Payments") is forgotten.
PreloadForgotten(r) ==
    /\ pc[r] = "pays"
    /\ Goto(r, AfterLoad[call[r].op])
    /\ UNCHANGED <<tables, published, call, local>>

PreloadPayments(r) ==
    /\ pc[r] = "pays"
    /\ local' = [local EXCEPT ![r].pays = payments[call[r].inv]]
    /\ Goto(r, AfterLoad[call[r].op])
    /\ UNCHANGED <<tables, published, call>>

GetByID(r) == LoadInvoice(r) \/ PreloadItems(r) \/ PreloadPayments(r)

-----------------------------------------------------------------------------
(* Faults.                                                                  *)

\* A statement returns an error and changed nothing: the method returns it.  An
\* audit entry or an event that is lost is not an error to the services.
StatementFails(r) ==
    /\ Faults
    /\ InFlight(r)
    /\ pc[r] \notin {"publish", "audit"}
    /\ Return(r, "failed")
    /\ UNCHANGED <<tables, published, call>>

\* The process dies: every request it was serving stops where it is.
Crash ==
    /\ Faults
    /\ \E r \in Req : InFlight(r)
    /\ pc' = [r \in Req |-> IF InFlight(r) THEN "crashed" ELSE pc[r]]
    /\ local' = [r \in Req |-> IF InFlight(r) THEN EmptyMemory ELSE local[r]]
    /\ UNCHANGED <<tables, published, call>>

=============================================================================
