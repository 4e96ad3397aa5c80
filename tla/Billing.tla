------------------------------- MODULE Billing -------------------------------
(***************************************************************************)
(* InvoiceService and PaymentService over one database: any number of      *)
(* requests, each served by a goroutine of its own, and what must hold of  *)
(* the tables, the events and the answers whatever their interleaving.     *)
(***************************************************************************)
EXTENDS InvoiceService, PaymentService

Init == StoreInit

Step(r) == GetByID(r) \/ InvoiceStep(r) \/ PaymentStep(r)

Next == Crash \/ \E r \in Req : Step(r) \/ StatementFails(r)

Spec == Init /\ [][Next]_vars

\* The HTTP server runs every handler it started to its return; nothing obliges
\* a client to send a request.
FairSpec == Spec /\ \A r \in Req : WF_vars(InFlight(r) /\ Step(r))

-----------------------------------------------------------------------------
(* History read off the requests.                                           *)

Did(r, op, i) == pc[r] # "idle" /\ call[r].op = op /\ Target(r) = i

\* A request of this kind on invoice i has arrived.
Asked(op, i) == \E r \in Req : Did(r, op, i)

\* A client was told that invoice i is deleted.
Deleted(i) == \E d \in Req : Did(d, "Delete", i) /\ pc[d] = "ok"

\* A request of this kind on invoice i broke off, perhaps half done.
BrokeOff(op, i) == \E r \in Req : Did(r, op, i) /\ pc[r] \in {"failed", "crashed"}

-----------------------------------------------------------------------------
(* Safety, whatever overlaps and whatever fails.                            *)

\* Tables hold rows, requests hold what their stage of the method built.
TypeOK ==
    /\ invoices \in [Req -> Row \cup {NoRow}]
    /\ items \in [Req -> SUBSET Item]
    /\ payments \in [Req -> SUBSET Payment]
    /\ audits \in [Req -> Seq(AuditEntry)]
    /\ published \subseteq Req
    /\ pc \in [Req -> {"idle"} \cup Running \cup Answered]
    /\ call \in [Req -> Call \cup {NoCall}]
    /\ local \in [Req -> Memory]

\* An invoice never claims credit for money the payments table does not show:
\* RecordPayment inserts the payment before it saves the invoice, and a stale
\* save can only bring back credit for payments that are still there.  Only a
\* delete takes payments away, and a save that was under way then (it puts the
\* invoice back) keeps the credit of payments that went.
CreditedWasReceived ==
    \A i \in Req : Live(i) => invoices[i].paid \subseteq payments[i] \/ Deleted(i)

\* GetByID has returned, and the method works on its result (GetInvoice: returned it).
Loaded(r) ==
    \/ pc[r] \in {"clear", "save", "audit", "record", "delete"}
    \/ pc[r] = "ok" /\ call[r].op = "Get"

\* The invoice GetByID returns is assembled from three reads that other requests
\* run between; since the invoice is read before its payments, it lists every
\* payment its PaidAmount counts.  Therefore the PaidAmount that UpdateInvoice
\* recomputes from the list never takes back credit that was already given.
LoadedShowsCredit ==
    \A r \in Req : Loaded(r) =>
        local[r].row.paid \subseteq local[r].pays \/ Deleted(call[r].inv)

\* Balance, total and paid amount of a stored invoice agree: balance is what is
\* left to pay, or zero when nothing is (RecordPayment clamps, UpdateInvoice
\* does not).
Settles(row) ==
    LET rest == row.total - SumOf(row.paid)
    IN  row.balance = rest \/ (row.balance = 0 /\ rest <= 0)

BalanceMatchesCredit == \A i \in Req : Live(i) => Settles(invoices[i])

\* An event is only published about an invoice or a payment that was committed;
\* what it speaks of can be gone only because the invoice was deleted.
EventsTellTruth ==
    \A r \in published :
        \/ Deleted(Target(r))
        \/ call[r].op = "Create" /\ Live(r)
        \/ call[r].op = "Pay" /\ PaymentOf(r) \in payments[call[r].inv]

\* No save, however stale, erases a recorded payment: payments go only in the
\* step that deletes their invoice.
MoneyNeverErased ==
    [][\A i \in Req : payments[i] \subseteq payments'[i] \/ invoices'[i] = NoRow]_vars

-----------------------------------------------------------------------------
(* Safety for clients that restrict themselves: the antecedents say how.     *)

\* As long as no delete was asked for, the invoice numbers of an organisation are
\* 1, 2, ..., with no gap and no repetition, although the number is counted in
\* one statement and used in another: the unique index turns away the requests
\* that counted the same number.
NumbersGapless ==
    (\A i \in Req : ~Asked("Delete", i)) =>
        \A org \in Org :
            LET mine == {i \in Req : Live(i) /\ invoices[i].org = org}
            IN  {invoices[i].num : i \in mine} = 1 .. Cardinality(mine)

\* When clients wait for their answers on an invoice, and no update and no
\* payment on it broke off, its totals are those of its items and its paid
\* amount is that of its payments.
LedgerConsistent ==
    \A i \in Req : Live(i) /\ Quiet(i) =>
        /\ BrokeOff("Update", i) \/ invoices[i].net = SumOf(items[i])
        /\ BrokeOff("Pay", i) \/ invoices[i].paid = payments[i]

LogOf(i)   == {audits[i][k].by : k \in DOMAIN audits[i]}
LogWhole(i) ==
    \A r \in Req : Did(r, "Status", i) /\ pc[r] \in {"ok", "crashed"} => r \in LogOf(i)

\* When clients wait for their answers on an invoice and only UpdateStatus sets
\* its status (no payment was made on it), its audit log is the history of that
\* status: each entry starts from the status the one before it set, the first
\* from draft, and the last one set the present status; unless an entry was lost.
AuditIsHistory ==
    \A i \in Req : Live(i) /\ Quiet(i) /\ LogWhole(i) /\ ~Asked("Pay", i) =>
        LET log  == audits[i]
            past == [k \in 0 .. Len(log) |-> IF k = 0 THEN "draft" ELSE log[k].new]
        IN  /\ \A k \in DOMAIN log : log[k].old = past[k - 1]
            /\ invoices[i].status = past[Len(log)]

\* A client that was told an invoice is deleted does not meet it again.
DeletedStaysDeleted == \A i \in Req : Deleted(i) => ~Live(i)

\* A status of paid means that payments covering the total were received, whatever
\* overlaps: unless an update was asked for, which may raise the total and leaves
\* the status alone.  (Clients of this property do not set "paid" themselves.)
PaidMeansSettled ==
    \A i \in Req : Live(i) /\ invoices[i].status = "paid" =>
        SumOf(payments[i]) >= invoices[i].total \/ Deleted(i) \/ Asked("Update", i)

-----------------------------------------------------------------------------
(* What the repository says of the code, and the code does not do.          *)

\* INVOICE_TAX_DISCOUNT_SCHEMA.md: the totals of an invoice are the sums over
\* its line items.
TotalsAreOfItems ==
    \A i \in Req : Live(i) /\ Quiet(i) => invoices[i].net = SumOf(items[i])

\* UpdateInvoice: "Recalculate Balance with existing payments (if any)".
BalanceCountsPayments ==
    \A i \in Req : Live(i) /\ Quiet(i) => invoices[i].paid = payments[i]

\* "Generate Invoice Number": when nothing else is going on, every organisation
\* can create an invoice, that is, the next number it counts is free.
NextNumberIsFree ==
    (\A r \in Req : ~InFlight(r)) =>
        \A org \in Org, i \in Req : Live(i) => invoices[i].num # NextNumber(org)

-----------------------------------------------------------------------------
(* Liveness, without faults: every stored invoice and every payment that    *)
(* was credited is announced.                                               *)

EverythingAnnounced ==
    \A r \in Req :
        /\ Live(r) ~> r \in published
        /\ \A i \in Req : (\E p \in payments[i] : p.by = r) ~> (r \in published \/ Deleted(i))

=============================================================================
