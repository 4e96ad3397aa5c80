----------------------------- MODULE BillingLedger -----------------------------
(***************************************************************************)
(* Billing implements the ledger, for clients that wait for their answers  *)
(* on an invoice (Serial): although every call is a sequence of statements *)
(* that requests on other invoices, failures and crashes run between, a    *)
(* client sees each call happen in one step, and GetInvoice answers with   *)
(* an invoice that existed at one moment.                                  *)
(***************************************************************************)
EXTENDS Billing

\* The requests on invoice i that have begun to change it and have yet to save it.
Unsaved(op, i) == {r \in Req : pc[r] = "save" /\ call[r].op = op /\ call[r].inv = i}

\* An update takes effect when it saves the invoice.  Until then the account has
\* the items it had when the update loaded them, although they are deleted.
Lines(i) == items[i] \cup UNION {local[r].its : r \in Unsaved("Update", i)}

\* A payment is received when it is credited, although it is inserted before.
Received(i) == payments[i] \ {PaymentOf(r) : r \in Unsaved("Pay", i)}

Account(i) ==
    IF Live(i)
    THEN [org |-> invoices[i].org, status |-> invoices[i].status,
          lines |-> Lines(i), total |-> invoices[i].total,
          received |-> Received(i), credited |-> invoices[i].paid]
    ELSE NoRow

\* NoRow is no account either.
AccountType ==
    [org: Org, status: AllStatuses, lines: SUBSET Item, total: Int,
     received: SUBSET Payment, credited: SUBSET Payment]
ASSUME NoAccountAssumption == NoRow \notin AccountType

Answer(r) == IF pc[r] = "ok" /\ call[r].op = "Get" THEN Response(r) ELSE NoRow

Billable ==
    {[lines |-> ItemsOf(r, cart), total |-> SumOf(ItemsOf(r, cart)) + cart.extra] :
        r \in Req, cart \in Carts}

Book == INSTANCE Ledger WITH
    Id       <- Req,
    Invoices <- Billable,
    Payments <- Payment,
    None     <- NoRow,
    books    <- [i \in Req |-> Account(i)],
    answers  <- [r \in Req |-> Answer(r)]

\* With clients that wait, InvoiceService and PaymentService over their tables
\* behave as the ledger: calls are atomic per invoice, an update cut short can
\* only lose the lines, a payment cut short can only be received uncredited, and
\* an update credits whatever was received but never touches the status.
ImplementsLedger == Book!Spec

=============================================================================
