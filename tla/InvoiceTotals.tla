----------------------------- MODULE InvoiceTotals -----------------------------
(***************************************************************************)
(* The money of one invoice: what CreateInvoice, UpdateInvoice and         *)
(* RecordPayment compute in float64, and what is left of it in the         *)
(* decimal(15,2) columns the next call loads.                              *)
(*                                                                         *)
(* Calls run one after another here; Billing is about calls that overlap.  *)
(* Amounts in memory are integers in units of 1/100 cent, columns are      *)
(* integers in cents.  float64 is exact in neither, so a computed value    *)
(* half way between two cents may be stored as either, and a difference    *)
(* that is zero may be computed as a little more.                          *)
(***************************************************************************)
EXTENDS Integers, FiniteSetsExt, SequencesExt

CONSTANTS
    Bodies,    \* bodies of create and update requests
    Amounts,   \* the amounts clients pay, in 1/100 cent
    MaxCalls,  \* bound on the calls of a behaviour
    NoInvoice  \* the invoice before it is created

\* Quantity and price have two decimals, as their columns have.
LineType == [qty: Int, price: Int, discount: Int, tax: Int]
BodyType == [lines: Seq(LineType), adjustment: Int, excise: Int]
Statuses == {"draft", "partial", "paid"}
Invoice ==
    [sub: Int, discount: Int, tax: Int, adjustment: Int, excise: Int, total: Int,
     paid: Int, balance: Int, status: Statuses]

ASSUME BodyAssumption   == Bodies \subseteq BodyType
ASSUME AmountAssumption == Amounts \subseteq Int
ASSUME BoundAssumption  == MaxCalls \in Nat
ASSUME AbsentAssumption == NoInvoice \notin Invoice

VARIABLES
    invoice,   \* the row of table invoices
    lines,     \* column total of the rows of invoice_items
    payments,  \* column amount of the rows of payments, and the amount given
    calls      \* calls so far

vars == <<invoice, lines, payments, calls>>

Init ==
    /\ invoice = NoInvoice
    /\ lines = <<>>
    /\ payments = <<>>
    /\ calls = 0

-----------------------------------------------------------------------------
(* Columns.                                                                 *)

\* A value the client gave: its decimal form is exact, and halves go away from zero.
Given(x) == IF x >= 0 THEN (x + 50) \div 100 ELSE -((50 - x) \div 100)

\* A value that was computed: the nearest cent, and of two the one it happens to be.
Computed(x, up) ==
    IF x % 100 = 50 /\ ~up THEN x \div 100 ELSE (x + 50) \div 100

\* Which way the columns of a row go when they are half way.
Ways == [{"sub", "discount", "tax", "total", "paid", "balance"} -> BOOLEAN]

-----------------------------------------------------------------------------
(* The loop over the lines of a body, and the totals after it.              *)

\* Bug for the mutation check: the tax is left out.
ItemTotalUntaxed(l) == l.qty * l.price - l.discount

ItemTotal(l) == l.qty * l.price - l.discount + l.tax

SubTotal(b)      == SumFunction([k \in DOMAIN b.lines |-> b.lines[k].qty * b.lines[k].price])
DiscountTotal(b) == SumFunction([k \in DOMAIN b.lines |-> b.lines[k].discount])
TaxTotal(b)      == SumFunction([k \in DOMAIN b.lines |-> b.lines[k].tax])
TotalAmount(b)   == SubTotal(b) - DiscountTotal(b) + TaxTotal(b) + b.adjustment + b.excise

PaidAmount == SumFunction([k \in DOMAIN payments |-> payments[k].stored])

\* Without payments balance and total are one value.
Bill(b, paid, status, up) ==
    [sub        |-> Computed(SubTotal(b), up["sub"]),
     discount   |-> Computed(DiscountTotal(b), up["discount"]),
     tax        |-> Computed(TaxTotal(b), up["tax"]),
     adjustment |-> Given(b.adjustment),
     excise     |-> Given(b.excise),
     total      |-> Computed(TotalAmount(b), up["total"]),
     paid       |-> paid,
     balance    |-> Computed(TotalAmount(b) - 100 * paid,
                             up[IF payments = <<>> THEN "total" ELSE "balance"]),
     status     |-> status]

StoreLines(b) ==
    \E up \in [DOMAIN b.lines -> BOOLEAN] :
        lines' = [k \in DOMAIN b.lines |-> Computed(ItemTotal(b.lines[k]), up[k])]

CreateInvoice(b) ==
    /\ invoice = NoInvoice
    /\ \E up \in Ways : invoice' = Bill(b, 0, "draft", up)
    /\ StoreLines(b)
    /\ UNCHANGED payments

UpdateInvoice(b) ==
    /\ invoice # NoInvoice
    /\ \E up \in Ways : invoice' = Bill(b, PaidAmount, invoice.status, up)
    /\ StoreLines(b)
    /\ UNCHANGED payments

-----------------------------------------------------------------------------
(* RecordPayment.                                                           *)

\* In memory, PaidAmount and BalanceAmount after a payment of a.
PaidAfter(a) == 100 * invoice.paid + a
Owed(a)      == 100 * invoice.total - PaidAfter(a)

\* Bug for the mutation check: the balance is looked at before the payment.
SettledBefore(a) == {Owed(0) <= 0}

\* BalanceAmount <= 0.  After a sum the difference to an equal total may come out
\* above zero, as in 0.8 - (0.1 + 0.7).
Settled(a) ==
    IF Owed(a) = 0 /\ invoice.paid # 0 /\ a # 0 THEN BOOLEAN ELSE {Owed(a) <= 0}

\* Bug for the mutation check: a status no branch sets is empty.
StatusUnset(a, settled) ==
    CASE settled                         -> "paid"
      [] ~settled /\ PaidAfter(a) > 0    -> "partial"
      [] OTHER                           -> ""

StatusAfter(a, settled) ==
    CASE settled                         -> "paid"
      [] ~settled /\ PaidAfter(a) > 0    -> "partial"
      [] OTHER                           -> invoice.status

\* Bug for the mutation check: the balance is reduced, not computed anew, and
\* the payment is credited as stored.
CreditedStepwise(a, settled, up) ==
    [invoice EXCEPT !.paid = @ + Given(a),
                    !.balance = IF settled THEN 0 ELSE Computed(100 * @ - a, up["balance"]),
                    !.status = StatusAfter(a, settled)]

Credited(a, settled, up) ==
    [invoice EXCEPT !.paid = Computed(PaidAfter(a), up["paid"]),
                    !.balance = IF settled THEN 0 ELSE Computed(Owed(a), up["balance"]),
                    !.status = StatusAfter(a, settled)]

\* Bug for the mutation check: the row of the payment is cut off, not rounded.
RowCutOff(a) == [given |-> a, stored |-> a \div 100]

PaymentRow(a) == [given |-> a, stored |-> Given(a)]

RecordPayment(a) ==
    /\ invoice # NoInvoice
    /\ payments' = Append(payments, PaymentRow(a))
    /\ \E settled \in Settled(a), up \in Ways : invoice' = Credited(a, settled, up)
    /\ UNCHANGED lines

Next ==
    /\ calls < MaxCalls
    /\ calls' = calls + 1
    /\ \/ \E b \in Bodies : CreateInvoice(b) \/ UpdateInvoice(b)
       \/ \E a \in Amounts : RecordPayment(a)

Spec == Init /\ [][Next]_vars

-----------------------------------------------------------------------------

TypeOK ==
    /\ invoice \in Invoice \cup {NoInvoice}
    /\ lines \in Seq(Int)
    /\ payments \in Seq([given: Amounts, stored: Int])
    /\ calls \in 0 .. MaxCalls

Distance(x, y) == IF x >= y THEN x - y ELSE y - x

Stored == invoice # NoInvoice

\* Each column is rounded by itself.  Nevertheless the stored total is off from the
\* stored line totals, adjustment and excise duty by no more than half a cent for
\* each of them and itself, and from its own components by no more than 3 cents.
TotalsFoot ==
    Stored =>
        /\ 2 * Distance(invoice.total,
                        SumFunction(lines) + invoice.adjustment + invoice.excise)
               <= Len(lines) + 3
        /\ Distance(invoice.total,
                    invoice.sub - invoice.discount + invoice.tax
                        + invoice.adjustment + invoice.excise) <= 3

\* However many payments and updates went before, the stored balance is within a cent
\* of the stored total less the stored credit, or it was clamped to zero.
BalanceFoots ==
    Stored =>
        \/ Distance(invoice.balance, invoice.total - invoice.paid) <= 1
        \/ invoice.balance = 0 /\ invoice.status = "paid" /\ invoice.paid >= invoice.total

HalfCents == Cardinality({k \in DOMAIN payments : payments[k].given % 100 = 50})

\* PaidAmount is rounded once with every payment, and a payment by itself: the two
\* drift apart only by payments that end in half a cent, a cent for each.
CreditDoesNotDrift ==
    Stored => Distance(invoice.paid, PaidAmount) <= HalfCents

\* As long as nothing is paid back, a payment leaves "paid" only what is covered and
\* "partial" only what is not overpaid, and a first payment of the whole total settles.
PaymentSettles ==
    [][LET a == Last(payments').given IN
       /\ Len(payments') > Len(payments)
       /\ a > 0
       /\ \A k \in DOMAIN payments : payments[k].given >= 0
       => /\ invoice'.status = "paid" => invoice'.paid >= invoice'.total
          /\ invoice'.status = "partial" => invoice'.paid <= invoice'.total
          /\ invoice.paid = 0 /\ a = 100 * invoice.total => invoice'.status = "paid"]_vars

=============================================================================
