--------------------------- MODULE PaymentService ---------------------------
(***************************************************************************)
(* application.PaymentService.RecordPayment: load the invoice, insert the  *)
(* payment, credit it to the invoice in memory, save the invoice, publish. *)
(***************************************************************************)
EXTENDS InvoiceStore

\* Bug for the mutation check: the payment is booked with the wrong sign.
DebitOf(r) == [by |-> r, amount |-> -call[r].amount]

PaymentOf(r) == [by |-> r, amount |-> call[r].amount]

\* Bug for the mutation check: the error of the insert is dropped.
RecordUnchecked(r) ==
    /\ pc[r] = "record"
    /\ \/ InsertPayment(call[r].inv, PaymentOf(r))
       \/ UNCHANGED tables
    /\ Goto(r, "save")
    /\ UNCHANGED <<published, call, local>>

PayRecord(r) ==
    /\ pc[r] = "record"
    /\ InsertPayment(call[r].inv, PaymentOf(r))
    /\ Goto(r, "save")
    /\ UNCHANGED <<published, call, local>>

\* The invoice was deleted after it was loaded.
PayRecordRejected(r) ==
    /\ pc[r] = "record"
    /\ ~Live(call[r].inv)
    /\ Return(r, "failed")
    /\ UNCHANGED <<tables, published, call>>

\* Bug for the mutation check: any payment settles the invoice.
CreditedInFull(r) ==
    LET row  == local[r].row
        paid == row.paid \cup {PaymentOf(r)}
    IN  [row EXCEPT !.paid = paid, !.balance = 0, !.status = "paid"]

\* PaidAmount, BalanceAmount and Status of the loaded invoice, after the payment.
Credited(r) ==
    LET row     == local[r].row
        paid    == row.paid \cup {PaymentOf(r)}
        balance == row.total - SumOf(paid)
    IN  [row EXCEPT
            !.paid = paid,
            !.balance = IF balance <= 0 THEN 0 ELSE balance,
            !.status = IF balance <= 0 THEN "paid"
                       ELSE IF SumOf(paid) > 0 THEN "partial" ELSE @]

PaySave(r) ==
    /\ pc[r] = "save"
    /\ call[r].op = "Pay"
    /\ Save(call[r].inv, Credited(r), local[r].its, local[r].pays)
    /\ Goto(r, "publish")
    /\ UNCHANGED <<published, call, local>>

PaySaveRejected(r) ==
    /\ pc[r] = "save"
    /\ call[r].op = "Pay"
    /\ ~CanSave(call[r].inv, Credited(r), local[r].its, local[r].pays)
    /\ Return(r, "failed")
    /\ UNCHANGED <<tables, published, call>>

PaymentStep(r) ==
    \/ PayRecord(r) \/ PayRecordRejected(r)
    \/ PaySave(r) \/ PaySaveRejected(r)

=============================================================================
