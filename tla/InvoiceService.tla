--------------------------- MODULE InvoiceService ---------------------------
(***************************************************************************)
(* The methods of application.InvoiceService, as the HTTP handlers call    *)
(* them: CreateInvoice, UpdateInvoice, GetInvoice, DeleteInvoice and       *)
(* UpdateStatus.                                                           *)
(***************************************************************************)
EXTENDS InvoiceStore

-----------------------------------------------------------------------------
(* CreateInvoice                                                            *)

\* The invoice the method builds in memory.
NewInvoice(r, org, cart, num) ==
    LET net == SumOf(ItemsOf(r, cart)) IN
    [org |-> org, num |-> num, status |-> "draft", net |-> net,
     total |-> net + cart.extra, paid |-> {}, balance |-> net + cart.extra]

\* The request arrives and its first statement counts the invoices.
CreateCount(r) ==
    \E c \in CreateCall :
        /\ pc[r] = "idle"
        /\ "Create" \in Ops
        /\ call' = [call EXCEPT ![r] = c]
        /\ local' = [local EXCEPT ![r] =
               [row |-> NewInvoice(r, c.org, c.cart, NextNumber(c.org)),
                its |-> ItemsOf(r, c.cart), pays |-> {}]]
        /\ Goto(r, "insert")
        /\ UNCHANGED <<tables, published>>

\* Bug for the mutation check: returns without publishing.
InsertUnannounced(r) ==
    /\ pc[r] = "insert"
    /\ Insert(r, local[r].row, local[r].its)
    /\ Return(r, "ok")
    /\ UNCHANGED <<published, call>>

CreateInsert(r) ==
    /\ pc[r] = "insert"
    /\ Insert(r, local[r].row, local[r].its)
    /\ Goto(r, "publish")
    /\ UNCHANGED <<published, call, local>>

\* Bug for the mutation check: the error of the insert is dropped.
RejectionIgnored(r) ==
    /\ pc[r] = "insert"
    /\ ~CanInsert(r, local[r].row)
    /\ Goto(r, "publish")
    /\ UNCHANGED <<tables, published, call, local>>

\* Another invoice took the number after it was counted out.
CreateRejected(r) ==
    /\ pc[r] = "insert"
    /\ ~CanInsert(r, local[r].row)
    /\ Return(r, "failed")
    /\ UNCHANGED <<tables, published, call>>

-----------------------------------------------------------------------------
(* UpdateInvoice                                                            *)

UpdateClear(r) ==
    /\ pc[r] = "clear"
    /\ ClearItems(call[r].inv)
    /\ Goto(r, "save")
    /\ UNCHANGED <<published, call, local>>

\* Bug for the mutation check: "Assuming no payments yet".
RewrittenUnpaid(r) ==
    LET net   == SumOf(ItemsOf(r, call[r].cart))
        total == net + call[r].cart.extra
    IN  [local[r].row EXCEPT !.net = net, !.total = total,
                             !.paid = local[r].pays, !.balance = total]

\* The invoice with the totals of the new lines, and with PaidAmount and
\* BalanceAmount recomputed from the payments that were loaded; Status stays.
Rewritten(r) ==
    LET net   == SumOf(ItemsOf(r, call[r].cart))
        total == net + call[r].cart.extra
    IN  [local[r].row EXCEPT !.net = net, !.total = total,
                             !.paid = local[r].pays,
                             !.balance = total - SumOf(local[r].pays)]

UpdateSave(r) ==
    /\ pc[r] = "save"
    /\ call[r].op = "Update"
    /\ Save(call[r].inv, Rewritten(r), ItemsOf(r, call[r].cart), local[r].pays)
    /\ Return(r, "ok")
    /\ UNCHANGED <<published, call>>

UpdateRejected(r) ==
    /\ pc[r] = "save"
    /\ call[r].op = "Update"
    /\ ~CanSave(call[r].inv, Rewritten(r), ItemsOf(r, call[r].cart), local[r].pays)
    /\ Return(r, "failed")
    /\ UNCHANGED <<tables, published, call>>

\* A line without a name refers to an item the read model does not hold: the
\* loop over the lines returns an error, before the insert of CreateInvoice and
\* after the ClearItems of UpdateInvoice.
ItemNameMissing(r) ==
    /\ \/ pc[r] = "insert"
       \/ pc[r] = "save" /\ call[r].op = "Update"
    /\ ~call[r].cart.named
    /\ Return(r, "failed")
    /\ UNCHANGED <<tables, published, call>>

-----------------------------------------------------------------------------
(* GetInvoice                                                               *)

\* mapToResponse: the answer shows the invoice and its items as GetByID loaded
\* them, and of its payments only what PaidAmount counts.
Response(r) ==
    [status |-> local[r].row.status, lines |-> local[r].its,
     total |-> local[r].row.total, credited |-> local[r].row.paid]

-----------------------------------------------------------------------------
(* UpdateStatus: any status may follow any other.                           *)

Restated(r) == [local[r].row EXCEPT !.status = call[r].status]

StatusSave(r) ==
    /\ pc[r] = "save"
    /\ call[r].op = "Status"
    /\ Save(call[r].inv, Restated(r), local[r].its, local[r].pays)
    /\ Goto(r, "audit")
    /\ UNCHANGED <<published, call, local>>

StatusRejected(r) ==
    /\ pc[r] = "save"
    /\ call[r].op = "Status"
    /\ ~CanSave(call[r].inv, Restated(r), local[r].its, local[r].pays)
    /\ Return(r, "failed")
    /\ UNCHANGED <<tables, published, call>>

\* Bug for the mutation check: oldStatus is read after the new one is assigned.
AuditAfterAssignment(r) ==
    /\ pc[r] = "audit"
    /\ InsertAudit(call[r].inv, [by |-> r, old |-> call[r].status,
                                 new |-> call[r].status])
    /\ Return(r, "ok")
    /\ UNCHANGED <<published, call>>

StatusAudit(r) ==
    /\ pc[r] = "audit"
    /\ InsertAudit(call[r].inv, [by |-> r, old |-> local[r].row.status,
                                 new |-> call[r].status])
    /\ Return(r, "ok")
    /\ UNCHANGED <<published, call>>

\* "Log error but don't fail the operation".
AuditLost(r) ==
    /\ Faults
    /\ pc[r] = "audit"
    /\ Return(r, "ok")
    /\ UNCHANGED <<tables, published, call>>

-----------------------------------------------------------------------------
(* DeleteInvoice                                                            *)

DeleteCommit(r) ==
    /\ pc[r] = "delete"
    /\ DeleteRows(call[r].inv)
    /\ Return(r, "ok")
    /\ UNCHANGED <<published, call>>

-----------------------------------------------------------------------------
(* publishInvoiceCreated and publishPaymentCreated: the result of Publish    *)
(* is not looked at, so the method returns its answer either way.            *)

Publish(r) ==
    /\ pc[r] = "publish"
    /\ published' = published \cup {r}
    /\ Return(r, "ok")
    /\ UNCHANGED <<tables, call>>

EventLost(r) ==
    /\ Faults
    /\ pc[r] = "publish"
    /\ Return(r, "ok")
    /\ UNCHANGED <<tables, published, call>>

InvoiceStep(r) ==
    \/ CreateCount(r) \/ CreateInsert(r) \/ CreateRejected(r)
    \/ UpdateClear(r) \/ UpdateSave(r) \/ UpdateRejected(r)
    \/ ItemNameMissing(r)
    \/ StatusSave(r) \/ StatusRejected(r) \/ StatusAudit(r) \/ AuditLost(r)
    \/ DeleteCommit(r)
    \/ Publish(r) \/ EventLost(r)

=============================================================================
