----------------------------- MODULE LedgerProofs -----------------------------
(***************************************************************************)
(* Billing implements the ledger for clients that wait for their answers   *)
(* (Serial), and what follows for the totals, the credit and the audit log *)
(* of an invoice nothing is done to at the moment.                         *)
(***************************************************************************)
EXTENDS BillingLedger, BillingProofs

-----------------------------------------------------------------------------
(* What waiting for answers buys.                                           *)

\* At most one request is under way on an invoice.
Exclusive ==
    \A r, q \in Req : InFlight(r) /\ InFlight(q) /\ r # q => Target(r) # Target(q)

\* An invoice is only asked about by clients that were told its id.
Introduced ==
    /\ \A r \in Req : pc[r] = "idle" => call[r] = NoCall
    /\ \A r, i \in Req : pc[r] # "idle" /\ call[r].op # "Create" /\ call[r].inv = i =>
           pc[i] \in Answered /\ call[i].op = "Create"

\* Nothing is stored for an invoice that is not.
NoOrphans == \A i \in Req : ~Live(i) => items[i] = {} /\ payments[i] = {}

\* A payment is in the table only once its request has put it there.
PaymentsByThen ==
    \A i \in Req : \A p \in payments[i] :
        pc[p.by] \notin {"idle", "items", "pays", "record"}

\* The request holds the invoice it is going to insert.
HoldsNew(r) ==
    /\ local[r].row = NewInvoice(r, call[r].org, call[r].cart, local[r].row.num)
    /\ local[r].its = ItemsOf(r, call[r].cart)

\* Having loaded them, a request knows the invoice, its items and its payments as
\* they are, except for what it has changed of them itself.
Knows(r, i) ==
    /\ Live(i)
    /\ pc[r] # "audit" /\ pc[r] # "publish" => local[r].row = invoices[i]
    /\ \/ pc[r] \in {"pays", "clear", "record", "delete"}
       \/ pc[r] = "save" /\ call[r].op # "Update"
       => local[r].its = items[i]
    /\ pc[r] = "save" /\ call[r].op = "Update" => items[i] = {}
    /\ \/ pc[r] \in {"clear", "record", "delete"}
       \/ pc[r] = "save" /\ call[r].op # "Pay"
       => local[r].pays = payments[i]
    /\ pc[r] = "save" /\ call[r].op = "Pay" =>
           /\ PaymentOf(r) \notin local[r].pays
           /\ payments[i] = local[r].pays \cup {PaymentOf(r)}

Informed ==
    \A r \in Req :
        /\ pc[r] = "insert" => HoldsNew(r)
        /\ \A i \in Req : InFlight(r) /\ call[r].op # "Create" /\ call[r].inv = i
                          => Knows(r, i)

SerialInv == Exclusive /\ Introduced /\ NoOrphans /\ PaymentsByThen /\ Informed

-----------------------------------------------------------------------------
(* Totals and credit, while they are being changed too.                     *)

Footed(i)   == BrokeOff("Update", i) \/ invoices[i].net = SumOf(Lines(i))
InCredit(i) == BrokeOff("Pay", i) \/ invoices[i].paid = Received(i)

BooksInv == \A i \in Req : Live(i) => Footed(i) /\ InCredit(i)

-----------------------------------------------------------------------------
(* The audit log.                                                           *)

\* The status that the first k entries of the log lead to.
Past(i, k) == IF k = 0 THEN "draft" ELSE audits[i][k].new

Linked(i) == \A k \in DOMAIN audits[i] : audits[i][k].old = Past(i, k - 1)

\* A request has changed the status of i and has yet to write its entry.
Unlogged(i) == {r \in Req : pc[r] = "audit" /\ call[r].inv = i}

\* The status of i as far as the log knows it.
LoggedStatus(i) ==
    IF Unlogged(i) = {} THEN {invoices[i].status}
    ELSE {local[r].row.status : r \in Unlogged(i)}

\* An entry is written by the last statement of its request.
EntriesOfCalls ==
    \A i \in Req : \A k \in DOMAIN audits[i] :
        Did(audits[i][k].by, "Status", i) /\ pc[audits[i][k].by] = "ok"

Logged(i) ==
    /\ Linked(i)
    /\ LoggedStatus(i) = {Past(i, Len(audits[i]))}
    /\ \A r \in Unlogged(i) : invoices[i].status = call[r].status

LogInv ==
    /\ EntriesOfCalls
    /\ \A i \in Req : Live(i) /\ LogWhole(i) /\ ~Asked("Pay", i) => Logged(i)

-----------------------------------------------------------------------------
(* Who is at work on what.                                                  *)

LEMMA TargetOfOthers ==
    ASSUME TypeInv, NEW r \in Req, pc[r] # "idle"
    PROVE  /\ Target(r) \in Req
           /\ call[r].op # "Create" => call[r] \in ExistingCall /\ Target(r) = call[r].inv
           /\ call[r].op = "Create" => call[r] \in CreateCall /\ Target(r) = r
BY CallType, TargetType DEF Target

\* A request stays with its invoice, and does not touch another one's rows.
LEMMA Elsewhere ==
    ASSUME TypeInv, NEW r \in Req, Acts(r), NEW j \in Req, j # Target(r)'
    PROVE  /\ invoices'[j] = invoices[j] /\ items'[j] = items[j]
           /\ payments'[j] = payments[j] /\ audits'[j] = audits[j]
<1> DEFINE Goal == /\ invoices'[j] = invoices[j] /\ items'[j] = items[j]
                   /\ payments'[j] = payments[j] /\ audits'[j] = audits[j]
<1>1. CASE UNCHANGED tables
  BY <1>1 DEF tables
<1>2. CASE CreateInsert(r)
  <2>1. Target(r)' = r
    BY <1>2 DEF CreateInsert, Target, TypeInv, Stages, Serving, CreateCall
  <2> QED
    BY <1>2, <2>1 DEF CreateInsert, Insert, TypeInv, TypeOK
<1>3. CASE UpdateClear(r) \/ UpdateSave(r) \/ StatusSave(r) \/ StatusAudit(r)
           \/ DeleteCommit(r) \/ PayRecord(r) \/ PaySave(r)
  <2>1. call'[r] = call[r] /\ call[r].op # "Create"
    BY <1>3 DEF UpdateClear, UpdateSave, StatusSave, StatusAudit, DeleteCommit, PayRecord,
       PaySave, TypeInv, Stages, Serving, UpdateCall, StatusCall, DeleteCall, PayCall
  <2>2. j # call[r].inv
    BY <2>1 DEF Target
  <2> QED
    BY <1>3, <2>2 DEF UpdateClear, ClearItems, UpdateSave, StatusSave, StatusAudit,
       InsertAudit, DeleteCommit, DeleteRows, PayRecord, InsertPayment, PaySave, Save,
       TypeInv, TypeOK
<1> QED
  BY <1>1, <1>2, <1>3 DEF Acts, Step, GetByID, InvoiceStep, PaymentStep, StatementFails,
     LoadInvoice, PreloadItems, PreloadPayments, CreateCount, CreateRejected,
     UpdateRejected, ItemNameMissing, StatusRejected, AuditLost, Publish, EventLost,
     PayRecordRejected, PaySaveRejected

\* A request that goes on keeps its call.
LEMMA SameTarget ==
    ASSUME TypeInv, [Next]_vars, NEW r \in Req, pc[r] # "idle"
    PROVE  pc'[r] # "idle" /\ call'[r] = call[r] /\ Target(r)' = Target(r)
BY AnswersStay DEF Target

\* A request arrives with its first statement.
LEMMA Arrival ==
    ASSUME TypeInv, [Next]_vars, NEW r \in Req, pc[r] = "idle", pc'[r] # "idle"
    PROVE  Acts(r) /\ (LoadInvoice(r) \/ CreateCount(r))
<1>1. ASSUME NEW q \in Req \ {r}, Acts(q) PROVE FALSE
  BY <1>1, StepFrame
<1>2. ~Crash /\ ~UNCHANGED vars
  BY DEF Crash, vars, process, InFlight, Running, TypeInv, TypeOK
<1> QED
  BY <1>1, <1>2, FirstStatement DEF Next, Acts

\* With clients that wait, it is alone with its invoice.
LEMMA ArrivesAlone ==
    ASSUME Serial, TypeInv, Exclusive, Introduced, NEW r \in Req,
           LoadInvoice(r) \/ CreateCount(r)
    PROVE  /\ pc[r] = "idle" /\ Target(r)' \in Req
           /\ \A q \in Req \ {r} : InFlight(q) => Target(q) # Target(r)'
<1>1. CASE LoadInvoice(r)
  <2>1. PICK c \in ExistingCall :
            pc[r] = "idle" /\ Quiet(c.inv) /\ call' = [call EXCEPT ![r] = c]
    BY <1>1 DEF LoadInvoice
  <2>2. c.inv \in Req /\ c.op # "Create"
    BY DEF ExistingCall, UpdateCall, ReadCall, DeleteCall, StatusCall, PayCall
  <2>3. Target(r)' = c.inv
    BY <2>1, <2>2 DEF Target, TypeInv, TypeOK
  <2> QED
    BY <2>1, <2>2, <2>3 DEF Quiet
<1>2. CASE CreateCount(r)
  <2>1. pc[r] = "idle" /\ Target(r)' = r
    BY <1>2 DEF CreateCount, CreateCall, Target, TypeInv, TypeOK
  <2>2. ASSUME NEW q \in Req \ {r}, InFlight(q), Target(q) = r PROVE FALSE
    <3>1. pc[q] # "idle"
      BY <2>2 DEF InFlight, Running
    <3>2. call[q].op # "Create" /\ call[q].inv = r
      BY <2>2, <3>1, TargetOfOthers
    <3> QED
      BY <2>1, <3>1, <3>2 DEF Introduced, Answered
  <2> QED
    BY <2>1, <2>2
<1> QED
  BY <1>1, <1>2

LEMMA IntroducedStep ==
    ASSUME Serial, TypeInv, Introduced, [Next]_vars
    PROVE  Introduced'
<1>1. ASSUME NEW r \in Req, pc'[r] = "idle" PROVE call'[r] = NoCall
  <2>1. pc[r] = "idle"
    BY <1>1, AnswersStay
  <2>2. ~Acts(r)
    BY <1>1, StepFrame
  <2>3. CASE \E q \in Req \ {r} : Acts(q)
    BY <2>1, <2>3, StepFrame DEF Introduced
  <2>4. CASE Crash \/ UNCHANGED vars
    BY <2>1, <2>4 DEF Introduced, Crash, vars, process
  <2> QED
    BY <2>2, <2>3, <2>4 DEF Next, Acts
<1>2. ASSUME NEW r \in Req, NEW i \in Req, pc'[r] # "idle", call'[r].op # "Create",
             call'[r].inv = i
      PROVE  pc'[i] \in Answered /\ call'[i].op = "Create"
  <2>1. CASE pc[r] # "idle"
    <3>1. pc[i] \in Answered /\ call[i].op = "Create"
      BY <1>2, <2>1, SameTarget DEF Introduced
    <3> QED
      BY <3>1, AnswersStay DEF Answered
  <2>2. CASE pc[r] = "idle"
    <3>1. LoadInvoice(r)
      <4>1. CreateCount(r) => call'[r].op = "Create"
        BY DEF CreateCount, CreateCall, TypeInv, TypeOK
      <4> QED
        BY <1>2, <2>2, <4>1, Arrival
    <3>2. Known(i) /\ Quiet(i)
      BY <1>2, <3>1 DEF LoadInvoice, TypeInv, TypeOK
    <3>3. pc[i] # "idle" /\ call[i].op = "Create"
      BY <3>2 DEF Known, Introduced
    <3>4. ~InFlight(i)
      BY <3>2, <3>3 DEF Quiet, Target
    <3>5. pc[i] \in Answered
      BY <3>3, <3>4 DEF InFlight, TypeInv, TypeOK
    <3> QED
      BY <3>3, <3>5, AnswersStay
  <2> QED
    BY <2>1, <2>2
<1> QED
  BY <1>1, <1>2 DEF Introduced

LEMMA ExclusiveStep ==
    ASSUME Serial, TypeInv, Exclusive, Introduced, [Next]_vars
    PROVE  Exclusive'
<1>1. ASSUME NEW r \in Req, NEW q \in Req, r # q, InFlight(r)', InFlight(q)',
             LoadInvoice(r) \/ CreateCount(r)
      PROVE  Target(r)' # Target(q)'
  <2>1. UNCHANGED <<pc[q], call[q]>>
    BY <1>1, StepFrame DEF Acts, Step, GetByID, InvoiceStep
  <2>2. InFlight(q) /\ Target(q)' = Target(q)
    BY <1>1, <2>1 DEF InFlight, Target
  <2> QED
    BY <1>1, <2>2, ArrivesAlone
<1>2. ASSUME NEW r \in Req, NEW q \in Req, r # q, InFlight(r), InFlight(q)
      PROVE  Target(r)' # Target(q)'
  <2>1. pc[r] # "idle" /\ pc[q] # "idle"
    BY <1>2 DEF InFlight, Running
  <2> QED
    BY <1>2, <2>1, SameTarget DEF Exclusive
<1> QED
  BY <1>1, <1>2, RowKept DEF Exclusive

\* While a request is under way, no other one touches its invoice.
LEMMA Undisturbed ==
    ASSUME TypeInv, Exclusive, NEW q \in Req, Acts(q), [Next]_vars,
           NEW r \in Req \ {q}, InFlight(r), NEW i \in Req, i = Target(r)
    PROVE  /\ invoices'[i] = invoices[i] /\ items'[i] = items[i]
           /\ payments'[i] = payments[i] /\ audits'[i] = audits[i]
           /\ pc'[r] = pc[r] /\ call'[r] = call[r] /\ local'[r] = local[r]
<1>1. pc'[r] = pc[r] /\ call'[r] = call[r] /\ local'[r] = local[r]
  BY StepFrame
<1>2. CASE pc[q] = "idle"
  <2>1. UNCHANGED tables
    BY <1>2, FirstStatement DEF LoadInvoice, CreateCount, tables
  <2> QED
    BY <1>1, <2>1 DEF tables
<1>3. CASE pc[q] # "idle"
  <2>1. InFlight(q)
    BY <1>3, StepFrame DEF InFlight, TypeInv, TypeOK
  <2>2. Target(q)' = Target(q)
    BY <1>3, SameTarget
  <2>3. i # Target(q)'
    BY <2>1, <2>2 DEF Exclusive
  <2> QED
    BY <1>1, <2>3, Elsewhere
<1> QED
  BY <1>2, <1>3

-----------------------------------------------------------------------------
(* What a request that is alone with its invoice does to the tables.        *)

\* Whoever is past the arrival on an invoice knows it.
LEMMA KnowsIt ==
    ASSUME TypeInv, Informed, NEW r \in Req,
           pc[r] \in {"items", "pays", "clear", "save", "audit", "record", "delete"}
    PROVE  /\ InFlight(r) /\ pc[r] # "idle" /\ call[r].op # "Create"
           /\ call[r] \in ExistingCall
           /\ call[r].inv \in Req /\ Target(r) = call[r].inv /\ Knows(r, call[r].inv)
<1>1. InFlight(r) /\ pc[r] # "idle" /\ call[r] \in ExistingCall
  BY DEF InFlight, Running, TypeInv, Stages, Serving, ExistingCall
<1>2. call[r].op # "Create" /\ call[r].inv \in Req
  BY <1>1 DEF ExistingCall, UpdateCall, ReadCall, DeleteCall, StatusCall, PayCall
<1> QED
  BY <1>1, <1>2 DEF Informed, Target

LEMMA UpdateSaves ==
    ASSUME TypeInv, Informed, NEW r \in Req, UpdateSave(r), NEW i \in Req, i = call[r].inv
    PROVE  /\ Live(i) /\ call[r] \in UpdateCall /\ local[r].row = invoices[i]
           /\ local[r].pays = payments[i] /\ items[i] = {}
           /\ invoices' = [invoices EXCEPT ![i] = Rewritten(r)]
           /\ items' = [items EXCEPT ![i] = ItemsOf(r, call[r].cart)]
           /\ payments' = payments /\ audits' = audits
<1>1. pc[r] = "save" /\ call[r].op = "Update"
  BY DEF UpdateSave
<1>2. Live(i) /\ local[r].row = invoices[i] /\ local[r].pays = payments[i] /\ items[i] = {}
  BY <1>1, KnowsIt DEF Knows
<1>3. call[r] \in UpdateCall
  BY <1>1 DEF TypeInv, Stages, Serving, StatusCall, PayCall
<1> QED
  BY <1>2, <1>3 DEF UpdateSave, Save, TypeInv, TypeOK

LEMMA StatusSaves ==
    ASSUME TypeInv, Informed, NEW r \in Req, StatusSave(r), NEW i \in Req, i = call[r].inv
    PROVE  /\ Live(i) /\ call[r] \in StatusCall /\ local[r].row = invoices[i]
           /\ invoices' = [invoices EXCEPT ![i] = Restated(r)]
           /\ items' = items /\ payments' = payments /\ audits' = audits
<1>1. pc[r] = "save" /\ call[r].op = "Status"
  BY DEF StatusSave
<1>2. /\ Live(i) /\ local[r].row = invoices[i]
      /\ local[r].pays = payments[i] /\ local[r].its = items[i]
  BY <1>1, KnowsIt DEF Knows
<1>3. call[r] \in StatusCall
  BY <1>1 DEF TypeInv, Stages, Serving, UpdateCall, PayCall
<1> QED
  BY <1>2, <1>3 DEF StatusSave, Save, TypeInv, TypeOK

LEMMA PaySaves ==
    ASSUME TypeInv, Informed, NEW r \in Req, PaySave(r), NEW i \in Req, i = call[r].inv
    PROVE  /\ Live(i) /\ call[r] \in PayCall /\ local[r].row = invoices[i]
           /\ PaymentOf(r) \in payments[i]
           /\ invoices' = [invoices EXCEPT ![i] = Credited(r)]
           /\ items' = items /\ payments' = payments /\ audits' = audits
<1>1. pc[r] = "save" /\ call[r].op = "Pay"
  BY DEF PaySave
<1>2. /\ Live(i) /\ local[r].row = invoices[i] /\ local[r].its = items[i]
      /\ payments[i] = local[r].pays \cup {PaymentOf(r)}
  BY <1>1, KnowsIt DEF Knows
<1>3. call[r] \in PayCall
  BY <1>1 DEF TypeInv, Stages, Serving, UpdateCall, StatusCall
<1> QED
  BY <1>2, <1>3 DEF PaySave, Save, TypeInv, TypeOK

\* A payment enters its invoice's rows with its request.
LEMMA PaymentsFrom ==
    ASSUME TypeInv, Informed, [Next]_vars, NEW i \in Req, NEW p \in payments'[i]
    PROVE  p \in payments[i] \/ \E r \in Req : PayRecord(r) /\ p = PaymentOf(r)
<1>1. CASE UNCHANGED payments
  BY <1>1
<1>2. ASSUME NEW r \in Req, UpdateSave(r) \/ StatusSave(r) \/ PaySave(r)
      PROVE  UNCHANGED payments
  <2>1. call[r].inv \in Req
    BY <1>2, KnowsIt DEF UpdateSave, StatusSave, PaySave
  <2> QED
    BY <1>2, <2>1, UpdateSaves, StatusSaves, PaySaves
<1>3. ASSUME NEW r \in Req, PayRecord(r)
      PROVE  p \in payments[i] \/ p = PaymentOf(r)
  BY <1>3 DEF PayRecord, InsertPayment, TypeInv, TypeOK
<1>4. ASSUME NEW r \in Req, DeleteCommit(r) PROVE p \in payments[i]
  BY <1>4 DEF DeleteCommit, DeleteRows, TypeInv, TypeOK
<1>5. ASSUME NEW r \in Req, Acts(r), ~UpdateSave(r), ~StatusSave(r), ~PaySave(r),
             ~PayRecord(r), ~DeleteCommit(r)
      PROVE  UNCHANGED payments
  BY <1>5 DEF Acts, Step, GetByID, InvoiceStep, PaymentStep, StatementFails,
     LoadInvoice, PreloadItems, PreloadPayments, CreateCount, CreateInsert, Insert,
     CreateRejected, UpdateClear, ClearItems, UpdateRejected, ItemNameMissing,
     StatusRejected, StatusAudit, InsertAudit, AuditLost, Publish, EventLost,
     PayRecordRejected, PaySaveRejected, tables
<1>6. Crash \/ UNCHANGED vars => UNCHANGED payments
  BY DEF Crash, vars, tables
<1> QED
  BY <1>1, <1>2, <1>3, <1>4, <1>5, <1>6 DEF Next, Acts

\* No method goes back to its loads.
LEMMA NoGoingBack ==
    ASSUME TypeInv, [Next]_vars, NEW r \in Req,
           pc[r] \notin {"idle", "items", "pays", "record"}
    PROVE  pc'[r] \notin {"idle", "items", "pays", "record"}
<1>1. CASE Acts(r)
  BY <1>1 DEF Acts, Step, GetByID, InvoiceStep, PaymentStep, StatementFails,
     LoadInvoice, PreloadItems, PreloadPayments, CreateCount, CreateInsert,
     CreateRejected, UpdateClear, UpdateSave, UpdateRejected, ItemNameMissing, StatusSave,
     StatusRejected, StatusAudit, AuditLost, DeleteCommit, Publish, EventLost, PayRecord,
     PayRecordRejected, PaySave, PaySaveRejected, Return, Goto, TypeInv, TypeOK
<1>2. ASSUME NEW q \in Req \ {r}, Acts(q) PROVE pc'[r] = pc[r]
  BY <1>2, StepFrame
<1>3. CASE Crash \/ UNCHANGED vars
  BY <1>3 DEF Crash, vars, process, TypeInv, TypeOK
<1> QED
  BY <1>1, <1>2, <1>3 DEF Next, Acts

LEMMA PaymentsByThenStep ==
    ASSUME TypeInv, Informed, PaymentsByThen, [Next]_vars
    PROVE  PaymentsByThen'
<1> SUFFICES ASSUME NEW i \in Req, NEW p \in payments'[i]
             PROVE  pc'[p.by] \notin {"idle", "items", "pays", "record"}
  BY DEF PaymentsByThen
<1>1. CASE p \in payments[i]
  <2>1. p.by \in Req /\ pc[p.by] \notin {"idle", "items", "pays", "record"}
    BY <1>1 DEF PaymentsByThen, TypeInv, TypeOK, Payment
  <2> QED
    BY <2>1, NoGoingBack
<1>2. ASSUME NEW r \in Req, PayRecord(r), p = PaymentOf(r)
      PROVE  pc'[p.by] \notin {"idle", "items", "pays", "record"}
  BY <1>2 DEF PayRecord, PaymentOf, Goto, TypeInv, TypeOK
<1> QED
  BY <1>1, <1>2, PaymentsFrom

LEMMA NoOrphansStep ==
    ASSUME TypeInv, Informed, NoOrphans, [Next]_vars
    PROVE  NoOrphans'
<1> SUFFICES ASSUME NEW i \in Req, ~Live(i)' PROVE items'[i] = {} /\ payments'[i] = {}
  BY DEF NoOrphans
<1>1. CASE UNCHANGED tables
  BY <1>1 DEF NoOrphans, tables, Live
<1>2. ASSUME NEW r \in Req, CreateInsert(r) PROVE items'[i] = {} /\ payments'[i] = {}
  <2>1. local[r].row \in Row
    BY <1>2 DEF CreateInsert, TypeInv, Stages, InFlight, Running
  <2> QED
    BY <1>2, <2>1, NoRowAssumption DEF CreateInsert, Insert, Live, NoOrphans, TypeInv, TypeOK
<1>3. ASSUME NEW r \in Req, UpdateSave(r) \/ StatusSave(r) \/ PaySave(r)
      PROVE  items'[i] = {} /\ payments'[i] = {}
  <2>1. call[r].inv \in Req /\ local[r].row \in Row
    <3>1. pc[r] = "save"
      BY <1>3 DEF UpdateSave, StatusSave, PaySave
    <3> QED
      BY <3>1, KnowsIt DEF TypeInv, Stages
  <2>2. PICK j \in Req : j = call[r].inv
    BY <2>1
  <2>3. \E row \in Row : invoices' = [invoices EXCEPT ![j] = row]
    <3>1. CASE UpdateSave(r)
      BY <2>1, <2>2, <3>1, UpdateSaves, RewrittenType DEF TypeInv
    <3>2. CASE StatusSave(r)
      BY <2>1, <2>2, <3>2, StatusSaves, RestatedType
    <3>3. CASE PaySave(r)
      BY <2>1, <2>2, <3>3, PaySaves, CreditedType
    <3> QED
      BY <1>3, <3>1, <3>2, <3>3
  <2>4. payments' = payments /\ \A k \in Req \ {j} : items'[k] = items[k]
    <3>1. CASE UpdateSave(r)
      <4>1. /\ items' = [items EXCEPT ![j] = ItemsOf(r, call[r].cart)]
            /\ payments' = payments
        BY <2>2, <3>1, UpdateSaves
      <4> QED
        BY <4>1 DEF TypeInv, TypeOK
    <3>2. CASE StatusSave(r)
      BY <2>2, <3>2, StatusSaves
    <3>3. CASE PaySave(r)
      BY <2>2, <3>3, PaySaves
    <3> QED
      BY <1>3, <3>1, <3>2, <3>3
  <2>5. i # j
    BY <2>3, NoRowAssumption DEF Live, TypeInv, TypeOK
  <2> QED
    BY <2>3, <2>4, <2>5 DEF NoOrphans, Live, TypeInv, TypeOK
<1>4. ASSUME NEW r \in Req,
             UpdateClear(r) \/ StatusAudit(r) \/ DeleteCommit(r) \/ PayRecord(r)
      PROVE  items'[i] = {} /\ payments'[i] = {}
  BY <1>4 DEF UpdateClear, ClearItems, StatusAudit, InsertAudit, DeleteCommit, DeleteRows,
     PayRecord, InsertPayment, NoOrphans, Live, TypeInv, TypeOK
<1>5. ASSUME NEW r \in Req, Acts(r), ~CreateInsert(r), ~UpdateSave(r), ~StatusSave(r),
             ~PaySave(r), ~UpdateClear(r), ~StatusAudit(r), ~DeleteCommit(r), ~PayRecord(r)
      PROVE  UNCHANGED tables
  BY <1>5 DEF Acts, Step, GetByID, InvoiceStep, PaymentStep, StatementFails,
     LoadInvoice, PreloadItems, PreloadPayments, CreateCount, CreateRejected,
     UpdateRejected, ItemNameMissing, StatusRejected, AuditLost, Publish, EventLost,
     PayRecordRejected, PaySaveRejected
<1>6. Crash \/ UNCHANGED vars => UNCHANGED tables
  BY DEF Crash, vars
<1> QED
  BY <1>1, <1>2, <1>3, <1>4, <1>5, <1>6 DEF Next, Acts

\* What a request under way knows stays true, and what it does keeps it informed.
LEMMA InformedStep ==
    ASSUME Serial, TypeInv, SerialInv, [Next]_vars
    PROVE  Informed'
<1> USE DEF SerialInv
<1>1. ASSUME NEW r \in Req, pc'[r] = "insert" PROVE HoldsNew(r)'
  <2>1. CASE CreateCount(r)
    BY <2>1 DEF CreateCount, CreateCall, HoldsNew, NewInvoice, TypeInv, TypeOK
  <2>2. CASE UNCHANGED <<pc[r], call[r], local[r]>>
    BY <1>1, <2>2 DEF Informed, HoldsNew, NewInvoice
  <2>3. Acts(r) => CreateCount(r)
    <3>1. PreloadPayments(r) => pc'[r] # "insert"
      <4>1. PreloadPayments(r) =>
                call[r] \in ExistingCall /\ pc'[r] = AfterLoad[call[r].op]
        BY DEF PreloadPayments, Goto, TypeInv, TypeOK, Stages, Serving
      <4>2. \A c \in ExistingCall : c.op \in {"Get", "Update", "Delete", "Status", "Pay"}
        BY DEF ExistingCall, UpdateCall, ReadCall, DeleteCall, StatusCall, PayCall
      <4> QED
        BY <4>1, <4>2 DEF AfterLoad
    <3> QED
      BY <1>1, <3>1 DEF Acts, Step, GetByID, InvoiceStep, PaymentStep, StatementFails,
         LoadInvoice, PreloadItems, CreateInsert, CreateRejected, UpdateClear, UpdateSave,
         UpdateRejected, ItemNameMissing, StatusSave, StatusRejected, StatusAudit,
         AuditLost, DeleteCommit, Publish, EventLost, PayRecord, PayRecordRejected,
         PaySave, PaySaveRejected, Return, Goto, TypeInv, TypeOK
  <2>4. ASSUME NEW q \in Req \ {r}, Acts(q) PROVE UNCHANGED <<pc[r], call[r], local[r]>>
    BY <2>4, StepFrame
  <2>5. Crash \/ UNCHANGED vars => UNCHANGED <<pc[r], call[r], local[r]>>
    BY <1>1 DEF Crash, vars, process, InFlight, Running, TypeInv, TypeOK
  <2> QED
    BY <2>1, <2>2, <2>3, <2>4, <2>5 DEF Next, Acts
<1>2. ASSUME NEW r \in Req, NEW i \in Req, InFlight(r)', call'[r].op # "Create",
             call'[r].inv = i
      PROVE  Knows(r, i)'
  <2>1. CASE LoadInvoice(r)
    <3>1. PICK c \in ExistingCall :
              /\ call' = [call EXCEPT ![r] = c]
              /\ local' = [local EXCEPT ![r].row = invoices[c.inv]]
              /\ pc' = [pc EXCEPT ![r] = IF Live(c.inv) THEN "items" ELSE "failed"]
              /\ UNCHANGED invoices
      BY <2>1 DEF LoadInvoice, Goto, tables
    <3>2. c.inv = i /\ local'[r].row = invoices[i]
      BY <1>2, <3>1 DEF TypeInv, TypeOK, Memory
    <3>3. pc'[r] = "items" /\ Live(i)
      BY <1>2, <3>1, <3>2 DEF TypeInv, TypeOK, InFlight, Running
    <3> QED
      BY <3>1, <3>2, <3>3 DEF Knows, Live
  <2>2. CASE PreloadItems(r)
    <3>1. pc[r] = "items" /\ call[r].inv = i /\ Knows(r, i)
      BY <1>2, <2>2, KnowsIt DEF PreloadItems
    <3> QED
      BY <2>2, <3>1 DEF PreloadItems, Goto, Knows, Live, tables, TypeInv, TypeOK, Memory
  <2>3. CASE PreloadPayments(r)
    <3>1. pc[r] = "pays" /\ call[r].inv = i /\ Knows(r, i)
      BY <1>2, <2>3, KnowsIt DEF PreloadPayments
    <3>2. /\ pc'[r] = AfterLoad[call[r].op]
          /\ call' = call /\ UNCHANGED tables
          /\ local'[r].row = local[r].row /\ local'[r].its = local[r].its
          /\ local'[r].pays = payments[i]
      BY <2>3, <3>1 DEF PreloadPayments, Goto, TypeInv, TypeOK, Memory
    <3>3. /\ pc'[r] \in {"ok", "clear", "delete", "save", "record"}
          /\ pc'[r] = "save" => call[r].op = "Status"
      <4>1. call[r] \in ExistingCall
        BY <3>1, KnowsIt
      <4>2. call[r].op \in {"Get", "Update", "Delete", "Status", "Pay"}
        BY <4>1 DEF ExistingCall, UpdateCall, ReadCall, DeleteCall, StatusCall, PayCall
      <4> QED
        BY <3>2, <4>2 DEF AfterLoad
    <3> QED
      BY <3>1, <3>2, <3>3 DEF Knows, Live, tables
  <2>4. CASE UpdateClear(r)
    <3>1. /\ pc[r] = "clear" /\ call[r].inv = i /\ Knows(r, i)
          /\ call[r] \in UpdateCall
      BY <1>2, <2>4, KnowsIt DEF UpdateClear, TypeInv, Stages, Serving
    <3>2. call[r].op = "Update"
      BY <3>1 DEF UpdateCall
    <3> QED
      BY <2>4, <3>1, <3>2 DEF UpdateClear, ClearItems, Goto, Knows, Live, TypeInv, TypeOK
  <2>5. CASE StatusSave(r) \/ PaySave(r)
    <3>1. call[r].inv = i /\ local[r].row \in Row
      BY <1>2, <2>5 DEF StatusSave, PaySave, TypeInv, Stages, InFlight, Running
    <3>2. \E row \in Row : invoices' = [invoices EXCEPT ![i] = row]
      <4>1. CASE StatusSave(r)
        BY <1>2, <3>1, <4>1, StatusSaves, RestatedType
      <4>2. CASE PaySave(r)
        BY <1>2, <3>1, <4>2, PaySaves, CreditedType
      <4> QED
        BY <2>5, <4>1, <4>2
    <3>3. Live(i)'
      BY <3>2, NoRowAssumption DEF Live, TypeInv, TypeOK
    <3>4. pc'[r] \in {"audit", "publish"}
      BY <2>5 DEF StatusSave, PaySave, Goto, TypeInv, TypeOK
    <3> QED
      BY <3>3, <3>4 DEF Knows
  <2>6. CASE PayRecord(r)
    <3>1. /\ pc[r] = "record" /\ call[r].inv = i /\ Knows(r, i)
          /\ call[r] \in PayCall
      BY <1>2, <2>6, KnowsIt DEF PayRecord, TypeInv, Stages, Serving
    <3>2. call[r].op = "Pay"
      BY <3>1 DEF PayCall
    <3>3. PaymentOf(r) \notin local[r].pays /\ local[r].pays = payments[i]
      BY <3>1 DEF Knows, PaymentsByThen, PaymentOf
    <3>4. /\ pc'[r] = "save" /\ call' = call /\ local' = local
          /\ invoices' = invoices /\ items' = items
          /\ payments'[i] = payments[i] \cup {PaymentOf(r)}
          /\ PaymentOf(r)' = PaymentOf(r)
      BY <2>6, <3>1 DEF PayRecord, InsertPayment, PaymentOf, Goto, TypeInv, TypeOK
    <3> QED
      BY <3>1, <3>2, <3>3, <3>4 DEF Knows, Live
  <2>7. ASSUME Acts(r), ~LoadInvoice(r), ~PreloadItems(r), ~PreloadPayments(r),
               ~UpdateClear(r), ~StatusSave(r), ~PaySave(r), ~PayRecord(r)
        PROVE  FALSE
    BY <1>2, <2>7 DEF Acts, Step, GetByID, InvoiceStep, PaymentStep, StatementFails,
       CreateCount, CreateInsert, CreateRejected, UpdateSave, UpdateRejected,
       ItemNameMissing, StatusRejected, StatusAudit, AuditLost, DeleteCommit, Publish,
       EventLost, PayRecordRejected, PaySaveRejected, Return, Goto, InFlight, Running,
       CreateCall, TypeInv, TypeOK, Stages, Serving
  <2>8. ASSUME NEW q \in Req \ {r}, Acts(q) PROVE Knows(r, i)'
    <3>1. pc'[r] = pc[r] /\ call'[r] = call[r]
      BY <2>8, StepFrame
    <3>2. InFlight(r) /\ i = Target(r) /\ Knows(r, i)
      BY <1>2, <3>1 DEF InFlight, Target, Informed
    <3>3. /\ invoices'[i] = invoices[i] /\ items'[i] = items[i] /\ payments'[i] = payments[i]
          /\ pc'[r] = pc[r] /\ call'[r] = call[r] /\ local'[r] = local[r]
      BY <2>8, <3>2, Undisturbed
    <3> QED
      BY <3>2, <3>3 DEF Knows, Live, PaymentOf
  <2>9. ~Crash
    BY <1>2 DEF Crash, InFlight, Running, TypeInv, TypeOK
  <2>10. CASE UNCHANGED vars
    BY <1>2, <2>10 DEF vars, tables, process, Informed, Knows, Live, PaymentOf, InFlight
  <2> QED
    BY <2>1, <2>2, <2>3, <2>4, <2>5, <2>6, <2>7, <2>8, <2>9, <2>10 DEF Next, Acts
<1> QED
  BY <1>1, <1>2 DEF Informed

LEMMA SerialInit == Init => SerialInv
BY DEF Init, StoreInit, SerialInv, Exclusive, Introduced, NoOrphans, PaymentsByThen,
       Informed, InFlight, Running

LEMMA SerialStep ==
    ASSUME Serial
    PROVE  TypeInv /\ SerialInv /\ [Next]_vars => SerialInv'
BY IntroducedStep, ExclusiveStep, NoOrphansStep, PaymentsByThenStep, InformedStep
   DEF SerialInv

\* Clients that wait: one request per invoice at a time, which knows its invoice.
THEOREM Serialised ==
    ASSUME Serial
    PROVE  Spec => [](TypeInv /\ SerialInv)
BY Typed, SerialInit, SerialStep, PTL DEF Spec

-----------------------------------------------------------------------------
(* The accounts.                                                            *)

\* The request r has begun to change invoice i and has yet to save it.
Saving(r, op, i) == pc[r] = "save" /\ call[r].op = op /\ call[r].inv = i

\* A step of a request changes no account but the one it is about.
LEMMA AccountsElsewhere ==
    ASSUME TypeInv, [Next]_vars, NEW r \in Req, Acts(r), NEW j \in Req, j # Target(r)'
    PROVE  Lines(j)' = Lines(j) /\ Received(j)' = Received(j) /\ Account(j)' = Account(j)
<1>1. ASSUME NEW op \in {"Update", "Pay"}
      PROVE  /\ Unsaved(op, j)' = Unsaved(op, j)
             /\ r \notin Unsaved(op, j)
  <2>1. r \notin Unsaved(op, j)
    <3>1. r \in Unsaved(op, j) => pc[r] # "idle" /\ Target(r) = j
      BY DEF Unsaved, Target
    <3> QED
      BY <3>1, SameTarget
  <2>2. r \notin Unsaved(op, j)'
    BY DEF Unsaved, Target
  <2>3. \A q \in Req \ {r} : pc'[q] = pc[q] /\ call'[q] = call[q]
    BY StepFrame
  <2>4. \A q \in Req \ {r} : q \in Unsaved(op, j)' <=> q \in Unsaved(op, j)
    BY <2>3 DEF Unsaved
  <2>5. Unsaved(op, j) \subseteq Req /\ Unsaved(op, j)' \subseteq Req
    BY DEF Unsaved
  <2> QED
    BY <2>1, <2>2, <2>4, <2>5
<1>2. /\ invoices'[j] = invoices[j] /\ items'[j] = items[j] /\ payments'[j] = payments[j]
  BY Elsewhere
<1>3. \A q \in Unsaved("Update", j) : local'[q] = local[q]
  BY <1>1, StepFrame DEF Unsaved
<1>4. \A q \in Unsaved("Pay", j) : PaymentOf(q)' = PaymentOf(q)
  BY <1>1, StepFrame DEF Unsaved, PaymentOf
<1>5. Lines(j)' = Lines(j)
  <2>1. UNION {local'[q].its : q \in Unsaved("Update", j)'}
          = UNION {local[q].its : q \in Unsaved("Update", j)}
    BY <1>1, <1>3
  <2> QED
    BY <1>2, <2>1 DEF Lines
<1>6. Received(j)' = Received(j)
  <2>1. {PaymentOf(q)' : q \in Unsaved("Pay", j)'} = {PaymentOf(q) : q \in Unsaved("Pay", j)}
    BY <1>1, <1>4
  <2> QED
    BY <1>2, <2>1 DEF Received
<1> QED
  BY <1>2, <1>5, <1>6 DEF Account, Live

\* Whoever acts on an invoice is alone with it before and after.
LEMMA ActsAlone ==
    ASSUME Serial, TypeInv, SerialInv, [Next]_vars, NEW r \in Req, Acts(r)
    PROVE  /\ Target(r)' \in Req
           /\ \A q \in Req \ {r} : /\ InFlight(q) => Target(q) # Target(r)'
                                   /\ InFlight(q)' => Target(q)' # Target(r)'
<1>1. \A q \in Req \ {r} : InFlight(q)' = InFlight(q) /\ Target(q)' = Target(q)
  BY StepFrame DEF InFlight, Target
<1>2. CASE pc[r] = "idle"
  <2>1. LoadInvoice(r) \/ CreateCount(r)
    BY <1>2, FirstStatement
  <2> QED
    BY <1>1, <2>1, ArrivesAlone DEF SerialInv
<1>3. CASE pc[r] # "idle"
  <2>1. InFlight(r)
    BY <1>3, StepFrame DEF InFlight, TypeInv, TypeOK
  <2>2. Target(r)' = Target(r) /\ Target(r) \in Req
    BY <1>3, SameTarget, TargetOfOthers
  <2> QED
    BY <1>1, <2>1, <2>2 DEF SerialInv, Exclusive
<1> QED
  BY <1>2, <1>3

\* The account of an invoice one request is alone with.
LEMMA AloneAccount ==
    ASSUME NEW r \in Req, NEW i \in Req, \A q \in Req \ {r} : InFlight(q) => Target(q) # i
    PROVE  /\ Lines(i) = IF Saving(r, "Update", i) THEN items[i] \cup local[r].its ELSE items[i]
           /\ Received(i) = IF Saving(r, "Pay", i) THEN payments[i] \ {PaymentOf(r)}
                            ELSE payments[i]
<1>1. ASSUME NEW op \in {"Update", "Pay"}
      PROVE  Unsaved(op, i) = IF Saving(r, op, i) THEN {r} ELSE {}
  <2>1. \A q \in Req \ {r} : q \notin Unsaved(op, i)
    BY DEF Unsaved, InFlight, Running, Target
  <2> QED
    BY <2>1 DEF Unsaved, Saving
<1> QED
  BY <1>1 DEF Lines, Received

\* The same of the next state.
LEMMA AloneAccountNext ==
    ASSUME NEW r \in Req, NEW i \in Req,
           \A q \in Req \ {r} : InFlight(q)' => Target(q)' # i
    PROVE  /\ Lines(i)' = IF Saving(r, "Update", i)' THEN items'[i] \cup local'[r].its
                          ELSE items'[i]
           /\ Received(i)' = IF Saving(r, "Pay", i)' THEN payments'[i] \ {PaymentOf(r)'}
                             ELSE payments'[i]
<1>1. ASSUME NEW op \in {"Update", "Pay"}
      PROVE  Unsaved(op, i)' = IF Saving(r, op, i)' THEN {r} ELSE {}
  <2>1. \A q \in Req \ {r} : q \notin Unsaved(op, i)'
    BY DEF Unsaved, InFlight, Running, Target
  <2> QED
    BY <2>1 DEF Unsaved, Saving
<1> QED
  BY <1>1 DEF Lines, Received

\* An account of the ledger is one, and not the value for none.
LEMMA AccountTyped ==
    ASSUME TypeInv, NEW i \in Req, Live(i)
    PROVE  /\ Account(i) = [org |-> invoices[i].org, status |-> invoices[i].status,
                            lines |-> Lines(i), total |-> invoices[i].total,
                            received |-> Received(i), credited |-> invoices[i].paid]
           /\ Account(i) # NoRow
<1>1. Lines(i) \in SUBSET Item
  BY DEF Lines, Unsaved, TypeInv, TypeOK, Memory
<1>2. Received(i) \in SUBSET Payment
  BY DEF Received, TypeInv, TypeOK
<1>3. invoices[i] \in Row
  BY DEF Live, TypeInv, TypeOK
<1>4. Account(i) \in AccountType
  BY <1>1, <1>2, <1>3 DEF Account, AccountType, Row
<1> QED
  BY <1>4, NoAccountAssumption DEF Account

-----------------------------------------------------------------------------
(* Each step of a request, on the account it is about.                      *)

\* Everything but a save, a delete and a break-off leaves the account as it is.
Unseen(r) ==
    \/ GetByID(r) \/ CreateCount(r) \/ CreateRejected(r) \/ UpdateClear(r)
    \/ StatusAudit(r) \/ AuditLost(r) \/ Publish(r) \/ EventLost(r)
    \/ PayRecord(r) \/ PayRecordRejected(r)

LEMMA UnseenSteps ==
    ASSUME Serial, TypeInv, SerialInv, [Next]_vars, NEW r \in Req, Unseen(r),
           NEW i \in Req, i = Target(r)'
    PROVE  /\ invoices'[i] = invoices[i]
           /\ Lines(i)' = Lines(i) /\ Received(i)' = Received(i)
           /\ Account(i)' = Account(i)
<1> USE DEF SerialInv
<1>0. Acts(r)
  BY DEF Unseen, Acts, Step, InvoiceStep, PaymentStep
<1>1. /\ Lines(i) = IF Saving(r, "Update", i) THEN items[i] \cup local[r].its ELSE items[i]
      /\ Received(i) = IF Saving(r, "Pay", i) THEN payments[i] \ {PaymentOf(r)} ELSE payments[i]
  BY <1>0, ActsAlone, AloneAccount
<1>2. /\ Lines(i)' = IF Saving(r, "Update", i)' THEN items'[i] \cup local'[r].its ELSE items'[i]
      /\ Received(i)' = IF Saving(r, "Pay", i)' THEN payments'[i] \ {PaymentOf(r)'}
                        ELSE payments'[i]
  BY <1>0, ActsAlone, AloneAccountNext
<1>3. pc[r] # "save"
  BY DEF Unseen, GetByID, LoadInvoice, PreloadItems, PreloadPayments, CreateCount,
     CreateRejected, UpdateClear, StatusAudit, AuditLost, Publish, EventLost, PayRecord,
     PayRecordRejected
<1>4. CASE UpdateClear(r)
  <2>1. /\ pc[r] = "clear" /\ call[r] \in UpdateCall /\ call[r].inv = i
        /\ Knows(r, i)
    <3>1. pc[r] = "clear" /\ call[r] \in UpdateCall /\ call'[r] = call[r]
      BY <1>4 DEF UpdateClear, TypeInv, Stages, Serving
    <3>2. call[r].inv = i
      BY <3>1 DEF Target, UpdateCall
    <3> QED
      BY <3>1, <3>2, KnowsIt
  <2>2. /\ pc'[r] = "save" /\ call' = call /\ local' = local /\ items'[i] = {}
        /\ invoices' = invoices /\ payments' = payments
    BY <1>4, <2>1 DEF UpdateClear, ClearItems, Goto, TypeInv, TypeOK
  <2>3. Saving(r, "Update", i)' /\ ~Saving(r, "Pay", i)' /\ local[r].its = items[i]
    BY <2>1, <2>2 DEF Saving, UpdateCall, Knows
  <2>4. Lines(i)' = Lines(i) /\ Received(i)' = Received(i)
    BY <1>1, <1>2, <1>3, <2>2, <2>3 DEF Saving
  <2> QED
    BY <2>2, <2>4 DEF Account, Live
<1>5. CASE PayRecord(r)
  <2>1. /\ pc[r] = "record" /\ call[r] \in PayCall /\ call[r].inv = i
        /\ call'[r] = call[r]
    <3>1. pc[r] = "record" /\ call[r] \in PayCall /\ call'[r] = call[r]
      BY <1>5 DEF PayRecord, TypeInv, Stages, Serving
    <3>2. call[r].inv = i
      BY <3>1 DEF Target, PayCall
    <3> QED
      BY <3>1, <3>2
  <2>2. /\ pc'[r] = "save" /\ call' = call /\ local' = local
        /\ invoices' = invoices /\ items' = items
        /\ payments'[i] = payments[i] \cup {PaymentOf(r)}
        /\ PaymentOf(r)' = PaymentOf(r)
    BY <1>5, <2>1 DEF PayRecord, InsertPayment, PaymentOf, Goto, TypeInv, TypeOK
  <2>3. Saving(r, "Pay", i)' /\ ~Saving(r, "Update", i)'
    BY <2>1, <2>2 DEF Saving, PayCall
  <2>4. PaymentOf(r) \notin payments[i]
    BY <2>1 DEF PaymentsByThen, PaymentOf
  <2>5. Lines(i)' = Lines(i) /\ Received(i)' = Received(i)
    BY <1>1, <1>2, <1>3, <2>2, <2>3, <2>4 DEF Saving
  <2> QED
    BY <2>2, <2>5 DEF Account, Live
<1>6. CASE ~UpdateClear(r) /\ ~PayRecord(r)
  <2>1. invoices' = invoices /\ items' = items /\ payments' = payments
    BY <1>6 DEF Unseen, GetByID, LoadInvoice, PreloadItems, PreloadPayments, CreateCount,
       CreateRejected, StatusAudit, InsertAudit, AuditLost, Publish, EventLost,
       PayRecordRejected, tables
  <2>2. pc'[r] = "save" => call'[r].op = "Status"
    <3>1. CASE PreloadPayments(r)
      <4>1. call[r] \in ExistingCall /\ pc'[r] = AfterLoad[call[r].op] /\ call' = call
        BY <3>1 DEF PreloadPayments, Goto, TypeInv, TypeOK, Stages, Serving
      <4>2. call[r].op \in {"Get", "Update", "Delete", "Status", "Pay"}
        BY <4>1 DEF ExistingCall, UpdateCall, ReadCall, DeleteCall, StatusCall, PayCall
      <4> QED
        BY <4>1, <4>2 DEF AfterLoad
    <3>2. CASE ~PreloadPayments(r)
      BY <1>6, <3>2 DEF Unseen, GetByID, LoadInvoice, PreloadItems, CreateCount,
         CreateRejected, StatusAudit, AuditLost, Publish, EventLost, PayRecordRejected,
         Return, Goto, TypeInv, TypeOK
    <3> QED
      BY <3>1, <3>2
  <2>3. Lines(i)' = Lines(i) /\ Received(i)' = Received(i)
    BY <1>1, <1>2, <1>3, <2>1, <2>2 DEF Saving
  <2> QED
    BY <2>1, <2>3 DEF Account, Live
<1> QED
  BY <1>4, <1>5, <1>6

\* No save is turned away: the invoice is still there.
LEMMA NoneRejected ==
    ASSUME TypeInv, Informed, NEW r \in Req
    PROVE  ~UpdateRejected(r) /\ ~StatusRejected(r) /\ ~PaySaveRejected(r)
<1>1. pc[r] = "save" => Live(call[r].inv)
  BY KnowsIt DEF Knows
<1> QED
  BY <1>1 DEF UpdateRejected, StatusRejected, PaySaveRejected, CanSave

LEMMA CreateSteps ==
    ASSUME Serial, TypeInv, SerialInv, [Next]_vars, NEW r \in Req, CreateInsert(r)
    PROVE  /\ Target(r)' = r /\ call[r] \in CreateCall
           /\ ~Live(r) /\ Live(r)' /\ HoldsNew(r)
           /\ invoices'[r] = local[r].row
           /\ Lines(r)' = ItemsOf(r, call[r].cart) /\ Received(r)' = {}
<1> USE DEF SerialInv
<1>0. Acts(r)
  BY DEF Acts, Step, InvoiceStep
<1>1. /\ pc[r] = "insert" /\ call[r] \in CreateCall /\ call' = call /\ ~Live(r)
      /\ pc'[r] = "publish" /\ local[r].row \in Row
  BY DEF CreateInsert, Insert, CanInsert, Goto, TypeInv, TypeOK, Stages, Serving,
     InFlight, Running
<1>2. Target(r)' = r
  BY <1>1 DEF Target, CreateCall
<1>3. HoldsNew(r) /\ items[r] = {} /\ payments[r] = {}
  BY <1>1 DEF Informed, NoOrphans
<1>4. /\ invoices'[r] = local[r].row /\ items'[r] = ItemsOf(r, call[r].cart)
      /\ payments'[r] = {}
  BY <1>3 DEF CreateInsert, Insert, HoldsNew, TypeInv, TypeOK
<1>5. ~Saving(r, "Update", r)' /\ ~Saving(r, "Pay", r)'
  BY <1>1 DEF Saving
<1>6. Lines(r)' = items'[r] /\ Received(r)' = payments'[r]
  BY <1>0, <1>2, <1>5, ActsAlone, AloneAccountNext
<1>7. Live(r)'
  BY <1>1, <1>4, NoRowAssumption DEF Live
<1> QED
  BY <1>1, <1>2, <1>3, <1>4, <1>6, <1>7

LEMMA UpdateSteps ==
    ASSUME Serial, TypeInv, SerialInv, [Next]_vars, NEW r \in Req, UpdateSave(r),
           NEW i \in Req, i = Target(r)'
    PROVE  /\ call[r] \in UpdateCall /\ call[r].inv = i
           /\ Live(i) /\ Live(i)' /\ local[r].row = invoices[i]
           /\ invoices'[i] = Rewritten(r) /\ Rewritten(r) \in Row
           /\ local[r].pays = Received(i)
           /\ Lines(i)' = ItemsOf(r, call[r].cart) /\ Received(i)' = Received(i)
<1> USE DEF SerialInv
<1>0. Acts(r) /\ call' = call /\ pc[r] = "save" /\ pc'[r] = "ok"
  BY DEF Acts, Step, InvoiceStep, UpdateSave, Return, Goto, TypeInv, TypeOK
<1>1. call[r].inv = i /\ local[r].row \in Row
  BY <1>0 DEF UpdateSave, Target, TypeInv, Stages, InFlight, Running
<1>2. /\ Live(i) /\ call[r] \in UpdateCall /\ local[r].row = invoices[i]
      /\ local[r].pays = payments[i]
      /\ invoices' = [invoices EXCEPT ![i] = Rewritten(r)]
      /\ items' = [items EXCEPT ![i] = ItemsOf(r, call[r].cart)]
      /\ payments' = payments
  BY <1>1, UpdateSaves
<1>3. /\ invoices'[i] = Rewritten(r) /\ items'[i] = ItemsOf(r, call[r].cart)
  BY <1>2 DEF TypeInv, TypeOK
<1>4. Rewritten(r) \in Row
  BY <1>1, <1>2, RewrittenType DEF TypeInv
<1>5. ~Saving(r, "Pay", i) /\ ~Saving(r, "Update", i)' /\ ~Saving(r, "Pay", i)'
  BY <1>0, <1>2 DEF Saving, UpdateCall
<1>6. Received(i) = payments[i] /\ Lines(i)' = items'[i] /\ Received(i)' = payments'[i]
  BY <1>0, <1>5, ActsAlone, AloneAccount, AloneAccountNext
<1>7. Live(i)'
  BY <1>3, <1>4, NoRowAssumption DEF Live
<1> QED
  BY <1>1, <1>2, <1>3, <1>4, <1>6, <1>7

LEMMA StatusSteps ==
    ASSUME Serial, TypeInv, SerialInv, [Next]_vars, NEW r \in Req, StatusSave(r),
           NEW i \in Req, i = Target(r)'
    PROVE  /\ call[r] \in StatusCall /\ call[r].inv = i
           /\ Live(i) /\ Live(i)' /\ local[r].row = invoices[i]
           /\ invoices'[i] = Restated(r) /\ Restated(r) \in Row
           /\ Lines(i)' = Lines(i) /\ Received(i)' = Received(i)
<1> USE DEF SerialInv
<1>0. Acts(r) /\ call' = call /\ pc[r] = "save" /\ pc'[r] = "audit"
  BY DEF Acts, Step, InvoiceStep, StatusSave, Goto, TypeInv, TypeOK
<1>1. call[r].inv = i /\ local[r].row \in Row
  BY <1>0 DEF StatusSave, Target, TypeInv, Stages, InFlight, Running
<1>2. /\ Live(i) /\ call[r] \in StatusCall /\ local[r].row = invoices[i]
      /\ invoices' = [invoices EXCEPT ![i] = Restated(r)]
      /\ items' = items /\ payments' = payments
  BY <1>1, StatusSaves
<1>3. invoices'[i] = Restated(r)
  BY <1>2 DEF TypeInv, TypeOK
<1>4. Restated(r) \in Row
  BY <1>1, <1>2, RestatedType
<1>5. /\ ~Saving(r, "Update", i) /\ ~Saving(r, "Pay", i)
      /\ ~Saving(r, "Update", i)' /\ ~Saving(r, "Pay", i)'
  BY <1>0, <1>2 DEF Saving, StatusCall
<1>6. /\ Lines(i) = items[i] /\ Received(i) = payments[i]
      /\ Lines(i)' = items'[i] /\ Received(i)' = payments'[i]
  BY <1>0, <1>5, ActsAlone, AloneAccount, AloneAccountNext
<1>7. Live(i)'
  BY <1>3, <1>4, NoRowAssumption DEF Live
<1> QED
  BY <1>1, <1>2, <1>3, <1>4, <1>6, <1>7

LEMMA PaySteps ==
    ASSUME Serial, TypeInv, SerialInv, [Next]_vars, NEW r \in Req, PaySave(r),
           NEW i \in Req, i = Target(r)'
    PROVE  /\ call[r] \in PayCall /\ call[r].inv = i
           /\ Live(i) /\ Live(i)' /\ local[r].row = invoices[i]
           /\ invoices'[i] = Credited(r) /\ Credited(r) \in Row
           /\ PaymentOf(r) \in Payment /\ PaymentOf(r) \notin Received(i)
           /\ Lines(i)' = Lines(i) /\ Received(i)' = Received(i) \cup {PaymentOf(r)}
<1> USE DEF SerialInv
<1>0. Acts(r) /\ call' = call /\ pc[r] = "save" /\ pc'[r] = "publish"
  BY DEF Acts, Step, PaymentStep, PaySave, Goto, TypeInv, TypeOK
<1>1. call[r].inv = i /\ local[r].row \in Row
  BY <1>0 DEF PaySave, Target, TypeInv, Stages, InFlight, Running
<1>2. /\ Live(i) /\ call[r] \in PayCall /\ local[r].row = invoices[i]
      /\ PaymentOf(r) \in payments[i]
      /\ invoices' = [invoices EXCEPT ![i] = Credited(r)]
      /\ items' = items /\ payments' = payments
  BY <1>1, PaySaves
<1>3. invoices'[i] = Credited(r)
  BY <1>2 DEF TypeInv, TypeOK
<1>4. Credited(r) \in Row /\ PaymentOf(r) \in Payment
  BY <1>1, <1>2, CreditedType, PaymentOfType
<1>5. /\ ~Saving(r, "Update", i) /\ Saving(r, "Pay", i)
      /\ ~Saving(r, "Update", i)' /\ ~Saving(r, "Pay", i)'
  BY <1>0, <1>1, <1>2 DEF Saving, PayCall
<1>6. /\ Lines(i) = items[i] /\ Received(i) = payments[i] \ {PaymentOf(r)}
      /\ Lines(i)' = items'[i] /\ Received(i)' = payments'[i]
  BY <1>0, <1>5, ActsAlone, AloneAccount, AloneAccountNext
<1>7. Live(i)'
  BY <1>3, <1>4, NoRowAssumption DEF Live
<1>8. Received(i)' = Received(i) \cup {PaymentOf(r)} /\ PaymentOf(r) \notin Received(i)
  BY <1>2, <1>6
<1> QED
  BY <1>1, <1>2, <1>3, <1>4, <1>6, <1>7, <1>8

LEMMA DeleteSteps ==
    ASSUME TypeInv, Informed, NEW r \in Req, DeleteCommit(r), NEW i \in Req, i = Target(r)'
    PROVE  Live(i) /\ ~Live(i)' /\ Account(i)' = NoRow
<1>1. pc[r] = "delete" /\ call'[r] = call[r]
  BY DEF DeleteCommit
<1>2. call[r].inv = i /\ Live(i)
  BY <1>1, KnowsIt DEF Knows, Target
<1> QED
  BY <1>2 DEF DeleteCommit, DeleteRows, Account, Live, TypeInv, TypeOK

\* What a call that is cut short leaves of the account: without the lines if it was
\* an update that had deleted them, with one payment more if it had recorded it.
CutShort(r) == ItemNameMissing(r) \/ StatementFails(r)

LEMMA CutSteps ==
    ASSUME Serial, TypeInv, SerialInv, [Next]_vars, NEW r \in Req, CutShort(r),
           NEW i \in Req, i = Target(r)'
    PROVE  /\ invoices' = invoices /\ call' = call /\ pc'[r] = "failed"
           /\ Lines(i)' = IF Saving(r, "Update", i) THEN {} ELSE Lines(i)
           /\ Received(i)' = IF Saving(r, "Pay", i) THEN Received(i) \cup {PaymentOf(r)}
                             ELSE Received(i)
           /\ Saving(r, "Pay", i) => PaymentOf(r) \in Payment
<1> USE DEF SerialInv
<1>0. /\ Acts(r) /\ call' = call /\ pc'[r] = "failed"
      /\ invoices' = invoices /\ items' = items /\ payments' = payments
  BY DEF Acts, Step, InvoiceStep, CutShort, ItemNameMissing, StatementFails, Return, Goto,
     TypeInv, TypeOK, tables
<1>1. ~Saving(r, "Update", i)' /\ ~Saving(r, "Pay", i)'
  BY <1>0 DEF Saving
<1>2. /\ Lines(i) = IF Saving(r, "Update", i) THEN items[i] \cup local[r].its ELSE items[i]
      /\ Received(i) = IF Saving(r, "Pay", i) THEN payments[i] \ {PaymentOf(r)} ELSE payments[i]
      /\ Lines(i)' = items[i] /\ Received(i)' = payments[i]
  BY <1>0, <1>1, ActsAlone, AloneAccount, AloneAccountNext
<1>3. Saving(r, "Update", i) => items[i] = {}
  BY KnowsIt DEF Saving, Knows
<1>4. Saving(r, "Pay", i) => PaymentOf(r) \in payments[i] /\ PaymentOf(r) \in Payment
  <2>1. Saving(r, "Pay", i) => call[r] \in PayCall
    BY DEF Saving, TypeInv, Stages, Serving, UpdateCall, StatusCall
  <2> QED
    BY <2>1, KnowsIt, PaymentOfType DEF Saving, Knows
<1> QED
  BY <1>0, <1>2, <1>3, <1>4

\* The same of all accounts at once, when the process dies.
LEMMA CrashSteps ==
    ASSUME TypeInv, SerialInv, Crash, NEW i \in Req
    PROVE  /\ invoices' = invoices /\ call' = call
           /\ Lines(i)' = items[i] /\ Received(i)' = payments[i]
           /\ \/ Lines(i) = items[i] /\ Received(i) = payments[i]
              \/ \E r \in Req :
                     /\ InFlight(r) /\ Target(r) = i
                     /\ Lines(i) = IF Saving(r, "Update", i) THEN local[r].its ELSE items[i]
                     /\ Saving(r, "Update", i) => items[i] = {}
                     /\ Received(i) = IF Saving(r, "Pay", i) THEN payments[i] \ {PaymentOf(r)}
                                      ELSE payments[i]
                     /\ Saving(r, "Pay", i) => /\ PaymentOf(r) \in payments[i]
                                               /\ PaymentOf(r) \in Payment
<1> USE DEF SerialInv
<1>1. /\ invoices' = invoices /\ call' = call /\ items' = items /\ payments' = payments
      /\ \A q \in Req : pc'[q] # "save"
  BY DEF Crash, tables, InFlight, Running
<1>2. Lines(i)' = items[i] /\ Received(i)' = payments[i]
  <2>1. \A op \in {"Update", "Pay"} : Unsaved(op, i)' = {}
    BY <1>1 DEF Unsaved
  <2> QED
    BY <1>1, <2>1 DEF Lines, Received
<1>3. CASE \E r \in Req : InFlight(r) /\ Target(r) = i
  <2>1. PICK r \in Req : InFlight(r) /\ Target(r) = i
    BY <1>3
  <2>2. \A q \in Req \ {r} : InFlight(q) => Target(q) # i
    BY <2>1 DEF Exclusive
  <2>3. /\ Lines(i) = IF Saving(r, "Update", i) THEN items[i] \cup local[r].its ELSE items[i]
        /\ Received(i) = IF Saving(r, "Pay", i) THEN payments[i] \ {PaymentOf(r)}
                         ELSE payments[i]
    BY <2>2, AloneAccount
  <2>4. Saving(r, "Update", i) => items[i] = {}
    BY KnowsIt DEF Saving, Knows
  <2>5. Saving(r, "Pay", i) => PaymentOf(r) \in payments[i] /\ PaymentOf(r) \in Payment
    <3>1. Saving(r, "Pay", i) => call[r] \in PayCall
      BY DEF Saving, TypeInv, Stages, Serving, UpdateCall, StatusCall
    <3> QED
      BY <3>1, KnowsIt, PaymentOfType DEF Saving, Knows
  <2>6. Lines(i) = IF Saving(r, "Update", i) THEN local[r].its ELSE items[i]
    BY <2>3, <2>4
  <2> QED
    BY <1>1, <1>2, <2>1, <2>3, <2>4, <2>5, <2>6
<1>4. CASE \A r \in Req : InFlight(r) => Target(r) # i
  <2>1. \A op \in {"Update", "Pay"} : Unsaved(op, i) = {}
    BY <1>4 DEF Unsaved, InFlight, Running, Target
  <2>2. Lines(i) = items[i] /\ Received(i) = payments[i]
    BY <2>1 DEF Lines, Received
  <2> QED
    BY <1>1, <1>2, <2>2
<1> QED
  BY <1>3, <1>4

\* A step is a crash, a stutter, or one of these of one request.
LEMMA KindsOfStep ==
    ASSUME TypeInv, Informed, NEW r \in Req, Acts(r)
    PROVE  \/ Unseen(r) \/ CutShort(r)
           \/ CreateInsert(r) \/ UpdateSave(r) \/ StatusSave(r) \/ PaySave(r)
           \/ DeleteCommit(r)
BY NoneRejected DEF Acts, Step, InvoiceStep, PaymentStep, Unseen, CutShort

-----------------------------------------------------------------------------
(* Each step of the services is a step of the ledger, or none.              *)

Accounts == [i \in Req |-> Account(i)]
Answers  == [r \in Req |-> Answer(r)]

LEMMA WorthIsSum ==
    ASSUME NEW S
    PROVE  Book!Worth(S) = SumOf(S)
BY DEF Book!Worth, SumOf, SumFunction, Book!SumFunction, SumFunctionOnSet,
   Book!SumFunctionOnSet, FoldFunctionOnSet, Book!FoldFunctionOnSet, MapThenFoldSet,
   Book!MapThenFoldSet

\* What breaking off can do to an account.
LEMMA LinesGone ==
    ASSUME NEW org, NEW status, NEW lines, NEW total, NEW received, NEW credited,
           NEW account, account = [org |-> org, status |-> status, lines |-> lines,
               total |-> total, received |-> received, credited |-> credited]
    PROVE  [account EXCEPT !.lines = {}]
             = [org |-> org, status |-> status, lines |-> {}, total |-> total,
                received |-> received, credited |-> credited]
OBVIOUS

LEMMA OneMoreReceived ==
    ASSUME NEW org, NEW status, NEW lines, NEW total, NEW received, NEW credited, NEW p,
           NEW account, account = [org |-> org, status |-> status, lines |-> lines,
               total |-> total, received |-> received, credited |-> credited]
    PROVE  [account EXCEPT !.received = @ \cup {p}]
             = [org |-> org, status |-> status, lines |-> lines, total |-> total,
                received |-> received \cup {p}, credited |-> credited]
OBVIOUS

\* Only the last load of a GetInvoice answers a reader.
LEMMA AnswersSame ==
    ASSUME TypeInv, NEW r \in Req, Acts(r), ~(PreloadPayments(r) /\ call[r].op = "Get")
    PROVE  Answers' = Answers
<1>1. ASSUME NEW q \in Req \ {r} PROVE Answer(q)' = Answer(q)
  BY StepFrame DEF Answer, Response
<1>2. pc[r] # "ok"
  BY StepFrame DEF Answered
<1>3. ASSUME pc'[r] = "ok", call'[r].op = "Get" PROVE FALSE
  <2>1. PreloadPayments(r) \/ (Loaded(r) /\ call'[r] = call[r])
    BY <1>3, LoadedBy DEF Loaded
  <2>2. CASE PreloadPayments(r)
    BY <1>3, <2>2 DEF PreloadPayments
  <2>3. CASE Loaded(r) /\ call'[r] = call[r]
    BY <1>2, <1>3, <2>3 DEF Loaded, TypeInv, Stages, Serving, UpdateCall, StatusCall, PayCall,
       DeleteCall
  <2> QED
    BY <2>1, <2>2, <2>3
<1>4. Answer(r)' = Answer(r)
  BY <1>2, <1>3 DEF Answer
<1> QED
  BY <1>1, <1>4 DEF Answers

\* What the ledger says of a step on one account and no answer.
LEMMA OneAccount ==
    ASSUME TypeInv, [Next]_vars, NEW r \in Req, Acts(r), NEW i \in Req, i = Target(r)'
    PROVE  /\ Accounts' = [Accounts EXCEPT ![i] = Accounts'[i]]
           /\ Account(i)' = Account(i) => Accounts' = Accounts
<1>1. \A j \in Req \ {i} : Account(j)' = Account(j)
  BY AccountsElsewhere
<1> QED
  BY <1>1 DEF Accounts

LEMMA IsBillable ==
    ASSUME NEW r \in Req, NEW cart \in Carts
    PROVE  [lines |-> ItemsOf(r, cart), total |-> SumOf(ItemsOf(r, cart)) + cart.extra]
             \in Billable
BY DEF Billable

LEMMA OpenRefines ==
    ASSUME Serial, TypeInv, SerialInv, [Next]_vars, NEW r \in Req, CreateInsert(r)
    PROVE  Book!Call(r)
<1>0. Acts(r) /\ ~PreloadPayments(r)
  BY DEF Acts, Step, InvoiceStep, CreateInsert, PreloadPayments
<1>1. /\ Target(r)' = r /\ call[r] \in CreateCall
      /\ ~Live(r) /\ Live(r)' /\ HoldsNew(r)
      /\ invoices'[r] = local[r].row
      /\ Lines(r)' = ItemsOf(r, call[r].cart) /\ Received(r)' = {}
  BY CreateSteps
<1> DEFINE cart == call[r].cart
           inv  == [lines |-> ItemsOf(r, cart), total |-> SumOf(ItemsOf(r, cart)) + cart.extra]
<1>2. call[r].org \in Org /\ cart \in Carts
  BY <1>1 DEF CreateCall
<1>3. inv \in Billable
  BY <1>2 DEF Billable
<1>4. /\ local[r].row.org = call[r].org /\ local[r].row.status = "draft"
      /\ local[r].row.total = inv.total /\ local[r].row.paid = {}
  BY <1>1 DEF HoldsNew, NewInvoice
<1>5. Account(r)' = [org |-> call[r].org, status |-> "draft", lines |-> inv.lines,
                     total |-> inv.total, received |-> {}, credited |-> {}]
  BY <1>1, <1>4 DEF Account
<1>6. Account(r) = NoRow
  BY <1>1 DEF Account
<1> HIDE DEF inv
<1>7. Book!Open(r)
  BY <1>2, <1>3, <1>5, <1>6 DEF Book!Open
<1>8. Accounts' = [Accounts EXCEPT ![r] = Accounts'[r]]
  BY <1>0, <1>1, OneAccount
<1>9. Answers' = Answers
  BY <1>0, AnswersSame
<1> QED
  BY <1>7, <1>8, <1>9 DEF Book!Call, Accounts, Answers

LEMMA ReviseRefines ==
    ASSUME Serial, TypeInv, SerialInv, [Next]_vars, NEW r \in Req, UpdateSave(r),
           NEW i \in Req, i = Target(r)'
    PROVE  Book!Call(i)
<1>0. Acts(r) /\ ~PreloadPayments(r)
  BY DEF Acts, Step, InvoiceStep, UpdateSave, PreloadPayments
<1>1. /\ call[r] \in UpdateCall /\ Live(i) /\ Live(i)' /\ local[r].row = invoices[i]
      /\ invoices'[i] = Rewritten(r) /\ local[r].pays = Received(i)
      /\ Lines(i)' = ItemsOf(r, call[r].cart) /\ Received(i)' = Received(i)
  BY UpdateSteps
<1> DEFINE cart == call[r].cart
           inv  == [lines |-> ItemsOf(r, cart), total |-> SumOf(ItemsOf(r, cart)) + cart.extra]
<1>2. inv \in Billable
  <2>1. cart \in Carts
    BY <1>1 DEF UpdateCall
  <2> QED
    BY <2>1, IsBillable
<1>3. invoices[i] \in Row
  BY <1>1 DEF TypeInv, TypeOK, Live
<1>4. /\ invoices'[i].org = invoices[i].org /\ invoices'[i].status = invoices[i].status
      /\ invoices'[i].total = inv.total /\ invoices'[i].paid = Received(i)
  BY <1>1, <1>3 DEF Rewritten, Row
<1>5. /\ Account(i) = [org |-> invoices[i].org, status |-> invoices[i].status,
                       lines |-> Lines(i), total |-> invoices[i].total,
                       received |-> Received(i), credited |-> invoices[i].paid]
      /\ Account(i) # NoRow
  BY <1>1, AccountTyped
<1>6. Account(i)' = [org |-> invoices[i].org, status |-> invoices[i].status,
                     lines |-> inv.lines, total |-> inv.total,
                     received |-> Received(i), credited |-> Received(i)]
  BY <1>1, <1>4 DEF Account
<1> HIDE DEF inv
<1>7. Account(i)' = [Account(i) EXCEPT !.lines = inv.lines, !.total = inv.total,
                                       !.credited = Account(i).received]
  <2>1. PICK a : a = Account(i)
    OBVIOUS
  <2>2. PICK l, t, m : l = inv.lines /\ t = inv.total /\ m = Received(i)
    OBVIOUS
  <2>3. a.received = m
    BY <1>5, <2>1, <2>2
  <2>4. [a EXCEPT !.lines = l, !.total = t, !.credited = m]
          = [org |-> invoices[i].org, status |-> invoices[i].status, lines |-> l,
             total |-> t, received |-> m, credited |-> m]
    <3>1. a = [org |-> invoices[i].org, status |-> invoices[i].status,
               lines |-> Lines(i), total |-> invoices[i].total,
               received |-> m, credited |-> invoices[i].paid]
      BY <1>5, <2>1, <2>2
    <3>2. PICK a1 : a1 = [a EXCEPT !.lines = l]
      OBVIOUS
    <3>3. PICK a2 : a2 = [a1 EXCEPT !.total = t]
      OBVIOUS
    <3>4. a1 = [org |-> invoices[i].org, status |-> invoices[i].status, lines |-> l,
                total |-> invoices[i].total, received |-> m, credited |-> invoices[i].paid]
      BY <3>1, <3>2
    <3>5. a2 = [org |-> invoices[i].org, status |-> invoices[i].status, lines |-> l,
                total |-> t, received |-> m, credited |-> invoices[i].paid]
      BY <3>3, <3>4
    <3>6. [a2 EXCEPT !.credited = m]
            = [org |-> invoices[i].org, status |-> invoices[i].status, lines |-> l,
               total |-> t, received |-> m, credited |-> m]
      BY <3>5
    <3> QED
      BY <3>2, <3>3, <3>6
  <2> QED
    BY <1>6, <2>1, <2>2, <2>3, <2>4
<1>8. Book!Revise(i)
  BY <1>2, <1>5, <1>7 DEF Book!Revise
<1>9. Accounts' = [Accounts EXCEPT ![i] = Accounts'[i]] /\ Answers' = Answers
  BY <1>0, OneAccount, AnswersSame
<1> QED
  BY <1>8, <1>9 DEF Book!Call, Accounts, Answers

LEMMA RestateRefines ==
    ASSUME Serial, TypeInv, SerialInv, [Next]_vars, NEW r \in Req, StatusSave(r),
           NEW i \in Req, i = Target(r)'
    PROVE  Book!Call(i)
<1>0. Acts(r) /\ ~PreloadPayments(r)
  BY DEF Acts, Step, InvoiceStep, StatusSave, PreloadPayments
<1>1. /\ call[r] \in StatusCall /\ Live(i) /\ Live(i)' /\ local[r].row = invoices[i]
      /\ invoices'[i] = Restated(r)
      /\ Lines(i)' = Lines(i) /\ Received(i)' = Received(i)
  BY StatusSteps
<1>2. call[r].status \in Statuses /\ invoices[i] \in Row
  BY <1>1 DEF StatusCall, TypeInv, TypeOK, Live
<1>3. /\ invoices'[i].org = invoices[i].org /\ invoices'[i].status = call[r].status
      /\ invoices'[i].total = invoices[i].total /\ invoices'[i].paid = invoices[i].paid
  BY <1>1, <1>2 DEF Restated, Row
<1>4. /\ Account(i) = [org |-> invoices[i].org, status |-> invoices[i].status,
                       lines |-> Lines(i), total |-> invoices[i].total,
                       received |-> Received(i), credited |-> invoices[i].paid]
      /\ Account(i) # NoRow
  BY <1>1, AccountTyped
<1>5. Account(i)' = [Account(i) EXCEPT !.status = call[r].status]
  BY <1>1, <1>3, <1>4 DEF Account
<1>6. Book!Restate(i)
  BY <1>2, <1>4, <1>5 DEF Book!Restate
<1>7. Accounts' = [Accounts EXCEPT ![i] = Accounts'[i]] /\ Answers' = Answers
  BY <1>0, OneAccount, AnswersSame
<1> QED
  BY <1>6, <1>7 DEF Book!Call, Accounts, Answers

LEMMA PayRefines ==
    ASSUME Serial, TypeInv, SerialInv, [Next]_vars, NEW r \in Req, PaySave(r),
           NEW i \in Req, i = Target(r)'
    PROVE  Book!Call(i)
<1>0. Acts(r) /\ ~PreloadPayments(r)
  BY DEF Acts, Step, PaymentStep, PaySave, PreloadPayments
<1>1. /\ call[r] \in PayCall /\ Live(i) /\ Live(i)' /\ local[r].row = invoices[i]
      /\ invoices'[i] = Credited(r)
      /\ PaymentOf(r) \in Payment /\ PaymentOf(r) \notin Received(i)
      /\ Lines(i)' = Lines(i) /\ Received(i)' = Received(i) \cup {PaymentOf(r)}
  BY PaySteps
<1> DEFINE row      == invoices[i]
           p        == PaymentOf(r)
           credited == row.paid \cup {p}
           worth    == SumOf(credited)
           status   == Book!StatusAfter(row.status, worth, row.total)
<1>2. row \in Row
  BY <1>1 DEF TypeInv, TypeOK, Live
<1>3. worth \in Int /\ row.total \in Int
  <2>1. credited \in SUBSET Payment
    BY <1>1, <1>2 DEF Row
  <2> QED
    BY <1>2, <2>1, PaidSum DEF Row
<1>4. /\ invoices'[i].org = row.org /\ invoices'[i].total = row.total
      /\ invoices'[i].paid = credited
      /\ invoices'[i].status = IF row.total - worth <= 0 THEN "paid"
                               ELSE IF worth > 0 THEN "partial" ELSE row.status
  BY <1>1, <1>2 DEF Credited, Row
<1>5. invoices'[i].status = status
  <2> HIDE DEF worth, row
  <2>1. row.total - worth <= 0 <=> worth >= row.total
    BY <1>3
  <2> QED
    BY <1>4, <2>1 DEF Book!StatusAfter
<1>6. /\ Account(i) = [org |-> row.org, status |-> row.status,
                       lines |-> Lines(i), total |-> row.total,
                       received |-> Received(i), credited |-> row.paid]
      /\ Account(i) # NoRow
  BY <1>1, AccountTyped
<1>7. Account(i)' = [org |-> row.org, status |-> status, lines |-> Lines(i),
                     total |-> row.total, received |-> Received(i) \cup {p},
                     credited |-> credited]
  BY <1>1, <1>4, <1>5 DEF Account
<1>8. Account(i)' = Book!Credit(Account(i), p)
  <2>1. Book!Worth(credited) = worth
    BY WorthIsSum
  <2> HIDE DEF row, p, worth, status, credited
  <2>2. PICK a, m, c, s : /\ a = Account(i) /\ m = Received(i) \cup {p}
                          /\ c = credited /\ s = status
    OBVIOUS
  <2>3. /\ a.received \cup {p} = m /\ a.credited \cup {p} = c
        /\ Book!StatusAfter(a.status, Book!Worth(c), a.total) = s
    BY <1>6, <2>1, <2>2 DEF status, credited
  <2>4. Book!Credit(a, p) = [a EXCEPT !.received = m, !.credited = c, !.status = s]
    BY <2>3 DEF Book!Credit
  <2>5. [a EXCEPT !.received = m, !.credited = c, !.status = s]
          = [org |-> row.org, status |-> s, lines |-> Lines(i), total |-> row.total,
             received |-> m, credited |-> c]
    <3>1. a = [org |-> row.org, status |-> row.status, lines |-> Lines(i),
               total |-> row.total, received |-> Received(i), credited |-> row.paid]
      BY <1>6, <2>2
    <3>2. PICK a1 : a1 = [a EXCEPT !.received = m]
      OBVIOUS
    <3>3. PICK a2 : a2 = [a1 EXCEPT !.credited = c]
      OBVIOUS
    <3>4. a1 = [org |-> row.org, status |-> row.status, lines |-> Lines(i),
                total |-> row.total, received |-> m, credited |-> row.paid]
      BY <3>1, <3>2
    <3>5. a2 = [org |-> row.org, status |-> row.status, lines |-> Lines(i),
                total |-> row.total, received |-> m, credited |-> c]
      BY <3>3, <3>4
    <3>6. [a2 EXCEPT !.status = s]
            = [org |-> row.org, status |-> s, lines |-> Lines(i), total |-> row.total,
               received |-> m, credited |-> c]
      BY <3>5
    <3> QED
      BY <3>2, <3>3, <3>6
  <2> QED
    BY <1>7, <2>2, <2>4, <2>5
<1>9. p \in Payment \ Account(i).received
  BY <1>1, <1>6
<1> HIDE DEF p
<1>10. Book!Pay(i)
  BY <1>6, <1>8, <1>9 DEF Book!Pay
<1>11. Accounts' = [Accounts EXCEPT ![i] = Accounts'[i]] /\ Answers' = Answers
  BY <1>0, OneAccount, AnswersSame
<1> QED
  BY <1>10, <1>11 DEF Book!Call, Accounts, Answers

LEMMA CloseRefines ==
    ASSUME TypeInv, Informed, [Next]_vars, NEW r \in Req, DeleteCommit(r),
           NEW i \in Req, i = Target(r)'
    PROVE  Book!Call(i)
<1>0. Acts(r) /\ ~PreloadPayments(r)
  BY DEF Acts, Step, InvoiceStep, DeleteCommit, PreloadPayments
<1>1. Live(i) /\ Account(i)' = NoRow
  BY DeleteSteps
<1>2. Account(i) # NoRow
  BY <1>1, AccountTyped
<1>3. Book!Close(i)
  BY <1>1, <1>2 DEF Book!Close
<1>4. Accounts' = [Accounts EXCEPT ![i] = Accounts'[i]] /\ Answers' = Answers
  BY <1>0, OneAccount, AnswersSame
<1> QED
  BY <1>3, <1>4 DEF Book!Call, Accounts, Answers

\* The answer of a GetInvoice is the account as it is when the last load is done.
LEMMA ShowRefines ==
    ASSUME Serial, TypeInv, SerialInv, [Next]_vars, NEW r \in Req, PreloadPayments(r),
           call[r].op = "Get", NEW i \in Req, i = Target(r)'
    PROVE  Book!Show(r, i)
<1> USE DEF SerialInv
<1>0. Acts(r) /\ Unseen(r) /\ pc[r] = "pays" /\ call' = call
  BY DEF Acts, Step, GetByID, Unseen, PreloadPayments
<1>1. i = Target(r) /\ Knows(r, i) /\ Live(i)
  BY <1>0, KnowsIt DEF Knows, Target
<1>2. local[r].row = invoices[i] /\ local[r].its = items[i]
  BY <1>0, <1>1 DEF Knows
<1>3. Lines(i) = items[i]
  BY <1>0, ActsAlone, AloneAccount DEF Saving
<1>4. /\ Account(i) = [org |-> invoices[i].org, status |-> invoices[i].status,
                       lines |-> Lines(i), total |-> invoices[i].total,
                       received |-> Received(i), credited |-> invoices[i].paid]
      /\ Account(i) # NoRow
  BY <1>1, AccountTyped
<1>5. Answer(r) = NoRow
  BY <1>0 DEF Answer
<1>6. /\ pc'[r] = "ok" /\ call'[r].op = "Get"
      /\ local'[r].row = local[r].row /\ local'[r].its = local[r].its
  BY <1>0 DEF PreloadPayments, Goto, AfterLoad, TypeInv, TypeOK, Memory
<1>7. Answer(r)' = Book!Statement(Account(i))
  BY <1>2, <1>3, <1>4, <1>6 DEF Answer, Response, Book!Statement
<1>8. Answers' = [Answers EXCEPT ![r] = Book!Statement(Account(i))]
  <2>1. ASSUME NEW q \in Req \ {r} PROVE Answer(q)' = Answer(q)
    BY <1>0, StepFrame DEF Answer, Response
  <2> QED
    BY <1>7, <2>1 DEF Answers
<1>9. Accounts' = Accounts
  BY <1>0, UnseenSteps, OneAccount
<1> QED
  BY <1>4, <1>5, <1>8, <1>9 DEF Book!Show, Accounts, Answers

LEMMA CutRefines ==
    ASSUME Serial, TypeInv, SerialInv, [Next]_vars, NEW r \in Req, CutShort(r),
           NEW i \in Req, i = Target(r)'
    PROVE  Book!BreakOff
<1>0. Acts(r) /\ ~(PreloadPayments(r) /\ call[r].op = "Get")
  <2>1. pc'[r] = "failed"
    BY CutSteps
  <2> QED
    BY <2>1 DEF Acts, Step, InvoiceStep, CutShort, PreloadPayments, Goto, AfterLoad,
       TypeInv, TypeOK
<1>1. /\ invoices' = invoices
      /\ Lines(i)' = IF Saving(r, "Update", i) THEN {} ELSE Lines(i)
      /\ Received(i)' = IF Saving(r, "Pay", i) THEN Received(i) \cup {PaymentOf(r)}
                        ELSE Received(i)
      /\ Saving(r, "Pay", i) => PaymentOf(r) \in Payment
      /\ ~(Saving(r, "Pay", i) /\ Saving(r, "Update", i))
  BY CutSteps DEF Saving
<1>2. Account(i)' \in Book!Damaged(Account(i))
  <2>1. CASE ~Live(i)
    BY <1>1, <2>1 DEF Account, Live, Book!Damaged
  <2>2. CASE Live(i)
    <3>1. /\ Account(i) = [org |-> invoices[i].org, status |-> invoices[i].status,
                           lines |-> Lines(i), total |-> invoices[i].total,
                           received |-> Received(i), credited |-> invoices[i].paid]
          /\ Account(i) # NoRow
      BY <2>2, AccountTyped
    <3>2. Account(i)' = [org |-> invoices[i].org, status |-> invoices[i].status,
                         lines |-> Lines(i)', total |-> invoices[i].total,
                         received |-> Received(i)', credited |-> invoices[i].paid]
      BY <1>1, <2>2 DEF Account, Live
    <3>3. \/ Account(i)' = Account(i)
          \/ Account(i)' = [Account(i) EXCEPT !.lines = {}]
          \/ \E p \in Payment : Account(i)' = [Account(i) EXCEPT !.received = @ \cup {p}]
      <4>1. CASE Saving(r, "Update", i)
        <5>1. Lines(i)' = {} /\ Received(i)' = Received(i)
          BY <1>1, <4>1
        <5> QED
          BY <3>1, <3>2, <5>1, LinesGone
      <4>2. CASE Saving(r, "Pay", i)
        <5>1. PICK p \in Payment : p = PaymentOf(r)
          BY <1>1, <4>2
        <5>2. Lines(i)' = Lines(i) /\ Received(i)' = Received(i) \cup {p}
          BY <1>1, <4>2, <5>1
        <5>3. Account(i)' = [Account(i) EXCEPT !.received = @ \cup {p}]
          BY <3>1, <3>2, <5>2, OneMoreReceived
        <5> QED
          BY <5>3
      <4>3. CASE ~Saving(r, "Update", i) /\ ~Saving(r, "Pay", i)
        BY <1>1, <3>1, <3>2, <4>3
      <4> QED
        BY <4>1, <4>2, <4>3
    <3> QED
      BY <3>1, <3>3 DEF Book!Damaged
  <2> QED
    BY <2>1, <2>2
<1>3. ASSUME NEW j \in Req PROVE Account(j)' \in Book!Damaged(Account(j))
  <2>1. j # i => Account(j)' = Account(j)
    BY <1>0, AccountsElsewhere
  <2> QED
    BY <1>2, <2>1 DEF Book!Damaged
<1>4. Answers' = Answers
  BY <1>0, AnswersSame
<1> QED
  BY <1>3, <1>4 DEF Book!BreakOff, Answers

LEMMA CrashRefines ==
    ASSUME TypeInv, SerialInv, Crash
    PROVE  Book!BreakOff
<1>1. ASSUME NEW i \in Req PROVE Account(i)' \in Book!Damaged(Account(i))
  <2>1. CASE ~Live(i)
    BY <2>1, CrashSteps DEF Account, Live, Book!Damaged
  <2>2. CASE Live(i)
    <3>0. /\ invoices' = invoices
          /\ Lines(i)' = items[i] /\ Received(i)' = payments[i]
          /\ \/ Lines(i) = items[i] /\ Received(i) = payments[i]
             \/ items[i] = {} /\ Received(i) = payments[i]
             \/ \E p \in payments[i] \cap Payment :
                    Lines(i) = items[i] /\ Received(i) = payments[i] \ {p}
      BY CrashSteps DEF Saving
    <3>1. /\ Account(i) = [org |-> invoices[i].org, status |-> invoices[i].status,
                           lines |-> Lines(i), total |-> invoices[i].total,
                           received |-> Received(i), credited |-> invoices[i].paid]
          /\ Account(i) # NoRow
      BY <2>2, AccountTyped
    <3>2. Account(i)' = [org |-> invoices[i].org, status |-> invoices[i].status,
                         lines |-> items[i], total |-> invoices[i].total,
                         received |-> payments[i], credited |-> invoices[i].paid]
      BY <2>2, <3>0 DEF Account, Live
    <3>3. \/ Account(i)' = Account(i)
          \/ Account(i)' = [Account(i) EXCEPT !.lines = {}]
          \/ \E p \in Payment : Account(i)' = [Account(i) EXCEPT !.received = @ \cup {p}]
      <4>1. CASE Lines(i) = items[i] /\ Received(i) = payments[i]
        BY <3>1, <3>2, <4>1
      <4> PICK acc, after, org, status, total, credited, old, new, got, has :
             /\ acc = Account(i) /\ after = Account(i)'
             /\ org = invoices[i].org /\ status = invoices[i].status
             /\ total = invoices[i].total /\ credited = invoices[i].paid
             /\ old = Lines(i) /\ new = items[i] /\ got = Received(i) /\ has = payments[i]
        OBVIOUS
      <4>0. /\ acc = [org |-> org, status |-> status, lines |-> old, total |-> total,
                      received |-> got, credited |-> credited]
            /\ after = [org |-> org, status |-> status, lines |-> new, total |-> total,
                        received |-> has, credited |-> credited]
        BY <3>1, <3>2
      <4>2. CASE items[i] = {} /\ Received(i) = payments[i]
        <5>1. new = {} /\ got = has
          BY <4>2
        <5>2. after = [acc EXCEPT !.lines = {}]
          BY ONLY <4>0, <5>1
        <5> QED
          BY <5>2
      <4>3. ASSUME NEW p \in payments[i] \cap Payment, Lines(i) = items[i],
                   Received(i) = payments[i] \ {p}
            PROVE  Account(i)' = [Account(i) EXCEPT !.received = @ \cup {p}]
        <5>1. has = got \cup {p} /\ old = new
          BY <4>3
        <5>2. after = [acc EXCEPT !.received = @ \cup {p}]
          BY ONLY <4>0, <5>1
        <5> QED
          BY <5>2
      <4> QED
        BY <3>0, <4>1, <4>2, <4>3
    <3> QED
      BY <3>1, <3>3 DEF Book!Damaged
  <2> QED
    BY <2>1, <2>2
<1>2. Answers' = Answers
  <2>1. ASSUME NEW q \in Req PROVE Answer(q)' = Answer(q)
    BY DEF Crash, Answer, Response, InFlight, Running
  <2> QED
    BY <2>1 DEF Answers
<1> QED
  BY <1>1, <1>2 DEF Book!BreakOff, Answers

LEMMA LedgerInit == Init => Book!Init
BY DEF Init, StoreInit, Book!Init, Account, Answer, Live

LEMMA LedgerStep ==
    ASSUME Serial, TypeInv, SerialInv, [Next]_vars
    PROVE  Book!Next \/ (Accounts' = Accounts /\ Answers' = Answers)
<1> DEFINE Goal == Book!Next \/ (Accounts' = Accounts /\ Answers' = Answers)
<1>1. ASSUME NEW r \in Req, Acts(r) PROVE Goal
  <2>0. PICK i \in Req : i = Target(r)'
    BY <1>1, ActsAlone
  <2>1. CASE PreloadPayments(r) /\ call[r].op = "Get"
    BY <2>0, <2>1, ShowRefines DEF Book!Next
  <2>2. CASE Unseen(r) /\ ~(PreloadPayments(r) /\ call[r].op = "Get")
    BY <1>1, <2>0, <2>2, UnseenSteps, OneAccount, AnswersSame
  <2>3. CASE CutShort(r)
    BY <2>0, <2>3, CutRefines DEF Book!Next
  <2>4. CASE CreateInsert(r)
    BY <2>4, OpenRefines DEF Book!Next
  <2>5. CASE UpdateSave(r)
    BY <2>0, <2>5, ReviseRefines DEF Book!Next
  <2>6. CASE StatusSave(r)
    BY <2>0, <2>6, RestateRefines DEF Book!Next
  <2>7. CASE PaySave(r)
    BY <2>0, <2>7, PayRefines DEF Book!Next
  <2>8. CASE DeleteCommit(r)
    BY <2>0, <2>8, CloseRefines DEF Book!Next, SerialInv
  <2> QED
    BY <1>1, <2>1, <2>2, <2>3, <2>4, <2>5, <2>6, <2>7, <2>8, KindsOfStep DEF SerialInv
<1>2. CASE Crash
  BY <1>2, CrashRefines DEF Book!Next
<1>3. CASE UNCHANGED vars
  <2>1. ASSUME NEW i \in Req PROVE Account(i)' = Account(i) /\ Answer(i)' = Answer(i)
    BY <1>3 DEF vars, tables, process, Account, Answer, Response, Live, Lines, Received,
       Unsaved, PaymentOf
  <2> QED
    BY <2>1 DEF Accounts, Answers
<1> QED
  BY <1>1, <1>2, <1>3 DEF Next, Acts

\* For clients that wait, the services over their tables behave as the ledger: every
\* call takes effect in one step and GetInvoice shows an account that existed.
THEOREM ServicesImplementLedger ==
    ASSUME Serial
    PROVE  Spec => ImplementsLedger
<1>1. TypeInv /\ SerialInv /\ [Next]_vars
        => [Book!Next]_<<[i \in Req |-> Account(i)], [r \in Req |-> Answer(r)]>>
  BY LedgerStep DEF Accounts, Answers
<1>2. Init => Book!Init
  BY LedgerInit
<1> QED
  BY <1>1, <1>2, Serialised, PTL DEF Spec, ImplementsLedger, Book!Spec

-----------------------------------------------------------------------------
(* The totals are those of the lines, the credit is that of the payments.   *)

\* A call that broke off stays so.
LEMMA BrokenStays ==
    ASSUME TypeInv, [Next]_vars, NEW op, NEW i, BrokeOff(op, i)
    PROVE  BrokeOff(op, i)'
<1>1. PICK r \in Req : Did(r, op, i) /\ pc[r] \in {"failed", "crashed"}
  BY DEF BrokeOff
<1>2. pc'[r] = pc[r] /\ call'[r] = call[r]
  BY <1>1, AnswersStay DEF Answered
<1> QED
  BY <1>1, <1>2 DEF BrokeOff, Did, Target

\* What one step does to the books of one account.
BookKept(i) == Live(i)' => Footed(i)' /\ InCredit(i)'

LEMMA BooksSame ==
    ASSUME TypeInv, BooksInv, [Next]_vars, NEW i \in Req, invoices'[i] = invoices[i],
           Lines(i)' = Lines(i), Received(i)' = Received(i)
    PROVE  BookKept(i)
BY BrokenStays DEF BooksInv, BookKept, Footed, InCredit, Live

LEMMA BooksOfOne ==
    ASSUME Serial, TypeInv, SerialInv, BooksInv, [Next]_vars, NEW r \in Req, Acts(r),
           NEW i \in Req, i = Target(r)'
    PROVE  BookKept(i)
<1>1. CASE Unseen(r)
  BY <1>1, UnseenSteps, BooksSame
<1>2. CASE CreateInsert(r)
  <2>1. /\ i = r /\ HoldsNew(r) /\ invoices'[i] = local[r].row
        /\ Lines(i)' = ItemsOf(r, call[r].cart) /\ Received(i)' = {}
    BY <1>2, CreateSteps
  <2>2. invoices'[i].net = SumOf(ItemsOf(r, call[r].cart)) /\ invoices'[i].paid = {}
    BY <2>1 DEF HoldsNew, NewInvoice
  <2> QED
    BY <2>1, <2>2 DEF BookKept, Footed, InCredit, SumOf
<1>3. CASE UpdateSave(r)
  <2>1. /\ local[r].row = invoices[i] /\ Live(i) /\ invoices'[i] = Rewritten(r)
        /\ local[r].pays = Received(i) /\ Received(i)' = Received(i)
        /\ Lines(i)' = ItemsOf(r, call[r].cart)
    BY <1>3, UpdateSteps
  <2>2. local[r].row \in Row
    BY <2>1 DEF TypeInv, TypeOK, Live
  <2>3. /\ invoices'[i].net = SumOf(ItemsOf(r, call[r].cart))
        /\ invoices'[i].paid = local[r].pays
    BY <2>1, <2>2 DEF Rewritten, Row
  <2> QED
    BY <2>1, <2>3 DEF BookKept, Footed, InCredit, SumOf
<1>4. CASE StatusSave(r)
  <2>1. /\ local[r].row = invoices[i] /\ Live(i) /\ invoices'[i] = Restated(r)
        /\ Lines(i)' = Lines(i) /\ Received(i)' = Received(i)
    BY <1>4, StatusSteps
  <2>2. local[r].row \in Row
    BY <2>1 DEF TypeInv, TypeOK, Live
  <2>3. invoices'[i].net = invoices[i].net /\ invoices'[i].paid = invoices[i].paid
    BY <2>1, <2>2 DEF Restated, Row
  <2> QED
    BY <2>1, <2>3, BrokenStays DEF BookKept, BooksInv, Footed, InCredit
<1>5. CASE PaySave(r)
  <2>1. /\ local[r].row = invoices[i] /\ Live(i) /\ invoices'[i] = Credited(r)
        /\ Lines(i)' = Lines(i) /\ Received(i)' = Received(i) \cup {PaymentOf(r)}
    BY <1>5, PaySteps
  <2>2. local[r].row \in Row
    BY <2>1 DEF TypeInv, TypeOK, Live
  <2>3. /\ invoices'[i].net = invoices[i].net
        /\ invoices'[i].paid = invoices[i].paid \cup {PaymentOf(r)}
    BY <2>1, <2>2 DEF Credited, Row
  <2> QED
    BY <2>1, <2>3, BrokenStays DEF BookKept, BooksInv, Footed, InCredit
<1>6. CASE DeleteCommit(r)
  BY <1>6, DeleteSteps DEF BookKept, SerialInv
<1>7. CASE CutShort(r)
  <2>1. /\ invoices' = invoices /\ call' = call /\ pc'[r] = "failed"
        /\ Lines(i)' = IF Saving(r, "Update", i) THEN {} ELSE Lines(i)
        /\ Received(i)' = IF Saving(r, "Pay", i) THEN Received(i) \cup {PaymentOf(r)}
                          ELSE Received(i)
    BY <1>7, CutSteps
  <2>2. ASSUME NEW op \in {"Update", "Pay"}, Saving(r, op, i) PROVE BrokeOff(op, i)'
    BY <2>1, <2>2 DEF Saving, BrokeOff, Did, Target
  <2> QED
    BY <2>1, <2>2, BrokenStays DEF BookKept, BooksInv, Footed, InCredit, Live
<1> QED
  BY <1>1, <1>2, <1>3, <1>4, <1>5, <1>6, <1>7, KindsOfStep DEF SerialInv

LEMMA BooksOfCrash ==
    ASSUME TypeInv, SerialInv, BooksInv, [Next]_vars, Crash, NEW i \in Req
    PROVE  BookKept(i)
<1>1. /\ invoices' = invoices /\ call' = call
      /\ Lines(i)' = items[i] /\ Received(i)' = payments[i]
  BY CrashSteps
<1>2. CASE Lines(i) = items[i] /\ Received(i) = payments[i]
  BY <1>1, <1>2, BooksSame
<1>3. ASSUME NEW r \in Req, InFlight(r), Target(r) = i,
             Lines(i) = IF Saving(r, "Update", i) THEN local[r].its ELSE items[i],
             Received(i) = IF Saving(r, "Pay", i) THEN payments[i] \ {PaymentOf(r)}
                           ELSE payments[i]
      PROVE  BookKept(i)
  <2>1. pc'[r] = "crashed"
    BY <1>3 DEF Crash
  <2>2. ASSUME NEW op \in {"Update", "Pay"}, Saving(r, op, i) PROVE BrokeOff(op, i)'
    BY <1>1, <2>1, <2>2 DEF Saving, BrokeOff, Did, Target
  <2> QED
    BY <1>1, <1>3, <2>2, BrokenStays DEF BookKept, BooksInv, Footed, InCredit, Live
<1> QED
  BY <1>2, <1>3, CrashSteps

LEMMA BooksStep ==
    ASSUME Serial, TypeInv, SerialInv, BooksInv, [Next]_vars
    PROVE  BooksInv'
<1> SUFFICES ASSUME NEW i \in Req PROVE BookKept(i)
  BY DEF BooksInv, BookKept
<1>1. ASSUME NEW r \in Req, Acts(r) PROVE BookKept(i)
  <2>1. CASE i = Target(r)'
    BY <1>1, <2>1, BooksOfOne
  <2>2. CASE i # Target(r)'
    BY <1>1, <2>2, AccountsElsewhere, Elsewhere, BooksSame
  <2> QED
    BY <2>1, <2>2
<1>2. CASE Crash
  BY <1>2, BooksOfCrash
<1>3. CASE UNCHANGED vars
  <2>1. invoices'[i] = invoices[i] /\ Lines(i)' = Lines(i) /\ Received(i)' = Received(i)
    BY <1>3 DEF vars, tables, process, Lines, Received, Unsaved, PaymentOf
  <2> QED
    BY <2>1, BooksSame
<1> QED
  BY <1>1, <1>2, <1>3 DEF Next, Acts

LEMMA QuietBooks ==
    ASSUME BooksInv PROVE LedgerConsistent
<1> SUFFICES ASSUME NEW i \in Req, Live(i), Quiet(i)
             PROVE  /\ BrokeOff("Update", i) \/ invoices[i].net = SumOf(items[i])
                    /\ BrokeOff("Pay", i) \/ invoices[i].paid = payments[i]
  BY DEF LedgerConsistent
<1>1. \A op \in {"Update", "Pay"} : Unsaved(op, i) = {}
  BY DEF Quiet, Unsaved, InFlight, Running, Target
<1>2. Lines(i) = items[i] /\ Received(i) = payments[i]
  BY <1>1 DEF Lines, Received
<1> QED
  BY <1>2 DEF BooksInv, Footed, InCredit

\* For clients that wait, the totals of an invoice nothing is done to are those of
\* its items and its paid amount is that of its payments, unless an update or a
\* payment on it broke off: a cleared item comes back with the save or not at all.
THEOREM BooksConsistent ==
    ASSUME Serial
    PROVE  Spec => []LedgerConsistent
<1>1. Init => BooksInv
  BY DEF Init, StoreInit, BooksInv, Live
<1>2. TypeInv /\ SerialInv /\ BooksInv /\ [Next]_vars => BooksInv'
  BY BooksStep
<1>3. BooksInv => LedgerConsistent
  BY QuietBooks
<1> QED
  BY <1>1, <1>2, <1>3, Serialised, PTL DEF Spec

-----------------------------------------------------------------------------
(* The audit log is the history of the status.                              *)

\* Only the last statement of UpdateStatus writes the log, one entry at its end.
LEMMA AuditsGrow ==
    ASSUME TypeInv, [Next]_vars, NEW i \in Req
    PROVE  \/ audits'[i] = audits[i]
           \/ \E r \in Req : /\ StatusAudit(r) /\ call[r].inv = i
                             /\ audits'[i] = Append(audits[i],
                                    [by |-> r, old |-> local[r].row.status,
                                     new |-> call[r].status])
<1>1. ASSUME NEW r \in Req, StatusAudit(r), call[r].inv = i
      PROVE  audits'[i] = Append(audits[i], [by |-> r, old |-> local[r].row.status,
                                             new |-> call[r].status])
  BY <1>1 DEF StatusAudit, InsertAudit, TypeInv, TypeOK
<1>2. ASSUME NEW r \in Req, StatusAudit(r), call[r].inv # i
      PROVE  audits'[i] = audits[i]
  BY <1>2 DEF StatusAudit, InsertAudit, TypeInv, TypeOK
<1>3. ASSUME NEW r \in Req, Acts(r), ~StatusAudit(r) PROVE audits' = audits
  BY <1>3 DEF Acts, Step, GetByID, InvoiceStep, PaymentStep, StatementFails,
     LoadInvoice, PreloadItems, PreloadPayments, CreateCount, CreateInsert, Insert,
     CreateRejected, UpdateClear, ClearItems, UpdateSave, UpdateRejected, ItemNameMissing,
     StatusSave, StatusRejected, AuditLost, DeleteCommit, DeleteRows, Publish, EventLost,
     PayRecord, InsertPayment, PayRecordRejected, PaySave, PaySaveRejected, Save, tables
<1>4. Crash \/ UNCHANGED vars => audits' = audits
  BY DEF Crash, vars, tables
<1> QED
  BY <1>1, <1>2, <1>3, <1>4 DEF Next, Acts

LEMMA EntriesStep ==
    ASSUME TypeInv, EntriesOfCalls, [Next]_vars
    PROVE  EntriesOfCalls'
<1> SUFFICES ASSUME NEW i \in Req, NEW k \in DOMAIN audits'[i], NEW q,
                    q = audits'[i][k].by
             PROVE  Did(q, "Status", i)' /\ pc'[q] = "ok"
  BY DEF EntriesOfCalls, Did, Target
<1>0. audits[i] \in Seq(AuditEntry)
  BY DEF TypeInv, TypeOK
<1>1. ASSUME k \in DOMAIN audits[i], audits'[i][k] = audits[i][k]
      PROVE  Did(q, "Status", i)' /\ pc'[q] = "ok"
  <2>1. Did(q, "Status", i) /\ pc[q] = "ok"
    BY <1>1 DEF EntriesOfCalls
  <2>2. audits[i][k] \in AuditEntry
    BY <1>0, <1>1
  <2>3. q \in Req
    BY <1>1, <2>2 DEF AuditEntry
  <2>4. pc'[q] = "ok" /\ call'[q] = call[q]
    BY <2>1, <2>3, AnswersStay DEF Answered
  <2> QED
    BY <2>1, <2>4 DEF Did, Target
<1>2. ASSUME NEW r \in Req, StatusAudit(r), call[r].inv = i, q = r
      PROVE  Did(q, "Status", i)' /\ pc'[q] = "ok"
  <2>1. pc'[r] = "ok" /\ call'[r] = call[r] /\ call[r].op = "Status"
    BY <1>2 DEF StatusAudit, Return, Goto, TypeInv, TypeOK, Stages, Serving, StatusCall
  <2> QED
    BY <1>2, <2>1 DEF Did, Target
<1>3. CASE audits'[i] = audits[i]
  BY <1>1, <1>3
<1>4. ASSUME NEW r \in Req, StatusAudit(r), call[r].inv = i, NEW e, e.by = r,
             audits'[i] = Append(audits[i], e)
      PROVE  Did(q, "Status", i)' /\ pc'[q] = "ok"
  <2>1. \/ k \in DOMAIN audits[i] /\ audits'[i][k] = audits[i][k]
        \/ audits'[i][k] = e
    BY <1>0, <1>4
  <2> QED
    BY <1>1, <1>2, <1>4, <2>1
<1>5. CASE audits'[i] # audits[i]
  <2>1. PICK r \in Req : /\ StatusAudit(r) /\ call[r].inv = i
                          /\ audits'[i] = Append(audits[i],
                                 [by |-> r, old |-> local[r].row.status,
                                  new |-> call[r].status])
    BY <1>5, AuditsGrow
  <2>2. PICK e : e = [by |-> r, old |-> local[r].row.status, new |-> call[r].status]
    OBVIOUS
  <2>3. e.by = r /\ audits'[i] = Append(audits[i], e)
    BY <2>1, <2>2
  <2> QED
    BY <1>4, <2>1, <2>3
<1> QED
  BY <1>3, <1>5

\* A log that misses an entry will always miss it.
LEMMA LogWholeBefore ==
    ASSUME TypeInv, [Next]_vars, NEW i \in Req, LogWhole(i)'
    PROVE  LogWhole(i)
<1> SUFFICES ASSUME NEW q \in Req, Did(q, "Status", i), pc[q] \in {"ok", "crashed"}
             PROVE  q \in LogOf(i)
  BY DEF LogWhole
<1>0. audits[i] \in Seq(AuditEntry)
  BY DEF TypeInv, TypeOK
<1>1. pc'[q] = pc[q] /\ call'[q] = call[q]
  BY AnswersStay DEF Answered
<1>2. q \in LogOf(i)'
  BY <1>1 DEF LogWhole, Did, Target
<1>3. PICK k \in DOMAIN audits'[i] : audits'[i][k].by = q
  BY <1>2 DEF LogOf
<1>4. ASSUME NEW r \in Req, NEW e, audits'[i] = Append(audits[i], e), e.by = r,
             pc[r] = "audit"
      PROVE  q \in LogOf(i)
  <2>1. \/ k \in DOMAIN audits[i] /\ audits'[i][k] = audits[i][k]
        \/ audits'[i][k] = e
    BY <1>0, <1>4
  <2> QED
    BY <1>3, <1>4, <2>1 DEF LogOf
<1>5. audits'[i] = audits[i] => q \in LogOf(i)
  BY <1>3 DEF LogOf
<1>6. CASE audits'[i] # audits[i]
  <2>1. PICK r \in Req : /\ StatusAudit(r) /\ call[r].inv = i
                          /\ audits'[i] = Append(audits[i],
                                 [by |-> r, old |-> local[r].row.status,
                                  new |-> call[r].status])
    BY <1>6, AuditsGrow
  <2>2. PICK e : e = [by |-> r, old |-> local[r].row.status, new |-> call[r].status]
    OBVIOUS
  <2>3. e.by = r /\ audits'[i] = Append(audits[i], e)
    BY <2>1, <2>2
  <2> QED
    BY <1>4, <2>1, <2>3 DEF StatusAudit
<1> QED
  BY <1>5, <1>6

LEMMA AskedBefore ==
    ASSUME TypeInv, [Next]_vars, NEW op, NEW i, Asked(op, i)
    PROVE  Asked(op, i)'
BY AnswersStay DEF Asked, Did, Target

\* What one step does to the log of one invoice.
LogKept(i) == Live(i)' /\ LogWhole(i)' /\ ~Asked("Pay", i)' => Logged(i)'

LEMMA LogSame ==
    ASSUME TypeInv, LogInv, [Next]_vars, NEW i \in Req, audits'[i] = audits[i],
           Live(i)' => Live(i) /\ invoices'[i].status = invoices[i].status,
           Unlogged(i)' = Unlogged(i),
           \A r \in Unlogged(i) : local'[r] = local[r] /\ call'[r] = call[r]
    PROVE  LogKept(i)
<1> SUFFICES ASSUME Live(i)', LogWhole(i)', ~Asked("Pay", i)' PROVE Logged(i)'
  BY DEF LogKept
<1>1. Logged(i) /\ invoices'[i].status = invoices[i].status
  BY LogWholeBefore, AskedBefore DEF LogInv
<1>2. Linked(i)'
  BY <1>1 DEF Logged, Linked, Past
<1>3. \A k : Past(i, k)' = Past(i, k)
  BY DEF Past
<1>4. LoggedStatus(i)' = LoggedStatus(i)
  <2>1. {local'[r].row.status : r \in Unlogged(i)'} = {local[r].row.status : r \in Unlogged(i)}
    OBVIOUS
  <2> QED
    BY <1>1, <2>1 DEF LoggedStatus
<1>5. Past(i, Len(audits[i]))' = Past(i, Len(audits[i]))
  BY DEF Past
<1> QED
  BY <1>1, <1>2, <1>4, <1>5 DEF Logged

\* The entry that is owed for an invoice one request is alone with.
LEMMA AloneUnlogged ==
    ASSUME TypeInv, NEW r \in Req, NEW i \in Req,
           \A q \in Req \ {r} : InFlight(q) => Target(q) # i
    PROVE  Unlogged(i) = IF pc[r] = "audit" /\ call[r].inv = i THEN {r} ELSE {}
<1>1. \A q \in Req \ {r} : q \notin Unlogged(i)
  BY DEF Unlogged, InFlight, Running, Target, TypeInv, Stages, Serving, StatusCall
<1> QED
  BY <1>1 DEF Unlogged

LEMMA AloneUnloggedNext ==
    ASSUME TypeInv', NEW r \in Req, NEW i \in Req,
           \A q \in Req \ {r} : InFlight(q)' => Target(q)' # i
    PROVE  Unlogged(i)' = IF pc'[r] = "audit" /\ call'[r].inv = i THEN {r} ELSE {}
<1>1. \A q \in Req \ {r} : q \notin Unlogged(i)'
  BY DEF Unlogged, InFlight, Running, Target, TypeInv, Stages, Serving, StatusCall
<1> QED
  BY <1>1 DEF Unlogged

LEMMA LogElsewhere ==
    ASSUME TypeInv, LogInv, [Next]_vars, NEW r \in Req, Acts(r), NEW i \in Req,
           i # Target(r)'
    PROVE  LogKept(i)
<1>1. r \notin Unlogged(i) /\ r \notin Unlogged(i)'
  <2>1. TypeInv'
    BY TypeStep
  <2>2. pc'[r] = "audit" => Target(r)' = call'[r].inv
    BY <2>1 DEF Target, TypeInv, Stages, Serving, StatusCall
  <2>3. pc[r] = "audit" => Target(r) = call[r].inv /\ Target(r)' = Target(r)
    BY SameTarget DEF Target, TypeInv, Stages, Serving, StatusCall
  <2> QED
    BY <2>2, <2>3 DEF Unlogged
<1>2. \A q \in Req \ {r} : pc'[q] = pc[q] /\ call'[q] = call[q] /\ local'[q] = local[q]
  BY StepFrame
<1>3. Unlogged(i)' = Unlogged(i)
  BY <1>1, <1>2 DEF Unlogged
<1>4. \A q \in Unlogged(i) : local'[q] = local[q] /\ call'[q] = call[q]
  BY <1>1, <1>2 DEF Unlogged
<1>5. audits'[i] = audits[i] /\ invoices'[i] = invoices[i]
  BY Elsewhere
<1> QED
  BY <1>3, <1>4, <1>5, LogSame DEF Live

\* The last load of GetByID does not lead to the audit log.
LEMMA NotYetAudit ==
    ASSUME TypeInv, NEW r \in Req, Unseen(r), ~StatusAudit(r), ~AuditLost(r)
    PROVE  pc[r] # "audit" /\ pc'[r] # "audit"
<1>1. CASE PreloadPayments(r)
  <2>1. pc[r] = "pays" /\ call[r] \in ExistingCall /\ pc'[r] = AfterLoad[call[r].op]
    BY <1>1 DEF PreloadPayments, Goto, TypeInv, TypeOK, Stages, Serving
  <2>2. call[r].op \in {"Get", "Update", "Delete", "Status", "Pay"}
    BY <2>1 DEF ExistingCall, UpdateCall, ReadCall, DeleteCall, StatusCall, PayCall
  <2> QED
    BY <2>1, <2>2 DEF AfterLoad
<1>2. CASE ~PreloadPayments(r)
  BY <1>2 DEF Unseen, GetByID, LoadInvoice, PreloadItems, CreateCount, CreateRejected,
     UpdateClear, Publish, EventLost, PayRecord, PayRecordRejected, Return, Goto,
     TypeInv, TypeOK
<1> QED
  BY <1>1, <1>2

\* The entry links up with the log: it starts from the status the log had led to.
LEMMA LogEntry ==
    ASSUME TypeInv, LogInv, [Next]_vars, NEW r \in Req, StatusAudit(r),
           NEW i \in Req, i = call[r].inv, Unlogged(i) = {r}, Unlogged(i)' = {}
    PROVE  LogKept(i)
<1> SUFFICES ASSUME Live(i)', LogWhole(i)', ~Asked("Pay", i)' PROVE Logged(i)'
  BY DEF LogKept
<1>1. invoices' = invoices /\ call' = call
  BY DEF StatusAudit, InsertAudit
<1>2. Logged(i)
  BY <1>1, LogWholeBefore, AskedBefore DEF LogInv, Live
<1>3. PICK e : e = [by |-> r, old |-> local[r].row.status, new |-> call[r].status]
  OBVIOUS
<1>4. PICK log, n : log = audits[i] /\ n = Len(log) + 1
  OBVIOUS
<1>5. log \in Seq(AuditEntry) /\ audits'[i] = Append(log, e)
  BY <1>3, <1>4 DEF StatusAudit, InsertAudit, TypeInv, TypeOK
<1>6. /\ n \in Nat /\ n > 0
      /\ DOMAIN log = 1 .. (n - 1) /\ DOMAIN audits'[i] = 1 .. n /\ Len(audits'[i]) = n
      /\ \A k \in 1 .. (n - 1) : audits'[i][k] = log[k]
      /\ audits'[i][n] = e
  BY <1>4, <1>5
<1>7. e.old = Past(i, n - 1)
  <2>1. {local[r].row.status} = {Past(i, n - 1)}
    <3>1. Len(audits[i]) = n - 1
      BY <1>4, <1>6
    <3> QED
      BY <1>2, <3>1 DEF Logged, LoggedStatus
  <2> QED
    BY <1>3, <2>1
<1>8. \A k \in 0 .. (n - 1) : Past(i, k)' = Past(i, k)
  BY <1>4, <1>6 DEF Past
<1>9. Linked(i)'
  <2>1. ASSUME NEW k \in 1 .. n PROVE audits'[i][k].old = Past(i, k - 1)'
    <3>1. CASE k = n
      BY <1>6, <1>7, <1>8, <3>1
    <3>2. CASE k # n
      <4>1. k \in 1 .. (n - 1) /\ k - 1 \in 0 .. (n - 1)
        BY <1>6, <3>2
      <4>2. audits[i][k].old = Past(i, k - 1)
        BY <1>2, <1>4, <1>6, <4>1 DEF Logged, Linked
      <4> QED
        BY <1>4, <1>6, <1>8, <4>1, <4>2
    <3> QED
      BY <3>1, <3>2
  <2> QED
    BY <1>6, <2>1 DEF Linked
<1>10. Past(i, n)' = call[r].status
  BY <1>3, <1>6 DEF Past
<1>11. invoices'[i].status = call[r].status
  BY <1>1, <1>2 DEF Logged
<1> QED
  BY <1>6, <1>9, <1>10, <1>11 DEF Logged, LoggedStatus, Past

\* UpdateStatus saves the new status and owes the entry for it.
LEMMA LogOwed ==
    ASSUME TypeInv, LogInv, [Next]_vars, NEW r \in Req, StatusSave(r),
           NEW i \in Req, i = call[r].inv, Unlogged(i) = {}, Unlogged(i)' = {r},
           Live(i), local[r].row = invoices[i], invoices'[i] = Restated(r)
    PROVE  LogKept(i)
<1> SUFFICES ASSUME Live(i)', LogWhole(i)', ~Asked("Pay", i)' PROVE Logged(i)'
  BY DEF LogKept
<1>1. call' = call /\ local' = local /\ audits' = audits
  BY DEF StatusSave, Save
<1>2. Logged(i)
  BY LogWholeBefore, AskedBefore DEF LogInv
<1>3. Linked(i)' /\ Past(i, Len(audits[i]))' = Past(i, Len(audits[i]))
  BY <1>1, <1>2 DEF Logged, Linked, Past
<1>4. LoggedStatus(i)' = LoggedStatus(i)
  BY <1>1 DEF LoggedStatus
<1>5. invoices'[i].status = call[r].status
  BY DEF Restated, Live, TypeInv, TypeOK, Row
<1> QED
  BY <1>1, <1>2, <1>3, <1>4, <1>5 DEF Logged

\* The other steps write no status and no entry.
LEMMA LogOfOne ==
    ASSUME Serial, TypeInv, SerialInv, LogInv, [Next]_vars, NEW r \in Req, Acts(r),
           NEW i \in Req, i = Target(r)'
    PROVE  LogKept(i)
<1> USE DEF SerialInv
<1>0. /\ Unlogged(i) = IF pc[r] = "audit" /\ call[r].inv = i THEN {r} ELSE {}
      /\ Unlogged(i)' = IF pc'[r] = "audit" /\ call'[r].inv = i THEN {r} ELSE {}
  <2>1. TypeInv'
    BY TypeStep
  <2> QED
    BY <2>1, ActsAlone, AloneUnlogged, AloneUnloggedNext
<1>1. CASE StatusAudit(r) \/ AuditLost(r)
  <2>1. /\ pc[r] = "audit" /\ pc'[r] = "ok" /\ call'[r] = call[r] /\ call[r] \in StatusCall
    BY <1>1 DEF StatusAudit, AuditLost, Return, Goto, TypeInv, TypeOK, Stages, Serving
  <2>2. call[r].inv = i /\ call[r].op = "Status"
    BY <2>1 DEF StatusCall, Target
  <2>3. CASE StatusAudit(r)
    BY <1>0, <2>1, <2>2, <2>3, LogEntry
  <2>4. CASE AuditLost(r)
    <3>1. audits' = audits
      BY <2>4 DEF AuditLost, tables
    <3>2. r \notin LogOf(i)
      BY <2>1 DEF LogInv, EntriesOfCalls, LogOf
    <3>3. ~LogWhole(i)'
      <4>1. r \notin LogOf(i)' /\ Did(r, "Status", i)' /\ pc'[r] = "ok"
        BY <2>1, <2>2, <3>1, <3>2 DEF LogOf, Did, Target
      <4> QED
        BY <4>1 DEF LogWhole
    <3> QED
      BY <3>3 DEF LogKept
  <2> QED
    BY <1>1, <2>3, <2>4
<1>2. CASE Unseen(r) /\ ~StatusAudit(r) /\ ~AuditLost(r)
  <2>1. Unlogged(i) = {} /\ Unlogged(i)' = {}
    BY <1>0, <1>2, NotYetAudit
  <2>2. invoices'[i] = invoices[i] /\ audits'[i] = audits[i]
    BY <1>2, UnseenSteps DEF Unseen, GetByID, LoadInvoice, PreloadItems, PreloadPayments,
       CreateCount, CreateRejected, UpdateClear, ClearItems, Publish, EventLost,
       PayRecord, InsertPayment, PayRecordRejected, tables
  <2> QED
    BY <2>1, <2>2, LogSame DEF Live
<1>3. CASE CreateInsert(r)
  <2>1. /\ i = r /\ HoldsNew(r) /\ invoices'[i] = local[r].row
        /\ pc[r] = "insert" /\ pc'[r] = "publish" /\ audits' = audits
    BY <1>3, CreateSteps DEF CreateInsert, Insert, Goto, TypeInv, TypeOK
  <2>0. audits[i] \in Seq(AuditEntry)
    BY DEF TypeInv, TypeOK
  <2>2. DOMAIN audits[i] = {}
    <3>1. ASSUME NEW k \in DOMAIN audits[i] PROVE FALSE
      <4>1. PICK q : q = audits[i][k].by
        OBVIOUS
      <4>2. Did(q, "Status", i) /\ q \in Req
        <5>1. audits[i][k] \in AuditEntry
          BY <2>0
        <5> QED
          BY <4>1, <5>1 DEF LogInv, EntriesOfCalls, AuditEntry
      <4>3. call[q].op # "Create" /\ call[q].inv = i /\ pc[q] # "idle"
        BY <4>2 DEF Did, Target
      <4> QED
        BY <2>1, <4>2, <4>3 DEF Introduced, Answered
    <3> QED
      BY <3>1
  <2>3. Len(audits[i]) = 0
    <3>1. Len(audits[i]) \in Nat /\ DOMAIN audits[i] = 1 .. Len(audits[i])
      BY <2>0
    <3>2. Len(audits[i]) > 0 => 1 \in 1 .. Len(audits[i])
      BY <3>1
    <3>3. ~(Len(audits[i]) > 0)
      BY <2>2, <3>1, <3>2
    <3> QED
      BY <3>1, <3>3
  <2>4. invoices'[i].status = "draft" /\ Unlogged(i)' = {}
    BY <1>0, <2>1 DEF HoldsNew, NewInvoice
  <2> QED
    BY <2>1, <2>2, <2>3, <2>4 DEF LogKept, Logged, Linked, LoggedStatus, Past
<1>4. CASE UpdateSave(r)
  <2>1. /\ local[r].row = invoices[i] /\ Live(i) /\ invoices'[i] = Rewritten(r)
        /\ call[r].op = "Update"
    BY <1>4, UpdateSteps DEF UpdateCall
  <2>2. local[r].row \in Row
    BY <2>1 DEF TypeInv, TypeOK, Live
  <2>3. invoices'[i].status = invoices[i].status
    BY <2>1, <2>2 DEF Rewritten, Row
  <2>4. audits' = audits /\ pc[r] = "save" /\ pc'[r] = "ok"
    BY <1>4 DEF UpdateSave, Save, Return, Goto, TypeInv, TypeOK
  <2> QED
    BY <1>0, <2>1, <2>3, <2>4, LogSame
<1>5. CASE StatusSave(r)
  <2>1. /\ local[r].row = invoices[i] /\ Live(i) /\ invoices'[i] = Restated(r)
        /\ call[r].inv = i
    BY <1>5, StatusSteps
  <2>2. pc[r] = "save" /\ pc'[r] = "audit" /\ call' = call
    BY <1>5 DEF StatusSave, Goto, TypeInv, TypeOK
  <2> QED
    BY <1>0, <1>5, <2>1, <2>2, LogOwed
<1>6. CASE PaySave(r)
  <2>1. call[r] \in PayCall /\ call[r].inv = i /\ call' = call /\ pc'[r] = "publish"
    BY <1>6, PaySteps DEF PaySave, Goto, TypeInv, TypeOK
  <2>2. Asked("Pay", i)'
    BY <2>1 DEF Asked, Did, Target, PayCall
  <2> QED
    BY <2>2 DEF LogKept
<1>7. CASE DeleteCommit(r)
  BY <1>7, DeleteSteps DEF LogKept
<1>8. CASE CutShort(r)
  <2>1. /\ invoices' = invoices /\ audits' = audits /\ pc[r] # "audit" /\ pc'[r] = "failed"
    BY <1>8 DEF CutShort, ItemNameMissing, StatementFails, Return, Goto, tables, TypeInv,
       TypeOK
  <2> QED
    BY <1>0, <2>1, LogSame DEF Live
<1> QED
  BY <1>1, <1>2, <1>3, <1>4, <1>5, <1>6, <1>7, <1>8, KindsOfStep

LEMMA LogOfCrash ==
    ASSUME TypeInv, LogInv, [Next]_vars, Crash, NEW i \in Req
    PROVE  LogKept(i)
<1>1. /\ invoices' = invoices /\ audits' = audits /\ call' = call
      /\ Unlogged(i)' = {}
  BY DEF Crash, tables, Unlogged, InFlight, Running
<1>2. CASE Unlogged(i) = {}
  BY <1>1, <1>2, LogSame DEF Live
<1>3. ASSUME NEW r \in Unlogged(i) PROVE ~LogWhole(i)'
  <2>1. /\ r \in Req /\ pc[r] = "audit" /\ call[r].inv = i /\ call[r].op = "Status"
    BY DEF Unlogged, TypeInv, Stages, Serving, StatusCall
  <2>2. pc'[r] = "crashed" /\ Did(r, "Status", i)'
    BY <1>1, <2>1 DEF Crash, InFlight, Running, Did, Target
  <2>3. r \notin LogOf(i)'
    BY <1>1, <2>1 DEF LogInv, EntriesOfCalls, LogOf
  <2> QED
    BY <2>1, <2>2, <2>3 DEF LogWhole
<1> QED
  BY <1>2, <1>3 DEF LogKept

LEMMA LogStep ==
    ASSUME Serial, TypeInv, SerialInv, LogInv, [Next]_vars
    PROVE  LogInv'
<1> SUFFICES ASSUME NEW i \in Req PROVE LogKept(i)
  BY EntriesStep DEF LogInv, LogKept
<1>1. ASSUME NEW r \in Req, Acts(r) PROVE LogKept(i)
  BY <1>1, LogOfOne, LogElsewhere
<1>2. CASE Crash
  BY <1>2, LogOfCrash
<1>3. CASE UNCHANGED vars
  BY <1>3, LogSame DEF vars, tables, process, Unlogged, Live
<1> QED
  BY <1>1, <1>2, <1>3 DEF Next, Acts

LEMMA QuietLog ==
    ASSUME TypeInv, LogInv PROVE AuditIsHistory
<1> SUFFICES ASSUME NEW i \in Req, Live(i), Quiet(i), LogWhole(i), ~Asked("Pay", i),
                    NEW log, log = audits[i],
                    NEW past, past = [k \in 0 .. Len(log) |->
                                          IF k = 0 THEN "draft" ELSE log[k].new]
             PROVE  /\ \A k \in DOMAIN log : log[k].old = past[k - 1]
                    /\ invoices[i].status = past[Len(log)]
  BY DEF AuditIsHistory
<1>1. log \in Seq(AuditEntry)
  BY DEF TypeInv, TypeOK
<1>2. Logged(i)
  BY DEF LogInv
<1>3. \A k \in 0 .. Len(log) : past[k] = Past(i, k)
  BY DEF Past
<1>4. Unlogged(i) = {}
  BY DEF Quiet, Unlogged, InFlight, Running, Target, TypeInv, Stages, Serving, StatusCall
<1>5. invoices[i].status = Past(i, Len(log))
  BY <1>2, <1>4 DEF Logged, LoggedStatus
<1>6. \A k \in DOMAIN log : k - 1 \in 0 .. Len(log) /\ log[k].old = Past(i, k - 1)
  BY <1>1, <1>2 DEF Logged, Linked
<1>7. Len(log) \in 0 .. Len(log)
  BY <1>1
<1> QED
  BY <1>3, <1>5, <1>6, <1>7

\* For clients that wait, the audit log of an invoice without payments is the
\* history of its status, unless an entry was lost: UpdateStatus reads the old
\* status, saves the new one and writes the entry in three separate statements.
THEOREM AuditLogIsHistory ==
    ASSUME Serial
    PROVE  Spec => []AuditIsHistory
<1>1. Init => LogInv
  BY DEF Init, StoreInit, LogInv, EntriesOfCalls, Live
<1>2. TypeInv /\ SerialInv /\ LogInv /\ [Next]_vars => LogInv'
  BY LogStep
<1>3. TypeInv /\ LogInv => AuditIsHistory
  BY QuietLog
<1> QED
  BY <1>1, <1>2, <1>3, Serialised, PTL DEF Spec

=============================================================================
