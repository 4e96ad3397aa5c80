---------------------------- MODULE InvoiceProofs ----------------------------
(***************************************************************************)
(* Theorems about invoice numbers and settled invoices, for any set of     *)
(* requests and bodies, for the clients that the properties speak of.      *)
(***************************************************************************)
EXTENDS BillingProofs

\* What was asked for stays asked for.
LEMMA AskedStays ==
    ASSUME TypeInv, [Next]_vars, NEW i \in Req, NEW op, Asked(op, i)
    PROVE  Asked(op, i)'
<1>1. PICK r \in Req : Did(r, op, i)
  BY DEF Asked
<1>2. pc'[r] # "idle" /\ call'[r] = call[r]
  BY <1>1, AnswersStay DEF Did
<1> QED
  BY <1>1, <1>2 DEF Asked, Did, Target

\* What the request that is saving an invoice was called with.
LEMMA SavingCall ==
    ASSUME TypeInv, NEW r \in Req, UpdateSave(r) \/ StatusSave(r) \/ PaySave(r)
    PROVE  /\ InFlight(r) /\ pc[r] # "idle"
           /\ local[r].row \in Row /\ call[r].inv \in Req
           /\ UpdateSave(r) => call[r] \in UpdateCall /\ call[r].op = "Update"
           /\ StatusSave(r) => call[r] \in StatusCall /\ call[r].op = "Status"
           /\ PaySave(r) => call[r] \in PayCall /\ call[r].op = "Pay"
<1>1. pc[r] = "save"
  BY DEF UpdateSave, StatusSave, PaySave
<1>2. call[r] \in UpdateCall \cup StatusCall \cup PayCall /\ local[r].row \in Row
  BY <1>1 DEF TypeInv, Stages, Serving, InFlight, Running
<1> QED
  BY <1>1, <1>2 DEF UpdateSave, StatusSave, PaySave, UpdateCall, StatusCall, PayCall,
     InFlight, Running

-----------------------------------------------------------------------------
(* Numbers.  As long as no delete was asked for, rows only come and keep    *)
(* their number; and every request that is about to insert an invoice       *)
(* counted its number when there were no more invoices than now.            *)

NoDelete == \A i \in Req : ~Asked("Delete", i)

Mine(org) == {i \in Req : Live(i) /\ invoices[i].org = org}

Gapless(org) == {invoices[i].num : i \in Mine(org)} = 1 .. Cardinality(Mine(org))

\* A request that creates an invoice holds a number that is taken or the next one.
CountedBefore ==
    \A r \in Req : pc[r] = "insert" =>
        \E org \in Org : /\ local[r].row.org = org
                         /\ local[r].row.num \in 1 .. NextNumber(org)

\* A request on an invoice holds a copy with the number that is stored.
CopiesNumber ==
    \A r, i \in Req : InFlight(r) /\ call[r].op # "Create" /\ call[r].inv = i =>
        /\ Live(i)
        /\ local[r].row.org = invoices[i].org
        /\ local[r].row.num = invoices[i].num

NumberInv ==
    NoDelete => /\ \A org \in Org : Gapless(org)
                /\ CountedBefore
                /\ CopiesNumber

LEMMA NumbersInvGapless == NumberInv => NumbersGapless
BY DEF NumberInv, NumbersGapless, NoDelete, Gapless, Mine

LEMMA NumberInit == Init => NumberInv
<1> SUFFICES ASSUME Init PROVE NumberInv
  OBVIOUS
<1>1. ASSUME NEW org \in Org PROVE Gapless(org)
  <2>1. Mine(org) = {} /\ Cardinality({}) = 0
    BY FS_EmptySet DEF Init, StoreInit, Mine, Live
  <2> QED
    BY <2>1 DEF Gapless
<1> QED
  BY <1>1 DEF Init, StoreInit, NumberInv, CountedBefore, CopiesNumber, InFlight, Running

\* The rows and what identifies them, when no delete was asked for: all stay, and
\* only CreateInsert adds one.
Renumbers(i) == ~(/\ Live(i) <=> Live(i)'
                  /\ Live(i) => /\ invoices'[i].org = invoices[i].org
                                /\ invoices'[i].num = invoices[i].num)

LEMMA RowsStay ==
    ASSUME TypeInv, NumberInv, [Next]_vars, NoDelete, NoDelete', NEW i \in Req,
           Renumbers(i)
    PROVE  CreateInsert(i)
<1>1. ~Deleted(i)'
  BY DEF NoDelete, Asked, Deleted
<1>2. Live(i) => Live(i)'
  BY <1>1, TablesGrow
<1>3. invoices'[i] # invoices[i] /\ Live(i)'
  BY <1>2 DEF Renumbers, Live
<1>4. PICK r \in Req : Written(r, i)
  BY <1>3, RowsWritten
<1>5. CASE UpdateSave(r) \/ StatusSave(r) \/ PaySave(r)
  <2>1. /\ InFlight(r) /\ local[r].row \in Row /\ call[r].op # "Create"
        /\ PaySave(r) => call[r].op = "Pay"
    BY <1>5, SavingCall
  <2>2. i = call[r].inv
    BY <1>4, <1>5 DEF Written, CreateInsert, UpdateSave, StatusSave, PaySave
  <2>3. /\ Live(i)
        /\ local[r].row.org = invoices[i].org
        /\ local[r].row.num = invoices[i].num
    BY <2>1, <2>2 DEF NumberInv, CopiesNumber
  <2>4. \/ invoices'[i] = Rewritten(r) \/ invoices'[i] = Restated(r)
        \/ invoices'[i] = Credited(r)
    BY <1>4, <1>5 DEF Written, CreateInsert, UpdateSave, StatusSave, PaySave
  <2>5. invoices'[i].org = local[r].row.org /\ invoices'[i].num = local[r].row.num
    BY <2>1, <2>4 DEF Rewritten, Restated, Credited, Row
  <2> QED
    BY <1>3, <2>3, <2>5 DEF Renumbers
<1> QED
  BY <1>4, <1>5 DEF Written

\* An insert passes the unique index only with the next number.
LEMMA InsertNext ==
    ASSUME TypeInv, NumberInv, NoDelete, NEW r \in Req, CreateInsert(r)
    PROVE  /\ ~Live(r) /\ local[r].row \in Row
           /\ local[r].row.num = NextNumber(local[r].row.org)
           /\ invoices' = [invoices EXCEPT ![r] = local[r].row]
<1> DEFINE num == local[r].row.num
<1>1. /\ ~Live(r) /\ NumberFree(r, num) /\ pc[r] = "insert"
      /\ invoices' = [invoices EXCEPT ![r] = local[r].row]
  BY DEF CreateInsert, Insert, CanInsert
<1>2. local[r].row \in Row
  BY <1>1 DEF TypeInv, Stages, InFlight, Running
<1>3. PICK org \in Org : /\ local[r].row.org = org
                        /\ num \in 1 .. NextNumber(org)
                        /\ Gapless(org)
  BY <1>1 DEF NumberInv, CountedBefore
<1>4. NextNumber(org) = Cardinality(Mine(org)) + 1 /\ Cardinality(Mine(org)) \in Nat
  <2>1. IsFiniteSet(Mine(org))
    BY ReqAssumption, FS_Subset DEF Mine
  <2> QED
    BY <2>1, FS_CardinalityType DEF NextNumber, Mine
<1>5. num \notin 1 .. Cardinality(Mine(org))
  BY <1>1, <1>3 DEF Gapless, Mine, NumberFree
<1> HIDE DEF num
<1>6. num = NextNumber(org)
  BY <1>3, <1>4, <1>5
<1> QED
  BY <1>1, <1>2, <1>3, <1>6 DEF num

LEMMA MineGrows ==
    ASSUME TypeInv, NumberInv, [Next]_vars, NoDelete, NoDelete', NEW org \in Org
    PROVE  Gapless(org)' /\ NextNumber(org)' \in Int /\ NextNumber(org) <= NextNumber(org)'
<1> DEFINE mine == Mine(org)
           c == Cardinality(mine)
<1>0. /\ IsFiniteSet(mine) /\ c \in Nat
      /\ NextNumber(org) = c + 1
      /\ NextNumber(org)' = Cardinality(Mine(org)') + 1
      /\ {invoices[i].num : i \in mine} = 1 .. c
  <2>1. IsFiniteSet(mine)
    BY ReqAssumption, FS_Subset DEF Mine
  <2> QED
    BY <2>1, FS_CardinalityType DEF NextNumber, Mine, NumberInv, Gapless
<1>1. CASE \A i \in Req : ~Renumbers(i)
  <2>1. Mine(org)' = mine
    BY <1>1 DEF Renumbers, Mine
  <2>2. {invoices'[i].num : i \in mine} = {invoices[i].num : i \in mine}
    BY <1>1 DEF Renumbers, Mine
  <2> QED
    BY <1>0, <2>1, <2>2 DEF Gapless
<1>2. CASE \E i \in Req : Renumbers(i)
  <2>1. PICK r \in Req : CreateInsert(r)
    BY <1>2, RowsStay
  <2> DEFINE row == local[r].row
  <2>2. /\ ~Live(r) /\ row \in Row
        /\ row.num = NextNumber(row.org)
        /\ invoices' = [invoices EXCEPT ![r] = row]
    BY <2>1, InsertNext
  <2>3. /\ invoices'[r] = row /\ Live(r)'
        /\ \A i \in Req \ {r} : invoices'[i] = invoices[i]
    BY <2>2, NoRowAssumption DEF TypeInv, TypeOK, Live
  <2>4. CASE row.org = org
    <3>1. Mine(org)' = mine \cup {r} /\ r \notin mine
      BY <2>2, <2>3, <2>4 DEF Mine, Live
    <3>2. Cardinality(Mine(org)') = c + 1
      BY <1>0, <3>1, FS_AddElement
    <3>3. {invoices'[i].num : i \in mine \cup {r}} = {invoices[i].num : i \in mine} \cup {c + 1}
      <4>1. invoices'[r].num = c + 1
        BY <1>0, <2>2, <2>3, <2>4
      <4>2. \A i \in mine : invoices'[i] = invoices[i]
        BY <2>3, <3>1 DEF Mine
      <4> QED
        BY <4>1, <4>2
    <3>4. 1 .. c + 1 = (1 .. c) \cup {c + 1}
      BY <1>0
    <3>5. Gapless(org)'
      BY <1>0, <3>1, <3>2, <3>3, <3>4 DEF Gapless
    <3> QED
      BY <1>0, <3>2, <3>5
  <2>5. CASE row.org # org
    <3>1. Mine(org)' = mine
      BY <2>2, <2>3, <2>5 DEF Mine, Live
    <3>2. {invoices'[i].num : i \in mine} = {invoices[i].num : i \in mine}
      BY <2>2, <2>3 DEF Mine
    <3> QED
      BY <1>0, <3>1, <3>2 DEF Gapless
  <2> QED
    BY <2>4, <2>5
<1> QED
  BY <1>1, <1>2

\* A request that is about to insert has counted in this step, or before.
LEMMA InsertReached ==
    ASSUME TypeInv, [Next]_vars, NEW r \in Req, pc'[r] = "insert"
    PROVE  CreateCount(r) \/ (pc[r] = "insert" /\ local'[r].row = local[r].row)
<1>1. \A c \in ExistingCall : AfterLoad[c.op] # "insert"
  <2>1. \A c \in ExistingCall : c.op \in {"Get", "Update", "Delete", "Status", "Pay"}
    BY DEF ExistingCall, UpdateCall, ReadCall, DeleteCall, StatusCall, PayCall
  <2> QED
    BY <2>1 DEF AfterLoad
<1>2. PreloadPayments(r) => pc'[r] # "insert"
  <2>1. PreloadPayments(r) => call[r] \in ExistingCall /\ pc'[r] = AfterLoad[call[r].op]
    BY DEF PreloadPayments, Goto, TypeInv, TypeOK, Stages, Serving
  <2> QED
    BY <1>1, <2>1
<1>3. Acts(r) => CreateCount(r)
  BY <1>2 DEF Acts, Step, GetByID, InvoiceStep, PaymentStep, StatementFails,
     LoadInvoice, PreloadItems, CreateInsert, CreateRejected, UpdateClear, UpdateSave,
     UpdateRejected, ItemNameMissing, StatusSave, StatusRejected, StatusAudit, AuditLost,
     DeleteCommit, Publish, EventLost, PayRecord, PayRecordRejected, PaySave,
     PaySaveRejected, Return, Goto, TypeInv, TypeOK
<1>4. ASSUME NEW q \in Req \ {r}, Acts(q) PROVE UNCHANGED <<pc[r], local[r]>>
  BY <1>4, StepFrame
<1>5. Crash \/ UNCHANGED vars => UNCHANGED <<pc[r], local[r]>>
  BY DEF Crash, vars, process, InFlight, Running, TypeInv, TypeOK
<1> QED
  BY <1>3, <1>4, <1>5 DEF Next, Acts

LEMMA NumberStep == TypeInv /\ NumberInv /\ [Next]_vars => NumberInv'
<1> SUFFICES ASSUME TypeInv, NumberInv, [Next]_vars, NoDelete'
             PROVE  (\A org \in Org : Gapless(org)') /\ CountedBefore' /\ CopiesNumber'
  BY DEF NumberInv
<1>1. NoDelete
  BY AskedStays DEF NoDelete
<1>2. ASSUME NEW r \in Req, pc'[r] = "insert"
      PROVE  \E org \in Org : /\ local'[r].row.org = org
                               /\ local'[r].row.num \in 1 .. NextNumber(org)'
  <2>1. CASE CreateCount(r)
    <3>1. PICK c \in CreateCall :
              /\ local'[r].row = NewInvoice(r, c.org, c.cart, NextNumber(c.org))
              /\ UNCHANGED invoices
      BY <2>1 DEF CreateCount, TypeInv, TypeOK, tables
    <3>2. c.org \in Org /\ local'[r].row.org = c.org
          /\ local'[r].row.num = NextNumber(c.org)
      BY <3>1 DEF CreateCall, NewInvoice
    <3>3. NextNumber(c.org)' = NextNumber(c.org)
      BY <3>1 DEF NextNumber, Live
    <3>4. NextNumber(c.org) \in 1 .. NextNumber(c.org)
      <4>1. Cardinality(Mine(c.org)) \in Nat
        BY ReqAssumption, FS_Subset, FS_CardinalityType DEF Mine
      <4> QED
        BY <4>1 DEF NextNumber, Mine
    <3> QED
      BY <3>2, <3>3, <3>4
  <2>2. CASE pc[r] = "insert" /\ local'[r].row = local[r].row
    <3>1. PICK org \in Org : /\ local[r].row.org = org
                            /\ local[r].row.num \in 1 .. NextNumber(org)
      BY <1>1, <2>2 DEF NumberInv, CountedBefore
    <3>2. NextNumber(org)' \in Int /\ NextNumber(org) <= NextNumber(org)'
      BY <1>1, <3>1, MineGrows
    <3>3. NextNumber(org) \in Nat
      BY NextNumberType
    <3> QED
      BY <2>2, <3>1, <3>2, <3>3
  <2> QED
    BY <1>2, <2>1, <2>2, InsertReached
<1>3. ASSUME NEW r \in Req, NEW i \in Req,
             InFlight(r)', call'[r].op # "Create", call'[r].inv = i
      PROVE  /\ Live(i)'
             /\ local'[r].row.org = invoices'[i].org
             /\ local'[r].row.num = invoices'[i].num
  <2>1. CASE LoadInvoice(r)
    <3>1. PICK c \in ExistingCall :
              /\ call' = [call EXCEPT ![r] = c]
              /\ local' = [local EXCEPT ![r].row = invoices[c.inv]]
              /\ pc' = [pc EXCEPT ![r] = IF Live(c.inv) THEN "items" ELSE "failed"]
              /\ UNCHANGED invoices
      BY <2>1 DEF LoadInvoice, Goto, tables
    <3>2. call'[r] = c /\ local'[r].row = invoices[i] /\ c.inv = i
      BY <1>3, <3>1 DEF TypeInv, TypeOK, Memory
    <3>3. Live(i)
      BY <1>3, <3>1, <3>2 DEF TypeInv, TypeOK, InFlight, Running
    <3> QED
      BY <3>1, <3>2, <3>3 DEF Live
  <2>2. CASE CreateCount(r)
    BY <1>3, <2>2 DEF CreateCount, CreateCall, TypeInv, TypeOK
  <2>3. CASE InFlight(r) /\ call'[r] = call[r] /\ local'[r].row = local[r].row
    <3>1. Live(i)
      BY <1>1, <1>3, <2>3 DEF NumberInv, CopiesNumber
    <3>2. ~Renumbers(i)
      BY <1>1, <3>1, RowsStay DEF CreateInsert, Insert, CanInsert
    <3> QED
      BY <1>1, <1>3, <2>3, <3>1, <3>2 DEF NumberInv, CopiesNumber, Renumbers
  <2> QED
    BY <1>3, <2>1, <2>2, <2>3, RowKept
<1> QED
  BY <1>1, <1>2, <1>3, MineGrows DEF CountedBefore, CopiesNumber

\* As long as no delete was asked for, the numbers of an organisation have neither
\* gaps nor repetitions, however many creates overlap, fail or crash.
THEOREM NumbersHaveNoGaps == Spec => []NumbersGapless
<1>1. Spec => []NumberInv
  BY Typed, NumberInit, NumberStep, PTL DEF Spec
<1> QED
  BY <1>1, NumbersInvGapless, PTL

-----------------------------------------------------------------------------
(* Settlement.  Every copy of an invoice with status "paid", stored or held  *)
(* by a request, has a total that the payments in the table cover: sums of   *)
(* amounts that are not negative grow with the table.                        *)

\* For clients that pay no negative amounts and do not set "paid" themselves.
Modest == Amounts \subseteq Nat /\ "paid" \notin Statuses

Settled(i, row) ==
    row.status = "paid" =>
        SumOf(payments[i]) >= row.total \/ Deleted(i) \/ Asked("Update", i)

\* The invoice a request is about to insert is a draft; what a request holds of a
\* stored one is settled.
HeldSettled ==
    \A r \in Req : InFlight(r) =>
        /\ call[r].op = "Create" => local[r].row.status = "draft"
        /\ \A i \in Req : call[r].op # "Create" /\ call[r].inv = i
                             => Settled(i, local[r].row)

SettledInv == PaidMeansSettled /\ HeldSettled

\* A sum of payments that are not negative grows with the set.
LEMMA PaidGrows ==
    ASSUME Modest, NEW S \in SUBSET Payment, NEW T \in SUBSET S
    PROVE  SumOf(T) \in Int /\ SumOf(S) \in Int /\ SumOf(T) <= SumOf(S)
<1> DEFINE f == [p \in T |-> p.amount]
           g == [p \in S |-> p.amount]
<1>1. IsFiniteSet(S) /\ SumOf(S) \in Int /\ SumOf(T) \in Int
  BY PaidSum
<1>2. \A p \in S : p.amount \in Nat
  BY DEF Modest, Payment
<1>3. /\ \A p \in T : f[p] \in Int
      /\ \A p \in S : g[p] \in Int
      /\ \A p \in T : f[p] <= g[p]
      /\ \A p \in S \ T : 0 <= g[p]
  BY <1>2
<1>4. SumOf(T) = SumFunctionOnSet(f, T) /\ SumOf(S) = SumFunctionOnSet(g, S)
  BY DEF SumOf, SumFunction
<1> HIDE DEF f, g
<1> QED
  BY <1>1, <1>3, <1>4, SumMonotone

LEMMA SettledLasts ==
    ASSUME Modest, TypeInv, [Next]_vars, NEW i \in Req, NEW row \in Row,
           Settled(i, row)
    PROVE  Settled(i, row)'
<1>1. CASE row.status # "paid"
  BY <1>1 DEF Settled
<1>2. CASE Deleted(i)
  BY <1>2, DeletedStays DEF Settled
<1>3. CASE Asked("Update", i)
  BY <1>3, AskedStays DEF Settled
<1>4. CASE SumOf(payments[i]) >= row.total
  <2>1. payments'[i] \in SUBSET Payment
    BY TypeStep DEF TypeInv, TypeOK
  <2>2. CASE payments[i] \subseteq payments'[i]
    <3>1. /\ SumOf(payments[i]) \in Int /\ SumOf(payments'[i]) \in Int
          /\ SumOf(payments[i]) <= SumOf(payments'[i])
      BY <2>1, <2>2, PaidGrows
    <3>2. row.total \in Int
      BY DEF Row
    <3>3. SumOf(payments'[i]) >= row.total
      BY <1>4, <3>1, <3>2
    <3> QED
      BY <3>3 DEF Settled, SumOf
  <2>3. CASE Deleted(i)'
    BY <2>3 DEF Settled
  <2> QED
    BY <2>2, <2>3, TablesGrow
<1> QED
  BY <1>1, <1>2, <1>3, <1>4 DEF Settled

\* A payment that covers the total is in the table when it sets the status.
LEMMA CreditedSettled ==
    ASSUME Modest, TypeInv, CreditInv, HeldSettled, NEW r \in Req, PaySave(r),
           NEW i \in Req, i = call[r].inv
    PROVE  Credited(r) \in Row /\ Settled(i, Credited(r))
<1> DEFINE row     == local[r].row
           paid    == row.paid \cup {PaymentOf(r)}
           balance == row.total - SumOf(paid)
<1>1. /\ InFlight(r) /\ pc[r] = "save" /\ row \in Row
      /\ call[r] \in PayCall /\ call[r].op = "Pay"
  BY SavingCall DEF PaySave
<1>2. Credited(r) \in Row
  BY <1>1, CreditedType
<1>3. /\ Credited(r).total = row.total
      /\ Credited(r).status = IF balance <= 0 THEN "paid"
                              ELSE IF SumOf(paid) > 0 THEN "partial" ELSE row.status
  BY <1>1 DEF Credited, Row
<1>4. paid \subseteq payments[i] \/ Deleted(i)
  BY <1>1 DEF CreditInv, MemoryBacked, Backed, Booked
<1>5. row.total \in Int
  BY <1>1 DEF Row
<1>6. CASE balance <= 0 /\ ~Deleted(i)
  <2>1. payments[i] \in SUBSET Payment /\ paid \in SUBSET payments[i]
    BY <1>4, <1>6 DEF TypeInv, TypeOK
  <2>2. /\ SumOf(paid) \in Int /\ SumOf(payments[i]) \in Int
        /\ SumOf(paid) <= SumOf(payments[i])
    BY <2>1, PaidGrows
  <2> HIDE DEF row, paid
  <2>3. SumOf(payments[i]) >= row.total
    BY <1>5, <1>6, <2>2
  <2> QED
    BY <1>2, <1>3, <2>3 DEF Settled
<1>7. CASE ~(balance <= 0) /\ ~Deleted(i)
  <2>1. Settled(i, row)
    BY <1>1 DEF HeldSettled
  <2>2. Credited(r).status = "paid" => row.status = "paid"
    BY <1>3, <1>7
  <2> QED
    BY <1>2, <1>3, <2>1, <2>2 DEF Settled
<1> QED
  BY <1>2, <1>6, <1>7 DEF Settled

LEMMA SettledInit == Init => SettledInv
BY DEF Init, StoreInit, SettledInv, PaidMeansSettled, HeldSettled, Live, InFlight, Running

LEMMA SettledStep ==
    ASSUME Modest
    PROVE  TypeInv /\ CreditInv /\ SettledInv /\ [Next]_vars => SettledInv'
<1> SUFFICES ASSUME TypeInv, CreditInv, SettledInv, [Next]_vars PROVE SettledInv'
  OBVIOUS
<1>0. TypeInv'
  BY TypeStep
<1>1. ASSUME NEW i \in Req, Live(i)' PROVE Settled(i, invoices[i])'
  <2>0. invoices'[i] \in Row
    BY <1>0, <1>1 DEF TypeInv, TypeOK, Live
  <2>1. CASE invoices'[i] = invoices[i]
    <3>1. Settled(i, invoices[i]) /\ invoices[i] \in Row
      BY <1>1, <2>0, <2>1 DEF SettledInv, PaidMeansSettled, Settled, Live
    <3>2. PICK row \in Row : row = invoices[i]
      BY <3>1
    <3> QED
      BY <2>1, <3>1, <3>2, SettledLasts DEF Settled
  <2>2. ASSUME NEW r \in Req, Written(r, i) PROVE Settled(i, invoices[i])'
    <3>1. CASE CreateInsert(r) /\ invoices'[i] = local[r].row
      <4>1. InFlight(r) /\ call[r].op = "Create"
        BY <3>1 DEF CreateInsert, InFlight, Running, TypeInv, Stages, Serving, CreateCall
      <4> QED
        BY <3>1, <4>1 DEF SettledInv, HeldSettled, Settled
    <3>2. CASE UpdateSave(r) /\ i = call[r].inv
      <4>1. Asked("Update", i)
        BY <3>2, SavingCall DEF Asked, Did, Target
      <4> QED
        BY <4>1, AskedStays DEF Settled
    <3>3. CASE StatusSave(r) /\ invoices'[i] = Restated(r)
      <4>1. invoices'[i].status \in Statuses
        BY <3>3, SavingCall DEF Restated, Row, StatusCall
      <4> QED
        BY <4>1 DEF Settled, Modest
    <3>4. CASE PaySave(r) /\ i = call[r].inv /\ invoices'[i] = Credited(r)
      <4>1. Credited(r) \in Row /\ Settled(i, Credited(r))
        BY <3>4, CreditedSettled DEF SettledInv
      <4>2. PICK row \in Row : row = Credited(r)
        BY <4>1
      <4> QED
        BY <3>4, <4>1, <4>2, SettledLasts DEF Settled
    <3> QED
      BY <2>2, <3>1, <3>2, <3>3, <3>4 DEF Written
  <2> QED
    BY <1>1, <2>1, <2>2, RowsWritten
<1>2. ASSUME NEW r \in Req, InFlight(r)'
      PROVE  /\ call'[r].op = "Create" => local'[r].row.status = "draft"
             /\ \A i \in Req : call'[r].op # "Create" /\ call'[r].inv = i
                                  => Settled(i, local[r].row)'
  <2>1. CASE LoadInvoice(r)
    <3>1. PICK c \in ExistingCall :
              /\ call' = [call EXCEPT ![r] = c]
              /\ local' = [local EXCEPT ![r].row = invoices[c.inv]]
              /\ pc' = [pc EXCEPT ![r] = IF Live(c.inv) THEN "items" ELSE "failed"]
      BY <2>1 DEF LoadInvoice, Goto
    <3>2. c.inv \in Req /\ c.op # "Create"
      BY DEF ExistingCall, UpdateCall, ReadCall, DeleteCall, StatusCall, PayCall
    <3>3. call'[r] = c /\ local'[r].row = invoices[c.inv] /\ Live(c.inv)
      BY <1>2, <3>1 DEF TypeInv, TypeOK, Memory, InFlight, Running
    <3>4. PICK row \in Row : row = invoices[c.inv]
      BY <3>2, <3>3 DEF TypeInv, TypeOK, Live
    <3>5. Settled(c.inv, row)
      BY <3>2, <3>3, <3>4 DEF SettledInv, PaidMeansSettled, Settled
    <3>6. Settled(c.inv, row)'
      BY <3>2, <3>5, SettledLasts
    <3> QED
      BY <3>2, <3>3, <3>4, <3>6 DEF Settled
  <2>2. CASE CreateCount(r)
    BY <2>2 DEF CreateCount, CreateCall, NewInvoice, TypeInv, TypeOK
  <2>3. CASE InFlight(r) /\ call'[r] = call[r] /\ local'[r].row = local[r].row
    <3>1. PICK row \in Row : row = local[r].row
      BY <2>3 DEF TypeInv, Stages
    <3>2. ASSUME NEW i \in Req, call[r].op # "Create", call[r].inv = i
          PROVE  Settled(i, row)'
      BY <2>3, <3>1, <3>2, SettledLasts DEF SettledInv, HeldSettled, Settled
    <3> QED
      BY <2>3, <3>1, <3>2 DEF SettledInv, HeldSettled, Settled
  <2> QED
    BY <1>2, <2>1, <2>2, <2>3, RowKept
<1> QED
  BY <1>1, <1>2 DEF SettledInv, PaidMeansSettled, HeldSettled, Settled

\* An invoice whose status is paid was paid, whatever overlaps and fails, for
\* clients that pay no negative amounts and do not set "paid" themselves.
THEOREM PaidIsSettled ==
    ASSUME Amounts \subseteq Nat, "paid" \notin Statuses
    PROVE  Spec => []PaidMeansSettled
<1>1. Modest
  BY DEF Modest
<1>2. Spec => []SettledInv
  BY <1>1, Typed, CreditInit, CreditStep, SettledInit, SettledStep, PTL DEF Spec
<1> QED
  BY <1>2, PTL DEF SettledInv

=============================================================================
