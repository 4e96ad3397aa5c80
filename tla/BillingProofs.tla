---------------------------- MODULE BillingProofs ----------------------------
(***************************************************************************)
(* Theorems about Billing, for any set of requests, bodies and amounts.    *)
(***************************************************************************)
EXTENDS Billing, Sums

-----------------------------------------------------------------------------
(* Money: amounts are integers and there are finitely many of them, so sums  *)
(* over payments and over the lines of a body are integers.                  *)

LEMMA SumOfEmpty == SumOf({}) = 0
BY SumEmpty DEF SumOf, SumFunction

LEMMA SumOfType ==
    ASSUME NEW S, IsFiniteSet(S), \A x \in S : x.amount \in Int
    PROVE  SumOf(S) \in Int
<1> DEFINE f == [x \in S |-> x.amount]
<1>1. SumOf(S) = SumFunctionOnSet(f, S)
  BY DEF SumOf, SumFunction
<1>2. \A x \in S : f[x] \in Int
  OBVIOUS
<1> QED
  BY <1>1, <1>2, SumType

LEMMA PaymentFinite == IsFiniteSet(Payment)
<1> DEFINE f == [x \in Req \X Amounts |-> [by |-> x[1], amount |-> x[2]]]
<1>1. IsFiniteSet(Req \X Amounts)
  BY ReqAssumption, AmountAssumption, FS_Product
<1>2. \A p \in Payment : p = f[<<p.by, p.amount>>] /\ <<p.by, p.amount>> \in Req \X Amounts
  BY DEF Payment
<1>3. f \in Surjection(Req \X Amounts, Payment)
  BY <1>2 DEF Surjection, Payment
<1> QED
  BY <1>1, <1>3, FS_Surjection

LEMMA PaidSum ==
    ASSUME NEW S \in SUBSET Payment
    PROVE  IsFiniteSet(S) /\ SumOf(S) \in Int
<1>1. IsFiniteSet(S)
  BY PaymentFinite, FS_Subset
<1>2. \A p \in S : p.amount \in Int
  BY AmountAssumption DEF Payment
<1> QED
  BY <1>1, <1>2, SumOfType

LEMMA LineSum ==
    ASSUME NEW r \in Req, NEW c \in Carts
    PROVE  SumOf(ItemsOf(r, c)) \in Int
<1> DEFINE Line(k) == [by |-> r, line |-> k, amount |-> c.lines[k]]
           f == [k \in DOMAIN c.lines |-> Line(k)]
<1>0. c.lines \in Seq(Int)
  BY CartAssumption DEF CartType
<1>1. IsFiniteSet(DOMAIN c.lines)
  <2>1. PICK n \in Nat : n = Len(c.lines)
    BY <1>0
  <2>2. DOMAIN c.lines = 1 .. n
    BY <1>0, <2>1
  <2>3. IsFiniteSet(1 .. n)
    BY <2>1, FS_Interval
  <2> QED
    BY <2>2, <2>3
<1>2. f \in Surjection(DOMAIN c.lines, ItemsOf(r, c))
  BY DEF Surjection, ItemsOf
<1>3. IsFiniteSet(ItemsOf(r, c))
  BY <1>1, <1>2, FS_Surjection
<1>4. \A x \in ItemsOf(r, c) : x.amount \in Int
  BY <1>0 DEF ItemsOf
<1> QED
  BY <1>3, <1>4, SumOfType

-----------------------------------------------------------------------------
(* Typing: TypeOK is inductive with what each stage knows of its request.   *)

\* The calls that can be at a stage.
Serving(l) ==
    CASE l = "insert"               -> CreateCall
      [] l \in {"items", "pays"}    -> ExistingCall
      [] l = "clear"                -> UpdateCall
      [] l = "save"                 -> UpdateCall \cup StatusCall \cup PayCall
      [] l = "audit"                -> StatusCall
      [] l = "record"               -> PayCall
      [] l = "delete"               -> DeleteCall
      [] l = "publish"              -> CreateCall \cup PayCall
      [] OTHER                      -> Call

Stages ==
    \A r \in Req :
        /\ pc[r] # "idle" => call[r] \in Serving(pc[r])
        /\ InFlight(r) => local[r].row \in Row

TypeInv == TypeOK /\ Stages

LEMMA NextNumberType ==
    ASSUME NEW org PROVE NextNumber(org) \in Nat
<1>1. IsFiniteSet({i \in Req : Live(i) /\ invoices[i].org = org})
  BY ReqAssumption, FS_Subset
<1> QED
  BY <1>1, FS_CardinalityType DEF NextNumber

LEMMA ItemsOfType ==
    ASSUME NEW r \in Req, NEW c \in Carts
    PROVE  ItemsOf(r, c) \in SUBSET Item
BY CartAssumption DEF ItemsOf, Item, CartType

LEMMA NewInvoiceType ==
    ASSUME NEW r \in Req, NEW org \in Org, NEW c \in Carts, NEW num \in Nat
    PROVE  NewInvoice(r, org, c, num) \in Row
<1>1. SumOf(ItemsOf(r, c)) \in Int /\ c.extra \in Int
  BY LineSum, CartAssumption DEF CartType
<1> QED
  BY <1>1 DEF NewInvoice, Row, AllStatuses

LEMMA PaymentOfType ==
    ASSUME NEW r \in Req, call[r] \in PayCall
    PROVE  PaymentOf(r) \in Payment
BY DEF PaymentOf, Payment, PayCall

LEMMA RewrittenType ==
    ASSUME NEW r \in Req, TypeOK, local[r].row \in Row, call[r] \in UpdateCall
    PROVE  Rewritten(r) \in Row
<1> DEFINE row   == local[r].row
           pays  == local[r].pays
           net   == SumOf(ItemsOf(r, call[r].cart))
           total == net + call[r].cart.extra
           rest  == total - SumOf(pays)
<1>1. /\ net \in Int
      /\ call[r].cart.extra \in Int
  BY LineSum, CartAssumption DEF CartType, UpdateCall
<1>2. pays \in SUBSET Payment
  BY DEF TypeOK, Memory
<1>3. SumOf(pays) \in Int
  BY <1>2, PaidSum
<1>4. total \in Int /\ rest \in Int
  BY <1>1, <1>3
<1>5. Rewritten(r) = [row EXCEPT !.net = net, !.total = total,
                                 !.paid = pays, !.balance = rest]
  BY DEF Rewritten
<1> HIDE DEF row, pays, net, total, rest
<1>6. row \in Row
  BY DEF row
<1> QED
  BY <1>1, <1>2, <1>4, <1>5, <1>6 DEF Row

LEMMA RestatedType ==
    ASSUME NEW r \in Req, local[r].row \in Row, call[r] \in StatusCall
    PROVE  Restated(r) \in Row
BY DEF Restated, Row, StatusCall, AllStatuses

LEMMA CreditedType ==
    ASSUME NEW r \in Req, local[r].row \in Row, call[r] \in PayCall
    PROVE  Credited(r) \in Row
<1>1. PaymentOf(r) \in Payment
  BY PaymentOfType
<1> DEFINE row     == local[r].row
           paid    == row.paid \cup {PaymentOf(r)}
           balance == row.total - SumOf(paid)
           kept    == IF balance <= 0 THEN 0 ELSE balance
           status  == IF balance <= 0 THEN "paid"
                      ELSE IF SumOf(paid) > 0 THEN "partial" ELSE row.status
<1>2. paid \in SUBSET Payment
  BY <1>1 DEF Row
<1>3. SumOf(paid) \in Int
  BY <1>2, PaidSum
<1>4. balance \in Int
  BY <1>3 DEF Row
<1>5. kept \in Int /\ status \in AllStatuses
  BY <1>4 DEF Row, AllStatuses
<1>6. Credited(r) = [row EXCEPT !.paid = paid, !.balance = kept, !.status = status]
  BY DEF Credited, Row
<1> HIDE DEF row, paid, balance, kept, status
<1>7. row \in Row
  BY DEF row
<1> QED
  BY <1>2, <1>5, <1>6, <1>7 DEF Row


LEMMA TypeInit == Init => TypeInv
BY DEF Init, StoreInit, TypeInv, TypeOK, Stages, Serving, Memory, EmptyMemory,
       InFlight, Running

\* Local facts about requests and tables, for the steps below.
LEMMA MemoryType ==
    ASSUME NEW r \in Req, TypeOK, NEW row \in Row \cup {NoRow},
           NEW its \in SUBSET Item, NEW pays \in SUBSET Payment
    PROVE  /\ EmptyMemory \in Memory
           /\ [row |-> row, its |-> its, pays |-> pays] \in Memory
BY DEF Memory, EmptyMemory

\* A request that returns leaves the typing of pc, local and the stages.
LEMMA ReturnType ==
    ASSUME TypeInv, NEW r \in Req, InFlight(r), NEW outcome \in Answered,
           Return(r, outcome), UNCHANGED call
    PROVE  /\ pc' \in [Req -> {"idle"} \cup Running \cup Answered]
           /\ local' \in [Req -> Memory]
           /\ Stages'
<1>1. /\ pc' \in [Req -> {"idle"} \cup Running \cup Answered]
      /\ local' \in [Req -> Memory]
  BY DEF TypeInv, TypeOK, Return, Goto, Memory, EmptyMemory
<1>2. call[r] \in Call
  BY DEF TypeInv, Stages, InFlight, Running, Serving, Call, ExistingCall
<1>3. Stages'
  BY <1>2 DEF TypeInv, TypeOK, Stages, Return, Goto, InFlight, Running, Answered, Serving
<1> QED
  BY <1>1, <1>3

\* A request that goes on to a stage its call belongs to, its memory unchanged.
LEMMA GotoType ==
    ASSUME TypeInv, NEW r \in Req, InFlight(r), NEW l \in Running, Goto(r, l),
           call[r] \in Serving(l), UNCHANGED <<call, local>>
    PROVE  /\ pc' \in [Req -> {"idle"} \cup Running \cup Answered]
           /\ local' \in [Req -> Memory]
           /\ Stages'
<1>1. /\ pc' \in [Req -> {"idle"} \cup Running \cup Answered]
      /\ local' \in [Req -> Memory]
  BY DEF TypeInv, TypeOK, Goto
<1>2. Stages'
  BY DEF TypeInv, TypeOK, Stages, Goto, InFlight, Serving
<1> QED
  BY <1>1, <1>2

LEMMA SaveType ==
    ASSUME TypeOK, NEW i \in Req, NEW row \in Row, NEW its \in SUBSET Item,
           NEW pays \in SUBSET Payment, Save(i, row, its, pays)
    PROVE  /\ invoices' \in [Req -> Row \cup {NoRow}]
           /\ items' \in [Req -> SUBSET Item]
           /\ payments' \in [Req -> SUBSET Payment]
           /\ audits' = audits
BY DEF TypeOK, Save

\* The stage after the load is one the call belongs to.
LEMMA AfterLoadStage ==
    ASSUME NEW c \in ExistingCall
    PROVE  /\ AfterLoad[c.op] \in Running \cup Answered
           /\ c \in Serving(AfterLoad[c.op])
<1>1. CASE c \in UpdateCall
  <2>1. AfterLoad[c.op] = "clear"
    BY <1>1 DEF AfterLoad, UpdateCall
  <2> QED
    BY <2>1, <1>1 DEF Running, Answered, Serving
<1>2. CASE c \in ReadCall
  <2>1. AfterLoad[c.op] = "ok"
    BY <1>2 DEF AfterLoad, ReadCall
  <2> QED
    BY <2>1, <1>2 DEF Running, Answered, Serving, Call, ExistingCall
<1>3. CASE c \in DeleteCall
  <2>1. AfterLoad[c.op] = "delete"
    BY <1>3 DEF AfterLoad, DeleteCall
  <2> QED
    BY <2>1, <1>3 DEF Running, Answered, Serving
<1>4. CASE c \in StatusCall
  <2>1. AfterLoad[c.op] = "save"
    BY <1>4 DEF AfterLoad, StatusCall
  <2> QED
    BY <2>1, <1>4 DEF Running, Answered, Serving
<1>5. CASE c \in PayCall
  <2>1. AfterLoad[c.op] = "record"
    BY <1>5 DEF AfterLoad, PayCall
  <2> QED
    BY <2>1, <1>5 DEF Running, Answered, Serving
<1> QED
  BY <1>1, <1>2, <1>3, <1>4, <1>5 DEF ExistingCall

LEMMA TypeStep == TypeInv /\ [Next]_vars => TypeInv'
<1> SUFFICES ASSUME TypeInv, [Next]_vars PROVE TypeInv'
  OBVIOUS
<1> USE DEF TypeInv
<1>1. ASSUME NEW r \in Req, LoadInvoice(r) PROVE TypeInv'
  <2>1. PICK c \in ExistingCall :
            /\ pc[r] = "idle"
            /\ call' = [call EXCEPT ![r] = c]
            /\ local' = [local EXCEPT ![r].row = invoices[c.inv]]
            /\ pc' = [pc EXCEPT ![r] = IF Live(c.inv) THEN "items" ELSE "failed"]
            /\ UNCHANGED <<tables, published>>
    BY <1>1 DEF LoadInvoice, Goto
  <2>2. c.inv \in Req /\ c \in Call
    BY DEF ExistingCall, Call, UpdateCall, ReadCall, DeleteCall, StatusCall, PayCall
  <2>3. TypeOK'
    BY <2>1, <2>2 DEF TypeOK, Memory, tables, Running, Answered
  <2>4. Live(c.inv) => invoices[c.inv] \in Row
    BY <2>2 DEF TypeOK, Live
  <2>5. ASSUME NEW q \in Req
        PROVE  /\ pc'[q] # "idle" => call'[q] \in Serving(pc'[q])
               /\ InFlight(q)' => local'[q].row \in Row
    <3>1. CASE q = r
      <4>1. call'[r] = c /\ local'[r].row = invoices[c.inv]
        BY <2>1 DEF TypeOK, Memory
      <4>2. CASE Live(c.inv)
        BY <2>1, <2>4, <3>1, <4>1, <4>2 DEF TypeOK, Serving
      <4>3. CASE ~Live(c.inv)
        BY <2>1, <2>2, <3>1, <4>1, <4>3 DEF TypeOK, Serving, InFlight, Running
      <4> QED
        BY <4>2, <4>3
    <3>2. CASE q # r
      BY <2>1, <3>2 DEF TypeOK, Stages, InFlight
    <3> QED
      BY <3>1, <3>2
  <2>6. Stages'
    BY <2>5 DEF Stages
  <2> QED
    BY <2>3, <2>6
<1>2. ASSUME NEW r \in Req, PreloadItems(r) PROVE TypeInv'
  <2>1. call[r] \in ExistingCall /\ call[r].inv \in Req
    BY <1>2 DEF PreloadItems, Stages, Serving, ExistingCall, UpdateCall, ReadCall,
                DeleteCall, StatusCall, PayCall
  <2>2. TypeOK'
    BY <1>2, <2>1 DEF PreloadItems, Goto, TypeOK, Memory, tables, Running
  <2>3. Stages'
    BY <1>2, <2>1 DEF PreloadItems, Goto, TypeOK, Memory, Stages, InFlight, Running, Serving
  <2> QED
    BY <2>2, <2>3
<1>3. ASSUME NEW r \in Req, PreloadPayments(r) PROVE TypeInv'
  <2>1. call[r] \in ExistingCall /\ call[r].inv \in Req
    BY <1>3 DEF PreloadPayments, Stages, Serving, ExistingCall, UpdateCall, ReadCall,
                DeleteCall, StatusCall, PayCall
  <2>2. /\ AfterLoad[call[r].op] \in Running \cup Answered
        /\ call[r] \in Serving(AfterLoad[call[r].op])
    BY <2>1, AfterLoadStage
  <2>3. TypeOK'
    BY <1>3, <2>1, <2>2 DEF PreloadPayments, Goto, TypeOK, Memory, tables
  <2>4. InFlight(r)
    BY <1>3 DEF PreloadPayments, InFlight, Running
  <2>5. Stages'
    BY <1>3, <2>1, <2>2, <2>4 DEF PreloadPayments, Goto, TypeOK, Memory, Stages, InFlight
  <2> QED
    BY <2>3, <2>5
<1>4. ASSUME NEW r \in Req, CreateCount(r) PROVE TypeInv'
  <2>1. PICK c \in CreateCall :
            /\ pc[r] = "idle"
            /\ call' = [call EXCEPT ![r] = c]
            /\ local' = [local EXCEPT ![r] =
                   [row |-> NewInvoice(r, c.org, c.cart, NextNumber(c.org)),
                    its |-> ItemsOf(r, c.cart), pays |-> {}]]
            /\ pc' = [pc EXCEPT ![r] = "insert"]
            /\ UNCHANGED <<tables, published>>
    BY <1>4 DEF CreateCount, Goto
  <2>2. c.org \in Org /\ c.cart \in Carts
    BY DEF CreateCall
  <2>3. NewInvoice(r, c.org, c.cart, NextNumber(c.org)) \in Row
    BY <2>2, NewInvoiceType, NextNumberType
  <2>4. ItemsOf(r, c.cart) \in SUBSET Item
    BY <2>2, ItemsOfType
  <2>5. TypeOK'
    BY <2>1, <2>3, <2>4 DEF TypeOK, Memory, Call, tables, Running
  <2>6. Stages'
    BY <2>1, <2>3 DEF TypeOK, Stages, InFlight, Serving
  <2> QED
    BY <2>5, <2>6
<1>5. ASSUME NEW r \in Req, CreateInsert(r) PROVE TypeInv'
  <2>1. /\ InFlight(r) /\ call[r] \in CreateCall /\ local[r].row \in Row
        /\ local[r].its \in SUBSET Item
    BY <1>5 DEF CreateInsert, Stages, InFlight, Running, Serving, TypeOK, Memory
  <2>2. Goto(r, "publish") /\ UNCHANGED <<call, local>> /\ call[r] \in Serving("publish")
    BY <1>5, <2>1 DEF CreateInsert, Serving
  <2>3. /\ pc' \in [Req -> {"idle"} \cup Running \cup Answered]
        /\ local' \in [Req -> Memory]
        /\ Stages'
    BY <2>1, <2>2, GotoType DEF Running
  <2>4. TypeOK'
    BY <1>5, <2>1, <2>3 DEF CreateInsert, Insert, TypeOK
  <2> QED
    BY <2>3, <2>4
<1>6. ASSUME NEW r \in Req, CreateRejected(r) PROVE TypeInv'
  <2>1. /\ InFlight(r) /\ UNCHANGED <<tables, published, call>>
        /\ \E outcome \in Answered : Return(r, outcome)
    BY <1>6 DEF CreateRejected, InFlight, Running, Answered
  <2> QED
    BY <2>1, ReturnType DEF TypeOK, tables
<1>7. ASSUME NEW r \in Req, UpdateRejected(r) PROVE TypeInv'
  <2>1. /\ InFlight(r) /\ UNCHANGED <<tables, published, call>>
        /\ \E outcome \in Answered : Return(r, outcome)
    BY <1>7 DEF UpdateRejected, InFlight, Running, Answered
  <2> QED
    BY <2>1, ReturnType DEF TypeOK, tables
<1>8. ASSUME NEW r \in Req, ItemNameMissing(r) PROVE TypeInv'
  <2>1. /\ InFlight(r) /\ UNCHANGED <<tables, published, call>>
        /\ \E outcome \in Answered : Return(r, outcome)
    BY <1>8 DEF ItemNameMissing, InFlight, Running, Answered
  <2> QED
    BY <2>1, ReturnType DEF TypeOK, tables
<1>9. ASSUME NEW r \in Req, StatusRejected(r) PROVE TypeInv'
  <2>1. /\ InFlight(r) /\ UNCHANGED <<tables, published, call>>
        /\ \E outcome \in Answered : Return(r, outcome)
    BY <1>9 DEF StatusRejected, InFlight, Running, Answered
  <2> QED
    BY <2>1, ReturnType DEF TypeOK, tables
<1>10. ASSUME NEW r \in Req, AuditLost(r) PROVE TypeInv'
  <2>1. /\ InFlight(r) /\ UNCHANGED <<tables, published, call>>
        /\ \E outcome \in Answered : Return(r, outcome)
    BY <1>10 DEF AuditLost, InFlight, Running, Answered
  <2> QED
    BY <2>1, ReturnType DEF TypeOK, tables
<1>11. ASSUME NEW r \in Req, EventLost(r) PROVE TypeInv'
  <2>1. /\ InFlight(r) /\ UNCHANGED <<tables, published, call>>
        /\ \E outcome \in Answered : Return(r, outcome)
    BY <1>11 DEF EventLost, InFlight, Running, Answered
  <2> QED
    BY <2>1, ReturnType DEF TypeOK, tables
<1>12. ASSUME NEW r \in Req, PayRecordRejected(r) PROVE TypeInv'
  <2>1. /\ InFlight(r) /\ UNCHANGED <<tables, published, call>>
        /\ \E outcome \in Answered : Return(r, outcome)
    BY <1>12 DEF PayRecordRejected, InFlight, Running, Answered
  <2> QED
    BY <2>1, ReturnType DEF TypeOK, tables
<1>13. ASSUME NEW r \in Req, PaySaveRejected(r) PROVE TypeInv'
  <2>1. /\ InFlight(r) /\ UNCHANGED <<tables, published, call>>
        /\ \E outcome \in Answered : Return(r, outcome)
    BY <1>13 DEF PaySaveRejected, InFlight, Running, Answered
  <2> QED
    BY <2>1, ReturnType DEF TypeOK, tables
<1>14. ASSUME NEW r \in Req, StatementFails(r) PROVE TypeInv'
  <2>1. /\ InFlight(r) /\ UNCHANGED <<tables, published, call>>
        /\ \E outcome \in Answered : Return(r, outcome)
    BY <1>14 DEF StatementFails, InFlight, Running, Answered
  <2> QED
    BY <2>1, ReturnType DEF TypeOK, tables
<1>15. ASSUME NEW r \in Req, UpdateClear(r) PROVE TypeInv'
  <2>1. /\ InFlight(r) /\ call[r] \in UpdateCall /\ call[r].inv \in Req
        /\ Goto(r, "save") /\ UNCHANGED <<call, local>>
    BY <1>15 DEF UpdateClear, InFlight, Running, Stages, Serving, UpdateCall
  <2>2. call[r] \in Serving("save")
    BY <2>1 DEF Serving
  <2>3. /\ pc' \in [Req -> {"idle"} \cup Running \cup Answered]
        /\ local' \in [Req -> Memory]
        /\ Stages'
    BY <2>1, <2>2, GotoType DEF Running
  <2>4. TypeOK'
    BY <1>15, <2>1, <2>3 DEF UpdateClear, ClearItems, TypeOK
  <2> QED
    BY <2>3, <2>4
<1>16. ASSUME NEW r \in Req, UpdateSave(r) PROVE TypeInv'
  <2>1. /\ InFlight(r) /\ call[r] \in UpdateCall /\ call[r].inv \in Req
        /\ local[r].row \in Row
    BY <1>16 DEF UpdateSave, InFlight, Running, Stages, Serving, UpdateCall, StatusCall, PayCall
  <2>2. /\ Rewritten(r) \in Row
        /\ ItemsOf(r, call[r].cart) \in SUBSET Item
        /\ local[r].pays \in SUBSET Payment
    BY <2>1, RewrittenType, ItemsOfType DEF TypeOK, Memory, UpdateCall
  <2>3. /\ invoices' \in [Req -> Row \cup {NoRow}]
        /\ items' \in [Req -> SUBSET Item]
        /\ payments' \in [Req -> SUBSET Payment]
        /\ audits' = audits
    BY <1>16, <2>1, <2>2, SaveType DEF UpdateSave
  <2>4. \E outcome \in Answered : Return(r, outcome)
    BY <1>16 DEF UpdateSave, Answered
  <2>5. UNCHANGED <<published, call>>
    BY <1>16 DEF UpdateSave
  <2>6. /\ pc' \in [Req -> {"idle"} \cup Running \cup Answered]
        /\ local' \in [Req -> Memory]
        /\ Stages'
    BY <2>1, <2>4, <2>5, ReturnType
  <2>7. TypeOK'
    BY <2>3, <2>5, <2>6 DEF TypeOK, Call
  <2> QED
    BY <2>6, <2>7
<1>17. ASSUME NEW r \in Req, StatusSave(r) PROVE TypeInv'
  <2>1. /\ InFlight(r) /\ call[r] \in StatusCall /\ call[r].inv \in Req
        /\ local[r].row \in Row
    BY <1>17 DEF StatusSave, InFlight, Running, Stages, Serving, UpdateCall, StatusCall, PayCall
  <2>2. /\ Restated(r) \in Row
        /\ local[r].its \in SUBSET Item
        /\ local[r].pays \in SUBSET Payment
    BY <2>1, RestatedType DEF TypeOK, Memory
  <2>3. /\ invoices' \in [Req -> Row \cup {NoRow}]
        /\ items' \in [Req -> SUBSET Item]
        /\ payments' \in [Req -> SUBSET Payment]
        /\ audits' = audits
    BY <1>17, <2>1, <2>2, SaveType DEF StatusSave
  <2>4. Goto(r, "audit") /\ UNCHANGED <<call, local>> /\ call[r] \in Serving("audit")
    BY <1>17, <2>1 DEF StatusSave, Serving
  <2>5. UNCHANGED <<published, call>>
    BY <1>17 DEF StatusSave
  <2>6. /\ pc' \in [Req -> {"idle"} \cup Running \cup Answered]
        /\ local' \in [Req -> Memory]
        /\ Stages'
    BY <2>1, <2>4, GotoType DEF Running
  <2>7. TypeOK'
    BY <2>3, <2>5, <2>6 DEF TypeOK, Call
  <2> QED
    BY <2>6, <2>7
<1>18. ASSUME NEW r \in Req, PaySave(r) PROVE TypeInv'
  <2>1. /\ InFlight(r) /\ call[r] \in PayCall /\ call[r].inv \in Req
        /\ local[r].row \in Row
    BY <1>18 DEF PaySave, InFlight, Running, Stages, Serving, UpdateCall, StatusCall, PayCall
  <2>2. /\ Credited(r) \in Row
        /\ local[r].its \in SUBSET Item
        /\ local[r].pays \in SUBSET Payment
    BY <2>1, CreditedType DEF TypeOK, Memory
  <2>3. /\ invoices' \in [Req -> Row \cup {NoRow}]
        /\ items' \in [Req -> SUBSET Item]
        /\ payments' \in [Req -> SUBSET Payment]
        /\ audits' = audits
    BY <1>18, <2>1, <2>2, SaveType DEF PaySave
  <2>4. Goto(r, "publish") /\ UNCHANGED <<call, local>> /\ call[r] \in Serving("publish")
    BY <1>18, <2>1 DEF PaySave, Serving
  <2>5. UNCHANGED <<published, call>>
    BY <1>18 DEF PaySave
  <2>6. /\ pc' \in [Req -> {"idle"} \cup Running \cup Answered]
        /\ local' \in [Req -> Memory]
        /\ Stages'
    BY <2>1, <2>4, GotoType DEF Running
  <2>7. TypeOK'
    BY <2>3, <2>5, <2>6 DEF TypeOK, Call
  <2> QED
    BY <2>6, <2>7
<1>19. ASSUME NEW r \in Req, StatusAudit(r) PROVE TypeInv'
  <2>1. /\ InFlight(r) /\ call[r] \in StatusCall /\ call[r].inv \in Req
        /\ local[r].row \in Row
    BY <1>19 DEF StatusAudit, InFlight, Running, Stages, Serving, StatusCall
  <2>2. [by |-> r, old |-> local[r].row.status, new |-> call[r].status] \in AuditEntry
    BY <2>1 DEF AuditEntry, Row, StatusCall, AllStatuses
  <2>3. audits' \in [Req -> Seq(AuditEntry)]
    BY <1>19, <2>1, <2>2 DEF StatusAudit, InsertAudit, TypeOK
  <2>4. /\ pc' \in [Req -> {"idle"} \cup Running \cup Answered]
        /\ local' \in [Req -> Memory]
        /\ Stages'
    BY <1>19, <2>1, ReturnType DEF StatusAudit, Answered
  <2>5. TypeOK'
    BY <1>19, <2>3, <2>4 DEF StatusAudit, InsertAudit, TypeOK
  <2> QED
    BY <2>4, <2>5
<1>20. ASSUME NEW r \in Req, DeleteCommit(r) PROVE TypeInv'
  <2>1. InFlight(r) /\ call[r] \in DeleteCall /\ call[r].inv \in Req
    BY <1>20 DEF DeleteCommit, InFlight, Running, Stages, Serving, DeleteCall
  <2>2. /\ pc' \in [Req -> {"idle"} \cup Running \cup Answered]
        /\ local' \in [Req -> Memory]
        /\ Stages'
    BY <1>20, <2>1, ReturnType DEF DeleteCommit, Answered
  <2>3. TypeOK'
    BY <1>20, <2>1, <2>2 DEF DeleteCommit, DeleteRows, TypeOK
  <2> QED
    BY <2>2, <2>3
<1>21. ASSUME NEW r \in Req, Publish(r) PROVE TypeInv'
  <2>1. InFlight(r)
    BY <1>21 DEF Publish, InFlight, Running
  <2>2. /\ pc' \in [Req -> {"idle"} \cup Running \cup Answered]
        /\ local' \in [Req -> Memory]
        /\ Stages'
    BY <1>21, <2>1, ReturnType DEF Publish, Answered
  <2>3. TypeOK'
    BY <1>21, <2>2 DEF Publish, TypeOK, tables
  <2> QED
    BY <2>2, <2>3
<1>22. ASSUME NEW r \in Req, PayRecord(r) PROVE TypeInv'
  <2>1. InFlight(r) /\ call[r] \in PayCall /\ call[r].inv \in Req
    BY <1>22 DEF PayRecord, InFlight, Running, Stages, Serving, PayCall
  <2>2. Goto(r, "save") /\ UNCHANGED <<call, local>> /\ call[r] \in Serving("save")
    BY <1>22, <2>1 DEF PayRecord, Serving
  <2>3. /\ pc' \in [Req -> {"idle"} \cup Running \cup Answered]
        /\ local' \in [Req -> Memory]
        /\ Stages'
    BY <2>1, <2>2, GotoType DEF Running
  <2>4. PaymentOf(r) \in Payment
    BY <2>1, PaymentOfType
  <2>5. TypeOK'
    BY <1>22, <2>1, <2>3, <2>4 DEF PayRecord, InsertPayment, TypeOK
  <2> QED
    BY <2>3, <2>5
<1>23. ASSUME Crash PROVE TypeInv'
  <2>1. TypeOK'
    BY <1>23 DEF Crash, TypeOK, tables, Memory, EmptyMemory, Answered
  <2>2. Stages'
    BY <1>23 DEF Crash, TypeOK, Stages, InFlight, Running, Serving, Call, ExistingCall
  <2> QED
    BY <2>1, <2>2
<1>24. ASSUME UNCHANGED vars PROVE TypeInv'
  BY <1>24 DEF vars, tables, process, TypeOK, Stages, InFlight
<1> QED
  BY <1>1, <1>2, <1>3, <1>4, <1>5, <1>6, <1>7, <1>8, <1>9, <1>10, <1>11, <1>12, <1>13, <1>14, <1>15, <1>16, <1>17, <1>18, <1>19, <1>20, <1>21, <1>22, <1>23, <1>24
     DEF Next, Step, GetByID, InvoiceStep, PaymentStep

\* Every reachable state is well typed, with every request at a stage its call
\* belongs to and holding an invoice while it is being served.
THEOREM Typed == Spec => []TypeInv
<1>1. Init => TypeInv
  BY TypeInit
<1>2. TypeInv /\ [Next]_vars => TypeInv'
  BY TypeStep
<1> QED
  BY <1>1, <1>2, PTL DEF Spec

\* What the requests store, hold and answer is well typed, whatever overlaps and fails.
THEOREM TypeCorrect == Spec => []TypeOK
BY Typed, PTL DEF TypeInv

-----------------------------------------------------------------------------
(* What any step leaves alone.                                              *)

Acts(r) == Step(r) \/ StatementFails(r)

\* A request moves only itself, keeps its call, and never after its answer.
LEMMA StepFrame ==
    ASSUME TypeInv, NEW r \in Req, Acts(r)
    PROVE  /\ pc[r] \notin Answered
           /\ pc'[r] # "idle"
           /\ pc[r] # "idle" => call'[r] = call[r]
           /\ \A q \in Req \ {r} : /\ pc'[q] = pc[q]
                                   /\ call'[q] = call[q]
                                   /\ local'[q] = local[q]
<1> USE DEF TypeInv, TypeOK, Answered, Goto, Return
<1>1. CASE LoadInvoice(r) \/ PreloadItems(r)
  BY <1>1 DEF LoadInvoice, PreloadItems
<1>8. CASE PreloadPayments(r)
  <2>1. AfterLoad[call[r].op] # "idle"
    BY <1>8, AfterLoadStage DEF PreloadPayments, Stages, Serving, Running
  <2> QED
    BY <1>8, <2>1 DEF PreloadPayments
<1>2. CASE CreateCount(r) \/ CreateInsert(r) \/ CreateRejected(r)
  BY <1>2 DEF CreateCount, CreateInsert, CreateRejected
<1>3. CASE UpdateClear(r) \/ UpdateSave(r) \/ UpdateRejected(r) \/ ItemNameMissing(r)
  BY <1>3 DEF UpdateClear, UpdateSave, UpdateRejected, ItemNameMissing
<1>4. CASE StatusSave(r) \/ StatusRejected(r) \/ StatusAudit(r) \/ AuditLost(r)
  BY <1>4 DEF StatusSave, StatusRejected, StatusAudit, AuditLost
<1>5. CASE DeleteCommit(r) \/ Publish(r) \/ EventLost(r)
  BY <1>5 DEF DeleteCommit, Publish, EventLost
<1>6. CASE PaymentStep(r)
  BY <1>6 DEF PaymentStep, PayRecord, PayRecordRejected, PaySave, PaySaveRejected
<1>7. CASE StatementFails(r)
  BY <1>7 DEF StatementFails, InFlight, Running
<1> QED
  BY <1>1, <1>2, <1>3, <1>4, <1>5, <1>6, <1>7, <1>8 DEF Acts, Step, GetByID, InvoiceStep

\* What was answered stays answered; an invoice once deleted counts as deleted.
LEMMA AnswersStay ==
    ASSUME TypeInv, [Next]_vars
    PROVE  /\ \A q \in Req : pc[q] # "idle" => pc'[q] # "idle" /\ call'[q] = call[q]
           /\ \A q \in Req : pc[q] \in Answered => pc'[q] = pc[q] /\ local'[q] = local[q]
<1>1. ASSUME NEW r \in Req, Acts(r)
      PROVE  /\ \A q \in Req : pc[q] # "idle" => pc'[q] # "idle" /\ call'[q] = call[q]
             /\ \A q \in Req : pc[q] \in Answered => pc'[q] = pc[q] /\ local'[q] = local[q]
  BY <1>1, StepFrame
<1>2. CASE Crash
  BY <1>2 DEF Crash, TypeInv, TypeOK, InFlight, Running, Answered
<1>3. CASE UNCHANGED vars
  BY <1>3 DEF vars, process
<1> QED
  BY <1>1, <1>2, <1>3 DEF Next, Acts

LEMMA DeletedStays ==
    ASSUME TypeInv, [Next]_vars, NEW i \in Req, Deleted(i)
    PROVE  Deleted(i)'
<1>1. PICK d \in Req : Did(d, "Delete", i) /\ pc[d] = "ok"
  BY DEF Deleted
<1>2. call'[d] = call[d] /\ pc'[d] = pc[d]
  BY <1>1, AnswersStay DEF Answered
<1> QED
  BY <1>1, <1>2 DEF Deleted, Did, Target

\* A row of payments or invoices goes only with a delete.
LEMMA TablesGrow ==
    ASSUME TypeInv, [Next]_vars, NEW i \in Req
    PROVE  \/ payments[i] \subseteq payments'[i] /\ (Live(i) => Live(i)')
           \/ Deleted(i)' /\ invoices'[i] = NoRow
<1> DEFINE Goal == \/ payments[i] \subseteq payments'[i] /\ (Live(i) => Live(i)')
                   \/ Deleted(i)' /\ invoices'[i] = NoRow
<1>1. CASE UNCHANGED <<invoices, payments>>
  BY <1>1 DEF Live
<1>2. ASSUME NEW r \in Req, CreateInsert(r) PROVE Goal
  BY <1>2 DEF CreateInsert, Insert, CanInsert, Live, TypeInv, TypeOK
<1>3. ASSUME NEW r \in Req, UpdateSave(r) \/ StatusSave(r) \/ PaySave(r) PROVE Goal
  <2>1. call[r].inv \in Req
    BY <1>3 DEF UpdateSave, StatusSave, PaySave, TypeInv, Stages, Serving,
                UpdateCall, StatusCall, PayCall
  <2>2. \E row \in Row : \E its, pays : Save(call[r].inv, row, its, pays)
    <3>1. local[r].row \in Row
      BY <1>3 DEF UpdateSave, StatusSave, PaySave, TypeInv, Stages, InFlight, Running
    <3>2. /\ call[r] \in UpdateCall \cup StatusCall \cup PayCall
      BY <1>3 DEF UpdateSave, StatusSave, PaySave, TypeInv, Stages, Serving
    <3>3. CASE UpdateSave(r)
      BY <3>1, <3>2, <3>3, RewrittenType DEF UpdateSave, TypeInv, StatusCall, PayCall
    <3>4. CASE StatusSave(r)
      BY <3>1, <3>2, <3>4, RestatedType DEF StatusSave, UpdateCall, PayCall
    <3>5. CASE PaySave(r)
      BY <3>1, <3>2, <3>5, CreditedType DEF PaySave, UpdateCall, StatusCall
    <3> QED
      BY <1>3, <3>3, <3>4, <3>5
  <2> QED
    BY <2>1, <2>2, NoRowAssumption DEF Save, Live, TypeInv, TypeOK
<1>4. ASSUME NEW r \in Req, PayRecord(r) PROVE Goal
  BY <1>4 DEF PayRecord, InsertPayment, Live, TypeInv, TypeOK
<1>5. ASSUME NEW r \in Req, DeleteCommit(r) PROVE Goal
  <2>1. call[r] \in DeleteCall
    BY <1>5 DEF DeleteCommit, TypeInv, Stages, Serving
  <2>2. pc'[r] = "ok" /\ call'[r] = call[r]
    BY <1>5 DEF DeleteCommit, Return, Goto, TypeInv, TypeOK
  <2>3. CASE call[r].inv = i
    <3>1. Deleted(i)'
      BY <2>1, <2>2, <2>3 DEF Deleted, Did, Target, DeleteCall
    <3>2. invoices'[i] = NoRow
      BY <1>5, <2>3 DEF DeleteCommit, DeleteRows, TypeInv, TypeOK
    <3> QED
      BY <3>1, <3>2
  <2>4. CASE call[r].inv # i
    BY <1>5, <2>4 DEF DeleteCommit, DeleteRows, Live, TypeInv, TypeOK
  <2> QED
    BY <2>3, <2>4
<1>6. ASSUME NEW r \in Req, Acts(r),
             ~CreateInsert(r), ~UpdateSave(r), ~StatusSave(r), ~PaySave(r),
             ~PayRecord(r), ~DeleteCommit(r)
      PROVE  UNCHANGED <<invoices, payments>>
  BY <1>6 DEF Acts, Step, GetByID, InvoiceStep, PaymentStep, StatementFails,
       LoadInvoice, PreloadItems, PreloadPayments, CreateCount, CreateRejected,
       UpdateClear, ClearItems, UpdateRejected, ItemNameMissing, StatusRejected,
       StatusAudit, InsertAudit, AuditLost, Publish, EventLost, PayRecordRejected,
       PaySaveRejected, tables
<1>7. CASE Crash
  BY <1>1, <1>7 DEF Crash, tables
<1>8. CASE UNCHANGED vars
  BY <1>1, <1>8 DEF vars, tables
<1> QED
  BY <1>1, <1>2, <1>3, <1>4, <1>5, <1>6, <1>7, <1>8 DEF Next, Acts

\* No save erases a recorded payment: payments go only with their invoice.
THEOREM MoneyKept == Spec => MoneyNeverErased
<1>1. TypeInv /\ [Next]_vars =>
        \A i \in Req : payments[i] \subseteq payments'[i] \/ invoices'[i] = NoRow
  BY TablesGrow
<1> QED
  BY <1>1, Typed, PTL DEF Spec, MoneyNeverErased

-----------------------------------------------------------------------------
(* Credit: what keeps CreditedWasReceived and LoadedShowsCredit true is      *)
(* that what a request holds in memory is backed by the payments table, or   *)
(* its invoice was deleted since.                                            *)

\* A payment is in the table from its insert on.
Booked(r) == Deleted(call[r].inv) \/ PaymentOf(r) \in payments[call[r].inv]

Backed(r) ==
    \/ Deleted(call[r].inv)
    \/ /\ local[r].row.paid \subseteq payments[call[r].inv]
       /\ local[r].pays \subseteq payments[call[r].inv]

MemoryBacked ==
    \A r \in Req : InFlight(r) =>
        /\ call[r].op = "Create" => local[r].row.paid = {}
        /\ call[r].op # "Create" => Backed(r)
        /\ call[r].op = "Pay" /\ pc[r] \in {"save", "publish"} => Booked(r)

IdleHoldsNothing == \A r \in Req : pc[r] = "idle" => local[r].pays = {}

CreditInv ==
    CreditedWasReceived /\ LoadedShowsCredit /\ MemoryBacked /\ IdleHoldsNothing

LEMMA TargetType ==
    ASSUME TypeInv, NEW r \in Req, call[r] \in Call
    PROVE  /\ call[r].op # "Create" => call[r] \in ExistingCall /\ call[r].inv \in Req
           /\ call[r].op = "Create" => call[r] \in CreateCall
BY DEF Call, ExistingCall, CreateCall, UpdateCall, ReadCall, DeleteCall, StatusCall, PayCall

LEMMA CallType ==
    ASSUME TypeInv, NEW r \in Req, pc[r] # "idle"
    PROVE  call[r] \in Call
BY DEF TypeInv, TypeOK, Stages, Serving, Running, Answered, Call, ExistingCall

LEMMA CreditInit == Init => CreditInv
BY DEF Init, StoreInit, CreditInv, CreditedWasReceived, LoadedShowsCredit, MemoryBacked,
       IdleHoldsNothing, EmptyMemory, InFlight, Running, Live, Loaded

\* Backing, once there, lasts as long as the memory it is about.
LEMMA BackingLasts ==
    ASSUME TypeInv, [Next]_vars, NEW r \in Req, pc[r] # "idle", call[r].op # "Create"
    PROVE  /\ /\ Backed(r)
              /\ local'[r].row = local[r].row
              /\ local'[r].pays = local[r].pays
              => Backed(r)'
           /\ call[r].op = "Pay" /\ Booked(r) => Booked(r)'
<1>1. call'[r] = call[r] /\ call[r].inv \in Req
  BY AnswersStay, CallType, TargetType
<1>2. CASE Deleted(call[r].inv)
  BY <1>1, <1>2, DeletedStays DEF Backed, Booked, Deleted, Did, Target
<1>3. CASE payments[call[r].inv] \subseteq payments'[call[r].inv]
  BY <1>1, <1>2, <1>3 DEF Backed, Booked, PaymentOf
<1>4. CASE Deleted(call[r].inv)'
  BY <1>1, <1>4 DEF Backed, Booked
<1> QED
  BY <1>1, <1>2, <1>3, <1>4, TablesGrow
\* The rows a step writes, and the memory they come from.
Written(r, i) ==
    \/ CreateInsert(r) /\ i = r /\ invoices'[i] = local[r].row
    \/ UpdateSave(r) /\ i = call[r].inv /\ invoices'[i] = Rewritten(r)
    \/ StatusSave(r) /\ i = call[r].inv /\ invoices'[i] = Restated(r)
    \/ PaySave(r) /\ i = call[r].inv /\ invoices'[i] = Credited(r)

LEMMA RowsWritten ==
    ASSUME TypeInv, [Next]_vars, NEW i \in Req, Live(i)', invoices'[i] # invoices[i]
    PROVE  \E r \in Req : Written(r, i)
<1>1. ASSUME NEW r \in Req, CreateInsert(r) PROVE Written(r, i)
  BY <1>1 DEF Written, CreateInsert, Insert, TypeInv, TypeOK
<1>2. ASSUME NEW r \in Req, UpdateSave(r) PROVE Written(r, i)
  BY <1>2 DEF Written, UpdateSave, Save, TypeInv, TypeOK
<1>3. ASSUME NEW r \in Req, StatusSave(r) PROVE Written(r, i)
  BY <1>3 DEF Written, StatusSave, Save, TypeInv, TypeOK
<1>4. ASSUME NEW r \in Req, PaySave(r) PROVE Written(r, i)
  BY <1>4 DEF Written, PaySave, Save, TypeInv, TypeOK
<1>5. ASSUME NEW r \in Req, DeleteCommit(r) PROVE FALSE
  BY <1>5 DEF DeleteCommit, DeleteRows, Live, TypeInv, TypeOK
<1>6. ASSUME NEW r \in Req, Acts(r),
             ~CreateInsert(r), ~UpdateSave(r), ~StatusSave(r), ~PaySave(r), ~DeleteCommit(r)
      PROVE  FALSE
  BY <1>6 DEF Acts, Step, GetByID, InvoiceStep, PaymentStep, StatementFails,
       LoadInvoice, PreloadItems, PreloadPayments, CreateCount, CreateRejected,
       UpdateClear, ClearItems, UpdateRejected, ItemNameMissing, StatusRejected,
       StatusAudit, InsertAudit, AuditLost, Publish, EventLost, PayRecord, InsertPayment,
       PayRecordRejected, PaySaveRejected, tables
<1>7. ~Crash /\ ~UNCHANGED vars
  BY DEF Crash, vars, tables
<1> QED
  BY <1>1, <1>2, <1>3, <1>4, <1>5, <1>6, <1>7 DEF Next, Acts

\* A request begins with its first statement.
LEMMA FirstStatement ==
    ASSUME NEW r \in Req, Acts(r), pc[r] = "idle"
    PROVE  LoadInvoice(r) \/ CreateCount(r)
BY DEF Acts, Step, GetByID, PreloadItems, PreloadPayments, InvoiceStep, PaymentStep,
       StatementFails, InFlight, Running, CreateInsert, CreateRejected, UpdateClear,
       UpdateSave, UpdateRejected, ItemNameMissing, StatusSave, StatusRejected,
       StatusAudit, AuditLost, DeleteCommit, Publish, EventLost, PayRecord,
       PayRecordRejected, PaySave, PaySaveRejected

\* The last of the three reads completes the aggregate, and the method then keeps
\* it as it is while it works on it.
LEMMA LoadedBy ==
    ASSUME TypeInv, NEW r \in Req, Acts(r), Loaded(r)'
    PROVE  PreloadPayments(r) \/ (Loaded(r) /\ call'[r] = call[r] /\ local'[r] = local[r])
<1>1. pc[r] # "idle" => call'[r] = call[r]
  BY StepFrame
<1> USE DEF TypeInv, TypeOK, Stages, Serving, Goto, Return, Loaded
<1>2. ~LoadInvoice(r) /\ ~PreloadItems(r) /\ ~StatementFails(r)
  BY DEF LoadInvoice, PreloadItems, StatementFails
<1>3. ~CreateCount(r) /\ ~CreateInsert(r) /\ ~CreateRejected(r) /\ ~ItemNameMissing(r)
  BY DEF CreateCount, CreateInsert, CreateRejected, ItemNameMissing
<1>4. ~UpdateSave(r) /\ ~UpdateRejected(r)
  BY <1>1 DEF UpdateSave, UpdateRejected
<1>5. ~StatusRejected(r) /\ ~StatusAudit(r) /\ ~AuditLost(r)
  BY <1>1 DEF StatusRejected, StatusAudit, AuditLost, StatusCall
<1>6. ~DeleteCommit(r) /\ ~Publish(r) /\ ~EventLost(r)
  BY <1>1 DEF DeleteCommit, Publish, EventLost, DeleteCall, CreateCall, PayCall
<1>7. ~PayRecordRejected(r) /\ ~PaySave(r) /\ ~PaySaveRejected(r)
  BY DEF PayRecordRejected, PaySave, PaySaveRejected
<1>8. CASE UpdateClear(r) \/ StatusSave(r) \/ PayRecord(r)
  BY <1>1, <1>8 DEF UpdateClear, StatusSave, PayRecord
<1> QED
  BY <1>2, <1>3, <1>4, <1>5, <1>6, <1>7, <1>8 DEF Acts, Step, GetByID, InvoiceStep,
     PaymentStep

LEMMA LoadedStays ==
    ASSUME TypeInv, [Next]_vars, NEW r \in Req, Loaded(r)'
    PROVE  PreloadPayments(r) \/ (Loaded(r) /\ call'[r] = call[r] /\ local'[r] = local[r])
<1>1. CASE Acts(r)
  BY <1>1, LoadedBy
<1>2. CASE \E q \in Req \ {r} : Acts(q)
  BY <1>2, StepFrame DEF Loaded
<1>3. CASE Crash
  BY <1>3 DEF Crash, Loaded, InFlight, Running, TypeInv, TypeOK
<1>4. CASE UNCHANGED vars
  BY <1>4 DEF vars, process, Loaded
<1> QED
  BY <1>1, <1>2, <1>3, <1>4 DEF Next, Acts

LEMMA CreditStep == TypeInv /\ CreditInv /\ [Next]_vars => CreditInv'
<1> SUFFICES ASSUME TypeInv, CreditInv, [Next]_vars PROVE CreditInv'
  OBVIOUS
<1>1. CreditedWasReceived'
  <2> SUFFICES ASSUME NEW i \in Req, Live(i)', ~Deleted(i)'
               PROVE  invoices'[i].paid \subseteq payments'[i]
    BY DEF CreditedWasReceived
  <2>1. ~Deleted(i) /\ payments[i] \subseteq payments'[i]
    BY DeletedStays, TablesGrow
  <2>2. CASE invoices'[i] = invoices[i]
    BY <2>1, <2>2 DEF CreditInv, CreditedWasReceived, Live
  <2>3. ASSUME NEW r \in Req, Written(r, i)
        PROVE  invoices'[i].paid \subseteq payments'[i]
    <3>1. /\ InFlight(r)
          /\ local[r].row \in Row
          /\ pc[r] = "insert" => call[r] \in CreateCall
          /\ pc[r] = "save" => call[r] \in UpdateCall \cup StatusCall \cup PayCall
      BY <2>3 DEF Written, CreateInsert, UpdateSave, StatusSave, PaySave, InFlight,
                  Running, TypeInv, Stages, Serving
    <3>2. CASE CreateInsert(r) /\ invoices'[i] = local[r].row
      BY <3>1, <3>2 DEF CreateInsert, CreditInv, MemoryBacked, CreateCall
    <3>3. CASE /\ pc[r] = "save" /\ i = call[r].inv
               /\ \/ invoices'[i] = Rewritten(r)
                  \/ invoices'[i] = Restated(r)
                  \/ call[r].op = "Pay" /\ invoices'[i] = Credited(r)
      <4>1. call[r].op # "Create"
        BY <3>1, <3>3 DEF UpdateCall, StatusCall, PayCall
      <4>2. /\ local[r].row.paid \subseteq payments[i]
            /\ local[r].pays \subseteq payments[i]
            /\ call[r].op = "Pay" => PaymentOf(r) \in payments[i]
        BY <2>1, <3>1, <3>3, <4>1 DEF CreditInv, MemoryBacked, Backed, Booked
      <4>3. CASE invoices'[i] = Rewritten(r)
        BY <2>1, <3>1, <4>2, <4>3 DEF Rewritten, Row
      <4>4. CASE invoices'[i] = Restated(r)
        BY <2>1, <3>1, <4>2, <4>4 DEF Restated, Row
      <4>5. CASE call[r].op = "Pay" /\ invoices'[i] = Credited(r)
        <5>1. Credited(r).paid = local[r].row.paid \cup {PaymentOf(r)}
          BY <3>1 DEF Credited, Row
        <5> QED
          BY <2>1, <4>2, <4>5, <5>1
      <4> QED
        BY <3>3, <4>3, <4>4, <4>5
    <3> QED
      BY <2>3, <3>2, <3>3 DEF Written, UpdateSave, StatusSave, PaySave
  <2> QED
    BY <2>2, <2>3, RowsWritten
<1>2. LoadedShowsCredit'
  <2> SUFFICES ASSUME NEW r \in Req, Loaded(r)', ~Deleted(call[r].inv)'
               PROVE  (local[r].row.paid \subseteq local[r].pays)'
    BY DEF LoadedShowsCredit
  <2>1. PICK i : i = call[r].inv
    OBVIOUS
  <2>2. /\ call'[r] = call[r]
        /\ i \in Req /\ call[r].op # "Create"
    <3>1. call'[r] = call[r] /\ (Loaded(r) \/ pc[r] = "pays")
      BY LoadedStays DEF PreloadPayments
    <3>2. call[r] \in ExistingCall
      BY <3>1 DEF Loaded, TypeInv, TypeOK, Stages, Serving, Call, ExistingCall, CreateCall
    <3> QED
      BY <2>1, <3>1, <3>2 DEF ExistingCall, UpdateCall, ReadCall, DeleteCall, StatusCall,
         PayCall
  <2>3. ~Deleted(i)
    <3>1. ~Deleted(i)'
      BY <2>1, <2>2 DEF Deleted, Did, Target
    <3> QED
      BY <2>2, <3>1, DeletedStays
  <2>4. CASE Loaded(r) /\ local'[r] = local[r]
    BY <2>1, <2>3, <2>4 DEF CreditInv, LoadedShowsCredit
  <2>5. CASE PreloadPayments(r)
    <3>1. /\ local'[r].row = local[r].row
          /\ local'[r].pays = payments[i]
      BY <2>1, <2>5 DEF PreloadPayments, TypeInv, TypeOK, Memory
    <3>2. InFlight(r)
      BY <2>5 DEF PreloadPayments, InFlight, Running
    <3> QED
      BY <2>1, <2>2, <2>3, <3>1, <3>2 DEF CreditInv, MemoryBacked, Backed
  <2> QED
    BY <2>4, <2>5, LoadedStays
<1>3. MemoryBacked'
  <2> SUFFICES ASSUME NEW r \in Req, InFlight(r)'
               PROVE  /\ call'[r].op = "Create" => local'[r].row.paid = {}
                      /\ call'[r].op # "Create" => Backed(r)'
                      /\ call'[r].op = "Pay" /\ pc'[r] \in {"save", "publish"} => Booked(r)'
    BY DEF MemoryBacked
  <2>1. CASE LoadInvoice(r)
    <3>1. PICK c \in ExistingCall :
              /\ pc[r] = "idle"
              /\ call' = [call EXCEPT ![r] = c]
              /\ local' = [local EXCEPT ![r].row = invoices[c.inv]]
              /\ pc' = [pc EXCEPT ![r] = IF Live(c.inv) THEN "items" ELSE "failed"]
              /\ UNCHANGED <<tables, published>>
      BY <2>1 DEF LoadInvoice, Goto
    <3>2. c.inv \in Req /\ c.op # "Create"
      BY DEF ExistingCall, UpdateCall, ReadCall, DeleteCall, StatusCall, PayCall
    <3>3. /\ call'[r] = c /\ local'[r].row = invoices[c.inv]
          /\ local'[r].pays = local[r].pays
      BY <3>1 DEF TypeInv, TypeOK, Memory
    <3>4. pc'[r] = "items" /\ Live(c.inv)
      BY <3>1 DEF TypeInv, TypeOK, InFlight, Running
    <3>5. local[r].pays = {} /\ payments' = payments
      BY <3>1 DEF CreditInv, IdleHoldsNothing, tables
    <3>6. Deleted(c.inv) \/ invoices[c.inv].paid \subseteq payments[c.inv]
      BY <3>2, <3>4 DEF CreditInv, CreditedWasReceived
    <3>7. Deleted(c.inv) => Deleted(c.inv)'
      BY <3>2, DeletedStays
    <3>8. Backed(r)'
      BY <3>3, <3>5, <3>6, <3>7 DEF Backed, Deleted, Did, Target
    <3> QED
      BY <3>2, <3>3, <3>4, <3>8
  <2>2. CASE CreateCount(r)
    <3>1. call'[r].op = "Create" /\ local'[r].row.paid = {}
      BY <2>2 DEF CreateCount, CreateCall, NewInvoice, TypeInv, TypeOK
    <3> QED
      BY <3>1
  <2>3. CASE PreloadPayments(r)
    <3>1. /\ pc[r] = "pays" /\ InFlight(r) /\ pc[r] # "idle"
          /\ call' = call /\ payments' = payments
          /\ local'[r].row = local[r].row
          /\ local'[r].pays = payments[call[r].inv]
      BY <2>3 DEF PreloadPayments, InFlight, Running, tables, TypeInv, TypeOK, Memory
    <3>2. /\ call[r] \in ExistingCall /\ call[r].inv \in Req /\ call[r].op # "Create"
      BY <3>1 DEF TypeInv, Stages, Serving, ExistingCall, UpdateCall, ReadCall,
                  DeleteCall, StatusCall, PayCall
    <3>3. Backed(r)
      BY <3>1, <3>2 DEF CreditInv, MemoryBacked
    <3>4. Deleted(call[r].inv) => Deleted(call[r].inv)'
      BY <3>1, <3>2, DeletedStays DEF Deleted, Did, Target
    <3>5. Backed(r)'
      BY <3>1, <3>3, <3>4 DEF Backed, Deleted, Did, Target
    <3>6. call[r].op = "Pay" => pc'[r] = "record"
      BY <2>3 DEF PreloadPayments, Goto, AfterLoad, TypeInv, TypeOK
    <3> QED
      BY <3>1, <3>2, <3>5, <3>6
  <2>4. CASE PayRecord(r)
    <3>1. /\ pc[r] = "record" /\ InFlight(r) /\ pc[r] # "idle"
          /\ call' = call /\ local' = local
          /\ call[r] \in PayCall
      BY <2>4 DEF PayRecord, InFlight, Running, TypeInv, Stages, Serving
    <3>2. call[r].inv \in Req /\ call[r].op = "Pay"
      BY <3>1 DEF PayCall
    <3>3. PaymentOf(r) \in payments'[call[r].inv]
      BY <2>4, <3>2 DEF PayRecord, InsertPayment, TypeInv, TypeOK
    <3>4. Booked(r)'
      BY <3>1, <3>3 DEF Booked, PaymentOf
    <3>5. Backed(r)'
      BY <3>1, <3>2, BackingLasts DEF CreditInv, MemoryBacked
    <3> QED
      BY <3>1, <3>2, <3>4, <3>5
  <2>5. CASE /\ InFlight(r) /\ pc[r] # "idle"
             /\ local'[r].row = local[r].row /\ local'[r].pays = local[r].pays
             /\ call[r].op = "Pay" /\ pc'[r] \in {"save", "publish"}
                    => pc[r] \in {"save", "publish"}
    <3>1. call'[r] = call[r]
      BY <2>5, AnswersStay
    <3>2. call[r].op # "Create" => Backed(r)'
      BY <2>5, <3>1, BackingLasts DEF CreditInv, MemoryBacked
    <3>3. call[r].op = "Pay" /\ pc'[r] \in {"save", "publish"} => Booked(r)'
      BY <2>5, BackingLasts DEF CreditInv, MemoryBacked
    <3> QED
      BY <2>5, <3>1, <3>2, <3>3 DEF CreditInv, MemoryBacked
  <2>6. CASE CreateInsert(r) \/ UpdateClear(r) \/ StatusSave(r) \/ PaySave(r)
             \/ PreloadItems(r)
    <3>1. InFlight(r) /\ pc[r] # "idle"
      BY <2>6 DEF CreateInsert, UpdateClear, StatusSave, PaySave, PreloadItems,
                  InFlight, Running
    <3>2. local'[r].row = local[r].row /\ local'[r].pays = local[r].pays
      BY <2>6 DEF CreateInsert, UpdateClear, StatusSave, PaySave, PreloadItems,
                  TypeInv, TypeOK, Memory
    <3>3. call[r].op = "Pay" /\ pc'[r] \in {"save", "publish"}
             => pc[r] \in {"save", "publish"}
      BY <2>6 DEF CreateInsert, UpdateClear, StatusSave, PaySave, PreloadItems, Goto,
                  TypeInv, TypeOK, Stages, Serving, CreateCall, UpdateCall
    <3> QED
      BY <2>5, <3>1, <3>2, <3>3
  <2>7. CASE UNCHANGED <<pc[r], local[r]>>
    BY <2>5, <2>7 DEF InFlight, Running
  <2>8. ASSUME Acts(r), ~LoadInvoice(r), ~CreateCount(r), ~PreloadPayments(r), ~PayRecord(r),
               ~CreateInsert(r), ~UpdateClear(r), ~StatusSave(r), ~PaySave(r), ~PreloadItems(r)
        PROVE  FALSE
    BY <2>8 DEF Acts, Step, GetByID, InvoiceStep, PaymentStep, StatementFails,
         CreateRejected, UpdateSave, UpdateRejected, ItemNameMissing, StatusRejected,
         StatusAudit, AuditLost, DeleteCommit, Publish, EventLost, PayRecordRejected,
         PaySaveRejected, Return, Goto, InFlight, Running, TypeInv, TypeOK
  <2>9. ASSUME NEW q \in Req \ {r}, Acts(q) PROVE UNCHANGED <<pc[r], local[r]>>
    BY <2>9, StepFrame
  <2>10. ~Crash
    BY DEF Crash, InFlight, Running, TypeInv, TypeOK
  <2>11. CASE UNCHANGED vars
    BY <2>7, <2>11 DEF vars, process
  <2> QED
    BY <2>1, <2>2, <2>3, <2>4, <2>6, <2>7, <2>8, <2>9, <2>10, <2>11 DEF Next, Acts
<1>4. IdleHoldsNothing'
  <2> SUFFICES ASSUME NEW r \in Req, pc'[r] = "idle" PROVE local'[r].pays = {}
    BY DEF IdleHoldsNothing
  <2>1. ~Acts(r)
    BY StepFrame
  <2>2. CASE \E q \in Req \ {r} : Acts(q)
    BY <2>2, StepFrame DEF CreditInv, IdleHoldsNothing
  <2>3. CASE Crash
    BY <2>3 DEF Crash, CreditInv, IdleHoldsNothing, InFlight, Running, EmptyMemory
  <2>4. CASE UNCHANGED vars
    BY <2>4 DEF vars, process, CreditInv, IdleHoldsNothing
  <2> QED
    BY <2>1, <2>2, <2>3, <2>4 DEF Next, Acts
<1> QED
  BY <1>1, <1>2, <1>3, <1>4 DEF CreditInv

\* Whatever overlaps and fails, an invoice of a deployment of any size claims no
\* credit that the payments table does not show, unless it was deleted.
THEOREM CreditReceived == Spec => []CreditedWasReceived
<1>1. Spec => []CreditInv
  BY Typed, CreditInit, CreditStep, PTL DEF Spec
<1> QED
  BY <1>1, PTL DEF CreditInv

\* Nor does an invoice GetByID returned count a payment it does not list.
THEOREM LoadsShowCredit == Spec => []LoadedShowsCredit
<1>1. Spec => []CreditInv
  BY Typed, CreditInit, CreditStep, PTL DEF Spec
<1> QED
  BY <1>1, PTL DEF CreditInv
-----------------------------------------------------------------------------
(* Events: what an event speaks of is in the tables from before it is       *)
(* published until a delete.                                                *)

Told(r) ==
    \/ Deleted(Target(r))
    \/ call[r].op = "Create" /\ Live(r)
    \/ call[r].op = "Pay" /\ PaymentOf(r) \in payments[call[r].inv]

EventInv ==
    \A r \in Req :
        /\ r \in published => pc[r] = "ok" /\ Told(r)
        /\ pc[r] = "publish" => Told(r)

LEMMA ToldLasts ==
    ASSUME TypeInv, [Next]_vars, NEW r \in Req, pc[r] # "idle", Told(r)
    PROVE  Told(r)'
<1>1. call'[r] = call[r] /\ Target(r) \in Req
  BY AnswersStay, CallType, TargetType DEF Target
<1>2. CASE Deleted(Target(r))
  BY <1>1, <1>2, DeletedStays DEF Told, Deleted, Did, Target
<1>3. CASE call[r].op = "Create" /\ Live(r)
  <2>1. Live(r)' \/ Deleted(r)'
    BY <1>3, TablesGrow
  <2>2. Target(r)' = r
    BY <1>1, <1>3 DEF Target
  <2>3. Deleted(r)' => Deleted(Target(r))'
    BY <2>2 DEF Deleted, Did
  <2> QED
    BY <1>1, <1>3, <2>1, <2>3 DEF Told
<1>4. CASE call[r].op = "Pay" /\ PaymentOf(r) \in payments[call[r].inv]
  <2>1. Booked(r)'
    BY <1>4, BackingLasts DEF Booked
  <2>2. Target(r)' = call'[r].inv
    BY <1>1, <1>4 DEF Target
  <2>3. Deleted(call[r].inv)' => Deleted(Target(r))'
    BY <2>2 DEF Deleted, Did
  <2> QED
    BY <1>1, <1>4, <2>1, <2>3 DEF Told, Booked
<1> QED
  BY <1>2, <1>3, <1>4 DEF Told

LEMMA EventInit == Init => EventInv
BY DEF Init, StoreInit, EventInv

LEMMA PublishedBy ==
    ASSUME [Next]_vars, NEW r \in Req, r \in published'
    PROVE  r \in published \/ Publish(r)
<1>1. ASSUME NEW q \in Req, Acts(q), ~Publish(q) PROVE published' = published
  BY <1>1 DEF Acts, Step, GetByID, InvoiceStep, PaymentStep, StatementFails,
     LoadInvoice, PreloadItems, PreloadPayments, CreateCount, CreateInsert,
     CreateRejected, UpdateClear, UpdateSave, UpdateRejected, ItemNameMissing,
     StatusSave, StatusRejected, StatusAudit, AuditLost, DeleteCommit,
     EventLost, PayRecord, PayRecordRejected, PaySave, PaySaveRejected
<1>2. ASSUME NEW q \in Req, Publish(q) PROVE published' = published \cup {q}
  BY <1>2 DEF Publish
<1>3. Crash \/ UNCHANGED vars => published' = published
  BY DEF Crash, vars
<1> QED
  BY <1>1, <1>2, <1>3 DEF Next, Acts

LEMMA EventStep == TypeInv /\ CreditInv /\ EventInv /\ [Next]_vars => EventInv'
<1> SUFFICES ASSUME TypeInv, CreditInv, EventInv, [Next]_vars, NEW r \in Req
             PROVE  /\ r \in published' => pc'[r] = "ok" /\ Told(r)'
                    /\ pc'[r] = "publish" => Told(r)'
  BY DEF EventInv
<1>1. CASE r \in published
  <2>1. pc[r] = "ok" /\ Told(r)
    BY <1>1 DEF EventInv
  <2> QED
    BY <2>1, AnswersStay, ToldLasts DEF Answered
<1>2. CASE pc[r] = "publish"
  <2>1. Told(r)'
    BY <1>2, ToldLasts DEF EventInv
  <2>2. Publish(r) => pc'[r] = "ok"
    BY DEF Publish, Return, Goto, TypeInv, TypeOK
  <2>3. r \in published' => pc'[r] = "ok"
    BY <1>1, <1>2, <2>2, PublishedBy, AnswersStay DEF EventInv, Answered
  <2> QED
    BY <2>1, <2>3
<1>3. CASE r \notin published /\ pc[r] # "publish"
  <2>1. r \notin published'
    BY <1>3, PublishedBy DEF Publish
  <2>2. ASSUME pc'[r] = "publish" PROVE CreateInsert(r) \/ PaySave(r)
    <3>1. CASE Acts(r)
      <4>1. ~PreloadPayments(r)
        <5>1. PreloadPayments(r) => AfterLoad[call[r].op] # "publish"
          <6>1. PreloadPayments(r) => call[r] \in ExistingCall
            BY DEF PreloadPayments, TypeInv, Stages, Serving
          <6>2. call[r] \in ExistingCall => call[r].op \in {"Get", "Update", "Delete", "Status", "Pay"}
            BY DEF ExistingCall, UpdateCall, ReadCall, DeleteCall, StatusCall, PayCall
          <6> QED
            BY <6>1, <6>2 DEF AfterLoad
        <5> QED
          BY <2>2, <5>1 DEF PreloadPayments, Goto, TypeInv, TypeOK
      <4> QED
        BY <2>2, <3>1, <4>1 DEF Acts, Step, GetByID, InvoiceStep, PaymentStep,
           StatementFails, LoadInvoice, PreloadItems, CreateCount, CreateRejected,
           UpdateClear, UpdateSave, UpdateRejected, ItemNameMissing, StatusSave,
           StatusRejected, StatusAudit, AuditLost, DeleteCommit, Publish, EventLost,
           PayRecord, PayRecordRejected, PaySaveRejected, Goto, Return, TypeInv, TypeOK
    <3>2. \A q \in Req \ {r} : ~Acts(q)
      BY <1>3, <2>2, StepFrame
    <3>3. ~Crash /\ ~UNCHANGED vars
      BY <1>3, <2>2 DEF Crash, vars, process, TypeInv, TypeOK
    <3> QED
      BY <3>1, <3>2, <3>3 DEF Next, Acts
  <2>3. CASE CreateInsert(r)
    <3>1. call[r].op = "Create" /\ call'[r] = call[r] /\ local[r].row \in Row
      BY <2>3 DEF CreateInsert, TypeInv, Stages, Serving, CreateCall, InFlight, Running
    <3>2. Live(r)'
      BY <2>3, <3>1, NoRowAssumption DEF CreateInsert, Insert, Live, TypeInv, TypeOK
    <3> QED
      BY <2>1, <3>1, <3>2 DEF Told
  <2>4. CASE PaySave(r)
    <3>1. /\ InFlight(r) /\ pc[r] = "save" /\ call[r].op = "Pay" /\ pc[r] # "idle"
      BY <2>4 DEF PaySave, InFlight, Running
    <3>2. Booked(r)
      BY <3>1 DEF CreditInv, MemoryBacked
    <3>3. Told(r)
      BY <3>1, <3>2 DEF Told, Booked, Target
    <3> QED
      BY <2>1, <3>1, <3>3, ToldLasts
  <2> QED
    BY <2>1, <2>2, <2>3, <2>4
<1> QED
  BY <1>1, <1>2, <1>3

\* Every published event is about a committed invoice or payment.
THEOREM EventsTrue == Spec => []EventsTellTruth
<1>1. EventInv /\ TypeInv => EventsTellTruth
  BY DEF EventInv, EventsTellTruth, Told, TypeInv, TypeOK
<1> QED
  BY <1>1, Typed, CreditInit, CreditStep, EventInit, EventStep, PTL DEF Spec

-----------------------------------------------------------------------------
(* Balance: every invoice a request holds, and every stored one, settles.   *)

BalanceInv ==
    /\ BalanceMatchesCredit
    /\ \A r \in Req : InFlight(r) => Settles(local[r].row)

LEMMA NewInvoiceSettles ==
    ASSUME NEW r \in Req, NEW org \in Org, NEW c \in Carts, NEW num \in Nat
    PROVE  Settles(NewInvoice(r, org, c, num))
<1>1. SumOf(ItemsOf(r, c)) \in Int /\ c.extra \in Int /\ SumOf({}) = 0
  BY LineSum, SumOfEmpty, CartAssumption DEF CartType
<1> QED
  BY <1>1 DEF NewInvoice, Settles

LEMMA RewrittenSettles ==
    ASSUME NEW r \in Req, local[r].row \in Row
    PROVE  Settles(Rewritten(r))
BY DEF Rewritten, Settles, Row

LEMMA RestatedSettles ==
    ASSUME NEW r \in Req, local[r].row \in Row, Settles(local[r].row)
    PROVE  Settles(Restated(r))
BY DEF Restated, Settles, Row

LEMMA CreditedSettles ==
    ASSUME NEW r \in Req, local[r].row \in Row, call[r] \in PayCall
    PROVE  Settles(Credited(r))
<1> DEFINE row     == local[r].row
           paid    == row.paid \cup {PaymentOf(r)}
           balance == row.total - SumOf(paid)
<1>1. paid \in SUBSET Payment
  BY PaymentOfType DEF Row
<1>2. balance \in Int
  BY <1>1, PaidSum DEF Row
<1>3. /\ Credited(r).total = row.total
      /\ Credited(r).paid = paid
      /\ Credited(r).balance = IF balance <= 0 THEN 0 ELSE balance
  BY DEF Credited, Row
<1> HIDE DEF row, paid
<1> QED
  BY <1>2, <1>3 DEF Settles

\* From its first statement on, a request keeps the invoice it holds.
LEMMA RowKept ==
    ASSUME TypeInv, [Next]_vars, NEW r \in Req, InFlight(r)'
    PROVE  \/ LoadInvoice(r) \/ CreateCount(r)
           \/ InFlight(r) /\ call'[r] = call[r] /\ local'[r].row = local[r].row
<1>1. CASE Acts(r) /\ ~LoadInvoice(r) /\ ~CreateCount(r)
  <2>1. InFlight(r) /\ pc[r] # "idle"
    BY <1>1, FirstStatement, StepFrame DEF TypeInv, TypeOK, InFlight, Running
  <2>2. local'[r].row = local[r].row
    BY <1>1 DEF Acts, Step, GetByID, InvoiceStep, PaymentStep, StatementFails,
       PreloadItems, PreloadPayments, CreateInsert, CreateRejected, UpdateClear,
       UpdateSave, UpdateRejected, ItemNameMissing, StatusSave, StatusRejected,
       StatusAudit, AuditLost, DeleteCommit, Publish, EventLost, PayRecord,
       PayRecordRejected, PaySave, PaySaveRejected, Return, Goto, InFlight, Running,
       TypeInv, TypeOK, Memory
  <2> QED
    BY <2>1, <2>2, AnswersStay
<1>2. CASE UNCHANGED <<pc[r], call[r], local[r]>>
  BY <1>2 DEF InFlight
<1>3. ASSUME NEW q \in Req \ {r}, Acts(q) PROVE UNCHANGED <<pc[r], call[r], local[r]>>
  BY <1>3, StepFrame
<1>4. ~Crash
  BY DEF Crash, InFlight, Running, TypeInv, TypeOK
<1>5. CASE UNCHANGED vars
  BY <1>2, <1>5 DEF vars, process
<1> QED
  BY <1>1, <1>2, <1>3, <1>4, <1>5 DEF Next, Acts

LEMMA BalanceInit == Init => BalanceInv
BY DEF Init, StoreInit, BalanceInv, BalanceMatchesCredit, Live, InFlight, Running

LEMMA BalanceStep == TypeInv /\ BalanceInv /\ [Next]_vars => BalanceInv'
<1> SUFFICES ASSUME TypeInv, BalanceInv, [Next]_vars PROVE BalanceInv'
  OBVIOUS
<1>1. BalanceMatchesCredit'
  <2> SUFFICES ASSUME NEW i \in Req, Live(i)' PROVE Settles(invoices'[i])
    BY DEF BalanceMatchesCredit, Settles
  <2>1. CASE invoices'[i] = invoices[i]
    BY <2>1 DEF BalanceInv, BalanceMatchesCredit, Live
  <2>2. ASSUME NEW r \in Req, Written(r, i) PROVE Settles(invoices'[i])
    <3>1. InFlight(r) /\ local[r].row \in Row /\ Settles(local[r].row)
      BY <2>2 DEF Written, CreateInsert, UpdateSave, StatusSave, PaySave, InFlight,
                  Running, TypeInv, Stages, BalanceInv
    <3>2. PaySave(r) => call[r] \in PayCall
      BY DEF PaySave, TypeInv, Stages, Serving, UpdateCall, StatusCall
    <3> QED
      BY <2>2, <3>1, <3>2, RewrittenSettles, RestatedSettles, CreditedSettles DEF Written
  <2> QED
    BY <2>1, <2>2, RowsWritten
<1>2. ASSUME NEW r \in Req, InFlight(r)' PROVE Settles(local'[r].row)
  <2>1. CASE LoadInvoice(r)
    <3>1. PICK c \in ExistingCall :
              /\ local' = [local EXCEPT ![r].row = invoices[c.inv]]
              /\ pc' = [pc EXCEPT ![r] = IF Live(c.inv) THEN "items" ELSE "failed"]
      BY <2>1 DEF LoadInvoice, Goto
    <3>2. c.inv \in Req
      BY DEF ExistingCall, UpdateCall, ReadCall, DeleteCall, StatusCall, PayCall
    <3>3. Live(c.inv) /\ local'[r].row = invoices[c.inv]
      BY <1>2, <3>1 DEF TypeInv, TypeOK, Memory, InFlight, Running
    <3> QED
      BY <3>2, <3>3 DEF BalanceInv, BalanceMatchesCredit
  <2>2. CASE CreateCount(r)
    <3>1. PICK c \in CreateCall :
              local'[r].row = NewInvoice(r, c.org, c.cart, NextNumber(c.org))
      BY <2>2 DEF CreateCount, TypeInv, TypeOK
    <3>2. c.org \in Org /\ c.cart \in Carts
      BY DEF CreateCall
    <3> QED
      BY <3>1, <3>2, NewInvoiceSettles, NextNumberType
  <2>3. CASE InFlight(r) /\ local'[r].row = local[r].row
    BY <2>3 DEF BalanceInv
  <2> QED
    BY <1>2, <2>1, <2>2, <2>3, RowKept
<1> QED
  BY <1>1, <1>2 DEF BalanceInv, Settles

\* Balance, total and paid amount of a stored invoice agree, however stale the
\* save that wrote it.
THEOREM BalancesMatch == Spec => []BalanceMatchesCredit
<1>1. Spec => []BalanceInv
  BY Typed, BalanceInit, BalanceStep, PTL DEF Spec
<1> QED
  BY <1>1, PTL DEF BalanceInv

=============================================================================
