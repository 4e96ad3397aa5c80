----------------------------- MODULE TotalsProofs -----------------------------
(***************************************************************************)
(* Theorems about InvoiceTotals, for all bodies, amounts and numbers of    *)
(* calls: how far rounding can take the stored columns apart.              *)
(***************************************************************************)
EXTENDS InvoiceTotals, Sums

-----------------------------------------------------------------------------
(* Columns.                                                                 *)

\* Rounding, either way, is off by half a cent at most.
LEMMA ComputedClose ==
    ASSUME NEW x \in Int, NEW up \in BOOLEAN
    PROVE  /\ Computed(x, up) \in Int
           /\ 100 * Computed(x, up) <= x + 50 /\ x <= 100 * Computed(x, up) + 50
BY DEF Computed

LEMMA GivenClose ==
    ASSUME NEW x \in Int
    PROVE  /\ Given(x) \in Int
           /\ 100 * Given(x) <= x + 50 /\ x <= 100 * Given(x) + 50
           /\ x >= 0 => Given(x) >= 0
BY DEF Given

\* Only halves are rounded in different ways.
LEMMA SameRounding ==
    ASSUME NEW x \in Int, x % 100 # 50, NEW up \in BOOLEAN
    PROVE  Given(x) = Computed(x, up)
BY DEF Given, Computed

-----------------------------------------------------------------------------
(* The bill of a body.                                                      *)

LEMMA BodyParts ==
    ASSUME NEW b \in Bodies
    PROVE  /\ b.lines \in Seq(LineType) /\ b.adjustment \in Int /\ b.excise \in Int
           /\ DOMAIN b.lines = 1 .. Len(b.lines) /\ Len(b.lines) \in Nat
           /\ IsFiniteSet(DOMAIN b.lines) /\ Cardinality(DOMAIN b.lines) = Len(b.lines)
           /\ \A k \in DOMAIN b.lines :
                  /\ b.lines[k].qty * b.lines[k].price \in Int
                  /\ b.lines[k].discount \in Int /\ b.lines[k].tax \in Int
                  /\ ItemTotal(b.lines[k]) \in Int
<1>1. b.lines \in Seq(LineType) /\ b.adjustment \in Int /\ b.excise \in Int
  BY BodyAssumption DEF BodyType
<1>2. DOMAIN b.lines = 1 .. Len(b.lines) /\ Len(b.lines) \in Nat
  BY <1>1
<1>3. IsFiniteSet(DOMAIN b.lines) /\ Cardinality(DOMAIN b.lines) = Len(b.lines)
  BY <1>2, FS_Interval
<1>4. ASSUME NEW k \in DOMAIN b.lines
      PROVE  /\ b.lines[k].qty * b.lines[k].price \in Int
             /\ b.lines[k].discount \in Int /\ b.lines[k].tax \in Int
             /\ ItemTotal(b.lines[k]) \in Int
  <2>1. PICK l \in LineType : l = b.lines[k]
    BY <1>1
  <2>2. l.qty \in Int /\ l.price \in Int /\ l.discount \in Int /\ l.tax \in Int
    BY <2>1 DEF LineType
  <2>3. PICK p : p = l.qty * l.price
    OBVIOUS
  <2>4. p \in Int
    BY <2>2, <2>3
  <2> QED
    BY <2>1, <2>2, <2>3, <2>4 DEF ItemTotal
<1> QED
  BY <1>1, <1>2, <1>3, <1>4

\* The total of the lines, summed line by line or column by column.
LEMMA LineTotals ==
    ASSUME NEW b \in Bodies
    PROVE  /\ SubTotal(b) \in Int /\ DiscountTotal(b) \in Int /\ TaxTotal(b) \in Int
           /\ TotalAmount(b) \in Int
           /\ SumFunctionOnSet([k \in DOMAIN b.lines |-> ItemTotal(b.lines[k])], DOMAIN b.lines)
                  = SubTotal(b) - DiscountTotal(b) + TaxTotal(b)
<1>1. PICK S : S = DOMAIN b.lines
  OBVIOUS
<1>2. PICK f, g, h, t, m :
          /\ f = [k \in S |-> b.lines[k].qty * b.lines[k].price]
          /\ g = [k \in S |-> b.lines[k].discount]
          /\ h = [k \in S |-> b.lines[k].tax]
          /\ t = [k \in S |-> ItemTotal(b.lines[k])]
          /\ m = [k \in S |-> f[k] + h[k]]
  OBVIOUS
<1>3. /\ IsFiniteSet(S)
      /\ \A k \in S : f[k] \in Int /\ g[k] \in Int /\ h[k] \in Int /\ t[k] \in Int
  BY <1>1, <1>2, BodyParts
<1>4. \A k \in S : /\ m[k] = f[k] + h[k] /\ m[k] \in Int
                   /\ m[k] = t[k] + g[k]
  <2>1. \A k \in S : m[k] = f[k] + h[k]
    BY <1>2
  <2>2. ASSUME NEW k \in S PROVE t[k] = f[k] - g[k] + h[k]
    <3>1. PICK p : p = b.lines[k].qty * b.lines[k].price
      OBVIOUS
    <3>2. t[k] = p - b.lines[k].discount + b.lines[k].tax
      BY <1>2, <3>1 DEF ItemTotal
    <3> QED
      BY <1>2, <3>1, <3>2
  <2> QED
    BY <1>3, <2>1, <2>2
<1>5. SumFunctionOnSet(m, S) = SumFunctionOnSet(f, S) + SumFunctionOnSet(h, S)
  BY <1>3, <1>4, SumPlus
<1>6. SumFunctionOnSet(m, S) = SumFunctionOnSet(t, S) + SumFunctionOnSet(g, S)
  BY <1>3, <1>4, SumPlus
<1>7. /\ SumFunctionOnSet(f, S) \in Int /\ SumFunctionOnSet(g, S) \in Int
      /\ SumFunctionOnSet(h, S) \in Int /\ SumFunctionOnSet(t, S) \in Int
  BY <1>3, SumType
<1>8. /\ SubTotal(b) = SumFunctionOnSet(f, S) /\ DiscountTotal(b) = SumFunctionOnSet(g, S)
      /\ TaxTotal(b) = SumFunctionOnSet(h, S)
  BY <1>1, <1>2 DEF SubTotal, DiscountTotal, TaxTotal, SumFunction
<1>9. TotalAmount(b) \in Int
  BY <1>7, <1>8, BodyParts DEF TotalAmount
<1>10. SumFunctionOnSet(t, S) = SubTotal(b) - DiscountTotal(b) + TaxTotal(b)
  BY <1>5, <1>6, <1>7, <1>8
<1>11. t = [k \in DOMAIN b.lines |-> ItemTotal(b.lines[k])]
  BY <1>1, <1>2
<1> QED
  BY <1>1, <1>7, <1>8, <1>9, <1>10, <1>11

\* What is stored for the lines.
LEMMA LinesStored ==
    ASSUME NEW b \in Bodies, StoreLines(b)
    PROVE  /\ lines' \in Seq(Int) /\ Len(lines') = Len(b.lines)
           /\ SumFunction(lines') \in Int
           /\ 100 * SumFunction(lines')
                <= SubTotal(b) - DiscountTotal(b) + TaxTotal(b) + 50 * Len(lines')
           /\ SubTotal(b) - DiscountTotal(b) + TaxTotal(b)
                <= 100 * SumFunction(lines') + 50 * Len(lines')
<1>1. PICK up \in [DOMAIN b.lines -> BOOLEAN] :
          lines' = [k \in DOMAIN b.lines |-> Computed(ItemTotal(b.lines[k]), up[k])]
  BY DEF StoreLines
<1>2. PICK S, s, t : /\ S = DOMAIN b.lines /\ s = lines'
                     /\ t = [k \in S |-> ItemTotal(b.lines[k])]
  OBVIOUS
<1>3. /\ IsFiniteSet(S) /\ Cardinality(S) = Len(b.lines) /\ S = 1 .. Len(b.lines)
      /\ Len(b.lines) \in Nat /\ DOMAIN s = S
  BY <1>1, <1>2, BodyParts
<1>4. ASSUME NEW k \in S
      PROVE  /\ s[k] \in Int /\ t[k] \in Int
             /\ 100 * s[k] <= t[k] + 50 /\ t[k] <= 100 * s[k] + 50
  <2>1. PICK x \in Int : x = ItemTotal(b.lines[k])
    BY <1>2, BodyParts
  <2>2. s[k] = Computed(x, up[k]) /\ t[k] = x /\ up[k] \in BOOLEAN
    BY <1>1, <1>2, <2>1
  <2> QED
    BY <2>2, ComputedClose
<1>5. /\ 100 * SumFunctionOnSet(s, S) <= SumFunctionOnSet(t, S) + 50 * Cardinality(S)
      /\ SumFunctionOnSet(t, S) <= 100 * SumFunctionOnSet(s, S) + 50 * Cardinality(S)
  BY <1>3, <1>4, SumRounded
<1>6. s \in Seq(Int) /\ Len(s) = Len(b.lines)
  <2>1. s = [k \in 1 .. Len(b.lines) |-> s[k]]
    BY <1>1, <1>2, <1>3
  <2> QED
    BY <1>3, <1>4, <2>1
<1>7. SumFunction(s) = SumFunctionOnSet(s, S) /\ SumFunctionOnSet(s, S) \in Int
  <2>1. SumFunctionOnSet(s, S) \in Int
    BY <1>3, <1>4, SumType
  <2> QED
    BY <1>3, <2>1 DEF SumFunction
<1>8. SumFunctionOnSet(t, S) = SubTotal(b) - DiscountTotal(b) + TaxTotal(b)
  BY <1>2, LineTotals
<1> QED
  BY <1>2, <1>3, <1>5, <1>6, <1>7, <1>8

LEMMA BillFacts ==
    ASSUME NEW b \in Bodies, NEW paid \in Int, NEW status \in Statuses, NEW up \in Ways
    PROVE  /\ Bill(b, paid, status, up) \in Invoice
           /\ Bill(b, paid, status, up).paid = paid
           /\ Bill(b, paid, status, up).status = status
           /\ Bill(b, paid, status, up).adjustment = Given(b.adjustment)
           /\ Bill(b, paid, status, up).excise = Given(b.excise)
           /\ 100 * Bill(b, paid, status, up).total <= TotalAmount(b) + 50
           /\ TotalAmount(b) <= 100 * Bill(b, paid, status, up).total + 50
           /\ Distance(Bill(b, paid, status, up).balance,
                       Bill(b, paid, status, up).total - paid) <= 1
           /\ Distance(Bill(b, paid, status, up).total,
                       Bill(b, paid, status, up).sub - Bill(b, paid, status, up).discount
                           + Bill(b, paid, status, up).tax
                           + Bill(b, paid, status, up).adjustment
                           + Bill(b, paid, status, up).excise) <= 3
<1>1. PICK S, D, T, A, X, all :
          /\ S = SubTotal(b) /\ D = DiscountTotal(b) /\ T = TaxTotal(b)
          /\ A = b.adjustment /\ X = b.excise /\ all = TotalAmount(b)
  OBVIOUS
<1>2. /\ S \in Int /\ D \in Int /\ T \in Int /\ A \in Int /\ X \in Int /\ all \in Int
      /\ all = S - D + T + A + X
  BY <1>1, BodyParts, LineTotals DEF TotalAmount
<1>3. PICK w : w = IF payments = <<>> THEN "total" ELSE "balance"
  OBVIOUS
<1>4. /\ up["sub"] \in BOOLEAN /\ up["discount"] \in BOOLEAN /\ up["tax"] \in BOOLEAN
      /\ up["total"] \in BOOLEAN /\ up[w] \in BOOLEAN
  BY <1>3 DEF Ways
<1>5. PICK s, d, t, j, x, u, v :
          /\ s = Computed(S, up["sub"]) /\ d = Computed(D, up["discount"])
          /\ t = Computed(T, up["tax"]) /\ j = Given(A) /\ x = Given(X)
          /\ u = Computed(all, up["total"]) /\ v = Computed(all - 100 * paid, up[w])
  OBVIOUS
<1>6. Bill(b, paid, status, up)
        = [sub |-> s, discount |-> d, tax |-> t, adjustment |-> j, excise |-> x, total |-> u,
           paid |-> paid, balance |-> v, status |-> status]
  BY <1>1, <1>3, <1>5 DEF Bill
<1>7. /\ s \in Int /\ 100 * s <= S + 50 /\ S <= 100 * s + 50
      /\ d \in Int /\ 100 * d <= D + 50 /\ D <= 100 * d + 50
      /\ t \in Int /\ 100 * t <= T + 50 /\ T <= 100 * t + 50
  BY <1>2, <1>4, <1>5, ComputedClose
<1>8. /\ j \in Int /\ 100 * j <= A + 50 /\ A <= 100 * j + 50
      /\ x \in Int /\ 100 * x <= X + 50 /\ X <= 100 * x + 50
  BY <1>2, <1>5, GivenClose
<1>9. u \in Int /\ 100 * u <= all + 50 /\ all <= 100 * u + 50
  BY <1>2, <1>4, <1>5, ComputedClose
<1>10. v \in Int /\ 100 * v <= all - 100 * paid + 50 /\ all - 100 * paid <= 100 * v + 50
  <2>1. PICK y \in Int : y = all - 100 * paid
    BY <1>2
  <2>2. v = Computed(y, up[w])
    BY <1>5, <2>1
  <2> QED
    BY <1>4, <2>1, <2>2, ComputedClose
<1>11. Distance(v, u - paid) <= 1
  BY <1>2, <1>9, <1>10 DEF Distance
<1>12. Distance(u, s - d + t + j + x) <= 3
  BY <1>2, <1>7, <1>8, <1>9 DEF Distance
<1>13. Bill(b, paid, status, up) \in Invoice
  BY <1>6, <1>7, <1>8, <1>9, <1>10 DEF Invoice
<1> QED
  BY <1>1, <1>5, <1>6, <1>9, <1>11, <1>12, <1>13

-----------------------------------------------------------------------------
(* A payment.                                                               *)

LEMMA PaymentType ==
    ASSUME TypeOK, NEW k \in DOMAIN payments
    PROVE  /\ payments[k].given \in Amounts /\ payments[k].given \in Int
           /\ payments[k].stored \in Int
<1>1. PICK R : R = [given: Amounts, stored: Int]
  OBVIOUS
<1>2. payments \in Seq(R)
  BY <1>1 DEF TypeOK
<1>3. PICK row \in R : row = payments[k]
  BY <1>2
<1>4. row.given \in Amounts /\ row.stored \in Int
  BY <1>1
<1> QED
  BY <1>3, <1>4, AmountAssumption

LEMMA CreditFacts ==
    ASSUME TypeOK, Stored, NEW a \in Amounts, NEW settled \in Settled(a), NEW up \in Ways
    PROVE  /\ Credited(a, settled, up) \in Invoice
           /\ Credited(a, settled, up).total = invoice.total
           /\ Credited(a, settled, up).sub = invoice.sub
           /\ Credited(a, settled, up).discount = invoice.discount
           /\ Credited(a, settled, up).tax = invoice.tax
           /\ Credited(a, settled, up).adjustment = invoice.adjustment
           /\ Credited(a, settled, up).excise = invoice.excise
           /\ Credited(a, settled, up).paid = Computed(100 * invoice.paid + a, up["paid"])
           /\ Credited(a, settled, up).status = StatusAfter(a, settled)
           /\ settled \in BOOLEAN
           /\ settled => Credited(a, settled, up).balance = 0
           /\ settled => 100 * invoice.total <= 100 * invoice.paid + a
           /\ ~settled => 100 * invoice.total >= 100 * invoice.paid + a
           /\ ~settled /\ invoice.paid = 0 => 100 * invoice.total > a
           /\ ~settled => Distance(Credited(a, settled, up).balance,
                                   invoice.total - Credited(a, settled, up).paid) <= 1
<1>1. /\ a \in Int /\ invoice \in Invoice /\ invoice.total \in Int /\ invoice.paid \in Int
      /\ invoice.status \in Statuses
  BY AmountAssumption DEF TypeOK, Stored, Invoice
<1>2. PICK p, o : p = 100 * invoice.paid + a /\ o = 100 * invoice.total - p
  OBVIOUS
<1>3. /\ p \in Int /\ o \in Int /\ p = PaidAfter(a) /\ o = Owed(a)
  BY <1>1, <1>2 DEF PaidAfter, Owed
<1>4. /\ settled \in BOOLEAN /\ (settled => o <= 0) /\ (~settled => o >= 0)
      /\ ~settled /\ invoice.paid = 0 => o > 0
  <2>1. CASE Owed(a) = 0 /\ invoice.paid # 0 /\ a # 0
    <3>1. settled \in BOOLEAN
      BY <2>1 DEF Settled
    <3> QED
      BY <1>3, <2>1, <3>1
  <2>2. CASE ~(Owed(a) = 0 /\ invoice.paid # 0 /\ a # 0)
    <3>1. settled \in {Owed(a) <= 0}
      BY <2>2 DEF Settled
    <3>2. settled = (Owed(a) <= 0)
      BY <3>1, Zenon
    <3>3. (Owed(a) <= 0) \in BOOLEAN
      BY <1>3
    <3> HIDE DEF Settled
    <3>4. settled \in BOOLEAN
      BY ONLY <3>2, <3>3, Zenon
    <3>5. (settled => Owed(a) <= 0) /\ (~settled => ~(Owed(a) <= 0))
      BY ONLY <3>2, Zenon
    <3> QED
      BY <1>3, <3>4, <3>5
  <2> QED
    BY <2>1, <2>2
<1>5. up["paid"] \in BOOLEAN /\ up["balance"] \in BOOLEAN
  BY DEF Ways
<1>6. PICK c, v, t : /\ c = Computed(p, up["paid"])
                     /\ v = IF settled THEN 0 ELSE Computed(o, up["balance"])
                     /\ t = StatusAfter(a, settled)
  OBVIOUS
<1>7. c \in Int /\ 100 * c <= p + 50 /\ p <= 100 * c + 50
  BY <1>3, <1>5, <1>6, ComputedClose
<1>8. v \in Int /\ (~settled => 100 * v <= o + 50 /\ o <= 100 * v + 50)
  BY <1>3, <1>5, <1>6, ComputedClose
<1>9. t \in Statuses
  BY <1>1, <1>4, <1>6 DEF StatusAfter, Statuses
<1>10. Credited(a, settled, up) = [invoice EXCEPT !.paid = c, !.balance = v, !.status = t]
  BY <1>3, <1>6 DEF Credited
<1>11. Credited(a, settled, up)
         = [sub |-> invoice.sub, discount |-> invoice.discount, tax |-> invoice.tax,
            adjustment |-> invoice.adjustment, excise |-> invoice.excise,
            total |-> invoice.total, paid |-> c, balance |-> v, status |-> t]
  BY <1>1, <1>10 DEF Invoice
<1>12. Credited(a, settled, up) \in Invoice
  BY <1>1, <1>7, <1>8, <1>9, <1>11 DEF Invoice
<1>13. ~settled => Distance(v, invoice.total - c) <= 1
  BY <1>1, <1>2, <1>7, <1>8 DEF Distance
<1> QED
  BY <1>1, <1>2, <1>4, <1>6, <1>11, <1>12, <1>13

\* The payments stored and the halves among them, before and after another payment.
LEMMA PaymentSums ==
    ASSUME TypeOK
    PROVE  PaidAmount \in Int /\ HalfCents \in Nat
<1>1. PICK n \in Nat : n = Len(payments) /\ DOMAIN payments = 1 .. n
  BY DEF TypeOK
<1>2. PICK f : f = [k \in 1 .. n |-> payments[k].stored]
  OBVIOUS
<1>3. IsFiniteSet(1 .. n) /\ \A k \in 1 .. n : f[k] \in Int
  <2>1. \A k \in 1 .. n : f[k] \in Int
    BY <1>1, <1>2, PaymentType
  <2> QED
    BY <1>1, <2>1, FS_Interval
<1>4. PaidAmount = SumFunctionOnSet(f, 1 .. n)
  BY <1>1, <1>2 DEF PaidAmount, SumFunction
<1>5. IsFiniteSet({k \in 1 .. n : payments[k].given % 100 = 50})
  BY <1>3, FS_Subset
<1> QED
  BY <1>1, <1>3, <1>4, <1>5, SumType, FS_CardinalityType DEF HalfCents

LEMMA PaymentAdded ==
    ASSUME TypeOK, NEW a \in Amounts, payments' = Append(payments, PaymentRow(a))
    PROVE  /\ PaidAmount' = PaidAmount + Given(a)
           /\ HalfCents' = HalfCents + IF a % 100 = 50 THEN 1 ELSE 0
<1>1. PICK n \in Nat : n = Len(payments) /\ DOMAIN payments = 1 .. n
  BY DEF TypeOK
<1>2. PICK new, row : new = n + 1 /\ row = PaymentRow(a)
  OBVIOUS
<1>3. /\ payments \in Seq([given: Amounts, stored: Int])
      /\ row.given = a /\ row.stored = Given(a) /\ a \in Int /\ Given(a) \in Int
  BY <1>2, AmountAssumption, GivenClose DEF TypeOK, PaymentRow
<1>4. /\ DOMAIN payments' = 1 .. new /\ payments'[new] = row
      /\ \A k \in 1 .. n : payments'[k] = payments[k]
      /\ 1 .. new = (1 .. n) \cup {new} /\ new \notin 1 .. n
  BY <1>1, <1>2, <1>3
<1>5. PICK f, g : /\ f = [k \in 1 .. n |-> payments[k].stored]
                  /\ g = [k \in 1 .. new |-> payments'[k].stored]
  OBVIOUS
<1>6. /\ IsFiniteSet(1 .. n) /\ g[new] = Given(a)
      /\ \A k \in 1 .. n : f[k] \in Int /\ f[k] = g[k]
      /\ \A k \in (1 .. n) \cup {new} : g[k] \in Int
  <2>1. \A k \in 1 .. n : payments[k].stored \in Int
    BY <1>1, PaymentType
  <2>2. \A k \in 1 .. n : k \in 1 .. new
    BY <1>4
  <2>3. \A k \in 1 .. n : f[k] = payments[k].stored /\ g[k] = payments[k].stored
    BY <1>4, <1>5, <2>2
  <2>4. g[new] = Given(a)
    BY <1>3, <1>4, <1>5
  <2>5. IsFiniteSet(1 .. n)
    BY FS_Interval
  <2> QED
    BY <1>3, <1>4, <2>1, <2>3, <2>4, <2>5
<1>7. PaidAmount = SumFunctionOnSet(f, 1 .. n) /\ PaidAmount' = SumFunctionOnSet(g, 1 .. new)
  BY <1>1, <1>4, <1>5 DEF PaidAmount, SumFunction
<1>8. SumFunctionOnSet(g, (1 .. n) \cup {new}) = g[new] + SumFunctionOnSet(g, 1 .. n)
  BY <1>4, <1>6, SumAdd
<1>9. SumFunctionOnSet(f, 1 .. n) = SumFunctionOnSet(g, 1 .. n)
  BY <1>6, SumAgrees
<1>10. PaidAmount \in Int
  BY PaymentSums
<1>11. PaidAmount' = PaidAmount + Given(a)
  <2>1. PaidAmount' = SumFunctionOnSet(g, (1 .. n) \cup {new})
    BY <1>4, <1>7
  <2> QED
    BY <1>3, <1>6, <1>7, <1>8, <1>9, <1>10, <2>1
<1>12. PICK H : H = {k \in 1 .. n : payments[k].given % 100 = 50}
  OBVIOUS
<1>13. HalfCents = Cardinality(H) /\ IsFiniteSet(H) /\ new \notin H
  BY <1>1, <1>4, <1>6, <1>12, FS_Subset DEF HalfCents
<1>14. HalfCents' = IF a % 100 = 50 THEN Cardinality(H \cup {new}) ELSE Cardinality(H)
  <2>1. {k \in DOMAIN payments' : payments'[k].given % 100 = 50}
          = IF a % 100 = 50 THEN H \cup {new} ELSE H
    <3>1. payments'[new].given = a
      BY <1>3, <1>4
    <3>2. \A k \in 1 .. n : payments'[k].given = payments[k].given
      BY <1>4
    <3>3. \A k \in DOMAIN payments' : k \in 1 .. n \/ k = new
      BY <1>4
    <3>4. \A k \in 1 .. n : k \in DOMAIN payments'
      BY <1>4
    <3>5. new \in DOMAIN payments'
      BY <1>4
    <3> QED
      BY <1>12, <3>1, <3>2, <3>3, <3>4, <3>5
  <2> QED
    BY <2>1 DEF HalfCents
<1>15. Cardinality(H \cup {new}) = Cardinality(H) + 1 /\ Cardinality(H) \in Nat
  BY <1>13, FS_AddElement, FS_CardinalityType
<1> QED
  BY <1>11, <1>13, <1>14, <1>15

\* Whole cents go through the rounding unchanged.
LEMMA CentsAdded ==
    ASSUME NEW p \in Int, NEW a \in Int, NEW up \in BOOLEAN
    PROVE  Computed(100 * p + a, up) = p + Computed(a, up)
<1>1. (100 * p + a) % 100 = a % 100 /\ (100 * p + a) \div 100 = p + a \div 100
  OBVIOUS
<1>2. (100 * p + a + 50) \div 100 = p + (a + 50) \div 100
  OBVIOUS
<1> QED
  BY <1>1, <1>2 DEF Computed

-----------------------------------------------------------------------------
(* The inductive invariant.                                                 *)

\* Every row holds the rounded amount, and there are no rows before the invoice.
RowsRounded ==
    /\ ~Stored => payments = <<>>
    /\ \A k \in DOMAIN payments : payments[k].stored = Given(payments[k].given)

\* Without anything paid back the credit is not negative.
CreditNotNegative ==
    Stored /\ (\A k \in DOMAIN payments : payments[k].given >= 0) => invoice.paid >= 0

MoneyInv ==
    /\ TypeOK
    /\ RowsRounded
    /\ CreditNotNegative
    /\ TotalsFoot
    /\ BalanceFoots
    /\ CreditDoesNotDrift

\* A bill, new or computed again.
LEMMA BillKeeps ==
    ASSUME MoneyInv, NEW b \in Bodies, NEW paid \in Int, NEW status \in Statuses,
           NEW up \in Ways, invoice' = Bill(b, paid, status, up),
           StoreLines(b), UNCHANGED payments, paid = PaidAmount
    PROVE  /\ invoice' \in Invoice /\ lines' \in Seq(Int)
           /\ RowsRounded' /\ CreditNotNegative' /\ TotalsFoot' /\ BalanceFoots'
           /\ CreditDoesNotDrift'
<1>1. invoice' \in Invoice /\ Stored'
  BY BillFacts, AbsentAssumption DEF Stored
<1>2. RowsRounded'
  BY <1>1 DEF MoneyInv, RowsRounded, Stored
<1>3. PaidAmount' = PaidAmount /\ HalfCents' = HalfCents /\ PaidAmount \in Int /\ HalfCents \in Nat
  BY PaymentSums DEF MoneyInv, PaidAmount, HalfCents
<1>4. invoice'.paid = paid
  BY BillFacts
<1>5. CreditDoesNotDrift'
  BY <1>3, <1>4 DEF CreditDoesNotDrift, Distance
<1>6. CreditNotNegative'
  <2>1. ASSUME \A k \in DOMAIN payments : payments[k].given >= 0 PROVE paid >= 0
    <3>1. PICK n \in Nat : n = Len(payments) /\ DOMAIN payments = 1 .. n
      BY DEF MoneyInv, TypeOK
    <3>2. PICK f : f = [k \in 1 .. n |-> payments[k].stored]
      OBVIOUS
    <3>3. ASSUME NEW k \in 1 .. n PROVE f[k] \in Int /\ f[k] >= 0
      <4>1. PICK x : x = payments[k].given
        OBVIOUS
      <4>2. x \in Int /\ x >= 0
        BY <2>1, <3>1, <4>1, PaymentType DEF MoneyInv
      <4>3. f[k] = Given(x)
        BY <3>1, <3>2, <4>1 DEF MoneyInv, RowsRounded
      <4> QED
        BY <4>2, <4>3, GivenClose
    <3>4. IsFiniteSet(1 .. n)
      BY FS_Interval
    <3>5. PaidAmount = SumFunctionOnSet(f, 1 .. n)
      BY <3>1, <3>2 DEF PaidAmount, SumFunction
    <3>6. SumFunctionOnSet(f, {}) <= SumFunctionOnSet(f, 1 .. n)
      BY <3>3, <3>4, SumMonotone
    <3>7. SumFunctionOnSet(f, {}) = 0
      BY SumEmpty
    <3> QED
      BY <3>5, <3>6, <3>7
  <2> QED
    BY <1>4, <2>1 DEF CreditNotNegative
<1>7. BalanceFoots'
  <2>1. Distance(invoice'.balance, invoice'.total - paid) <= 1
    BY BillFacts
  <2> QED
    BY <1>4, <2>1 DEF BalanceFoots, Distance
<1>8. TotalsFoot'
  <2>1. PICK L, T, A, X, all :
            /\ L = Len(lines') /\ T = SubTotal(b) - DiscountTotal(b) + TaxTotal(b)
            /\ A = b.adjustment /\ X = b.excise /\ all = TotalAmount(b)
    OBVIOUS
  <2>2. /\ L \in Nat /\ T \in Int /\ A \in Int /\ X \in Int /\ all = T + A + X
    <3>1. L \in Nat
      BY <2>1, LinesStored
    <3>2. A \in Int /\ X \in Int
      BY <2>1, BodyParts
    <3>3. T \in Int
      BY <2>1, LineTotals
    <3> QED
      BY <2>1, <3>1, <3>2, <3>3 DEF TotalAmount
  <2>3. PICK l, j, x, u : /\ l = SumFunction(lines') /\ j = invoice'.adjustment
                          /\ x = invoice'.excise /\ u = invoice'.total
    OBVIOUS
  <2>4. l \in Int /\ 100 * l <= T + 50 * L /\ T <= 100 * l + 50 * L
    BY <2>1, <2>3, LinesStored
  <2>5. /\ j \in Int /\ 100 * j <= A + 50 /\ A <= 100 * j + 50
        /\ x \in Int /\ 100 * x <= X + 50 /\ X <= 100 * x + 50
    <3>1. j = Given(A) /\ x = Given(X)
      BY <2>1, <2>3, BillFacts
    <3> QED
      BY <2>2, <3>1, GivenClose
  <2>6. u \in Int /\ 100 * u <= all + 50 /\ all <= 100 * u + 50
    <3>1. u \in Int
      BY <1>1, <2>3 DEF Invoice
    <3> QED
      BY <2>1, <2>3, <3>1, BillFacts
  <2>7. 2 * Distance(u, l + j + x) <= L + 3
    BY <2>2, <2>4, <2>5, <2>6 DEF Distance
  <2>8. Distance(u, invoice'.sub - invoice'.discount + invoice'.tax + j + x) <= 3
    BY <2>3, BillFacts
  <2> QED
    BY <2>1, <2>3, <2>7, <2>8 DEF TotalsFoot, Distance
<1>9. lines' \in Seq(Int)
  BY LinesStored
<1> QED
  BY <1>1, <1>2, <1>5, <1>6, <1>7, <1>8, <1>9

\* The credit after a payment.
LEMMA PaymentKeepsCredit ==
    ASSUME MoneyInv, Stored, Stored', NEW a \in Amounts, NEW up \in BOOLEAN,
           payments' = Append(payments, PaymentRow(a)),
           invoice'.paid = Computed(100 * invoice.paid + a, up)
    PROVE  CreditDoesNotDrift' /\ CreditNotNegative'
<1>1. PICK p, q, h, g, c : /\ p = invoice.paid /\ q = PaidAmount /\ h = HalfCents
                           /\ g = Given(a) /\ c = Computed(a, up)
  OBVIOUS
<1>2. p \in Int /\ q \in Int /\ h \in Nat /\ a \in Int
  BY <1>1, PaymentSums, AmountAssumption DEF MoneyInv, TypeOK, Stored, Invoice
<1>3. /\ g \in Int /\ 100 * g <= a + 50 /\ a <= 100 * g + 50
      /\ c \in Int /\ 100 * c <= a + 50 /\ a <= 100 * c + 50
      /\ a >= 0 => g >= 0
  BY <1>1, <1>2, GivenClose, ComputedClose
<1>4. invoice'.paid = p + c
  <2>1. Computed(100 * p + a, up) = p + Computed(a, up)
    BY <1>2, CentsAdded
  <2> QED
    BY <1>1, <2>1
<1>5. a % 100 # 50 => g = c
  BY <1>1, <1>2, SameRounding
<1>6. PaidAmount' = q + g /\ HalfCents' = h + IF a % 100 = 50 THEN 1 ELSE 0
  BY <1>1, PaymentAdded DEF MoneyInv
<1>7. Distance(p, q) <= h
  BY <1>1 DEF MoneyInv, CreditDoesNotDrift
<1>8. Distance(p + c, q + g) <= h + IF a % 100 = 50 THEN 1 ELSE 0
  <2>1. CASE a % 100 = 50
    BY <1>2, <1>3, <1>7, <2>1 DEF Distance
  <2>2. CASE a % 100 # 50
    BY <1>2, <1>3, <1>5, <1>7, <2>2 DEF Distance
  <2> QED
    BY <2>1, <2>2
<1>9. CreditDoesNotDrift'
  BY <1>4, <1>6, <1>8 DEF CreditDoesNotDrift, Distance
<1>10. ASSUME \A k \in DOMAIN payments' : payments'[k].given >= 0
       PROVE  invoice'.paid >= 0
  <2>1. PICK n \in Nat : n = Len(payments) /\ DOMAIN payments = 1 .. n
    BY DEF MoneyInv, TypeOK
  <2>2. /\ DOMAIN payments' = 1 .. (n + 1) /\ payments'[n + 1] = PaymentRow(a)
        /\ \A k \in 1 .. n : payments'[k] = payments[k]
    BY <2>1 DEF MoneyInv, TypeOK
  <2>3. \A k \in DOMAIN payments : payments[k].given >= 0
    <3>1. \A k \in 1 .. n : k \in 1 .. (n + 1)
      BY <2>1
    <3> QED
      BY <1>10, <2>1, <2>2, <3>1
  <2>4. p >= 0
    BY <1>1, <2>3 DEF MoneyInv, CreditNotNegative
  <2>5. a >= 0
    <3>1. n + 1 \in 1 .. (n + 1)
      BY <2>1
    <3>2. PaymentRow(a).given >= 0
      BY <1>10, <2>2, <3>1
    <3> QED
      BY <3>2 DEF PaymentRow
  <2> QED
    BY <1>2, <1>3, <1>4, <2>4, <2>5
<1> QED
  BY <1>9, <1>10 DEF CreditNotNegative

LEMMA PaymentKeeps ==
    ASSUME MoneyInv, NEW a \in Amounts, RecordPayment(a)
    PROVE  /\ invoice' \in Invoice /\ lines' \in Seq(Int)
           /\ payments' \in Seq([given: Amounts, stored: Int])
           /\ RowsRounded' /\ CreditNotNegative' /\ TotalsFoot' /\ BalanceFoots'
           /\ CreditDoesNotDrift'
<1>1. /\ TypeOK /\ Stored /\ payments' = Append(payments, PaymentRow(a)) /\ lines' = lines
  BY DEF MoneyInv, RecordPayment, Stored
<1>2. PICK settled \in Settled(a), up \in Ways : invoice' = Credited(a, settled, up)
  BY DEF RecordPayment
<1>3. invoice' \in Invoice /\ Stored'
  BY <1>1, <1>2, CreditFacts, AbsentAssumption DEF Stored
<1>4. /\ a \in Int /\ invoice.paid \in Int /\ invoice.total \in Int
      /\ invoice'.paid \in Int /\ invoice'.total \in Int
  BY <1>1, <1>3, AmountAssumption DEF TypeOK, Stored, Invoice
<1>5. /\ PaymentRow(a) \in [given: Amounts, stored: Int]
      /\ PaymentRow(a).stored = Given(PaymentRow(a).given)
  BY <1>4, GivenClose DEF PaymentRow
<1>6. payments' \in Seq([given: Amounts, stored: Int])
  <2>1. PICK R : R = [given: Amounts, stored: Int]
    OBVIOUS
  <2> QED
    BY <1>1, <1>5, <2>1 DEF TypeOK
<1>7. RowsRounded'
  <2>1. PICK n \in Nat : n = Len(payments) /\ DOMAIN payments = 1 .. n
    BY <1>1 DEF TypeOK
  <2>2. /\ DOMAIN payments' = 1 .. (n + 1) /\ payments'[n + 1] = PaymentRow(a)
        /\ \A k \in 1 .. n : payments'[k] = payments[k]
    BY <1>1, <2>1 DEF TypeOK
  <2>3. ASSUME NEW k \in DOMAIN payments'
        PROVE  payments'[k].stored = Given(payments'[k].given)
    <3>1. CASE k \in 1 .. n
      BY <2>1, <2>2, <3>1 DEF MoneyInv, RowsRounded
    <3>2. CASE k = n + 1
      BY <1>5, <2>2, <3>2
    <3> QED
      BY <2>1, <2>2, <3>1, <3>2
  <2> QED
    BY <1>3, <2>3 DEF RowsRounded
<1>8. CreditDoesNotDrift' /\ CreditNotNegative'
  <2>1. up["paid"] \in BOOLEAN
    BY <1>2 DEF Ways
  <2>2. invoice'.paid = Computed(100 * invoice.paid + a, up["paid"])
    BY <1>1, <1>2, CreditFacts
  <2> QED
    BY <1>1, <1>3, <2>1, <2>2, PaymentKeepsCredit
<1>9. TotalsFoot'
  BY <1>1, <1>2, CreditFacts DEF MoneyInv, TotalsFoot, Distance
<1>10. BalanceFoots'
  <2>1. CASE settled
    <3>1. invoice'.balance = 0 /\ invoice'.status = "paid"
      BY <1>1, <1>2, <2>1, CreditFacts DEF StatusAfter
    <3>2. invoice'.paid >= invoice'.total
      <4>1. 100 * invoice'.total <= 100 * invoice.paid + a
        BY <1>1, <1>2, <2>1, CreditFacts
      <4>2. 100 * invoice.paid + a <= 100 * invoice'.paid + 50
        <5>1. up["paid"] \in BOOLEAN /\ 100 * invoice.paid + a \in Int
          BY <1>2, <1>4 DEF Ways
        <5> QED
          BY <1>1, <1>2, <5>1, CreditFacts, ComputedClose
      <4> QED
        BY <1>4, <4>1, <4>2
    <3> QED
      BY <3>1, <3>2 DEF BalanceFoots
  <2>2. CASE ~settled
    <3>1. Distance(invoice'.balance, invoice'.total - invoice'.paid) <= 1
      BY <1>1, <1>2, <2>2, CreditFacts
    <3> QED
      BY <3>1 DEF BalanceFoots, Distance
  <2> QED
    BY <2>1, <2>2
<1>11. lines' \in Seq(Int)
  BY <1>1 DEF TypeOK
<1> QED
  BY <1>3, <1>6, <1>7, <1>8, <1>9, <1>10, <1>11

LEMMA MoneyInit == Init => MoneyInv
<1> SUFFICES ASSUME Init PROVE MoneyInv
  OBVIOUS
<1>1. TypeOK
  BY BoundAssumption DEF Init, TypeOK
<1>2. ~Stored
  BY DEF Init, Stored
<1> QED
  BY <1>1, <1>2
  DEF Init, MoneyInv, RowsRounded, CreditNotNegative, TotalsFoot, BalanceFoots, CreditDoesNotDrift

LEMMA MoneyStep == MoneyInv /\ [Next]_vars => MoneyInv'
<1> SUFFICES ASSUME MoneyInv, [Next]_vars PROVE MoneyInv'
  OBVIOUS
<1>1. ASSUME NEW b \in Bodies, Next, CreateInvoice(b) PROVE MoneyInv'
  <2>1. PICK up \in Ways : invoice' = Bill(b, 0, "draft", up)
    BY <1>1 DEF CreateInvoice
  <2>2. payments = <<>>
    BY <1>1 DEF CreateInvoice, MoneyInv, RowsRounded, Stored
  <2>3. PaidAmount = 0
    BY <2>2, SumEmpty DEF PaidAmount, SumFunction
  <2>4. /\ invoice' \in Invoice /\ lines' \in Seq(Int) /\ UNCHANGED payments
        /\ RowsRounded' /\ CreditNotNegative' /\ TotalsFoot' /\ BalanceFoots'
        /\ CreditDoesNotDrift'
    <3>1. StoreLines(b) /\ UNCHANGED payments /\ "draft" \in Statuses
      BY <1>1 DEF CreateInvoice, Statuses
    <3> QED
      BY <2>1, <2>3, <3>1, BillKeeps
  <2> QED
    BY <1>1, <2>4, BoundAssumption DEF MoneyInv, TypeOK, Next
<1>2. ASSUME NEW b \in Bodies, Next, UpdateInvoice(b) PROVE MoneyInv'
  <2>1. PICK up \in Ways : invoice' = Bill(b, PaidAmount, invoice.status, up)
    BY <1>2 DEF UpdateInvoice
  <2>2. PaidAmount \in Int /\ invoice.status \in Statuses
    BY <1>2, PaymentSums DEF UpdateInvoice, MoneyInv, TypeOK, Invoice
  <2>3. /\ invoice' \in Invoice /\ lines' \in Seq(Int) /\ UNCHANGED payments
        /\ RowsRounded' /\ CreditNotNegative' /\ TotalsFoot' /\ BalanceFoots'
        /\ CreditDoesNotDrift'
    <3>1. StoreLines(b) /\ UNCHANGED payments
      BY <1>2 DEF UpdateInvoice
    <3> QED
      BY <2>1, <2>2, <3>1, BillKeeps
  <2> QED
    BY <1>2, <2>3, BoundAssumption DEF MoneyInv, TypeOK, Next
<1>3. ASSUME NEW a \in Amounts, Next, RecordPayment(a) PROVE MoneyInv'
  <2>1. calls' \in 0 .. MaxCalls
    BY <1>3, BoundAssumption DEF MoneyInv, TypeOK, Next
  <2> QED
    BY <1>3, <2>1, PaymentKeeps DEF MoneyInv, TypeOK
<1>4. ASSUME UNCHANGED vars PROVE MoneyInv'
  BY <1>4
  DEF vars, MoneyInv, TypeOK, RowsRounded, CreditNotNegative, TotalsFoot, BalanceFoots,
      CreditDoesNotDrift, Stored, HalfCents, PaidAmount
<1> QED
  BY <1>1, <1>2, <1>3, <1>4 DEF Next

-----------------------------------------------------------------------------
(* What holds of every behaviour.                                           *)

\* All of the invariant, for all bodies, amounts and numbers of calls.
THEOREM MoneyKept == Spec => []MoneyInv
BY MoneyInit, MoneyStep, PTL DEF Spec

\* Each row loaded is one that CreateInvoice, UpdateInvoice or RecordPayment wrote:
\* rounding leaves it in its columns' type and its status among the three.
THEOREM TypeCorrect == Spec => []TypeOK
<1>1. MoneyInv => TypeOK
  BY DEF MoneyInv
<1> QED
  BY <1>1, MoneyKept, PTL

\* The total that CreateInvoice and UpdateInvoice store is off from what the lines,
\* the adjustment and the excise duty stored add up to by half a cent for each of
\* them at most, however many lines there are, and RecordPayment leaves it so.
THEOREM ColumnsFoot == Spec => []TotalsFoot
<1>1. MoneyInv => TotalsFoot
  BY DEF MoneyInv
<1> QED
  BY <1>1, MoneyKept, PTL

\* RecordPayment reads back what it stored, and its roundings do not add up: the
\* balance stays within a cent of total less credit, or is clamped to zero.
THEOREM BalanceKept == Spec => []BalanceFoots
<1>1. MoneyInv => BalanceFoots
  BY DEF MoneyInv
<1> QED
  BY <1>1, MoneyKept, PTL

\* The credit on the invoice and the rows of its payments part by a cent for each
\* payment that ends in half a cent, after any number of payments and updates.
THEOREM CreditKept == Spec => []CreditDoesNotDrift
<1>1. MoneyInv => CreditDoesNotDrift
  BY DEF MoneyInv
<1> QED
  BY <1>1, MoneyKept, PTL

\* The statuses RecordPayment sets are right: "paid" only for what is covered,
\* "partial" only for what is not overpaid, and a first payment of all settles.
THEOREM PaymentsSettle == Spec => PaymentSettles
<1> DEFINE a == Last(payments').given
           Settles ==
             /\ Len(payments') > Len(payments)
             /\ a > 0
             /\ \A k \in DOMAIN payments : payments[k].given >= 0
             => /\ invoice'.status = "paid" => invoice'.paid >= invoice'.total
                /\ invoice'.status = "partial" => invoice'.paid <= invoice'.total
                /\ invoice.paid = 0 /\ a = 100 * invoice.total => invoice'.status = "paid"
<1>1. MoneyInv /\ [Next]_vars => [Settles]_vars
  <2> SUFFICES ASSUME MoneyInv, Next, Len(payments') > Len(payments), a > 0,
                      \A k \in DOMAIN payments : payments[k].given >= 0
               PROVE  /\ invoice'.status = "paid" => invoice'.paid >= invoice'.total
                      /\ invoice'.status = "partial" => invoice'.paid <= invoice'.total
                      /\ invoice.paid = 0 /\ a = 100 * invoice.total
                             => invoice'.status = "paid"
    OBVIOUS
  <2>1. PICK x \in Amounts : RecordPayment(x)
    <3>1. payments \in Seq([given: Amounts, stored: Int])
      BY DEF MoneyInv, TypeOK
    <3>2. payments' # payments
      BY <3>1
    <3> QED
      BY <3>2 DEF Next, CreateInvoice, UpdateInvoice
  <2>2. a = x
    <3>1. PICK R : R = [given: Amounts, stored: Int]
      OBVIOUS
    <3>2. payments \in Seq(R) /\ payments' = Append(payments, PaymentRow(x))
      BY <2>1, <3>1 DEF MoneyInv, TypeOK, RecordPayment
    <3>3. Len(payments') = Len(payments) + 1 /\ payments'[Len(payments) + 1] = PaymentRow(x)
      BY <3>2
    <3> QED
      BY <3>3 DEF Last, PaymentRow
  <2> HIDE DEF a
  <2>3. TypeOK /\ Stored /\ x \in Int /\ x > 0
    BY <2>1, <2>2, AmountAssumption DEF MoneyInv, RecordPayment, Stored
  <2>4. PICK settled \in Settled(x), up \in Ways : invoice' = Credited(x, settled, up)
    BY <2>1 DEF RecordPayment
  <2>5. PICK p, q, u : p = invoice.paid /\ q = invoice'.paid /\ u = invoice.total
    OBVIOUS
  <2>6. /\ settled \in BOOLEAN /\ p \in Int /\ u \in Int /\ invoice'.total = u
        /\ q = Computed(100 * p + x, up["paid"]) /\ invoice'.status = StatusAfter(x, settled)
        /\ settled => 100 * u <= 100 * p + x
        /\ ~settled => 100 * u >= 100 * p + x
        /\ ~settled /\ p = 0 => 100 * u > x
    BY <2>3, <2>4, <2>5, CreditFacts DEF TypeOK, Stored, Invoice
  <2>7. q \in Int /\ 100 * q <= 100 * p + x + 50 /\ 100 * p + x <= 100 * q + 50
    <3>1. up["paid"] \in BOOLEAN /\ 100 * p + x \in Int
      BY <2>3, <2>4, <2>6 DEF Ways
    <3> QED
      BY <2>6, <3>1, ComputedClose
  <2>8. p >= 0
    BY <2>3, <2>5 DEF MoneyInv, CreditNotNegative
  <2>9. CASE settled
    <3>1. invoice'.status = "paid"
      BY <2>6, <2>9 DEF StatusAfter
    <3>2. q >= u
      BY <2>3, <2>6, <2>7, <2>9
    <3> QED
      BY <2>5, <2>6, <3>1, <3>2
  <2>10. CASE ~settled
    <3>1. PaidAfter(x) > 0
      BY <2>3, <2>5, <2>6, <2>8 DEF PaidAfter
    <3>2. invoice'.status = "partial"
      BY <2>6, <2>10, <3>1 DEF StatusAfter
    <3>3. q <= u
      BY <2>3, <2>6, <2>7, <2>10
    <3>4. p = 0 => x # 100 * u
      BY <2>3, <2>6, <2>10
    <3> QED
      BY <2>2, <2>5, <2>6, <3>2, <3>3, <3>4
  <2> QED
    BY <2>6, <2>9, <2>10
<1> QED
  BY <1>1, MoneyKept, PTL DEF Spec, PaymentSettles

=============================================================================
