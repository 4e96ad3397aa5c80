---------------------------- MODULE ReadModelProofs ----------------------------
(***************************************************************************)
(* Theorems about ReadModel, for any number of aggregates, events and      *)
(* crashes: what the consumer replays after a restart repairs the tables.  *)
(***************************************************************************)
EXTENDS ReadModel, NaturalsInduction, WellFoundedInduction, TLAPS

-----------------------------------------------------------------------------
(* What the handler makes of the partition, in closed form.                 *)

\* The messages that define the row of i whatever it was: all of a customer, a contact,
\* a service or a part, the creations and deletions of a work order.
Defining(i) == {n \in DOMAIN log : /\ About(log[n]) = {i}
                                   /\ i \in Crm \/ log[n].type \in {"Created", "Deleted"}}

\* Those that may change the status of a row that is there.
Updates(i) == Said(i, {"StatusUpdated"})

IsLast(d, i) == \A e \in Defining(i) : e <= d

Removes(d, i) == i \notin Crm /\ log[d].type = "Deleted"

\* There is no row of i at the end: none of the messages defines it, or the last of
\* those that do removes it.
Gone(i) == \A d \in Defining(i) : IsLast(d, i) => Removes(d, i)

\* The row of i shows v at the end, if it is there.
Shows(i, v) ==
    \E d \in Defining(i) :
        /\ IsLast(d, i)
        /\ \/ v = Carried(d) /\ \A u \in Updates(i) : u <= d
           \/ v \in Updates(i) /\ v > d /\ \A u \in Updates(i) : u <= v

-----------------------------------------------------------------------------
(* Invariants.                                                              *)

\* A message is worked on only when the partition holds it.
TypeInv == TypeOK /\ (stage \in {"handling", "failed"} => next <= Len(log))

\* Running the handler on the messages after offset n gives table the row of i that it
\* has at the end: either one of them defines the row anew, or the row is there or not
\* as it will be, and shows what it will show unless one of these messages updates it.
Repairable(table, i, n) ==
    (\A d \in Defining(i) : d <= n) =>
        /\ table[i] = NoRow <=> Gone(i)
        /\ table[i] # NoRow /\ (\A u \in Updates(i) : u <= n) => Shows(i, table[i].status)

\* The messages the consumer has still to handle repair the tables.  (More so those
\* after the committed offset: they are at least as many.)
RepairInv == \A i \in Ids \ skipped : Repairable(rows, i, next - 1)

-----------------------------------------------------------------------------
(* Typing.                                                                  *)

Types == {"Created", "StatusUpdated", "OtherUpdated", "Deleted"}

\* A message that is about an aggregate is about one of ours.
LEMMA EventKinds ==
    ASSUME NEW e \in Event
    PROVE  \/ e.type \in Types /\ e.id \in Ids /\ About(e) = {e.id}
           \/ e.type \in {"Unreadable", "Unrelated"} /\ About(e) = {}
BY DEF Event, About, Types

\* What handling message n makes of the row of i in table.
RowAfter(row, table, n, i) ==
    /\ About(log[n]) # {i} => row = table[i]
    /\ n \in Defining(i) /\ Removes(n, i) => row = NoRow
    /\ n \in Defining(i) /\ ~Removes(n, i) => row # NoRow /\ row.status = Carried(n)
    /\ About(log[n]) = {i} /\ n \notin Defining(i) =>
           /\ row = NoRow <=> table[i] = NoRow
           /\ row # NoRow /\ n \in Updates(i) => row.status = n
           /\ row # NoRow /\ n \notin Updates(i) => row.status = table[i].status

LEMMA HandledRow ==
    ASSUME TypeOK, NEW table \in [Ids -> Row \cup {NoRow}], NEW n \in 1 .. Len(log)
    PROVE  /\ Handled(table, n) \in [Ids -> Row \cup {NoRow}]
           /\ \A i \in Ids : RowAfter(Handled(table, n)[i], table, n, i)
<1>1. /\ log[n] \in Event /\ n \in 1 .. MaxLog /\ n \in DOMAIN log /\ MaxLog \in Nat
      /\ Row = [status: 0 .. MaxLog, updated_at: 0 .. MaxLog] /\ Processed = 0
  BY BoundsAssumption DEF TypeOK, Row, Blank, Processed
<1>2. Carried(n) \in 0 .. MaxLog
  BY <1>1 DEF Carried, Blank
<1>3. CASE About(log[n]) = {}
  <2>1. Handled(table, n) = table
    BY <1>3 DEF Handled
  <2>2. \A i \in Ids : RowAfter(table[i], table, n, i)
    BY <1>3 DEF Defining, RowAfter
  <2> QED
    BY <2>1, <2>2
<1>4. CASE About(log[n]) # {}
  <2>1. PICK j \in Ids : j = log[n].id /\ About(log[n]) = {j} /\ log[n].type \in Types
    BY <1>1, <1>4, EventKinds
  <2>2. \A i \in Ids : About(log[n]) = {i} => i = j
    BY <2>1
  <2>3. /\ n \in Defining(j) <=> j \in Crm \/ log[n].type \in {"Created", "Deleted"}
        /\ n \in Updates(j) <=> log[n].type = "StatusUpdated"
        /\ \A i \in Ids : n \in Defining(i) => i = j
    BY <1>1, <2>1, <2>2 DEF Defining, Updates, Said
  <2>4. ASSUME NEW row \in Row \cup {NoRow}, Handled(table, n) = [table EXCEPT ![j] = row],
               RowAfter(row, table, n, j)
        PROVE  /\ Handled(table, n) \in [Ids -> Row \cup {NoRow}]
               /\ \A i \in Ids : RowAfter(Handled(table, n)[i], table, n, i)
    <3>1. Handled(table, n) \in [Ids -> Row \cup {NoRow}]
      BY <2>4
    <3>2. Handled(table, n)[j] = row
      BY <2>4
    <3>3. ASSUME NEW i \in Ids, i # j PROVE RowAfter(Handled(table, n)[i], table, n, i)
      <4>1. Handled(table, n)[i] = table[i]
        BY <2>4, <3>3
      <4> QED
        BY <2>2, <2>3, <3>3, <4>1 DEF RowAfter
    <3> QED
      BY <2>4, <3>1, <3>2, <3>3
  <2>5. CASE j \in Crm \/ log[n].type = "Created"
    <3>1. PICK row : row = [status |-> Carried(n),
                            updated_at |-> IF table[j] = NoRow THEN n ELSE Processed]
      OBVIOUS
    <3>2. row \in Row /\ row.status = Carried(n) /\ row # NoRow
      BY <1>1, <1>2, <3>1, NoRowAssumption
    <3>3. Handled(table, n) = [table EXCEPT ![j] = row]
      BY <1>4, <2>1, <2>5, <3>1 DEF Handled, HandledWorkOrder, Upsert
    <3>4. n \in Defining(j) /\ ~Removes(n, j)
      BY <2>3, <2>5 DEF Removes
    <3>5. RowAfter(row, table, n, j)
      BY <2>1, <3>2, <3>4 DEF RowAfter
    <3> QED
      BY <2>4, <3>2, <3>3, <3>5
  <2>6. CASE j \notin Crm /\ log[n].type = "Deleted"
    <3>1. Handled(table, n) = [table EXCEPT ![j] = NoRow]
      BY <1>4, <2>1, <2>6 DEF Handled, HandledWorkOrder, DeleteRow
    <3>2. RowAfter(NoRow, table, n, j)
      BY <2>1, <2>3, <2>6 DEF RowAfter, Removes
    <3> QED
      BY <2>4, <3>1, <3>2
  <2>7. CASE j \notin Crm /\ log[n].type \in {"StatusUpdated", "OtherUpdated"}
    <3>1. PICK row : row = IF table[j] = NoRow THEN NoRow
                           ELSE [status     |-> IF log[n].type = "StatusUpdated" THEN n
                                                ELSE table[j].status,
                                 updated_at |-> n]
      OBVIOUS
    <3>2. Handled(table, n) = [table EXCEPT ![j] = row]
      BY <1>4, <2>1, <2>7, <3>1 DEF Handled, HandledWorkOrder, UpdateFields
    <3>3. n \notin Defining(j)
      BY <2>3, <2>7
    <3>4. /\ row \in Row \cup {NoRow}
          /\ row = NoRow <=> table[j] = NoRow
          /\ row # NoRow /\ n \in Updates(j) => row.status = n
          /\ row # NoRow /\ n \notin Updates(j) => row.status = table[j].status
      <4>1. CASE table[j] = NoRow
        BY <3>1, <4>1
      <4>2. CASE table[j] # NoRow
        <5>1. table[j].status \in 0 .. MaxLog
          BY <1>1, <4>2
        <5>2. PICK v : v = IF log[n].type = "StatusUpdated" THEN n ELSE table[j].status
          OBVIOUS
        <5>3. row = [status |-> v, updated_at |-> n] /\ v \in 0 .. MaxLog
          BY <1>1, <3>1, <4>2, <5>1, <5>2
        <5>4. row \in Row /\ row.status = v
          BY <1>1, <5>3
        <5> QED
          BY <2>3, <4>2, <5>2, <5>4, NoRowAssumption
      <4> QED
        BY <4>1, <4>2
    <3>5. RowAfter(row, table, n, j)
      BY <2>1, <3>3, <3>4 DEF RowAfter
    <3> QED
      BY <2>4, <3>2, <3>4, <3>5
  <2> QED
    BY <2>1, <2>5, <2>6, <2>7 DEF Types
<1> QED
  BY <1>3, <1>4

LEMMA TypeInit == Init => TypeInv
BY BoundsAssumption DEF Init, TypeInv, TypeOK, NoRows

LEMMA TypeStep == TypeInv /\ [Next]_vars => TypeInv'
<1> SUFFICES ASSUME TypeInv, [Next]_vars PROVE TypeInv'
  OBVIOUS
<1> USE DEF TypeInv, TypeOK
<1>0. MaxLog \in Nat /\ MaxCrashes \in Nat /\ Len(log) \in Nat
  BY BoundsAssumption
<1>1. CASE Produce
  <2>1. PICK e \in Event : log' = Append(log, e)
    BY <1>1 DEF Produce
  <2>2. Len(log') = Len(log) + 1 /\ log' \in Seq(Event)
    BY <2>1
  <2>3. /\ Len(log) < MaxLog
        /\ UNCHANGED <<rows, next, committed, stage, skipped, crashes>>
    BY <1>1 DEF Produce
  <2>4. committed \in 0 .. Len(log) /\ next \in committed + 1 .. Len(log) + 1
    OBVIOUS
  <2> QED
    BY <1>0, <2>2, <2>3, <2>4
<1>2. CASE Fetch
  BY <1>0, <1>2 DEF Fetch
<1>3. CASE Handle
  BY <1>0, <1>3, HandledRow DEF Handle
<1>4. CASE HandleFails \/ TryAgain
  BY <1>0, <1>4 DEF HandleFails, TryAgain
<1>5. CASE GoOn
  <2>1. About(log[next]) \subseteq Ids
    BY <1>0, <1>5, EventKinds DEF GoOn
  <2> QED
    BY <1>0, <1>5, <2>1 DEF GoOn
<1>6. CASE Commit
  BY <1>0, <1>6 DEF Commit
<1>7. CASE Crash
  BY <1>0, <1>7 DEF Crash
<1>8. CASE Restart
  BY <1>0, <1>8 DEF Restart
<1>9. CASE UNCHANGED vars
  BY <1>0, <1>9 DEF vars
<1> QED
  BY <1>1, <1>2, <1>3, <1>4, <1>5, <1>6, <1>7, <1>8, <1>9 DEF Next, Consume

\* The inductive invariant of the typing.
THEOREM Typed == Spec => []TypeInv
BY TypeInit, TypeStep, PTL DEF Spec

\* The consumer never loses its place: the committed offset, the message it works on
\* and the end of the partition keep their order through failures and restarts.
THEOREM TypeCorrect == Spec => []TypeOK
<1>1. TypeInv => TypeOK
  BY DEF TypeInv
<1> QED
  BY <1>1, Typed, PTL

-----------------------------------------------------------------------------
(* The handler, message by message.                                         *)

\* The offsets these sets are about.
LEMMA Offsets ==
    ASSUME TypeOK, NEW i \in Ids
    PROVE  /\ Defining(i) \in SUBSET (1 .. Len(log)) /\ Updates(i) \in SUBSET (1 .. Len(log))
           /\ Len(log) \in Nat /\ DOMAIN log = 1 .. Len(log)
BY DEF TypeOK, Defining, Updates, Said

\* More messages repair what fewer repair.
LEMMA MoreRepair ==
    ASSUME TypeOK, NEW i \in Ids, NEW table, NEW n \in Int, NEW m \in Int, m <= n,
           Repairable(table, i, n)
    PROVE  Repairable(table, i, m)
<1>1. (\A d \in Defining(i) : d \in Int) /\ (\A u \in Updates(i) : u \in Int)
  BY Offsets
<1>2. (\A d \in Defining(i) : d <= m) => \A d \in Defining(i) : d <= n
  BY <1>1
<1>3. (\A u \in Updates(i) : u <= m) => \A u \in Updates(i) : u <= n
  BY <1>1
<1> QED
  BY <1>2, <1>3 DEF Repairable

\* Handling the first of the messages leaves what the others repair.
LEMMA HandledRepairs ==
    ASSUME TypeOK, NEW i \in Ids, NEW table \in [Ids -> Row \cup {NoRow}],
           NEW n \in 1 .. Len(log), Repairable(table, i, n - 1)
    PROVE  Repairable(Handled(table, n), i, n)
<1>1. PICK row : row = Handled(table, n)[i]
  OBVIOUS
<1> SUFFICES ASSUME \A d \in Defining(i) : d <= n
             PROVE  /\ row = NoRow <=> Gone(i)
                    /\ row # NoRow /\ (\A u \in Updates(i) : u <= n) => Shows(i, row.status)
  BY <1>1 DEF Repairable
<1>2. /\ (\A d \in Defining(i) : d \in Int) /\ (\A u \in Updates(i) : u \in Int)
      /\ n \in Int
  BY Offsets
<1>3. RowAfter(row, table, n, i)
  BY <1>1, HandledRow
<1>4. CASE n \in Defining(i)
  <2>1. IsLast(n, i)
    BY DEF IsLast
  <2>2. \A d \in Defining(i) : IsLast(d, i) => d = n
    BY <1>2, <1>4 DEF IsLast
  <2>3. Gone(i) <=> Removes(n, i)
    BY <1>4, <2>1, <2>2 DEF Gone
  <2>4. (\A u \in Updates(i) : u <= n) => Shows(i, Carried(n))
    BY <1>4, <2>1 DEF Shows
  <2> QED
    BY <1>3, <1>4, <2>3, <2>4 DEF RowAfter
<1>5. CASE n \notin Defining(i)
  <2>1. \A d \in Defining(i) : d <= n - 1
    BY <1>2, <1>5
  <2>2. /\ table[i] = NoRow <=> Gone(i)
        /\ table[i] # NoRow /\ (\A u \in Updates(i) : u <= n - 1) => Shows(i, table[i].status)
    BY <2>1 DEF Repairable
  <2>3. row = NoRow <=> table[i] = NoRow
    BY <1>3, <1>5 DEF RowAfter
  <2>4. ASSUME row # NoRow, \A u \in Updates(i) : u <= n, n \in Updates(i)
        PROVE  Shows(i, row.status)
    <3>1. PICK d \in Defining(i) : IsLast(d, i)
      BY <2>2, <2>3, <2>4 DEF Gone
    <3>2. d < n
      BY <1>2, <2>1
    <3>3. row.status = n
      BY <1>3, <1>5, <2>4 DEF RowAfter, Updates, Said
    <3> QED
      BY <2>4, <3>1, <3>2, <3>3 DEF Shows
  <2>5. ASSUME row # NoRow, \A u \in Updates(i) : u <= n, n \notin Updates(i)
        PROVE  Shows(i, row.status)
    <3>1. \A u \in Updates(i) : u <= n - 1
      BY <1>2, <2>5
    <3>2. row.status = table[i].status
      BY <1>3, <1>5, <2>5 DEF RowAfter
    <3> QED
      BY <2>2, <2>3, <2>5, <3>1, <3>2
  <2> QED
    BY <2>2, <2>3, <2>4, <2>5
<1> QED
  BY <1>4, <1>5

\* A message that is about other aggregates repairs nothing here.
LEMMA OtherRepairs ==
    ASSUME TypeOK, NEW i \in Ids, NEW table, NEW n \in 1 .. Len(log), i \notin About(log[n]),
           Repairable(table, i, n - 1)
    PROVE  Repairable(table, i, n)
<1>1. (\A d \in Defining(i) : d \in Int) /\ (\A u \in Updates(i) : u \in Int) /\ n \in Int
  BY Offsets
<1>2. n \notin Defining(i) /\ n \notin Updates(i)
  BY DEF Defining, Updates, Said
<1>3. (\A d \in Defining(i) : d <= n) => \A d \in Defining(i) : d <= n - 1
  BY <1>1, <1>2
<1>4. (\A u \in Updates(i) : u <= n) => \A u \in Updates(i) : u <= n - 1
  BY <1>1, <1>2
<1> QED
  BY <1>3, <1>4 DEF Repairable

-----------------------------------------------------------------------------
(* The invariant.                                                           *)

\* A new message leaves every table as repairable as it was, by more messages.
LEMMA ProduceRepairs ==
    ASSUME TypeInv, NEW e \in Event, log' = Append(log, e), UNCHANGED rows,
           NEW i \in Ids, NEW n \in 0 .. Len(log), Repairable(rows, i, n)
    PROVE  Repairable(rows, i, n)'
<1>1. PICK new : new = Len(log) + 1
  OBVIOUS
<1>2. /\ DOMAIN log = 1 .. Len(log) /\ Len(log) \in Nat /\ new > n
      /\ DOMAIN log' = 1 .. new /\ new \in DOMAIN log' /\ new \notin DOMAIN log
      /\ \A k \in DOMAIN log : k \in DOMAIN log' /\ log'[k] = log[k]
      /\ \A k \in DOMAIN log' : k # new => k \in DOMAIN log
  BY <1>1 DEF TypeInv, TypeOK
<1> SUFFICES ASSUME \A d \in Defining(i)' : d <= n
             PROVE  /\ rows[i] = NoRow <=> Gone(i)'
                    /\ rows[i] # NoRow /\ (\A u \in Updates(i)' : u <= n) =>
                           Shows(i, rows[i].status)'
  BY DEF Repairable
<1>3. Defining(i)' = Defining(i)
  <2>1. new \notin Defining(i)'
    BY <1>1, <1>2
  <2> QED
    BY <1>2, <2>1 DEF Defining
<1>4. (\A u \in Updates(i)' : u <= n) => Updates(i)' = Updates(i)
  BY <1>1, <1>2 DEF Updates, Said
<1>5. \A d \in Defining(i) :
          /\ IsLast(d, i)' <=> IsLast(d, i)
          /\ Removes(d, i)' <=> Removes(d, i)
          /\ Carried(d)' = Carried(d)
  BY <1>2, <1>3 DEF Defining, IsLast, Removes, Carried
<1>6. Gone(i)' <=> Gone(i)
  BY <1>3, <1>5 DEF Gone
<1>7. Updates(i)' = Updates(i) => (Shows(i, rows[i].status)' <=> Shows(i, rows[i].status))
  BY <1>3, <1>5 DEF Shows
<1>8. (\A u \in Updates(i)' : u <= n) => \A u \in Updates(i) : u <= n
  BY <1>4
<1> QED
  BY <1>3, <1>4, <1>6, <1>7, <1>8 DEF Repairable

\* Nothing else changes the history.
LEMMA SameRepairs ==
    ASSUME UNCHANGED log, NEW i, NEW n, NEW table, Repairable(table, i, n),
           rows' = table, (next - 1)' = n
    PROVE  Repairable(rows, i, next - 1)'
<1>1. /\ Defining(i)' = Defining(i) /\ Updates(i)' = Updates(i)
      /\ \A d : /\ IsLast(d, i)' <=> IsLast(d, i)
                /\ Removes(d, i)' <=> Removes(d, i)
                /\ Carried(d)' = Carried(d)
  BY DEF Defining, Updates, Said, IsLast, Removes, Carried
<1>2. Gone(i)' <=> Gone(i)
  BY <1>1 DEF Gone
<1>3. Shows(i, rows[i].status)' <=> Shows(i, table[i].status)
  BY <1>1 DEF Shows
<1> QED
  BY <1>1, <1>2, <1>3 DEF Repairable

LEMMA RepairStep == TypeInv /\ RepairInv /\ [Next]_vars => RepairInv'
<1> SUFFICES ASSUME TypeInv, RepairInv, [Next]_vars, NEW i \in Ids, i \notin skipped'
             PROVE  Repairable(rows, i, next - 1)'
  BY DEF RepairInv
<1>0. /\ TypeOK /\ Len(log) \in Nat /\ committed \in 0 .. Len(log)
      /\ next \in committed + 1 .. Len(log) + 1
      /\ next - 1 \in 0 .. Len(log) /\ committed <= next - 1
      /\ rows \in [Ids -> Row \cup {NoRow}]
  BY DEF TypeInv, TypeOK
<1>1. skipped \subseteq skipped'
  BY DEF Next, Produce, Consume, Fetch, Handle, HandleFails, GoOn, TryAgain, Commit, Crash,
         Restart, vars
<1>2. Repairable(rows, i, next - 1)
  BY <1>1 DEF RepairInv
<1>3. CASE Produce
  <2>1. PICK e \in Event : log' = Append(log, e)
    BY <1>3 DEF Produce
  <2>2. PICK n : n = next - 1
    OBVIOUS
  <2>3. UNCHANGED rows /\ (next - 1)' = n /\ n \in 0 .. Len(log) /\ Repairable(rows, i, n)
    BY <1>0, <1>2, <1>3, <2>2 DEF Produce
  <2>4. Repairable(rows, i, n)'
    BY <2>1, <2>3, ProduceRepairs
  <2> QED
    BY <2>3, <2>4 DEF Repairable
<1>4. CASE Handle
  <2>1. PICK n, table : n = next /\ table = Handled(rows, next)
    OBVIOUS
  <2>2. /\ UNCHANGED log /\ rows' = table /\ (next - 1)' = n /\ next - 1 = n - 1
        /\ n \in 1 .. Len(log)
    BY <1>0, <1>4, <2>1 DEF Handle, TypeInv
  <2>3. Repairable(table, i, n)
    BY <1>0, <1>2, <2>1, <2>2, HandledRepairs
  <2> QED
    BY <2>2, <2>3, SameRepairs
<1>5. CASE GoOn
  <2>1. PICK n, table : n = next /\ table = rows
    OBVIOUS
  <2>2. /\ UNCHANGED log /\ rows' = table /\ (next - 1)' = n /\ next - 1 = n - 1
        /\ n \in 1 .. Len(log) /\ i \notin About(log[n])
    BY <1>0, <1>5, <2>1 DEF GoOn, TypeInv
  <2>3. Repairable(table, i, n)
    BY <1>0, <1>2, <2>1, <2>2, OtherRepairs
  <2> QED
    BY <2>2, <2>3, SameRepairs
<1>6. CASE \/ Fetch \/ HandleFails \/ TryAgain \/ Commit \/ Crash \/ Restart
           \/ UNCHANGED vars
  <2>1. PICK n, table, m : n = (next - 1)' /\ table = rows /\ m = next - 1
    OBVIOUS
  <2>2. UNCHANGED log /\ rows' = table /\ n \in Int /\ m \in Int /\ n <= m
    BY <1>0, <1>6, <2>1 DEF Fetch, HandleFails, TryAgain, Commit, Crash, Restart, vars
  <2>3. Repairable(table, i, n)
    BY <1>0, <1>2, <2>1, <2>2, MoreRepair
  <2> QED
    BY <2>1, <2>2, <2>3, SameRepairs
<1> QED
  BY <1>3, <1>4, <1>5, <1>6 DEF Next, Consume

THEOREM Repairing == Spec => []RepairInv
<1>1. Init => RepairInv
  BY DEF Init, RepairInv, Repairable, Defining, Gone, NoRows
<1> QED
  BY <1>1, RepairStep, Typed, PTL DEF Spec

-----------------------------------------------------------------------------
(* Replaying.                                                               *)

\* A least counterexample among the offsets from l on.
LEMMA LeastOffset ==
    ASSUME NEW l \in Nat, NEW Bad, Bad # {}, \A k \in Bad : k \in Nat /\ k >= l
    PROVE  \E k \in Bad : \A j \in Bad : j >= k
<1>1. Bad \subseteq Nat
  OBVIOUS
<1>2. PICK k \in Bad : \A j \in Bad : <<j, k>> \notin OpToRel(<, Nat)
  BY <1>1, NatLessThanWellFounded, WFMin
<1>3. \A j \in Bad : ~(j < k)
  BY <1>1, <1>2 DEF OpToRel
<1> QED
  BY <1>1, <1>3

\* One more message of a replay from offset l + 1 on, after the results t of those
\* before.
NextTable(table, t, l, k) == IF k = l THEN table ELSE Handled(t[k - 1], k)

\* The recursive function of Replay exists: it is the limit of its approximations.
LEMMA ReplayExists ==
    ASSUME TypeOK, NEW l \in 0 .. Len(log), NEW table
    PROVE  \E t : t = [k \in l .. Len(log) |-> NextTable(table, t, l, k)]
<1> DEFINE Offs == l .. Len(log)
           Right(t, n) == \A k \in l .. n : t[k] = NextTable(table, t, l, k)
           Reached(n) == \E t : (\E b : t = [k \in Offs |-> b[k]]) /\ Right(t, n)
           Bad == {n \in Offs : ~Reached(n)}
<1>1. l \in Nat /\ Len(log) \in Nat /\ l <= Len(log)
  BY DEF TypeOK
<1>2. ASSUME NEW n \in Bad, \A j \in Bad : j >= n PROVE FALSE
  <2>1. CASE n = l
    <3>1. PICK t : t = [k \in Offs |-> table]
      OBVIOUS
    <3>2. \E b : t = [k \in Offs |-> b[k]]
      BY <3>1
    <3>3. Right(t, n)
      BY <1>1, <2>1, <3>1 DEF NextTable
    <3> QED
      BY <3>2, <3>3
  <2>2. CASE n # l
    <3>1. n - 1 \in Offs /\ n \in Offs
      BY <1>1, <2>2
    <3>2. n - 1 \notin Bad
      <4>1. n \in Int
        BY <1>1, <3>1
      <4> HIDE DEF Bad
      <4> QED
        BY <1>2, <4>1
    <3>3. PICK t : Right(t, n - 1)
      BY <3>1, <3>2
    <3>4. PICK u : u = [k \in Offs |-> NextTable(table, t, l, k)]
      OBVIOUS
    <3>5. \A k \in l .. n - 1 : u[k] = t[k]
      BY <1>1, <3>1, <3>3, <3>4
    <3>6. ASSUME NEW k \in l .. n PROVE u[k] = NextTable(table, u, l, k)
      <4>1. u[k] = NextTable(table, t, l, k)
        BY <1>1, <3>1, <3>4
      <4>2. k # l => u[k - 1] = t[k - 1]
        BY <1>1, <3>1, <3>5
      <4> QED
        BY <4>1, <4>2 DEF NextTable
    <3>7. \E b : u = [k \in Offs |-> b[k]]
      BY <3>4
    <3> QED
      BY <3>6, <3>7
  <2> QED
    BY <2>1, <2>2
<1>3. Bad = {}
  <2>1. \A k \in Bad : k \in Nat /\ k >= l
    BY <1>1
  <2> HIDE DEF Bad
  <2> QED
    BY <1>1, <1>2, <2>1, LeastOffset
<1>4. Len(log) \in Offs
  BY <1>1
<1>5. PICK t : (\E b : t = [k \in Offs |-> b[k]]) /\ Right(t, Len(log))
  BY <1>3, <1>4
<1>6. t = [k \in Offs |-> NextTable(table, t, l, k)]
  BY <1>5
<1> QED
  BY <1>6

LEMMA ReplayDef ==
    ASSUME TypeOK, NEW l \in 0 .. Len(log), NEW table
    PROVE  /\ Replay(table, l + 1)[l] = table
           /\ \A k \in l + 1 .. Len(log) :
                  Replay(table, l + 1)[k] = Handled(Replay(table, l + 1)[k - 1], k)
<1>1. l \in Nat /\ Len(log) \in Nat /\ (l + 1) - 1 = l
  BY DEF TypeOK
<1>2. PICK t : t = [k \in l .. Len(log) |-> NextTable(table, t, l, k)]
  BY ReplayExists
<1>3. Replay(table, l + 1) = CHOOSE f : f = [k \in l .. Len(log) |-> NextTable(table, f, l, k)]
  BY <1>1 DEF Replay, NextTable
<1>4. Replay(table, l + 1)
          = [k \in l .. Len(log) |-> NextTable(table, Replay(table, l + 1), l, k)]
  BY <1>2, <1>3
<1>5. PICK f : f = Replay(table, l + 1)
  OBVIOUS
<1>6. \A k \in l .. Len(log) : f[k] = NextTable(table, f, l, k)
  BY <1>4, <1>5
<1> QED
  BY <1>1, <1>5, <1>6 DEF NextTable

\* Replaying the messages after offset l repairs what they can repair.
LEMMA ReplayRepairs ==
    ASSUME TypeOK, NEW i \in Ids, NEW l \in 0 .. Len(log),
           NEW table \in [Ids -> Row \cup {NoRow}], Repairable(table, i, l)
    PROVE  /\ Replay(table, l + 1)[Len(log)] \in [Ids -> Row \cup {NoRow}]
           /\ Repairable(Replay(table, l + 1)[Len(log)], i, Len(log))
<1>1. l \in Nat /\ Len(log) \in Nat /\ l <= Len(log)
  BY DEF TypeOK
<1>2. PICK t : t = Replay(table, l + 1)
  OBVIOUS
<1>3. t[l] = table /\ \A k \in l + 1 .. Len(log) : t[k] = Handled(t[k - 1], k)
  BY <1>2, ReplayDef
<1> DEFINE Good(k) == t[k] \in [Ids -> Row \cup {NoRow}] /\ Repairable(t[k], i, k)
           Bad == {k \in l .. Len(log) : ~Good(k)}
<1>4. ASSUME NEW k \in Bad, \A j \in Bad : j >= k PROVE FALSE
  <2>1. CASE k = l
    BY <1>3, <2>1
  <2>2. CASE k # l
    <3>1. k - 1 \in l .. Len(log) /\ k \in l + 1 .. Len(log) /\ k \in 1 .. Len(log)
      BY <1>1, <2>2
    <3>2. Good(k - 1)
      BY <1>1, <1>4, <3>1
    <3>3. t[k] = Handled(t[k - 1], k)
      BY <1>3, <3>1
    <3>4. t[k] \in [Ids -> Row \cup {NoRow}]
      BY <3>1, <3>2, <3>3, HandledRow
    <3>5. Repairable(t[k], i, k)
      BY <3>1, <3>2, <3>3, HandledRepairs
    <3> QED
      BY <3>4, <3>5
  <2> QED
    BY <2>1, <2>2
<1>5. Bad = {}
  <2>1. \A k \in Bad : k \in Nat /\ k >= l
    BY <1>1
  <2> HIDE DEF Bad
  <2> QED
    BY <1>1, <1>4, <2>1, LeastOffset
<1>6. Good(Len(log))
  BY <1>1, <1>5
<1> QED
  BY <1>2, <1>6

\* With no messages to come a table has the rows of the end.
LEMMA NothingToRepair ==
    ASSUME TypeOK, NEW i \in Ids, NEW table, Repairable(table, i, Len(log))
    PROVE  /\ table[i] = NoRow <=> Gone(i)
           /\ table[i] # NoRow => Shows(i, table[i].status)
<1>1. (\A d \in Defining(i) : d <= Len(log)) /\ (\A u \in Updates(i) : u <= Len(log))
  BY Offsets
<1> QED
  BY <1>1 DEF Repairable

\* A row shows one thing at the end.
LEMMA ShowsOne ==
    ASSUME TypeOK, NEW i \in Ids, NEW v, Shows(i, v), NEW w, Shows(i, w)
    PROVE  v = w
<1>1. (\A d \in Defining(i) : d \in Int) /\ (\A u \in Updates(i) : u \in Int)
  BY Offsets
<1>2. PICK d \in Defining(i) :
          /\ IsLast(d, i)
          /\ \/ v = Carried(d) /\ \A u \in Updates(i) : u <= d
             \/ v \in Updates(i) /\ v > d /\ \A u \in Updates(i) : u <= v
  BY DEF Shows
<1>3. PICK e \in Defining(i) :
          /\ IsLast(e, i)
          /\ \/ w = Carried(e) /\ \A u \in Updates(i) : u <= e
             \/ w \in Updates(i) /\ w > e /\ \A u \in Updates(i) : u <= w
  BY DEF Shows
<1>4. d = e
  BY <1>1, <1>2, <1>3 DEF IsLast
<1> QED
  BY <1>1, <1>2, <1>3, <1>4

\* A crash at any moment loses nothing and doubles nothing: what the consumer will
\* replay after a restart, from the committed offset on and on top of whatever it did
\* before, gives every aggregate none of whose messages was given up the row that
\* handling every message once would give it.
THEOREM RestartSafe == Spec => []RestartIsSafe
<1>1. ASSUME TypeInv, RepairInv, NEW i \in Ids \ skipped
      PROVE  Content(Replayed(committed + 1)[i]) = Content(Once[i])
  <2>1. /\ TypeOK /\ Len(log) \in Nat /\ committed \in 0 .. Len(log)
        /\ next - 1 \in Int /\ committed <= next - 1
        /\ rows \in [Ids -> Row \cup {NoRow}] /\ NoRows \in [Ids -> Row \cup {NoRow}]
    BY <1>1 DEF TypeInv, TypeOK, NoRows
  <2>2. Repairable(rows, i, committed)
    <3>1. Repairable(rows, i, next - 1)
      BY <1>1 DEF RepairInv
    <3> QED
      BY <2>1, <3>1, MoreRepair
  <2>3. Repairable(NoRows, i, 0)
    <3>1. (\A d \in Defining(i) : d <= 0) => Defining(i) = {}
      BY <2>1, Offsets
    <3> QED
      BY <3>1 DEF Repairable, Gone, NoRows
  <2>4. PICK a : a = Replayed(committed + 1)
    OBVIOUS
  <2>5. PICK b : b = Once
    OBVIOUS
  <2>6. /\ a[i] = NoRow <=> Gone(i)
        /\ a[i] # NoRow => Shows(i, a[i].status)
    <3>1. Repairable(a, i, Len(log))
      BY <2>1, <2>2, <2>4, ReplayRepairs DEF Replayed
    <3> QED
      BY <2>1, <3>1, NothingToRepair
  <2>7. /\ b[i] = NoRow <=> Gone(i)
        /\ b[i] # NoRow => Shows(i, b[i].status)
    <3>1. 0 \in 0 .. Len(log) /\ 0 + 1 = 1
      BY <2>1
    <3>2. Repairable(b, i, Len(log))
      BY <2>1, <2>3, <2>5, <3>1, ReplayRepairs DEF Once
    <3> QED
      BY <2>1, <3>2, NothingToRepair
  <2>8. a[i] # NoRow /\ b[i] # NoRow => a[i].status = b[i].status
    BY <2>1, <2>6, <2>7, ShowsOne
  <2> QED
    BY <2>4, <2>5, <2>6, <2>7, <2>8 DEF Content
<1>2. TypeInv /\ RepairInv => RestartIsSafe
  BY <1>1 DEF RestartIsSafe
<1> QED
  BY <1>2, Typed, Repairing, PTL

-----------------------------------------------------------------------------
(* What the producers say.                                                  *)

\* The greatest member of a set of offsets.
LEMMA MaxExists ==
    ASSUME NEW N \in Nat, NEW S \in SUBSET (1 .. N), S # {}
    PROVE  \E m \in S : \A n \in S : m >= n
<1> DEFINE T == {N - n : n \in S}
<1>1. T \subseteq Nat /\ T # {}
  <2>1. \A n \in S : N - n \in Nat
    OBVIOUS
  <2>2. PICK n \in S : TRUE
    OBVIOUS
  <2>3. N - n \in T
    BY <2>2
  <2> QED
    BY <2>1, <2>3
<1>2. PICK t \in T : \A u \in T : <<u, t>> \notin OpToRel(<, Nat)
  <2> HIDE DEF T
  <2> QED
    BY <1>1, NatLessThanWellFounded, WFMin
<1>3. PICK m \in S : t = N - m
  OBVIOUS
<1>4. ASSUME NEW n \in S PROVE m >= n
  <2>1. N - n \in T /\ N - n \in Nat /\ t \in Nat
    BY <1>1
  <2>2. ~(N - n < t)
    BY <1>1, <1>2, <2>1 DEF OpToRel
  <2> QED
    BY <1>3, <2>2
<1> QED
  BY <1>4

LEMMA MaxIs ==
    ASSUME NEW S, S \subseteq Nat, NEW m \in S, \A n \in S : m >= n
    PROVE  Max(S) = m
<1>1. PICK x : x = Max(S)
  OBVIOUS
<1>2. x \in S /\ \A n \in S : x >= n
  BY <1>1 DEF Max
<1> QED
  BY <1>1, <1>2

LEMMA MaxIn ==
    ASSUME NEW N \in Nat, NEW S \in SUBSET (1 .. N), S # {}
    PROVE  Max(S) \in S /\ \A n \in S : Max(S) >= n
<1>1. PICK m \in S : \A n \in S : m >= n
  BY MaxExists
<1>2. Max(S) = m
  <2>1. S \subseteq Nat
    OBVIOUS
  <2> QED
    BY <1>1, <2>1, MaxIs
<1> QED
  BY <1>1, <1>2


\* The handler's end is the producers', of an aggregate it misreads nothing of.
LEMMA ShownIsStated ==
    ASSUME TypeOK, NEW i \in Ids, i \notin Misread
    PROVE  /\ Gone(i) => Stated(i) = NoRow
           /\ ~Gone(i) => \A v : Shows(i, v) => Stated(i) = v
<1>1. /\ Len(log) \in Nat /\ DOMAIN log = 1 .. Len(log)
      /\ Defining(i) \in SUBSET (1 .. Len(log)) /\ Updates(i) \in SUBSET (1 .. Len(log))
  BY Offsets
<1>2. PICK D : D = Said(i, {"Created", "Deleted"})
  OBVIOUS
<1>3. /\ D \in SUBSET (1 .. Len(log)) /\ D \subseteq Nat /\ D \subseteq Defining(i)
      /\ \A d \in D : log[d].type \in {"Created", "Deleted"} /\ About(log[d]) = {i}
  BY <1>1, <1>2 DEF Said, Defining
<1>4. D = {} => Stated(i) = NoRow
  BY <1>2 DEF Stated
\* Stated, by the last creation or deletion and the last update after it.
<1>5. ASSUME NEW d \in D, \A e \in D : e <= d
      PROVE  /\ log[d].type = "Deleted" => Stated(i) = NoRow
             /\ log[d].type # "Deleted" =>
                    \A v : \/ v = d /\ \A u \in Updates(i) : u <= d
                           \/ v \in Updates(i) /\ v > d /\ \A u \in Updates(i) : u <= v
                           => Stated(i) = v
  <2>1. Max(D) = d
    <3>1. \A e \in D : d >= e
      BY <1>3, <1>5
    <3> QED
      BY <1>3, <3>1, MaxIs
  <2>2. Stated(i) = IF log[d].type = "Deleted" THEN NoRow
                    ELSE Max({d} \cup {n \in Updates(i) : n > d})
    BY <1>2, <1>5, <2>1 DEF Stated, Updates
  <2>3. ASSUME NEW v, \/ v = d /\ \A u \in Updates(i) : u <= d
                      \/ v \in Updates(i) /\ v > d /\ \A u \in Updates(i) : u <= v
        PROVE  Max({d} \cup {n \in Updates(i) : n > d}) = v
    <3>1. PICK S : S = {d} \cup {n \in Updates(i) : n > d}
      OBVIOUS
    <3>2. S \subseteq Nat
      BY <1>1, <1>3, <3>1
    <3>3. v \in S /\ \A n \in S : v >= n
      BY <1>1, <1>3, <2>3, <3>1
    <3> QED
      BY <3>1, <3>2, <3>3, MaxIs
  <2> QED
    BY <2>2, <2>3
<1>6. D # {} => \E d \in D : \A e \in D : e <= d
  <2>1. D # {} => \E d \in D : \A e \in D : d >= e
    BY <1>1, <1>3, MaxExists
  <2> QED
    BY <1>3, <2>1
<1>7. CASE i \notin Crm
  <2>1. Defining(i) = D
    BY <1>2, <1>7 DEF Defining, Said
  <2>2. \A d \in D : IsLast(d, i) <=> \A e \in D : e <= d
    BY <2>1 DEF IsLast
  <2>3. ASSUME Gone(i) PROVE Stated(i) = NoRow
    BY <1>4, <1>5, <1>6, <2>1, <2>2, <2>3 DEF Gone, Removes
  <2>4. ASSUME ~Gone(i), NEW v, Shows(i, v) PROVE Stated(i) = v
    <3>1. PICK d \in D :
              /\ IsLast(d, i)
              /\ \/ v = Carried(d) /\ \A u \in Updates(i) : u <= d
                 \/ v \in Updates(i) /\ v > d /\ \A u \in Updates(i) : u <= v
      BY <2>1, <2>4 DEF Shows
    <3>2. PICK e \in D : IsLast(e, i) /\ ~Removes(e, i)
      BY <2>1, <2>4 DEF Gone
    <3>3. d = e
      BY <1>3, <2>2, <3>1, <3>2
    <3>4. log[d].type = "Created"
      BY <1>3, <1>7, <3>2, <3>3 DEF Removes
    <3>5. Carried(d) = d
      BY <3>4 DEF Carried
    <3> QED
      BY <1>5, <2>2, <3>1, <3>4, <3>5
  <2> QED
    BY <2>3, <2>4
<1>8. CASE i \in Crm
  <2>1. /\ Said(i, {"OtherUpdated", "Deleted"}) = {}
        /\ \A n \in Updates(i) : \E m \in Said(i, {"Created"}) : ~(m > n)
    BY <1>8 DEF Misread, Updates
  <2>2. \A d \in Defining(i) : log[d].type \in {"Created", "StatusUpdated"}
    <3>1. ASSUME NEW d \in Defining(i) PROVE log[d].type \in {"Created", "StatusUpdated"}
      <4>1. log[d] \in Event /\ About(log[d]) = {i} /\ d \in DOMAIN log
        BY <3>1 DEF TypeOK, Defining
      <4>2. log[d].type \in Types
        BY <4>1, EventKinds
      <4>3. log[d].type \notin {"OtherUpdated", "Deleted"}
        BY <2>1, <4>1 DEF Said
      <4> QED
        BY <4>2, <4>3 DEF Types
    <3> QED
      BY <3>1
  <2>3. Updates(i) \subseteq Defining(i) /\ Said(i, {"Created"}) \subseteq D
    BY <1>2, <1>8 DEF Defining, Updates, Said
  <2>4. \A d \in Defining(i) : log[d].type = "Created" => d \in D
    BY <1>2 DEF Defining, Said
  <2>5. ASSUME Gone(i) PROVE Stated(i) = NoRow
    <3>1. Defining(i) = {}
      <4>1. ASSUME Defining(i) # {} PROVE FALSE
        <5>1. PICK d \in Defining(i) : \A e \in Defining(i) : d >= e
          BY <1>1, <4>1, MaxExists
        <5>2. IsLast(d, i)
          BY <1>1, <5>1 DEF IsLast
        <5> QED
          BY <1>8, <2>5, <5>2 DEF Gone, Removes
      <4> QED
        BY <4>1
    <3> QED
      BY <1>3, <1>4, <3>1
  <2>6. ASSUME NEW v, Shows(i, v) PROVE Stated(i) = v
    <3>1. PICK d \in Defining(i) :
              /\ IsLast(d, i)
              /\ \/ v = Carried(d) /\ \A u \in Updates(i) : u <= d
                 \/ v \in Updates(i) /\ v > d /\ \A u \in Updates(i) : u <= v
      BY <2>6 DEF Shows
    <3>2. (\A u \in Updates(i) : u <= d) /\ (\A e \in D : e <= d)
      BY <1>3, <2>3, <3>1 DEF IsLast
    <3>3. v = d
      <4>1. Carried(d) = d
        BY <2>2 DEF Carried
      <4>2. \A u \in Updates(i) : ~(u > d)
        BY <1>1, <3>2
      <4> QED
        BY <3>1, <4>1, <4>2
    <3>4. CASE log[d].type = "Created"
      BY <1>5, <2>4, <3>2, <3>3, <3>4
    <3>5. CASE log[d].type = "StatusUpdated"
      <4>1. d \in Updates(i)
        BY <3>5 DEF Updates, Said, Defining
      <4>2. D # {}
        BY <2>1, <2>3, <4>1
      <4>3. PICK l \in D : \A e \in D : e <= l
        BY <1>6, <4>2
      <4>4. log[l].type = "Created"
        BY <1>3, <2>2, <4>3
      <4>5. l < d
        BY <1>1, <1>3, <3>2, <3>5, <4>3, <4>4
      <4>6. d > l
        BY <1>1, <1>3, <4>5
      <4>7. \A u \in Updates(i) : u <= d
        BY <3>2
      <4> QED
        BY <1>5, <3>3, <4>1, <4>3, <4>4, <4>6, <4>7
    <3> QED
      BY <2>2, <3>4, <3>5
  <2> QED
    BY <2>5, <2>6
<1> QED
  BY <1>7, <1>8

\* The safety half of Converges: whenever the consumer has caught up, whatever crashes
\* and failures went before, the read models show what the producers say, of every
\* aggregate none of whose messages was given up or misread.
THEOREM CaughtUpIsFaithful ==
    Spec => [](stage = "polling" /\ next = Len(log) + 1 => Faithful(rows))
<1>1. ASSUME TypeInv, RepairInv, next = Len(log) + 1, NEW i \in Ids \ (skipped \cup Misread)
      PROVE  Content(rows[i]) = Stated(i)
  <2>1. TypeOK /\ next - 1 = Len(log)
    BY <1>1 DEF TypeInv, TypeOK
  <2>2. Repairable(rows, i, Len(log))
    BY <1>1, <2>1 DEF RepairInv
  <2>3. /\ rows[i] = NoRow <=> Gone(i)
        /\ rows[i] # NoRow => Shows(i, rows[i].status)
    BY <2>1, <2>2, NothingToRepair
  <2>4. /\ Gone(i) => Stated(i) = NoRow
        /\ ~Gone(i) => \A v : Shows(i, v) => Stated(i) = v
    BY <2>1, ShownIsStated
  <2> QED
    BY <2>3, <2>4 DEF Content
<1>2. TypeInv /\ RepairInv => (stage = "polling" /\ next = Len(log) + 1 => Faithful(rows))
  BY <1>1 DEF Faithful
<1> QED
  BY <1>2, Typed, Repairing, PTL

=============================================================================
