----------------------------- MODULE ExampleProofs -----------------------------
(***************************************************************************)
(* Theorems about ExampleService, for any number of requests through       *)
(* either handler: which overlaps duplicate a name or bring back a deleted *)
(* example, and when the last event tells the truth.                       *)
(***************************************************************************)
EXTENDS ExampleService, FiniteSetTheorems, TLAPS

-----------------------------------------------------------------------------
(* Typing, with what each stage of a request knows and how ids are given.   *)

\* The requests that have inserted an example.
Creators == {r \in Req : pc[r] # "idle" /\ call[r].op = "Create" /\ local[r].id # 0}

\* What a request at a stage is doing and holds.
StageOf(r) ==
    /\ pc[r] = "idle" => local[r].id = 0
    /\ pc[r] # "idle" => call[r] \in Call
    /\ pc[r] \in {"exists", "insert"} => call[r].op = "Create" /\ local[r].id = 0
    /\ pc[r] = "find" => call[r].op \in {"Get", "Update", "Delete", "List"}
    /\ pc[r] = "save" => call[r].op = "Update"
    /\ pc[r] = "delete" => call[r].op = "Delete"
    /\ pc[r] = "publish" => call[r].op \in {"Create", "Update", "Delete"}
    /\ pc[r] \in {"save", "delete", "publish"} =>
           local[r].id # 0 /\ (call[r].op # "Create" => local[r].id = call[r].id)
    /\ pc[r] = "OK" /\ call[r].op \in {"Create", "Delete"} => local[r].id # 0
    /\ pc[r] # "idle" /\ local[r].id # 0 /\ call[r].op # "Create" =>
           local[r].id = call[r].id
    /\ local[r].id \in 0 .. lastId

Stages == \A r \in Req : StageOf(r)

\* Every id that was given has one creator; there are no rows beyond.
GivenIds ==
    /\ lastId = Cardinality(Creators)
    /\ \A q, r \in Creators : local[q].id = local[r].id => q = r
    /\ \A i \in 1 .. lastId : \E c \in Creators : local[c].id = i
    /\ \A i \in Ids : Live(i) => i <= lastId

\* Whoever ended before a request arrived has ended.
EndedBefore ==
    \A r \in Req : /\ before[r] \subseteq {q \in Req : pc[q] \in Answered}
                   /\ pc[r] = "idle" => before[r] = {}

TypeInv == TypeOK /\ Stages /\ GivenIds /\ EndedBefore

Acts(r) == Step(r) \/ StatementFails(r)

LEMMA CallKinds ==
    ASSUME NEW c \in Call
    PROVE  /\ c.via \in Vias /\ c.op \in {"Create", "Get", "Delete", "List", "Update"}
           /\ c.op = "Create" => c.name \in Names \cup {NoName}
           /\ c.op \in {"Get", "Delete", "Update"} => c.id \in Asked
           /\ c.op = "Update" => c.name \in Names \cup {NoName} /\ c.status \in {"inactive", ""}
BY DEF Call

LEMMA Outcome ==
    ASSUME NEW via, NEW result
    PROVE  /\ Code(via, result) \in {result, "500"}
           /\ Code(via, "OK") = "OK"
BY DEF Code

\* A request moves only itself, keeps its call, and never after its answer.
LEMMA StepFrame ==
    ASSUME TypeInv, NEW r \in Req, Acts(r)
    PROVE  /\ pc[r] \notin Answered /\ pc'[r] # "idle"
           /\ pc' = [pc EXCEPT ![r] = pc'[r]]
           /\ pc[r] # "idle" => call' = call /\ before' = before
           /\ \A q \in Req \ {r} : /\ pc'[q] = pc[q] /\ call'[q] = call[q]
                                   /\ local'[q] = local[q] /\ before'[q] = before[q]
<1> USE DEF TypeInv, TypeOK, Answered, Errors
<1>1. CASE Arrive(r)
  <2>1. PICK c \in Call :
            /\ pc[r] = "idle" /\ call' = [call EXCEPT ![r] = c]
            /\ pc' = [pc EXCEPT ![r] = IF Valid(c) THEN First[c.op] ELSE "InvalidArgument"]
            /\ before' = [before EXCEPT ![r] = {q \in Req : pc[q] \in Answered}]
            /\ UNCHANGED <<examples, lastId, events, local>>
    BY <1>1 DEF Arrive, Goto
  <2>2. First[c.op] \in {"exists", "find"}
    <3>1. c.op \in {"Create", "Get", "Delete", "List", "Update"}
      BY CallKinds
    <3> QED
      BY <3>1 DEF First
  <2> QED
    BY <2>1, <2>2
<1>2. CASE ~Arrive(r)
  <2>1. \A result \in {"OK", "NotFound", "AlreadyExists", "Internal"} :
            Code(call[r].via, result) \in {result, "500"}
    BY Outcome
  <2>2. CASE CreateExists(r) \/ CreateInsert(r)
    BY <2>1, <2>2 DEF CreateExists, CreateInsert, Return, Goto
  <2>3. CASE Find(r)
    <3>1. call[r].op \in {"Get", "Update", "Delete"}
      BY <2>3 DEF Find, Stages, StageOf
    <3> QED
      BY <2>3, <3>1 DEF Find, AfterFind, Goto
  <2>4. CASE FindMisses(r) \/ FindAll(r)
    BY <2>1, <2>4 DEF FindMisses, FindAll, Return, Goto
  <2>5. CASE UpdateSave(r) \/ DeleteRow(r)
    BY <2>5 DEF UpdateSave, DeleteRow, Goto
  <2>6. CASE Publish(r) \/ EventLost(r)
    BY <2>1, <2>6 DEF Publish, EventLost, Return, Goto
  <2>7. CASE StatementFails(r)
    BY <2>1, <2>7 DEF StatementFails, InFlight, Running, Return, Goto
  <2> QED
    BY <1>2, <2>2, <2>3, <2>4, <2>5, <2>6, <2>7 DEF Acts, Step
<1> QED
  BY <1>1, <1>2

LEMMA TypeInit == Init => TypeInv
<1> SUFFICES ASSUME Init PROVE TypeInv
  OBVIOUS
<1>1. IsFiniteSet(Req) /\ Cardinality(Req) \in Nat
  BY AskedAssumption, FS_CardinalityType
<1>2. TypeOK
  <2>1. lastId \in 0 .. Cardinality(Req) /\ events \in Seq(Event)
    BY <1>1 DEF Init
  <2>2. Unset \in Example
    BY DEF Unset, Example, Statuses
  <2> QED
    BY <2>1, <2>2 DEF Init, TypeOK
<1>3. Stages
  BY DEF Init, Stages, StageOf, Unset
<1>4. Creators = {}
  BY DEF Init, Creators
<1>5. GivenIds
  BY <1>4, FS_EmptySet DEF Init, GivenIds, Live
<1>6. EndedBefore
  BY DEF Init, EndedBefore
<1> QED
  BY <1>2, <1>3, <1>5, <1>6 DEF TypeInv

\* What was answered stays answered, and arrived is arrived.
LEMMA AnswersStay ==
    ASSUME TypeInv, [Next]_vars
    PROVE  /\ \A q \in Req : pc[q] \in Answered => pc'[q] = pc[q] /\ local'[q] = local[q]
           /\ \A q \in Req : pc[q] # "idle" =>
                  pc'[q] # "idle" /\ call'[q] = call[q] /\ before'[q] = before[q]
<1>1. ASSUME NEW r \in Req, Acts(r)
      PROVE  /\ \A q \in Req : pc[q] \in Answered => pc'[q] = pc[q] /\ local'[q] = local[q]
             /\ \A q \in Req : pc[q] # "idle" =>
                    pc'[q] # "idle" /\ call'[q] = call[q] /\ before'[q] = before[q]
  BY <1>1, StepFrame
<1>2. CASE Crash
  BY <1>2 DEF Crash, TypeInv, TypeOK, InFlight, Running, Answered, Errors
<1>3. CASE UNCHANGED vars
  BY <1>3 DEF vars
<1> QED
  BY <1>1, <1>2, <1>3 DEF Next, Acts

LEMMA EndedBeforeStep ==
    ASSUME TypeInv, [Next]_vars
    PROVE  EndedBefore'
<1> SUFFICES ASSUME NEW r \in Req
             PROVE  /\ before'[r] \subseteq {q \in Req : pc'[q] \in Answered}
                    /\ pc'[r] = "idle" => before'[r] = {}
  BY DEF EndedBefore
<1>1. CASE before'[r] = before[r] /\ (pc'[r] = "idle" => pc[r] = "idle")
  BY <1>1, AnswersStay DEF TypeInv, EndedBefore
<1>2. CASE Arrive(r)
  <2>1. before'[r] = {q \in Req : pc[q] \in Answered} /\ pc'[r] # "idle"
    BY <1>2, StepFrame DEF Arrive, Acts, Step, TypeInv, TypeOK
  <2> QED
    BY <2>1, AnswersStay
<1>3. ASSUME Acts(r), ~Arrive(r) PROVE before' = before /\ pc'[r] # "idle"
  BY <1>3, StepFrame DEF Acts, Step, CreateExists, CreateInsert, Find, FindMisses, FindAll,
     UpdateSave, DeleteRow, Publish, EventLost, StatementFails
<1>4. ASSUME NEW q \in Req \ {r}, Acts(q) PROVE before'[r] = before[r] /\ pc'[r] = pc[r]
  BY <1>4, StepFrame
<1>5. Crash \/ UNCHANGED vars =>
          before'[r] = before[r] /\ (pc'[r] = "idle" => pc[r] = "idle")
  BY DEF Crash, vars, TypeInv, TypeOK
<1> QED
  BY <1>1, <1>2, <1>3, <1>4, <1>5 DEF Next, Acts

\* Only an insert gives an id.
LEMMA IdsKept ==
    ASSUME TypeInv, NEW r \in Req, Acts(r), UNCHANGED lastId,
           r \in Creators' <=> r \in Creators,
           r \in Creators => local'[r].id = local[r].id,
           \A i \in Ids : Live(i)' => Live(i) \/ i <= lastId
    PROVE  GivenIds'
<1>1. \A q \in Req \ {r} : /\ q \in Creators' <=> q \in Creators
                           /\ local'[q] = local[q]
  BY StepFrame DEF Creators
<1>2. Creators' = Creators
  BY <1>1 DEF Creators
<1>3. \A q \in Creators : local'[q].id = local[q].id
  BY <1>1 DEF Creators
<1> QED
  BY <1>2, <1>3 DEF GivenIds, TypeInv

LEMMA StagesKept ==
    ASSUME TypeInv, NEW r \in Req, Acts(r), lastId' \in Nat, lastId <= lastId', StageOf(r)'
    PROVE  Stages'
<1>1. lastId \in Nat
  BY DEF TypeInv, TypeOK
<1>2. ASSUME NEW q \in Req \ {r} PROVE StageOf(q)'
  <2>1. StageOf(q) /\ pc'[q] = pc[q] /\ call'[q] = call[q] /\ local'[q] = local[q]
    BY StepFrame DEF TypeInv, Stages
  <2> QED
    BY <1>1, <2>1 DEF StageOf
<1> QED
  BY <1>2 DEF Stages

\* The steps that read: they leave the tables, the ids and the events alone.
LEMMA ArriveTyped ==
    ASSUME TypeInv, NEW r \in Req, Arrive(r)
    PROVE  TypeOK' /\ Stages' /\ GivenIds'
<1>0. Acts(r)
  BY DEF Acts, Step
<1>1. PICK c \in Call :
          /\ pc[r] = "idle" /\ call' = [call EXCEPT ![r] = c]
          /\ pc' = [pc EXCEPT ![r] = IF Valid(c) THEN First[c.op] ELSE "InvalidArgument"]
          /\ before' = [before EXCEPT ![r] = {q \in Req : pc[q] \in Answered}]
          /\ UNCHANGED <<examples, lastId, events, local>>
  BY DEF Arrive, Goto
<1>2. /\ First[c.op] \in {"exists", "find"}
      /\ First[c.op] = "exists" => c.op = "Create"
      /\ First[c.op] = "find" => c.op \in {"Get", "Update", "Delete", "List"}
  <2>1. c.op \in {"Create", "Get", "Delete", "List", "Update"}
    BY CallKinds
  <2> QED
    BY <2>1 DEF First
<1>3. local[r].id = 0 /\ lastId \in Nat
  BY <1>1 DEF TypeInv, Stages, StageOf, TypeOK
<1>4. /\ pc'[r] \in {"exists", "find", "InvalidArgument"} /\ call'[r] = c
      /\ pc'[r] = "exists" => c.op = "Create"
      /\ pc'[r] = "find" => c.op \in {"Get", "Update", "Delete", "List"}
  <2>1. PICK f : f = First[c.op]
    OBVIOUS
  <2>2. pc'[r] = f \/ pc'[r] = "InvalidArgument"
    BY <1>1, <2>1 DEF TypeInv, TypeOK
  <2>3. /\ f \in {"exists", "find"}
        /\ f = "exists" => c.op = "Create"
        /\ f = "find" => c.op \in {"Get", "Update", "Delete", "List"}
    BY <1>2, <2>1
  <2>4. call'[r] = c
    BY <1>1 DEF TypeInv, TypeOK
  <2> QED
    BY <2>2, <2>3, <2>4
<1>5. StageOf(r)'
  BY <1>1, <1>3, <1>4 DEF StageOf
<1>6. TypeOK'
  BY <1>1, <1>4 DEF TypeInv, TypeOK, Running, Answered, Errors
<1>7. r \notin Creators /\ r \notin Creators'
  BY <1>1, <1>3 DEF Creators
<1> QED
  BY <1>0, <1>1, <1>3, <1>5, <1>6, <1>7, StagesKept, IdsKept DEF Live

LEMMA ReadTyped ==
    ASSUME TypeInv, NEW r \in Req,
           \/ CreateExists(r) \/ FindMisses(r) \/ FindAll(r) \/ EventLost(r)
           \/ StatementFails(r)
    PROVE  TypeOK' /\ Stages' /\ GivenIds'
<1>0. Acts(r)
  BY DEF Acts, Step
<1>1. /\ UNCHANGED <<examples, lastId, events, call, local, before>>
      /\ pc[r] \in Running
  BY DEF CreateExists, FindMisses, FindAll, EventLost, StatementFails, InFlight, Running
<1>2. /\ pc'[r] \in {"insert", "OK"} \cup Errors
      /\ pc'[r] = "insert" => pc[r] = "exists"
      /\ pc'[r] = "OK" => pc[r] = "publish" \/ call[r].op = "List"
      /\ pc' = [pc EXCEPT ![r] = pc'[r]]
  <2>1. \A result \in {"OK", "NotFound", "AlreadyExists", "Internal"} :
            Code(call[r].via, result) \in {result, "500"}
    BY Outcome
  <2> QED
    BY <2>1 DEF CreateExists, FindMisses, FindAll, EventLost, StatementFails, InFlight,
       Return, Goto, TypeInv, TypeOK, Errors
<1>3. StageOf(r)'
  BY <1>1, <1>2 DEF StageOf, TypeInv, Stages, Running, Errors
<1>4. TypeOK'
  BY <1>1, <1>2 DEF TypeInv, TypeOK, Running, Answered
<1>5. r \in Creators' <=> r \in Creators
  BY <1>1, <1>2 DEF Creators, Running, Errors
<1>6. lastId \in Nat
  BY DEF TypeInv, TypeOK
<1> QED
  BY <1>0, <1>1, <1>3, <1>4, <1>5, <1>6, StagesKept, IdsKept DEF Live

LEMMA FindTyped ==
    ASSUME TypeInv, NEW r \in Req, Find(r)
    PROVE  TypeOK' /\ Stages' /\ GivenIds'
<1>0. Acts(r)
  BY DEF Acts, Step
<1>1. PICK i \in Ids : i = call[r].id /\ examples[i] # NoRow
  BY DEF Find, Live
<1>2. PICK m : m = [id |-> i, name |-> examples[i].name, status |-> examples[i].status]
  OBVIOUS
<1>3. m \in Example
  BY <1>1, <1>2 DEF TypeInv, TypeOK, Row, Example
<1>4. /\ local' = [local EXCEPT ![r] = m]
      /\ UNCHANGED <<examples, lastId, events, call, before>>
      /\ pc[r] = "find" /\ pc' = [pc EXCEPT ![r] = AfterFind[call[r].op]]
      /\ call[r].op \in {"Get", "Update", "Delete"}
  BY <1>1, <1>2 DEF Find, Goto, TypeInv, Stages, StageOf
<1>5. /\ pc'[r] \in {"OK", "save", "delete"}
      /\ pc'[r] = "OK" => call[r].op = "Get"
      /\ pc'[r] = "save" => call[r].op = "Update"
      /\ pc'[r] = "delete" => call[r].op = "Delete"
  BY <1>4 DEF AfterFind, TypeInv, TypeOK
<1>6. i # 0 /\ i <= lastId /\ lastId \in Nat
  BY <1>1 DEF TypeInv, TypeOK, GivenIds, Live, Ids
<1>7. local'[r].id = i
  BY <1>2, <1>4 DEF TypeInv, TypeOK
<1>8. i \in 0 .. lastId
  BY <1>1, <1>6 DEF Ids
<1>9. StageOf(r)'
  BY <1>1, <1>4, <1>5, <1>6, <1>7, <1>8 DEF StageOf, TypeInv, Stages
<1>10. TypeOK'
  BY <1>3, <1>4, <1>5 DEF TypeInv, TypeOK, Running, Answered
<1>11. r \notin Creators /\ r \notin Creators'
  BY <1>4 DEF Creators
<1> QED
  BY <1>0, <1>4, <1>6, <1>9, <1>10, <1>11, StagesKept, IdsKept DEF Live

\* The steps that write.
LEMMA InsertTyped ==
    ASSUME TypeInv, NEW r \in Req, CreateInsert(r)
    PROVE  TypeOK' /\ Stages' /\ GivenIds'
<1>0. Acts(r)
  BY DEF Acts, Step
<1>1. PICK new : new = lastId + 1
  OBVIOUS
<1>2. PICK m : m = [id |-> new, name |-> call[r].name, status |-> "active"]
  OBVIOUS
<1>3. /\ pc[r] = "insert" /\ call[r].op = "Create" /\ local[r].id = 0 /\ call[r] \in Call
      /\ call[r].name \in Names \cup {NoName}
  BY CallKinds DEF CreateInsert, TypeInv, Stages, StageOf
<1>4. r \notin Creators
  BY <1>3 DEF Creators
<1>5. /\ lastId \in Nat /\ new \in Ids /\ new \in Nat
      /\ IsFiniteSet(Creators) /\ Cardinality(Creators \cup {r}) = new
      /\ new <= Cardinality(Req)
  <2>1. IsFiniteSet(Creators) /\ IsFiniteSet(Creators \cup {r})
    BY AskedAssumption, FS_Subset, FS_AddElement DEF Creators
  <2>2. Cardinality(Creators \cup {r}) = lastId + 1
    BY <1>4, <2>1, FS_AddElement DEF TypeInv, GivenIds
  <2>3. Cardinality(Creators \cup {r}) <= Cardinality(Req) /\ Cardinality(Req) \in Nat
    BY AskedAssumption, FS_Subset, FS_CardinalityType DEF Creators
  <2>4. lastId \in Nat
    BY DEF TypeInv, TypeOK
  <2> QED
    BY <1>1, <2>1, <2>2, <2>3, <2>4 DEF Ids
<1>6. m \in Example /\ [name |-> call[r].name, status |-> "active"] \in Row
  BY <1>2, <1>3, <1>5 DEF Example, Row, Statuses
<1>7. /\ lastId' = new /\ local' = [local EXCEPT ![r] = m]
      /\ examples' = [examples EXCEPT ![new] = [name |-> call[r].name, status |-> "active"]]
      /\ pc' = [pc EXCEPT ![r] = "publish"] /\ UNCHANGED <<events, call, before>>
  BY <1>1, <1>2 DEF CreateInsert, Goto
<1>8. TypeOK'
  <2>1. new \in 0 .. Cardinality(Req)
    BY <1>5
  <2> QED
    BY <1>5, <1>6, <1>7, <2>1 DEF TypeInv, TypeOK, Running
<1>9. local'[r].id = new /\ pc'[r] = "publish" /\ new # 0 /\ new \in 0 .. new
  BY <1>1, <1>2, <1>5, <1>7 DEF TypeInv, TypeOK
<1>10. StageOf(r)'
  BY <1>3, <1>7, <1>9 DEF StageOf
<1>11. Creators' = Creators \cup {r}
  <2>1. \A q \in Req \ {r} : q \in Creators' <=> q \in Creators
    BY <1>0, StepFrame DEF Creators
  <2>2. r \in Creators'
    BY <1>3, <1>7, <1>9 DEF Creators
  <2> QED
    BY <2>1, <2>2 DEF Creators
<1>12. \A q \in Creators : local'[q] = local[q] /\ local[q].id \in 1 .. lastId
  BY <1>0, <1>4, StepFrame DEF Creators, TypeInv, Stages, StageOf
<1>13. GivenIds'
  <2>1. \A p, q \in Creators' : local'[p].id = local'[q].id => p = q
    BY <1>1, <1>5, <1>9, <1>11, <1>12 DEF TypeInv, GivenIds
  <2>2. \A i \in 1 .. new : \E c \in Creators' : local'[c].id = i
    <3>1. ASSUME NEW i \in 1 .. new, i # new PROVE \E c \in Creators' : local'[c].id = i
      BY <1>1, <1>5, <1>11, <1>12, <3>1 DEF TypeInv, GivenIds
    <3> QED
      BY <1>9, <1>11, <3>1
  <2>3. \A i \in Ids : Live(i)' => i <= new
    BY <1>1, <1>5, <1>7 DEF TypeInv, TypeOK, GivenIds, Live, Ids
  <2> QED
    BY <1>5, <1>7, <1>11, <2>1, <2>2, <2>3 DEF GivenIds
<1> QED
  BY <1>0, <1>1, <1>5, <1>7, <1>8, <1>10, <1>13, StagesKept

LEMMA EditedType ==
    ASSUME TypeInv, NEW r \in Req, pc[r] = "save"
    PROVE  /\ Edited(r) \in Example /\ Edited(r).id = local[r].id
           /\ Edited(r).name = IF call[r].name = NoName THEN local[r].name ELSE call[r].name
           /\ [name |-> Edited(r).name, status |-> Edited(r).status] \in Row
<1>1. call[r] \in Call /\ call[r].op = "Update"
  BY DEF TypeInv, Stages, StageOf
<1>2. /\ call[r].name \in Names \cup {NoName} /\ call[r].status \in {"inactive", ""}
  BY <1>1, CallKinds
<1>3. local[r] \in Example
  BY DEF TypeInv, TypeOK
<1>4. PICK m, n, t : /\ m = local[r]
                     /\ n = IF call[r].name = NoName THEN local[r].name ELSE call[r].name
                     /\ t = IF call[r].status = "" THEN local[r].status ELSE call[r].status
  OBVIOUS
<1>5. n \in Names \cup {NoName} /\ t \in Statuses /\ m \in Example
  BY <1>2, <1>3, <1>4 DEF Example, Statuses
<1>6. Edited(r) = [m EXCEPT !.name = n, !.status = t]
  BY <1>4 DEF Edited
<1>7. Edited(r) = [id |-> m.id, name |-> n, status |-> t]
  BY <1>5, <1>6 DEF Example
<1>8. Edited(r).id = m.id /\ Edited(r).name = n /\ Edited(r).status = t
  BY <1>7
<1>9. Edited(r) \in Example
  BY <1>5, <1>7 DEF Example
<1>10. [name |-> n, status |-> t] \in Row
  BY <1>5 DEF Row
<1> QED
  BY <1>4, <1>8, <1>9, <1>10

LEMMA WriteTyped ==
    ASSUME TypeInv, NEW r \in Req, UpdateSave(r) \/ DeleteRow(r)
    PROVE  TypeOK' /\ Stages' /\ GivenIds'
<1>0. Acts(r)
  BY DEF Acts, Step
<1>1. /\ pc[r] \in {"save", "delete"} /\ call[r].op \in {"Update", "Delete"}
      /\ local[r].id # 0 /\ local[r].id = call[r].id /\ local[r].id \in 0 .. lastId
      /\ lastId \in Nat /\ lastId <= Cardinality(Req) /\ Cardinality(Req) \in Nat
  BY AskedAssumption, FS_CardinalityType DEF UpdateSave, DeleteRow, TypeInv, TypeOK, Stages,
     StageOf
<1>2. PICK i \in 1 .. lastId : i = call[r].id
  BY <1>1
<1>3. i \in Ids
  BY <1>1 DEF Ids
<1>4. PICK row \in Row \cup {NoRow}, m \in Example :
          /\ examples' = [examples EXCEPT ![i] = row]
          /\ local' = [local EXCEPT ![r] = m] /\ m.id = i
          /\ pc' = [pc EXCEPT ![r] = "publish"] /\ UNCHANGED <<lastId, events, call, before>>
  <2>1. CASE UpdateSave(r)
    BY <1>1, <1>2, <2>1, EditedType DEF UpdateSave, Goto
  <2>2. CASE DeleteRow(r)
    <3>1. local[r] \in Example /\ local = [local EXCEPT ![r] = local[r]]
      BY DEF TypeInv, TypeOK
    <3> QED
      BY <1>1, <1>2, <2>2, <3>1 DEF DeleteRow, Goto
  <2> QED
    BY <2>1, <2>2
<1>5. local'[r].id = i /\ pc'[r] = "publish"
  BY <1>4 DEF TypeInv, TypeOK
<1>6. StageOf(r)'
  BY <1>1, <1>2, <1>4, <1>5 DEF StageOf, TypeInv, Stages
<1>7. TypeOK'
  BY <1>3, <1>4 DEF TypeInv, TypeOK, Running
<1>8. r \notin Creators /\ r \notin Creators'
  BY <1>1, <1>4 DEF Creators
<1>9. \A j \in Ids : Live(j)' => Live(j) \/ j <= lastId
  BY <1>1, <1>3, <1>4 DEF Live, TypeInv, TypeOK
<1> QED
  BY <1>0, <1>1, <1>4, <1>6, <1>7, <1>8, <1>9, StagesKept, IdsKept

LEMMA EventType ==
    ASSUME TypeInv, NEW r \in Req, pc[r] = "publish"
    PROVE  /\ EventOf(r) \in Event /\ EventOf(r).by = r /\ EventOf(r).id = local[r].id
           /\ call[r].op \in {"Create", "Update", "Delete"}
           /\ EventOf(r).type = "ExampleDeleted" <=> call[r].op = "Delete"
           /\ call[r].op # "Delete" => EventOf(r).name = local[r].name
<1>1. call[r].op \in {"Create", "Update", "Delete"} /\ local[r].id \in Ids
  BY AskedAssumption, FS_CardinalityType DEF TypeInv, TypeOK, Stages, StageOf, Ids
<1>2. local[r] \in Example
  BY DEF TypeInv, TypeOK
<1> QED
  BY <1>1, <1>2 DEF EventOf, Event, Example

LEMMA PublishTyped ==
    ASSUME TypeInv, NEW r \in Req, Publish(r)
    PROVE  TypeOK' /\ Stages' /\ GivenIds'
<1>0. Acts(r) /\ pc[r] = "publish"
  BY DEF Acts, Step, Publish
<1>1. /\ pc' = [pc EXCEPT ![r] = "OK"] /\ events' = Append(events, EventOf(r))
      /\ UNCHANGED <<examples, lastId, call, local, before>>
  BY Outcome DEF Publish, Return, Goto
<1>2. EventOf(r) \in Event
  BY <1>0, EventType
<1>3. StageOf(r)'
  BY <1>0, <1>1 DEF StageOf, TypeInv, TypeOK, Stages
<1>4. events' \in Seq(Event)
  BY <1>1, <1>2 DEF TypeInv, TypeOK
<1>5. TypeOK'
  BY <1>1, <1>4 DEF TypeInv, TypeOK, Answered
<1>6. r \in Creators' <=> r \in Creators
  BY <1>0, <1>1 DEF Creators, TypeInv, TypeOK
<1>7. lastId \in Nat
  BY DEF TypeInv, TypeOK
<1> QED
  BY <1>0, <1>1, <1>3, <1>5, <1>6, <1>7, StagesKept, IdsKept DEF Live

LEMMA CrashTyped ==
    ASSUME TypeInv, Crash
    PROVE  TypeOK' /\ Stages' /\ GivenIds'
<1>1. /\ pc' = [r \in Req |-> IF InFlight(r) THEN "crashed" ELSE pc[r]]
      /\ UNCHANGED <<examples, lastId, events, call, local, before>>
  BY DEF Crash
<1>2. TypeOK'
  BY <1>1 DEF TypeInv, TypeOK, Answered
<1>3. Stages'
  BY <1>1 DEF TypeInv, Stages, StageOf, InFlight, Running
<1>4. Creators' = Creators
  BY <1>1 DEF Creators, InFlight, Running
<1>5. GivenIds'
  BY <1>1, <1>4 DEF TypeInv, GivenIds, Live
<1> QED
  BY <1>2, <1>3, <1>5

LEMMA TypeStep == TypeInv /\ [Next]_vars => TypeInv'
<1> SUFFICES ASSUME TypeInv, [Next]_vars PROVE TypeOK' /\ Stages' /\ GivenIds'
  BY EndedBeforeStep DEF TypeInv
<1>1. ASSUME NEW r \in Req, Acts(r) PROVE TypeOK' /\ Stages' /\ GivenIds'
  BY <1>1, ArriveTyped, ReadTyped, FindTyped, InsertTyped, WriteTyped, PublishTyped
     DEF Acts, Step
<1>2. CASE Crash
  BY <1>2, CrashTyped
<1>3. CASE UNCHANGED vars
  BY <1>3 DEF vars, TypeInv, TypeOK, Stages, StageOf, GivenIds, Creators, Live
<1> QED
  BY <1>1, <1>2, <1>3 DEF Next, Acts

\* The inductive invariant of the typing.
THEOREM Typed == Spec => []TypeInv
BY TypeInit, TypeStep, PTL DEF Spec

\* Every id that the sequence hands out fits the table, and every event and every
\* example in memory is one, whatever overlaps and breaks off.
THEOREM TypeCorrect == Spec => []TypeOK
<1>1. TypeInv => TypeOK
  BY DEF TypeInv
<1> QED
  BY <1>1, Typed, PTL

-----------------------------------------------------------------------------
(* Overlaps, and which requests are about which example.                    *)

\* Overlaps, and what a request is about, are never taken back; only an arriving
\* request, or an insert, is about an example for the first time.
LEMMA OverlapStays ==
    ASSUME TypeInv, [Next]_vars
    PROVE  \A q, r \in Req : Overlap(q, r) => Overlap(q, r)'
BY AnswersStay DEF Overlap

LEMMA InFlightOverlap ==
    ASSUME TypeInv, NEW q \in Req, NEW r \in Req, q # r, InFlight(q), InFlight(r)
    PROVE  Overlap(q, r)
BY DEF Overlap, TypeInv, EndedBefore, InFlight, Running, Answered, Errors

LEMMA OnStays ==
    ASSUME TypeInv, [Next]_vars, NEW i \in Ids
    PROVE  /\ On("Create", i) \subseteq On("Create", i)'
           /\ On("Update", i) \subseteq On("Update", i)'
           /\ On("Delete", i) \subseteq On("Delete", i)'
<1>1. On("Update", i) \subseteq On("Update", i)' /\ On("Delete", i) \subseteq On("Delete", i)'
  BY AnswersStay DEF On
<1>2. ASSUME NEW c \in On("Create", i) PROVE local'[c].id = local[c].id
  <2>1. c \in Req /\ pc[c] # "idle" /\ call[c].op = "Create" /\ local[c].id # 0
    BY DEF On, Ids
  <2>2. pc[c] \notin {"exists", "insert", "find", "save", "delete"}
    BY <2>1 DEF TypeInv, Stages, StageOf
  <2>3. ASSUME NEW r \in Req, Acts(r) PROVE local'[c].id = local[c].id
    <3>1. CASE r # c
      BY <2>1, <2>3, <3>1, StepFrame
    <3>2. CASE r = c
      BY <2>1, <2>2, <2>3, <3>2 DEF Acts, Step, Arrive, CreateExists, CreateInsert, Find,
         FindMisses, FindAll, UpdateSave, DeleteRow, Publish, EventLost, StatementFails
    <3> QED
      BY <3>1, <3>2
  <2>4. Crash \/ UNCHANGED vars => local'[c].id = local[c].id
    BY DEF Crash, vars
  <2> QED
    BY <2>3, <2>4 DEF Next, Acts
<1>3. On("Create", i) \subseteq On("Create", i)'
  BY <1>2, AnswersStay DEF On
<1> QED
  BY <1>1, <1>3

\* Creators are the creates that are about the example with the id they hold.
LEMMA CreateIsCreator ==
    ASSUME TypeInv, NEW i \in Ids
    PROVE  /\ \A c \in On("Create", i) : /\ c \in Creators /\ local[c].id = i
                                         /\ InFlight(c) => pc[c] = "publish"
           /\ \A c, d \in On("Create", i) : c = d
           /\ Live(i) => On("Create", i) # {} /\ i <= lastId
<1>1. ASSUME NEW c \in On("Create", i)
      PROVE  c \in Creators /\ local[c].id = i /\ (InFlight(c) => pc[c] = "publish")
  <2>1. c \in Req /\ pc[c] # "idle" /\ call[c].op = "Create" /\ local[c].id = i /\ i # 0
    BY DEF On, Ids
  <2>2. pc[c] \notin {"exists", "insert", "find", "save", "delete"}
    BY <2>1 DEF TypeInv, Stages, StageOf
  <2> QED
    BY <2>1, <2>2 DEF Creators, InFlight, Running
<1>2. \A c, d \in On("Create", i) : c = d
  BY <1>1 DEF TypeInv, GivenIds
<1>3. ASSUME Live(i) PROVE On("Create", i) # {} /\ i <= lastId
  <2>1. i \in 1 .. lastId
    BY <1>3 DEF TypeInv, TypeOK, GivenIds, Ids
  <2>2. PICK c \in Creators : local[c].id = i
    BY <2>1 DEF TypeInv, GivenIds
  <2>3. c \in On("Create", i)
    BY <2>2 DEF Creators, On
  <2> QED
    BY <2>1, <2>3
<1> QED
  BY <1>1, <1>2, <1>3

\* How a row can change: by the insert that gives its id, by a save, by a deletion.
LEMMA RowStep ==
    ASSUME TypeInv, [Next]_vars, NEW i \in Ids
    PROVE  \/ examples'[i] = examples[i]
           \/ /\ i = lastId + 1 /\ ~Live(i)
              /\ \E r \in Req : CreateInsert(r) /\ local'[r].id = i
           \/ /\ i <= lastId
              /\ \E r \in Req : UpdateSave(r) /\ r \in On("Update", i)
           \/ /\ i <= lastId
              /\ \E r \in Req : DeleteRow(r) /\ r \in On("Delete", i)
<1>1. lastId \in Nat /\ (Live(i) => i <= lastId)
  BY DEF TypeInv, TypeOK, GivenIds
<1>2. ASSUME NEW r \in Req, CreateInsert(r), examples'[i] # examples[i]
      PROVE  i = lastId + 1 /\ ~Live(i) /\ local'[r].id = i
  <2>1. PICK new : new = lastId + 1
    OBVIOUS
  <2>2. /\ lastId' = new
        /\ examples' = [examples EXCEPT ![new] = [name |-> call[r].name, status |-> "active"]]
        /\ local' = [local EXCEPT ![r] =
               [id |-> new, name |-> call[r].name, status |-> "active"]]
    BY <1>2, <2>1 DEF CreateInsert
  <2>3. i = new
    BY <1>2, <2>2 DEF TypeInv, TypeOK
  <2>4. local'[r].id = new
    BY <2>2 DEF TypeInv, TypeOK
  <2> QED
    BY <1>1, <2>1, <2>3, <2>4
<1>3. ASSUME NEW r \in Req, UpdateSave(r) \/ DeleteRow(r), examples'[i] # examples[i]
      PROVE  /\ i <= lastId
             /\ UpdateSave(r) => r \in On("Update", i)
             /\ DeleteRow(r) => r \in On("Delete", i)
  <2>1. call[r].id = i
    BY <1>3 DEF UpdateSave, DeleteRow, TypeInv, TypeOK
  <2>2. /\ pc[r] \in {"save", "delete"} /\ local[r].id = i /\ local[r].id \in 0 .. lastId
        /\ UpdateSave(r) => call[r].op = "Update"
        /\ DeleteRow(r) => call[r].op = "Delete"
    BY <1>3, <2>1 DEF UpdateSave, DeleteRow, TypeInv, Stages, StageOf
  <2> QED
    BY <1>1, <2>1, <2>2 DEF On
<1>4. ASSUME NEW r \in Req, Acts(r), examples'[i] # examples[i]
      PROVE  CreateInsert(r) \/ UpdateSave(r) \/ DeleteRow(r)
  BY <1>4 DEF Acts, Step, Arrive, CreateExists, Find, FindMisses, FindAll, Publish, EventLost,
     StatementFails
<1>5. Crash \/ UNCHANGED vars => examples' = examples
  BY DEF Crash, vars
<1> QED
  BY <1>2, <1>3, <1>4, <1>5 DEF Next, Acts

\* Which step leads to a stage.
LEMMA WayTo ==
    ASSUME TypeInv, NEW r \in Req, Acts(r)
    PROVE  /\ pc'[r] = "insert" => CreateExists(r) /\ ~Taken(call[r].name)
           /\ pc'[r] \in {"save", "delete"} => Find(r) /\ Live(call[r].id)
           /\ pc'[r] = "publish" => CreateInsert(r) \/ UpdateSave(r) \/ DeleteRow(r)
           /\ pc'[r] = "OK" => \/ Publish(r) \/ EventLost(r)
                             \/ call'[r].op \in {"Get", "List"}
           /\ pc'[r] = "NotFound" => FindMisses(r)
<1>1. CASE Arrive(r)
  <2>1. PICK c \in Call :
            pc' = [pc EXCEPT ![r] = IF Valid(c) THEN First[c.op] ELSE "InvalidArgument"]
    BY <1>1 DEF Arrive, Goto
  <2>2. PICK f : f = First[c.op]
    OBVIOUS
  <2>3. f \in {"exists", "find"}
    <3>1. c.op \in {"Create", "Get", "Delete", "List", "Update"}
      BY CallKinds
    <3> QED
      BY <2>2, <3>1 DEF First
  <2>4. pc'[r] = f \/ pc'[r] = "InvalidArgument"
    BY <2>1, <2>2 DEF TypeInv, TypeOK
  <2> QED
    BY <2>3, <2>4
<1>2. CASE Find(r)
  <2>1. PICK f : f = AfterFind[call[r].op]
    OBVIOUS
  <2>2. pc'[r] = f /\ call' = call /\ Live(call[r].id) /\ pc[r] = "find" /\ call[r].op # "List"
    BY <1>2, <2>1 DEF Find, Goto, TypeInv, TypeOK
  <2>3. call[r].op \in {"Get", "Update", "Delete"}
    BY <2>2 DEF TypeInv, Stages, StageOf
  <2>4. f \in {"OK", "save", "delete"} /\ (f = "OK" => call[r].op = "Get")
    BY <2>1, <2>3 DEF AfterFind
  <2> QED
    BY <1>2, <2>2, <2>4
<1>3. CASE ~Arrive(r) /\ ~Find(r)
  <2>1. \A result \in {"NotFound", "AlreadyExists", "Internal"} :
            Code(call[r].via, result) \in {result, "500"}
    BY Outcome
  <2>2. Code(call[r].via, "OK") = "OK"
    BY Outcome
  <2> QED
    BY <1>3, <2>1, <2>2 DEF Acts, Step, CreateExists, CreateInsert, FindMisses, FindAll,
       UpdateSave, DeleteRow, Publish, EventLost, StatementFails, Return, Goto, TypeInv, TypeOK
<1> QED
  BY <1>1, <1>2, <1>3

\* A request that changes its stage is the one that moved, or they all crashed.
LEMMA WhoMoved ==
    ASSUME TypeInv, [Next]_vars, NEW r \in Req, pc'[r] # pc[r],
           pc[r] = "idle" \/ pc'[r] # "crashed"
    PROVE  Acts(r)
<1>1. ASSUME NEW q \in Req, Acts(q) PROVE q = r
  BY <1>1, StepFrame
<1>2. ~Crash /\ ~UNCHANGED vars
  BY DEF Crash, vars, TypeInv, TypeOK, InFlight, Running
<1> QED
  BY <1>1, <1>2 DEF Next, Acts

-----------------------------------------------------------------------------
(* A deleted example stays deleted unless an update overlaps the deletion.  *)

\* An update of i overlapped the deletion d.
Back(i, d) == \E u \in On("Update", i) : Overlap(u, d)

Saving(i) == \E u \in On("Update", i) : pc[u] = "save"

\* Once the row is gone it comes back only from an update that had loaded it before.
DeletedInv ==
    \A i \in Ids : \A d \in On("Delete", i) :
        pc[d] \in {"publish", "OK"} /\ (Live(i) \/ Saving(i)) => Back(i, d)

\* An example that was created is there until somebody asks for its deletion.
KeptInv == \A i \in Ids : On("Create", i) # {} => Live(i) \/ On("Delete", i) # {}

\* Only the requests that look for an id are told that there is none.
MissedInv == \A r \in Req : pc[r] = "NotFound" => call[r].op \in {"Get", "Update", "Delete"}

LEMMA DeletedStep == TypeInv /\ DeletedInv /\ [Next]_vars => DeletedInv'
<1> SUFFICES ASSUME TypeInv, DeletedInv, [Next]_vars,
                    NEW i \in Ids, NEW d \in On("Delete", i)',
                    pc'[d] \in {"publish", "OK"}, Live(i)' \/ Saving(i)'
             PROVE  Back(i, d)'
  BY DEF DeletedInv
<1>1. /\ d \in Req /\ call'[d].op = "Delete" /\ call'[d].id = i
      /\ i \in Nat /\ i # 0 /\ lastId \in Nat
  BY DEF On, Ids, TypeInv, TypeOK
<1>2. Back(i, d) => Back(i, d)'
  BY <1>1, OnStays, OverlapStays DEF Back, On
<1>3. \A r \in Req : pc'[r] = "save" =>
          \/ pc[r] = "save" /\ call'[r] = call[r]
          \/ Find(r) /\ Live(call[r].id) /\ call'[r] = call[r]
  <2>1. ASSUME NEW r \in Req, pc'[r] = "save", pc[r] = "save" PROVE call'[r] = call[r]
    BY <2>1, AnswersStay
  <2>2. ASSUME NEW r \in Req, pc'[r] = "save", pc[r] # "save"
        PROVE  Find(r) /\ Live(call[r].id) /\ call'[r] = call[r]
    <3>1. Acts(r)
      BY <2>2, WhoMoved
    <3>2. Find(r) /\ Live(call[r].id)
      BY <2>2, <3>1, WayTo
    <3> QED
      BY <3>2 DEF Find
  <2> QED
    BY <2>1, <2>2
<1>4. CASE pc[d] \in {"publish", "OK"}
  <2>1. d \in On("Delete", i) /\ i <= lastId
    <3>1. call'[d] = call[d] /\ pc[d] # "idle"
      BY <1>1, <1>4, AnswersStay
    <3>2. local[d].id = i /\ local[d].id \in 0 .. lastId
      BY <1>1, <1>4, <3>1 DEF TypeInv, Stages, StageOf
    <3> QED
      BY <1>1, <3>1, <3>2 DEF On
  <2>2. CASE Live(i) \/ Saving(i)
    BY <1>2, <1>4, <2>1, <2>2 DEF DeletedInv
  <2>3. CASE ~Live(i) /\ ~Saving(i)
    <3>1. ~Saving(i)'
      <4> SUFFICES ASSUME NEW u \in On("Update", i)', pc'[u] = "save" PROVE FALSE
        BY DEF Saving
      <4>1. u \in Req /\ call'[u].op = "Update" /\ call'[u].id = i
        BY DEF On
      <4>2. pc[u] = "save" /\ call'[u] = call[u]
        BY <1>3, <2>3, <4>1
      <4> QED
        BY <2>3, <4>1, <4>2 DEF Saving, On
    <3>2. ~Live(i)'
      <4>1. ~\E r \in Req : UpdateSave(r) /\ r \in On("Update", i)
        BY <2>3 DEF Saving, UpdateSave
      <4>2. ASSUME NEW r \in Req, DeleteRow(r), r \in On("Delete", i) PROVE examples'[i] = NoRow
        BY <4>2 DEF DeleteRow, On, TypeInv, TypeOK
      <4> QED
        BY <1>1, <2>1, <2>3, <4>1, <4>2, RowStep DEF Live
    <3> QED
      BY <3>1, <3>2
  <2> QED
    BY <2>2, <2>3
<1>5. CASE pc[d] \notin {"publish", "OK"}
  <2>1. DeleteRow(d) /\ pc[d] = "delete" /\ call' = call
    <3>1. Acts(d)
      BY <1>1, <1>5, WhoMoved
    <3>2. CreateInsert(d) \/ UpdateSave(d) \/ DeleteRow(d) \/ Publish(d) \/ EventLost(d)
      BY <1>1, <1>5, <3>1, WayTo
    <3>3. call' = call
      BY <3>2 DEF CreateInsert, UpdateSave, DeleteRow, Publish, EventLost
    <3> QED
      BY <1>1, <1>5, <3>2, <3>3 DEF CreateInsert, UpdateSave, DeleteRow, Publish, EventLost,
         TypeInv, Stages, StageOf
  <2>2. ~Live(i)'
    BY <1>1, <2>1 DEF DeleteRow, Live, TypeInv, TypeOK
  <2>3. PICK u \in On("Update", i)' : pc'[u] = "save"
    BY <2>2 DEF Saving
  <2>4. u \in Req /\ call'[u].op = "Update" /\ u # d /\ InFlight(u) /\ InFlight(d)
    <3>1. u \in Req /\ call'[u].op = "Update"
      BY <2>3 DEF On
    <3>2. pc[u] \in {"save", "find"}
      BY <1>3, <2>3, <3>1 DEF Find
    <3> QED
      BY <1>1, <2>1, <3>1, <3>2 DEF InFlight, Running
  <2>5. Overlap(u, d)'
    BY <1>1, <2>4, InFlightOverlap, OverlapStays
  <2> QED
    BY <2>3, <2>5 DEF Back
<1> QED
  BY <1>4, <1>5

\* An example whose deletion was answered is back only if an update of it overlapped
\* the deletion: DeletedInv holds from the deletion on.
THEOREM DeletionIsFinal == Spec => []DeletedStaysDeleted
<1>1. Init => DeletedInv
  BY DEF Init, DeletedInv, On
<1>2. TypeInv /\ DeletedInv => DeletedStaysDeleted
  BY DEF DeletedInv, DeletedStaysDeleted, Back
<1> QED
  BY <1>1, <1>2, DeletedStep, Typed, PTL DEF Spec

LEMMA KeptStep == TypeInv /\ KeptInv /\ [Next]_vars => KeptInv'
<1> SUFFICES ASSUME TypeInv, KeptInv, [Next]_vars, NEW i \in Ids, On("Create", i)' # {},
                    ~Live(i)', On("Delete", i)' = {}
             PROVE  FALSE
  BY DEF KeptInv
<1>1. On("Delete", i) = {}
  BY OnStays
<1>2. ASSUME NEW r \in Req, UpdateSave(r), r \in On("Update", i) PROVE FALSE
  <2>1. PICK row : row = [name |-> Edited(r).name, status |-> Edited(r).status]
    OBVIOUS
  <2>2. row \in Row
    BY <1>2, <2>1, EditedType DEF UpdateSave
  <2>3. examples'[i] = row
    BY <1>2, <2>1 DEF UpdateSave, On, TypeInv, TypeOK
  <2> QED
    BY <2>2, <2>3, SentinelAssumption DEF Live
<1>3. ASSUME NEW r \in Req, DeleteRow(r), r \in On("Delete", i) PROVE FALSE
  BY <1>1, <1>3
<1>4. ASSUME NEW r \in Req, CreateInsert(r), local'[r].id = i PROVE FALSE
  <2>1. TypeInv'
    BY TypeStep
  <2>2. PICK row, new : /\ row = [name |-> call[r].name, status |-> "active"]
                        /\ new = lastId'
    OBVIOUS
  <2>3. pc[r] = "insert" /\ call[r].op = "Create" /\ call[r] \in Call
    BY <1>4 DEF CreateInsert, TypeInv, Stages, StageOf
  <2>4. row \in Row
    BY <2>2, <2>3, CallKinds DEF Row, Statuses
  <2>5. examples' = [examples EXCEPT ![new] = row]
    BY <1>4, <2>2 DEF CreateInsert
  <2>6. new = i
    <3>1. local' = [local EXCEPT ![r] = [id |-> new, name |-> call[r].name, status |-> "active"]]
      BY <1>4, <2>2 DEF CreateInsert
    <3> QED
      BY <1>4, <3>1 DEF TypeInv, TypeOK
  <2>7. examples'[i] = row
    BY <2>5, <2>6 DEF TypeInv, TypeOK
  <2> QED
    BY <2>4, <2>7, SentinelAssumption DEF Live
<1>5. examples'[i] = examples[i]
  BY <1>2, <1>3, <1>4, RowStep
<1>6. ~Live(i) /\ On("Create", i) = {}
  BY <1>1, <1>5 DEF Live, KeptInv
<1>7. PICK c \in Req : pc'[c] # "idle" /\ call'[c].op = "Create" /\ local'[c].id = i
  BY DEF On
<1>8. i # 0 /\ local[c].id # i
  <2>1. i # 0
    BY DEF Ids
  <2>2. pc[c] # "idle" => call'[c] = call[c]
    BY AnswersStay
  <2>3. pc[c] = "idle" => local[c].id = 0
    BY DEF TypeInv, Stages, StageOf
  <2> QED
    BY <1>6, <1>7, <2>1, <2>2, <2>3 DEF On
<1>9. Acts(c)
  <2>1. ~Crash /\ ~UNCHANGED vars
    BY <1>7, <1>8 DEF Crash, vars
  <2>2. ASSUME NEW q \in Req \ {c}, Acts(q) PROVE FALSE
    BY <1>7, <1>8, <2>2, StepFrame
  <2> QED
    BY <2>1, <2>2 DEF Next, Acts
<1>10. CreateInsert(c) \/ Find(c) \/ UpdateSave(c)
  BY <1>7, <1>8, <1>9 DEF Acts, Step, Arrive, CreateExists, FindMisses, FindAll, DeleteRow,
     Publish, EventLost, StatementFails
<1>11. pc[c] # "idle" /\ call[c].op = "Create"
  BY <1>7, <1>10 DEF CreateInsert, Find, UpdateSave
<1>12. ~Find(c) /\ ~UpdateSave(c)
  BY <1>11 DEF Find, UpdateSave, TypeInv, Stages, StageOf
<1> QED
  BY <1>4, <1>7, <1>10, <1>12

LEMMA MissedStep ==
    TypeInv /\ KeptInv /\ MissedInv /\ FoundUntilDeleted /\ [Next]_vars =>
        MissedInv' /\ FoundUntilDeleted'
<1> SUFFICES ASSUME TypeInv, KeptInv, MissedInv, FoundUntilDeleted, [Next]_vars,
                    NEW r \in Req, pc'[r] = "NotFound"
             PROVE  /\ call'[r].op \in {"Get", "Update", "Delete"}
                    /\ \A c \in On("Create", call[r].id)' :
                           pc'[c] = "OK" /\ c \in before'[r] => On("Delete", call[r].id)' # {}
  BY DEF MissedInv, FoundUntilDeleted
<1>1. /\ call'[r] = call[r] /\ before'[r] = before[r] /\ pc[r] # "idle"
      /\ call[r].op \in {"Get", "Update", "Delete"}
      /\ pc[r] = "NotFound" \/ ~Live(call[r].id)
  <2>1. CASE pc[r] = "NotFound"
    BY <2>1, AnswersStay DEF MissedInv
  <2>2. CASE pc[r] # "NotFound"
    <3>1. Acts(r)
      BY <2>2, WhoMoved
    <3>2. FindMisses(r)
      BY <3>1, WayTo
    <3> QED
      BY <3>2 DEF FindMisses, TypeInv, Stages, StageOf
  <2> QED
    BY <2>1, <2>2
<1>2. ASSUME NEW c \in On("Create", call[r].id)', pc'[c] = "OK", c \in before'[r]
      PROVE  On("Delete", call[r].id)' # {}
  <2>1. PICK i : i = call[r].id
    OBVIOUS
  <2>2. c \in Req /\ call'[c].op = "Create" /\ local'[c].id = i
    BY <1>1, <1>2, <2>1 DEF On
  <2>3. /\ pc[c] \in Answered /\ pc[c] # "idle" /\ pc'[c] = pc[c] /\ local'[c] = local[c]
        /\ call'[c] = call[c]
    <3>1. pc[c] \in Answered
      BY <1>1, <1>2, <2>2 DEF TypeInv, EndedBefore
    <3> QED
      BY <2>2, <3>1, AnswersStay DEF Answered, Errors
  <2>4. c \in On("Create", i)
    BY <2>2, <2>3 DEF On
  <2>5. i \in Ids
    <3>1. i # 0 /\ i \in 0 .. lastId /\ lastId \in 0 .. Cardinality(Req)
      BY <1>2, <2>2, <2>3 DEF TypeInv, TypeOK, Stages, StageOf
    <3> QED
      BY <3>1, AskedAssumption, FS_CardinalityType DEF Ids
  <2>6. On("Delete", i) # {}
    BY <1>1, <1>2, <2>1, <2>3, <2>4, <2>5 DEF KeptInv, FoundUntilDeleted
  <2>7. On("Delete", i)' # {}
    BY <2>5, <2>6, OnStays
  <2>8. call'[r].id = i
    BY <1>1, <2>1
  <2> QED
    BY <2>7, <2>8
<1> QED
  BY <1>1, <1>2

\* A client that was told an example exists is told NotFound later only if somebody
\* asked for its deletion: an example that was created is there until then.
THEOREM NotFoundMeansDeleted == Spec => []FoundUntilDeleted
<1>1. Init => KeptInv /\ MissedInv /\ FoundUntilDeleted
  BY DEF Init, KeptInv, MissedInv, FoundUntilDeleted, On
<1> QED
  BY <1>1, KeptStep, MissedStep, Typed, PTL DEF Spec

\* An update gave i its name, or put one back that it had loaded earlier.
Touched(i) == Renamed(i) \/ Restored(i)

\* An example has the name it was created with, unless an update touched it.
NameOfCreate ==
    \A i \in Ids : \A c \in On("Create", i) :
        Live(i) /\ examples[i].name # call[c].name => Touched(i)

\* A create that found its name free still has it to itself among the examples that
\* were created before it arrived.
StillFree ==
    \A i \in Ids : \A b \in On("Create", i), c \in Req :
        /\ b \in before[c] /\ call[c].op = "Create" /\ (pc[c] = "insert" \/ c \in Creators)
        /\ Live(i) /\ examples[i].name = call[c].name
        => Touched(i)

\* What an update is about to save is what the table says, or another change of the
\* example is to blame.
Fresh ==
    \A i \in Ids : \A u \in On("Update", i) :
        pc[u] = "save" =>
            \/ Live(i) /\ examples[i].name = local[u].name
            \/ \E w \in On("Update", i) \cup On("Delete", i) : Overlap(u, w)

NameInv == NameOfCreate /\ StillFree /\ Fresh

LEMMA RestoredStays ==
    ASSUME TypeInv, [Next]_vars, NEW i \in Ids, Restored(i)
    PROVE  Restored(i)'
<1>1. PICK u \in On("Update", i), w \in On("Update", i) \cup On("Delete", i) :
          call[u].name = NoName /\ Overlap(u, w)
  BY DEF Restored
<1>2. u \in Req /\ pc[u] # "idle" /\ w \in Req
  BY <1>1 DEF On
<1>3. call'[u].name = NoName /\ Overlap(u, w)'
  BY <1>1, <1>2, AnswersStay, OverlapStays
<1> QED
  BY <1>1, <1>3, OnStays DEF Restored

LEMMA RenamedStays ==
    ASSUME TypeInv, [Next]_vars, NEW i \in Ids, Renamed(i), Live(i), Live(i)',
           examples'[i].name = examples[i].name
    PROVE  Renamed(i)'
<1>1. PICK u \in On("Update", i) : call[u].name = examples[i].name
  BY DEF Renamed
<1>2. u \in Req /\ pc[u] # "idle"
  BY <1>1 DEF On
<1> QED
  BY <1>1, <1>2, OnStays, AnswersStay DEF Renamed

\* A row that is there after a step was there with the same name, or was given by an
\* insert, or an update touched it.
LEMMA NameStep ==
    ASSUME TypeInv, Fresh, [Next]_vars, NEW i \in Ids, Live(i)'
    PROVE  \/ Touched(i)'
           \/ /\ Live(i) /\ examples'[i].name = examples[i].name
              /\ Touched(i) => Touched(i)'
           \/ \E r \in Req : CreateInsert(r) /\ local'[r].id = i /\ i = lastId + 1 /\ ~Live(i)
                             /\ examples'[i].name = call[r].name
<1>1. CASE examples'[i] = examples[i]
  BY <1>1, RestoredStays, RenamedStays DEF Live, Touched
<1>2. ASSUME NEW r \in Req, CreateInsert(r), i = lastId + 1, ~Live(i)
      PROVE  examples'[i].name = call[r].name
  <2>1. PICK new : new = lastId'
    OBVIOUS
  <2>2. examples' = [examples EXCEPT ![new] = [name |-> call[r].name, status |-> "active"]]
    BY <1>2, <2>1 DEF CreateInsert
  <2>3. new = i
    BY <1>2, <2>1 DEF CreateInsert
  <2> QED
    BY <2>2, <2>3 DEF TypeInv, TypeOK
<1>3. ASSUME NEW u \in Req, UpdateSave(u), u \in On("Update", i)
      PROVE  \/ Touched(i)'
             \/ /\ Live(i) /\ examples'[i].name = examples[i].name
                /\ Touched(i) => Touched(i)'
  <2>1. PICK row : row = [name |-> Edited(u).name, status |-> Edited(u).status]
    OBVIOUS
  <2>2. examples'[i] = row /\ pc[u] = "save" /\ call' = call
    BY <1>3, <2>1 DEF UpdateSave, On, TypeInv, TypeOK
  <2>3. row.name = IF call[u].name = NoName THEN local[u].name ELSE call[u].name
    BY <2>1, <2>2, EditedType
  <2>4. u \in On("Update", i)'
    BY <1>3, OnStays
  <2>5. CASE call[u].name # NoName
    BY <2>2, <2>3, <2>4, <2>5 DEF Renamed, Touched
  <2>6. CASE call[u].name = NoName
    <3>1. examples'[i].name = local[u].name
      BY <2>2, <2>3, <2>6
    <3>2. CASE Live(i) /\ examples[i].name = local[u].name
      BY <3>1, <3>2, RestoredStays, RenamedStays DEF Touched
    <3>3. ASSUME NEW w \in On("Update", i) \cup On("Delete", i), Overlap(u, w)
          PROVE  Touched(i)'
      BY <1>3, <2>6, <3>3, RestoredStays DEF Restored, Touched
    <3> QED
      BY <1>3, <2>2, <3>2, <3>3 DEF Fresh
  <2> QED
    BY <2>5, <2>6
<1>4. ASSUME NEW r \in Req, DeleteRow(r), r \in On("Delete", i) PROVE FALSE
  BY <1>4 DEF DeleteRow, On, Live, TypeInv, TypeOK
<1> QED
  BY <1>1, <1>2, <1>3, <1>4, RowStep

\* Who is about an example for the first time by a create has just inserted it.
LEMMA NewCreate ==
    ASSUME TypeInv, [Next]_vars, NEW i \in Ids, NEW c \in On("Create", i)',
           c \notin On("Create", i)
    PROVE  /\ c \in Req /\ CreateInsert(c) /\ pc[c] = "insert" /\ call[c].op = "Create"
           /\ pc'[c] = "publish" /\ call' = call /\ before' = before /\ i = lastId + 1
           /\ local'[c].id = i
<1>1. c \in Req /\ pc'[c] # "idle" /\ call'[c].op = "Create" /\ local'[c].id = i /\ i # 0
  BY DEF On, Ids
<1>2. local[c].id # i
  <2>1. pc[c] # "idle" => call'[c] = call[c]
    BY <1>1, AnswersStay
  <2>2. pc[c] = "idle" => local[c].id = 0
    BY <1>1 DEF TypeInv, Stages, StageOf
  <2> QED
    BY <1>1, <2>1, <2>2 DEF On
<1>3. Acts(c)
  <2>1. ~Crash /\ ~UNCHANGED vars
    BY <1>1, <1>2 DEF Crash, vars
  <2>2. ASSUME NEW q \in Req \ {c}, Acts(q) PROVE FALSE
    BY <1>1, <1>2, <2>2, StepFrame
  <2> QED
    BY <2>1, <2>2 DEF Next, Acts
<1>4. CreateInsert(c) \/ Find(c) \/ UpdateSave(c)
  BY <1>1, <1>2, <1>3 DEF Acts, Step, Arrive, CreateExists, FindMisses, FindAll, DeleteRow,
     Publish, EventLost, StatementFails
<1>5. call[c].op = "Create"
  BY <1>1, <1>4 DEF CreateInsert, Find, UpdateSave
<1>6. CreateInsert(c)
  BY <1>1, <1>4, <1>5 DEF Find, UpdateSave, TypeInv, Stages, StageOf
<1>7. PICK new : new = lastId'
  OBVIOUS
<1>8. new = lastId + 1
  BY <1>6, <1>7 DEF CreateInsert
<1>9. local' = [local EXCEPT ![c] = [id |-> new, name |-> call[c].name, status |-> "active"]]
  BY <1>6, <1>7 DEF CreateInsert
<1>10. new = i
  BY <1>1, <1>9 DEF TypeInv, TypeOK
<1> QED
  BY <1>1, <1>5, <1>6, <1>8, <1>10 DEF CreateInsert, Goto, TypeInv, TypeOK

LEMMA NameOfCreateStep ==
    ASSUME TypeInv, NameInv, [Next]_vars
    PROVE  NameOfCreate'
<1> SUFFICES ASSUME NEW i \in Ids, NEW c \in On("Create", i)', Live(i)',
                    examples'[i].name # call'[c].name, ~Touched(i)'
             PROVE  FALSE
  BY DEF NameOfCreate
<1>1. CASE c \in On("Create", i)
  <2>1. i <= lastId /\ lastId \in Nat /\ call'[c] = call[c]
    <3>1. c \in Creators /\ local[c].id = i
      BY <1>1, CreateIsCreator
    <3> QED
      BY <3>1, AnswersStay DEF TypeInv, TypeOK, Stages, StageOf, Creators
  <2>2. /\ Live(i) /\ examples'[i].name = examples[i].name
        /\ Touched(i) => Touched(i)'
    BY <2>1, NameStep DEF NameInv
  <2> QED
    BY <1>1, <2>1, <2>2 DEF NameInv, NameOfCreate
<1>2. CASE c \notin On("Create", i)
  <2>1. CreateInsert(c) /\ i = lastId + 1 /\ lastId \in Nat /\ c \in Req /\ call' = call
    BY <1>2, NewCreate DEF TypeInv, TypeOK
  <2>2. ~Live(i)
    BY <2>1 DEF TypeInv, GivenIds
  <2>3. PICK r \in Req : CreateInsert(r) /\ local'[r].id = i /\ examples'[i].name = call[r].name
    BY <2>2, NameStep DEF NameInv
  <2>4. r = c
    <3>1. Acts(r) /\ Acts(c) /\ pc'[c] # pc[c]
      BY <1>2, <2>1, <2>3, NewCreate DEF Acts, Step
    <3> QED
      BY <2>1, <3>1, StepFrame
  <2> QED
    BY <2>1, <2>3, <2>4
<1> QED
  BY <1>1, <1>2

LEMMA StillFreeStep ==
    ASSUME TypeInv, NameInv, [Next]_vars
    PROVE  StillFree'
<1> SUFFICES ASSUME NEW i \in Ids, NEW b \in On("Create", i)', NEW c \in Req,
                    b \in before'[c], call'[c].op = "Create",
                    pc'[c] = "insert" \/ c \in Creators', Live(i)',
                    examples'[i].name = call'[c].name, ~Touched(i)'
             PROVE  FALSE
  BY DEF StillFree
<1>1. pc[c] # "idle" /\ call'[c] = call[c] /\ before'[c] = before[c]
  <2>1. CASE pc[c] = "idle"
    <3>1. Acts(c)
      BY <2>1, WhoMoved DEF Creators
    <3>2. pc'[c] # "insert" /\ Arrive(c)
      BY <2>1, <3>1, WayTo DEF Acts, Step, Arrive, CreateExists, CreateInsert, Find, FindMisses,
         FindAll, UpdateSave, DeleteRow, Publish, EventLost, StatementFails, InFlight, Running
    <3>3. local'[c].id = 0
      BY <2>1, <3>2 DEF Arrive, TypeInv, Stages, StageOf
    <3> QED
      BY <3>2, <3>3 DEF Creators
  <2> QED
    BY <2>1, AnswersStay
<1>2. b \in Req /\ pc[b] \in Answered
  BY <1>1 DEF TypeInv, EndedBefore
<1>3. b \in On("Create", i)
  BY <1>2, NewCreate DEF Answered, Errors
<1>4. i <= lastId /\ lastId \in Nat
  <2>1. b \in Creators /\ local[b].id = i
    BY <1>3, CreateIsCreator
  <2> QED
    BY <2>1 DEF TypeInv, TypeOK, Stages, StageOf, Creators
<1>5. /\ Live(i) /\ examples'[i].name = examples[i].name
      /\ Touched(i) => Touched(i)'
  BY <1>4, NameStep DEF NameInv
<1>6. CASE pc[c] = "insert" \/ c \in Creators
  BY <1>1, <1>3, <1>5, <1>6 DEF NameInv, StillFree
<1>7. CASE pc[c] # "insert" /\ c \notin Creators
  <2>1. CASE pc'[c] = "insert"
    <3>1. CreateExists(c) /\ ~Taken(call[c].name)
      BY <1>7, <2>1, WhoMoved, WayTo
    <3> QED
      BY <1>1, <1>5, <3>1 DEF Taken
  <2>2. CASE c \in Creators'
    <3>1. PICK j \in Ids : local'[c].id = j
      <4>1. TypeInv'
        BY TypeStep
      <4>2. local'[c].id # 0 /\ local'[c].id \in 0 .. lastId' /\ lastId' \in 0 .. Cardinality(Req)
        BY <2>2, <4>1 DEF Creators, TypeInv, TypeOK, Stages, StageOf
      <4> QED
        BY <4>2, AskedAssumption, FS_CardinalityType DEF Ids
    <3>2. c \in On("Create", j)'
      BY <2>2, <3>1 DEF Creators, On
    <3>3. c \notin On("Create", j)
      BY <1>7, CreateIsCreator
    <3> QED
      BY <1>7, <3>2, <3>3, NewCreate
  <2> QED
    BY <2>1, <2>2
<1> QED
  BY <1>6, <1>7

LEMMA FreshStep ==
    ASSUME TypeInv, NameInv, [Next]_vars
    PROVE  Fresh'
<1> SUFFICES ASSUME NEW i \in Ids, NEW u \in On("Update", i)', pc'[u] = "save",
                    ~(Live(i)' /\ examples'[i].name = local'[u].name)
             PROVE  \E w \in On("Update", i)' \cup On("Delete", i)' : Overlap(u, w)'
  BY DEF Fresh
<1>1. u \in Req /\ call'[u].op = "Update" /\ call'[u].id = i
  BY DEF On
<1>2. CASE pc[u] # "save"
  <2>1. Find(u) /\ Live(call[u].id)
    BY <1>1, <1>2, WhoMoved, WayTo
  <2>2. call[u].id = i /\ examples' = examples
    BY <1>1, <2>1 DEF Find
  <2>3. PICK m : m = [id |-> i, name |-> examples[i].name, status |-> examples[i].status]
    OBVIOUS
  <2>4. local'[u] = m
    BY <1>1, <2>1, <2>2, <2>3 DEF Find, TypeInv, TypeOK
  <2> QED
    BY <2>1, <2>2, <2>3, <2>4 DEF Live
<1>3. CASE pc[u] = "save"
  <2>1. u \in On("Update", i)
    BY <1>1, <1>3, AnswersStay DEF On
  <2>2. ASSUME NEW w \in On("Update", i) \cup On("Delete", i), Overlap(u, w)
        PROVE  \E v \in On("Update", i)' \cup On("Delete", i)' : Overlap(u, v)'
    <3>1. w \in Req
      BY DEF On
    <3> QED
      BY <1>1, <2>2, <3>1, OnStays, OverlapStays
  <2>3. CASE Live(i) /\ examples[i].name = local[u].name
    <3>1. local'[u] = local[u]
      <4>1. ASSUME NEW r \in Req, Acts(r) PROVE r # u
        <5>1. \A result \in {"Internal"} : Code(call[u].via, result) \in {result, "500"}
          BY Outcome
        <5> QED
          BY <1>1, <1>3, <4>1, <5>1 DEF Acts, Step, Arrive, CreateExists, CreateInsert, Find,
             FindMisses, FindAll, UpdateSave, DeleteRow, Publish, EventLost, StatementFails,
             Return, Goto, TypeInv, TypeOK
      <4>2. Crash \/ UNCHANGED vars => local' = local
        BY DEF Crash, vars
      <4> QED
        BY <1>1, <4>1, <4>2, StepFrame DEF Next, Acts
    <3>2. examples'[i] # examples[i]
      BY <2>3, <3>1 DEF Live
    <3>3. PICK w \in Req : \/ UpdateSave(w) /\ w \in On("Update", i)
                           \/ DeleteRow(w) /\ w \in On("Delete", i)
      BY <2>3, <3>2, RowStep
    <3>4. pc[w] \in {"save", "delete"} /\ pc'[w] = "publish"
      BY <3>3 DEF UpdateSave, DeleteRow, Goto, TypeInv, TypeOK
    <3>5. Overlap(u, w)
      BY <1>1, <1>3, <3>4, InFlightOverlap DEF InFlight, Running
    <3> QED
      BY <2>2, <3>3, <3>5
  <2> QED
    BY <1>3, <2>1, <2>2, <2>3 DEF NameInv, Fresh
<1> QED
  BY <1>2, <1>3

\* Two examples share a name only if their creates overlapped, or an update gave one of
\* them the name or put it back.  If the creates did not overlap, the one that came
\* later found the name free, which StillFree keeps.
THEOREM NamesStayDistinct == Spec => []NamesDistinct
<1>1. Init => NameInv
  BY DEF Init, NameInv, NameOfCreate, StillFree, Fresh, On
<1>2. TypeInv /\ NameInv /\ [Next]_vars => NameInv'
  BY NameOfCreateStep, StillFreeStep, FreshStep DEF NameInv
<1>3. ASSUME TypeInv, NameInv PROVE NamesDistinct
  <2> SUFFICES ASSUME NEW i \in Ids, NEW j \in Ids, i # j, Live(i), Live(j),
                      examples[i].name = examples[j].name, ~Touched(i), ~Touched(j)
               PROVE  \E q \in On("Create", i), r \in On("Create", j) : Overlap(q, r)
    BY DEF NamesDistinct, Touched
  <2>1. PICK b \in On("Create", i), c \in On("Create", j) : TRUE
    BY <1>3, CreateIsCreator
  <2>2. /\ b \in Creators /\ local[b].id = i
        /\ c \in Creators /\ local[c].id = j
    BY <1>3, CreateIsCreator
  <2>3. examples[i].name = call[b].name /\ examples[j].name = call[c].name
    BY <1>3, <2>1 DEF NameInv, NameOfCreate
  <2>4. b \notin before[c] /\ c \notin before[b]
    BY <1>3, <2>1, <2>2, <2>3 DEF NameInv, StillFree, Creators
  <2>5. Overlap(b, c)
    BY <2>2, <2>4 DEF Overlap, Creators
  <2> QED
    BY <2>1, <2>5
<1> QED
  BY <1>1, <1>2, <1>3, Typed, PTL DEF Spec

-----------------------------------------------------------------------------
(* The last event tells the truth about an example nobody quarrels over.     *)

\* Event e is one of a request that is done, and tells what the request holds.
Told(e) ==
    /\ e.by \in Req /\ pc[e.by] = "OK" /\ e.id = local[e.by].id
    /\ call[e.by].op \in {"Create", "Update", "Delete"}
    /\ e.type = "ExampleDeleted" <=> call[e.by].op = "Delete"
    /\ call[e.by].op # "Delete" => e.name = local[e.by].name

HeardInv == \A k \in DOMAIN events : Told(events[k])

\* The changes of i so far ran one after the other, and each is under way, was
\* refused, or was heard of.
Clean(i) ==
    /\ \A r \in Writers(i) :
           InFlight(r) \/ pc[r] \in Errors \ {"Internal", "500"} \/ Heard(r)
    /\ \A q, r \in Writers(i) : ~Overlap(q, r)

\* The row of i is what request r made of it.
Reflects(i, r) ==
    IF call[r].op = "Delete" THEN ~Live(i) ELSE Live(i) /\ examples[i].name = local[r].name

Latest(i, k) == k \in EventsOn(i) /\ \A n \in EventsOn(i) : n <= k

\* The row is what the request that is to publish made of it; when nobody is to
\* publish, what the request made of it that published last.
TrueInv ==
    \A i \in Ids :
        /\ Clean(i) => \A w \in Writers(i) : pc[w] = "publish" => Reflects(i, w)
        /\ Clean(i) /\ (\A w \in Writers(i) : pc[w] # "publish") =>
               \A k \in Nat : Latest(i, k) => Reflects(i, events[k].by)
        /\ EventsOn(i) # {} => \E k \in Nat : Latest(i, k)

\* The events only grow, by the event of the request that publishes.
LEMMA EventsStep ==
    ASSUME TypeInv, [Next]_vars
    PROVE  \/ events' = events /\ \A r \in Req : ~Publish(r)
           \/ \E r \in Req : /\ Publish(r) /\ pc[r] = "publish" /\ pc'[r] = "OK"
                             /\ events' = Append(events, EventOf(r))
                             /\ UNCHANGED <<examples, call, local>>
<1>1. ASSUME NEW r \in Req, Publish(r)
      PROVE  /\ pc[r] = "publish" /\ pc'[r] = "OK"
             /\ events' = Append(events, EventOf(r)) /\ UNCHANGED <<examples, call, local>>
  BY <1>1, Outcome DEF Publish, Return, Goto, TypeInv, TypeOK
<1>2. ASSUME NEW r \in Req, Acts(r), ~Publish(r) PROVE events' = events
  BY <1>2 DEF Acts, Step, Arrive, CreateExists, CreateInsert, Find, FindMisses, FindAll,
     UpdateSave, DeleteRow, EventLost, StatementFails
<1>3. Crash \/ UNCHANGED vars => events' = events
  BY DEF Crash, vars
<1> QED
  BY <1>1, <1>2, <1>3 DEF Next, Acts

\* What was told stays told.
LEMMA ToldStays ==
    ASSUME TypeInv, [Next]_vars, NEW e, Told(e)
    PROVE  Told(e)'
<1>1. /\ e.by \in Req /\ pc'[e.by] = pc[e.by] /\ local'[e.by] = local[e.by]
      /\ call'[e.by] = call[e.by]
  BY AnswersStay DEF Told, Answered
<1> QED
  BY <1>1 DEF Told

LEMMA HeardStep == TypeInv /\ HeardInv /\ [Next]_vars => HeardInv'
<1> SUFFICES ASSUME TypeInv, HeardInv, [Next]_vars, NEW k \in DOMAIN events'
             PROVE  Told(events[k])'
  BY DEF HeardInv
<1>1. PICK e : e = events'[k]
  OBVIOUS
<1>2. events \in Seq(Event)
  BY DEF TypeInv, TypeOK
<1>3. Told(e)'
  <2>1. CASE events' = events
    BY <1>1, <2>1, ToldStays DEF HeardInv
  <2>2. ASSUME NEW r \in Req, pc[r] = "publish", pc'[r] = "OK",
               events' = Append(events, EventOf(r)), UNCHANGED <<examples, call, local>>
        PROVE  Told(e)'
    <3>1. CASE k \in DOMAIN events
      BY <1>1, <1>2, <2>2, <3>1, ToldStays DEF HeardInv
    <3>2. CASE k \notin DOMAIN events
      <4>1. e = EventOf(r)
        BY <1>1, <1>2, <2>2, <3>2
      <4>2. /\ e.by = r /\ e.id = local[r].id /\ call[r].op \in {"Create", "Update", "Delete"}
            /\ e.type = "ExampleDeleted" <=> call[r].op = "Delete"
            /\ call[r].op # "Delete" => e.name = local[r].name
        BY <2>2, <4>1, EventType
      <4> QED
        BY <2>2, <4>2 DEF Told
    <3> QED
      BY <3>1, <3>2
  <2> QED
    BY <2>1, <2>2, EventsStep
<1> QED
  BY <1>1, <1>3

\* The requests that write are about the example they hold.
LEMMA WriterHolds ==
    ASSUME TypeInv, NEW i \in Ids, NEW r \in Req, pc[r] = "publish"
    PROVE  r \in Writers(i) <=> local[r].id = i
BY DEF TypeInv, Stages, StageOf, Writers, On

LEMMA WritersStay ==
    ASSUME TypeInv, [Next]_vars, NEW i \in Ids
    PROVE  Writers(i) \subseteq Writers(i)'
BY OnStays DEF Writers

\* Once the changes of an example quarrel, or one is silent, they do so for good.
LEMMA CleanBefore ==
    ASSUME TypeInv, [Next]_vars, NEW i \in Ids, Clean(i)'
    PROVE  Clean(i)
<1>1. \A q, r \in Writers(i) : ~Overlap(q, r)
  BY OverlapStays, WritersStay DEF Clean, Writers, On
<1>2. ASSUME NEW r \in Writers(i), ~InFlight(r)
      PROVE  pc[r] \in Errors \ {"Internal", "500"} \/ Heard(r)
  <2>1. r \in Req /\ pc[r] \in Answered /\ pc'[r] = pc[r]
    <3>1. r \in Req /\ pc[r] # "idle"
      BY DEF Writers, On
    <3>2. pc[r] \in Answered
      BY <1>2, <3>1 DEF InFlight, TypeInv, TypeOK
    <3> QED
      BY <3>1, <3>2, AnswersStay
  <2>2. pc'[r] \in Errors \ {"Internal", "500"} \/ Heard(r)'
    BY <1>2, <2>1, WritersStay DEF Clean, InFlight
  <2>3. ASSUME NEW k \in DOMAIN events', events'[k].by = r PROVE Heard(r)
    <3>1. CASE events' = events
      BY <2>3, <3>1 DEF Heard
    <3>2. ASSUME NEW q \in Req, pc[q] = "publish", events' = Append(events, EventOf(q))
          PROVE  Heard(r)
      <4>1. EventOf(q).by = q /\ q # r
        BY <2>1, <3>2, EventType DEF Answered, Errors
      <4>2. events \in Seq(Event)
        BY DEF TypeInv, TypeOK
      <4>3. k \in DOMAIN events /\ events[k].by = r
        BY <2>3, <3>2, <4>1, <4>2
      <4> QED
        BY <4>3 DEF Heard
    <3> QED
      BY <3>1, <3>2, EventsStep
  <2> QED
    BY <2>1, <2>2, <2>3 DEF Heard
<1> QED
  BY <1>1, <1>2 DEF Clean

\* Whoever changes a row is about to publish that.
LEMMA RowMover ==
    ASSUME TypeInv, [Next]_vars, NEW i \in Ids, examples'[i] # examples[i]
    PROVE  \E w \in Writers(i)' : /\ w \in Req /\ InFlight(w) /\ pc[w] # "publish"
                                  /\ pc'[w] = "publish"
<1>1. ASSUME NEW r \in Req, CreateInsert(r), local'[r].id = i
      PROVE  /\ InFlight(r) /\ pc[r] # "publish" /\ pc'[r] = "publish"
             /\ r \in On("Create", i)'
  <2>1. pc[r] = "insert" /\ pc'[r] = "publish" /\ call' = call
    BY <1>1 DEF CreateInsert, Goto, TypeInv, TypeOK
  <2>2. call[r].op = "Create"
    BY <2>1 DEF TypeInv, Stages, StageOf
  <2> QED
    BY <1>1, <2>1, <2>2 DEF InFlight, Running, On
<1>2. ASSUME NEW r \in Req, UpdateSave(r) \/ DeleteRow(r)
      PROVE  InFlight(r) /\ pc[r] # "publish" /\ pc'[r] = "publish"
  BY <1>2 DEF UpdateSave, DeleteRow, Goto, InFlight, Running, TypeInv, TypeOK
<1> QED
  BY <1>1, <1>2, RowStep, OnStays DEF Writers

\* What a request is about to publish for the first time is what it just wrote.
LEMMA WriterReflects ==
    ASSUME TypeInv, NEW r \in Req, Acts(r), pc'[r] = "publish", NEW i \in Ids,
           r \in Writers(i)'
    PROVE  Reflects(i, r)'
<1>1. TypeInv'
  BY TypeStep DEF Next, Acts
<1>2. local'[r].id = i
  BY <1>1 DEF TypeInv, Stages, StageOf, Writers, On
<1>3. CASE CreateInsert(r)
  <2>1. PICK new, n : new = lastId' /\ n = call[r].name
    OBVIOUS
  <2>2. PICK row, m : /\ row = [name |-> n, status |-> "active"]
                      /\ m = [id |-> new, name |-> n, status |-> "active"]
    OBVIOUS
  <2>3. /\ examples' = [examples EXCEPT ![new] = row] /\ local' = [local EXCEPT ![r] = m]
        /\ pc[r] = "insert" /\ call' = call
    BY <1>3, <2>1, <2>2 DEF CreateInsert
  <2>4. call[r].op = "Create" /\ n \in Names \cup {NoName}
    BY <2>1, <2>3, CallKinds DEF TypeInv, Stages, StageOf
  <2>5. local'[r] = m /\ new = i
    BY <1>2, <2>2, <2>3 DEF TypeInv, TypeOK
  <2>6. examples'[i] = row /\ row # NoRow
    <3>1. row \in Row
      BY <2>2, <2>4 DEF Row, Statuses
    <3> QED
      BY <2>3, <2>5, <3>1, SentinelAssumption DEF TypeInv, TypeOK
  <2> QED
    BY <2>2, <2>3, <2>4, <2>5, <2>6 DEF Reflects, Live
<1>4. CASE UpdateSave(r)
  <2>1. PICK m, row : m = Edited(r) /\ row = [name |-> m.name, status |-> m.status]
    OBVIOUS
  <2>2. /\ pc[r] = "save" /\ local' = [local EXCEPT ![r] = m] /\ call' = call
        /\ examples' = [examples EXCEPT ![call[r].id] = row]
    BY <1>4, <2>1 DEF UpdateSave
  <2>3. call[r].op = "Update" /\ row \in Row /\ call[r].id = i
    <3>1. call[r].op = "Update" /\ local[r].id = call[r].id
      BY <2>2 DEF TypeInv, Stages, StageOf
    <3>2. row \in Row /\ m.id = local[r].id
      BY <2>1, <2>2, EditedType
    <3>3. local'[r] = m
      BY <2>2 DEF TypeInv, TypeOK
    <3> QED
      BY <1>2, <3>1, <3>2, <3>3
  <2>4. examples'[i] = row /\ local'[r] = m
    BY <2>2, <2>3 DEF TypeInv, TypeOK
  <2> QED
    BY <2>1, <2>2, <2>3, <2>4, SentinelAssumption DEF Reflects, Live
<1>5. CASE DeleteRow(r)
  <2>1. call[r].op = "Delete" /\ call' = call /\ local' = local /\ call[r].id = i
    BY <1>2, <1>5 DEF DeleteRow, TypeInv, Stages, StageOf
  <2>2. examples'[i] = NoRow
    BY <1>5, <2>1 DEF DeleteRow, TypeInv, TypeOK
  <2> QED
    BY <2>1, <2>2 DEF Reflects, Live
<1> QED
  BY <1>3, <1>4, <1>5, WayTo

\* The events about an example grow by those of the requests that hold it.
LEMMA EventsOnStep ==
    ASSUME TypeInv, [Next]_vars, NEW i \in Ids
    PROVE  \/ /\ EventsOn(i)' = EventsOn(i)
              /\ \A r \in Req : Publish(r) => local[r].id # i
              /\ \A k \in EventsOn(i) : events'[k] = events[k]
           \/ \E r \in Req, new \in Nat :
                  /\ Publish(r) /\ pc[r] = "publish" /\ local[r].id = i
                  /\ UNCHANGED <<examples, call, local>>
                  /\ EventsOn(i)' = EventsOn(i) \cup {new} /\ events'[new].by = r
                  /\ \A k \in EventsOn(i) : k \in Nat /\ k < new
<1>1. events \in Seq(Event) /\ DOMAIN events = 1 .. Len(events) /\ Len(events) \in Nat
  BY DEF TypeInv, TypeOK
<1>2. CASE events' = events /\ \A r \in Req : ~Publish(r)
  BY <1>2 DEF EventsOn
<1>3. ASSUME NEW r \in Req, Publish(r), pc[r] = "publish",
             events' = Append(events, EventOf(r)), UNCHANGED <<examples, call, local>>
      PROVE  \/ /\ EventsOn(i)' = EventsOn(i)
                /\ \A q \in Req : Publish(q) => local[q].id # i
                /\ \A k \in EventsOn(i) : events'[k] = events[k]
             \/ \E q \in Req, new \in Nat :
                    /\ Publish(q) /\ pc[q] = "publish" /\ local[q].id = i
                    /\ UNCHANGED <<examples, call, local>>
                    /\ EventsOn(i)' = EventsOn(i) \cup {new} /\ events'[new].by = q
                    /\ \A k \in EventsOn(i) : k \in Nat /\ k < new
  <2>1. PICK e, new : e = EventOf(r) /\ new = Len(events) + 1
    OBVIOUS
  <2>2. e.by = r /\ e.id = local[r].id
    BY <1>3, <2>1, EventType
  <2>3. /\ DOMAIN events' = DOMAIN events \cup {new} /\ new \in Nat
        /\ events'[new] = e /\ \A k \in DOMAIN events : events'[k] = events[k]
        /\ \A k \in DOMAIN events : k \in Nat /\ k < new
    BY <1>1, <1>3, <2>1
  <2>4. CASE local[r].id = i
    <3>1. EventsOn(i)' = EventsOn(i) \cup {new}
      BY <2>2, <2>3, <2>4 DEF EventsOn
    <3>2. \A k \in EventsOn(i) : k \in Nat /\ k < new
      BY <2>3 DEF EventsOn
    <3> QED
      BY <1>3, <2>2, <2>3, <2>4, <3>1, <3>2
  <2>5. CASE local[r].id # i
    <3>1. EventsOn(i)' = EventsOn(i) /\ \A k \in EventsOn(i) : events'[k] = events[k]
      BY <2>2, <2>3, <2>5 DEF EventsOn
    <3>2. ASSUME NEW q \in Req, Publish(q) PROVE q = r
      <4>1. Acts(q) /\ Acts(r) /\ pc[q] = "publish" /\ pc'[r] # pc[r]
        BY <1>3, <3>2, Outcome DEF Acts, Step, Publish, Return, Goto, TypeInv, TypeOK
      <4> QED
        BY <4>1, StepFrame
    <3> QED
      BY <2>5, <3>1, <3>2
  <2> QED
    BY <2>4, <2>5
<1> QED
  BY <1>2, <1>3, EventsStep

LEMMA ToPublish ==
    ASSUME TypeInv, TrueInv, [Next]_vars, NEW i \in Ids, Clean(i)',
           NEW w \in Writers(i)', pc'[w] = "publish"
    PROVE  Reflects(i, w)'
<1>1. w \in Req
  BY DEF Writers, On
<1>2. CASE pc[w] # "publish"
  BY <1>1, <1>2, WhoMoved, WriterReflects
<1>3. CASE pc[w] = "publish"
  <2>1. ASSUME NEW r \in Req, Acts(r) PROVE r # w
    BY <1>1, <1>3, <2>1, Outcome DEF Acts, Step, Arrive, CreateExists, CreateInsert, Find,
       FindMisses, FindAll, UpdateSave, DeleteRow, Publish, EventLost, StatementFails, Return,
       Goto, TypeInv, TypeOK
  <2>2. local'[w] = local[w] /\ call'[w] = call[w]
    <3>1. Crash \/ UNCHANGED vars => local' = local /\ call' = call
      BY DEF Crash, vars
    <3> QED
      BY <1>1, <2>1, <3>1, StepFrame DEF Next, Acts
  <2>3. w \in Writers(i)
    <3>1. TypeInv'
      BY TypeStep
    <3>2. local'[w].id = i
      BY <1>1, <3>1 DEF TypeInv, Stages, StageOf, Writers, On
    <3> QED
      BY <1>1, <1>3, <2>2, <3>2, WriterHolds
  <2>4. Reflects(i, w)
    BY <1>3, <2>3, CleanBefore DEF TrueInv
  <2>5. examples'[i] = examples[i]
    <3>1. SUFFICES ASSUME NEW v \in Writers(i)', v \in Req, InFlight(v), pc[v] # "publish"
                   PROVE  FALSE
      BY RowMover
    <3>2. Overlap(v, w)'
      BY <1>1, <1>3, <3>1, InFlightOverlap, OverlapStays DEF InFlight, Running
    <3> QED
      BY <3>1, <3>2 DEF Clean
  <2> QED
    BY <2>2, <2>4, <2>5 DEF Reflects, Live
<1> QED
  BY <1>2, <1>3

LEMMA Published ==
    ASSUME TypeInv, HeardInv, TrueInv, [Next]_vars, NEW i \in Ids, Clean(i)',
           \A w \in Writers(i)' : pc'[w] # "publish", NEW k \in Nat, Latest(i, k)'
    PROVE  Reflects(i, events[k].by)'
<1>1. examples'[i] = examples[i]
  BY RowMover
<1>2. Clean(i)
  BY CleanBefore
<1>3. ASSUME NEW r \in Req, NEW new \in Nat, pc[r] = "publish", local[r].id = i,
             UNCHANGED <<examples, call, local>>, EventsOn(i)' = EventsOn(i) \cup {new},
             events'[new].by = r, \A n \in EventsOn(i) : n \in Nat /\ n < new
      PROVE  Reflects(i, events[k].by)'
  <2>1. k = new
    BY <1>3 DEF Latest
  <2>2. Reflects(i, r)
    BY <1>2, <1>3, WriterHolds DEF TrueInv
  <2> QED
    BY <1>3, <2>1, <2>2 DEF Reflects, Live
<1>4. CASE /\ EventsOn(i)' = EventsOn(i)
           /\ \A r \in Req : Publish(r) => local[r].id # i
           /\ \A n \in EventsOn(i) : events'[n] = events[n]
  <2>1. ASSUME NEW w \in Writers(i), pc[w] = "publish" PROVE FALSE
    <3>1. w \in Req /\ local[w].id = i /\ ~Publish(w) /\ pc'[w] # "publish" /\ w \in Writers(i)'
      BY <1>4, <2>1, WriterHolds, WritersStay DEF Writers, On
    <3>2. pc'[w] = "OK" \/ pc'[w] = "crashed"
      <4>1. ASSUME Acts(w) PROVE pc'[w] = "OK"
        BY <2>1, <3>1, <4>1, Outcome DEF Acts, Step, Arrive, CreateExists, CreateInsert,
           Find, FindMisses, FindAll, UpdateSave, DeleteRow, EventLost, StatementFails,
           Return, Goto, TypeInv, TypeOK
      <4> QED
        BY <2>1, <3>1, <4>1, WhoMoved
    <3>3. Heard(w)'
      BY <3>1, <3>2 DEF Clean, InFlight, Running, Errors
    <3>4. PICK n \in DOMAIN events' : events'[n].by = w
      BY <3>3 DEF Heard
    <3>5. HeardInv'
      BY HeardStep
    <3>6. events'[n].id = i
      <4>1. events'[n].id = local'[w].id
        BY <3>4, <3>5 DEF HeardInv, Told
      <4>2. TypeInv'
        BY TypeStep
      <4>3. local'[w].id = local[w].id
        <5>1. ASSUME NEW r \in Req, Acts(r) PROVE local'[w].id = local[w].id
          <6>1. CASE r = w
            BY <2>1, <5>1, <6>1 DEF Acts, Step, Arrive, CreateExists, CreateInsert, Find,
               FindMisses, FindAll, UpdateSave, DeleteRow, Publish, EventLost, StatementFails
          <6> QED
            BY <3>1, <5>1, <6>1, StepFrame
        <5>2. Crash \/ UNCHANGED vars => local' = local
          BY DEF Crash, vars
        <5> QED
          BY <5>1, <5>2 DEF Next, Acts
      <4> QED
        BY <3>1, <4>1, <4>3
    <3>7. n \in EventsOn(i) /\ events[n].by = w
      <4>1. n \in EventsOn(i)'
        BY <3>4, <3>6 DEF EventsOn
      <4> QED
        BY <1>4, <3>4, <4>1
    <3>8. pc[w] = "OK"
      BY <3>7 DEF HeardInv, Told, EventsOn
    <3> QED
      BY <2>1, <3>8
  <2>2. Latest(i, k)
    BY <1>4 DEF Latest
  <2>3. Reflects(i, events[k].by)
    BY <1>2, <2>1, <2>2 DEF TrueInv
  <2>4. PICK e : e = events[k] /\ e = events'[k]
    BY <1>4, <2>2 DEF Latest
  <2>5. Told(e)
    BY <2>2, <2>4 DEF HeardInv, Latest, EventsOn
  <2>6. local'[e.by] = local[e.by] /\ call'[e.by] = call[e.by]
    BY <2>5, AnswersStay DEF Told, Answered
  <2> QED
    BY <1>1, <2>3, <2>4, <2>6 DEF Reflects, Live
<1> QED
  BY <1>3, <1>4, EventsOnStep

LEMMA LatestKept ==
    ASSUME TypeInv, TrueInv, [Next]_vars, NEW i \in Ids, EventsOn(i)' # {}
    PROVE  \E k \in Nat : Latest(i, k)'
<1>1. CASE EventsOn(i)' = EventsOn(i)
  BY <1>1 DEF TrueInv, Latest
<1>2. ASSUME NEW new \in Nat, EventsOn(i)' = EventsOn(i) \cup {new},
             \A n \in EventsOn(i) : n \in Nat /\ n < new
      PROVE  Latest(i, new)'
  BY <1>2 DEF Latest
<1> QED
  BY <1>1, <1>2, EventsOnStep

\* If the changes of an example ran one after the other and each was refused or heard
\* of, the last event about it tells what became of it: between the write of a request
\* and its event nobody else can write.
THEOREM LastEventTellsTheTruth == Spec => []LastEventIsTrue
<1>1. Init => HeardInv /\ TrueInv
  BY DEF Init, HeardInv, TrueInv, Writers, On, EventsOn, Latest
<1>2. TypeInv /\ HeardInv /\ TrueInv /\ [Next]_vars => TrueInv'
  BY ToPublish, Published, LatestKept DEF TrueInv
<1>3. ASSUME TypeInv, HeardInv, TrueInv PROVE LastEventIsTrue
  <2> SUFFICES ASSUME NEW i \in Ids,
                      \A r \in Writers(i) : pc[r] \in Errors \ {"Internal", "500"} \/ Heard(r),
                      \A q, r \in Writers(i) : ~Overlap(q, r), EventsOn(i) # {}
               PROVE  LET e == events[Max(EventsOn(i))]
                      IN  IF e.type = "ExampleDeleted" THEN ~Live(i)
                          ELSE Live(i) /\ examples[i].name = e.name
    BY DEF LastEventIsTrue
  <2>1. Clean(i)
    BY DEF Clean
  <2>2. \A w \in Writers(i) : pc[w] # "publish"
    BY <1>3 DEF HeardInv, Told, Heard, Errors
  <2>3. PICK k \in Nat : Latest(i, k)
    BY <1>3 DEF TrueInv
  <2>4. Max(EventsOn(i)) = k
    <3>1. \A n \in EventsOn(i) : n \in Nat
      BY <1>3 DEF EventsOn, TypeInv, TypeOK
    <3>2. PICK m : m = Max(EventsOn(i))
      OBVIOUS
    <3>3. k \in EventsOn(i) /\ \A n \in EventsOn(i) : k >= n
      BY <2>3, <3>1 DEF Latest
    <3>4. m \in EventsOn(i) /\ \A n \in EventsOn(i) : m >= n
      BY <3>2, <3>3 DEF Max
    <3>5. m = k
      BY <3>1, <3>3, <3>4
    <3> QED
      BY <3>2, <3>5
  <2>5. Told(events[k])
    BY <1>3, <2>3 DEF HeardInv, Latest, EventsOn
  <2>6. Reflects(i, events[k].by)
    BY <1>3, <2>1, <2>2, <2>3 DEF TrueInv
  <2> QED
    BY <2>4, <2>5, <2>6 DEF Told, Reflects
<1> QED
  BY <1>1, <1>2, <1>3, HeardStep, Typed, PTL DEF Spec

=============================================================================
