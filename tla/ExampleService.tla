---------------------------- MODULE ExampleService ----------------------------
(***************************************************************************)
(* The example service of the template, behind its gRPC and its HTTP       *)
(* handlers: application.ExampleService over ExampleRepository.            *)
(*                                                                         *)
(* As in InvoiceStore a request is a sequence of statements, each of them  *)
(* a step, and there is no transaction around them.                        *)
(***************************************************************************)
EXTENDS Integers, SequencesExt

CONSTANTS
    Req,      \* requests
    Vias,     \* the handlers requests come through: "grpc", "http"
    Names,    \* the names clients give, without the empty one
    Asked,    \* the ids clients ask for
    NoName,   \* the empty string, in a field that is left out
    NoRow,    \* "record not found"
    NoCall    \* the call of a request that has not been made

Ids      == 1 .. Cardinality(Req)
Statuses == {"active", "inactive"}
Row      == [name: Names \cup {NoName}, status: Statuses]
Example  == [id: Ids \cup {0}, name: Names \cup {NoName}, status: Statuses]
Unset    == [id |-> 0, name |-> NoName, status |-> "active"]

Call ==
    [via: Vias, op: {"Create"}, name: Names \cup {NoName}]
    \cup [via: Vias, op: {"Get", "Delete"}, id: Asked]
    \cup [via: Vias, op: {"List"}]
    \cup [via: Vias, op: {"Update"}, id: Asked, name: Names \cup {NoName},
          status: {"inactive", ""}]

Event ==
    [by: Req, type: {"ExampleCreated", "ExampleUpdated"}, id: Ids, name: Names \cup {NoName}]
    \cup [by: Req, type: {"ExampleDeleted"}, id: Ids]

ASSUME ViaAssumption == Vias \subseteq {"grpc", "http"}
ASSUME AskedAssumption == IsFiniteSet(Req) /\ Asked \subseteq Nat
ASSUME SentinelAssumption == NoName \notin Names /\ NoRow \notin Row /\ NoCall \notin Call

VARIABLES
    examples,  \* table examples: id -> Row, or NoRow
    lastId,    \* the sequence behind the id column
    events,    \* what was published, in order
    pc,        \* what each request does next, or its answer
    call,      \* what each request was asked to do
    local,     \* the example each request holds in memory
    before     \* the requests that had ended when a request arrived

vars == <<examples, lastId, events, pc, call, local, before>>

Init ==
    /\ examples = [i \in Ids |-> NoRow]
    /\ lastId = 0
    /\ events = <<>>
    /\ pc = [r \in Req |-> "idle"]
    /\ call = [r \in Req |-> NoCall]
    /\ local = [r \in Req |-> Unset]
    /\ before = [r \in Req |-> {}]

Running  == {"exists", "insert", "find", "save", "delete", "publish"}
Errors   == {"InvalidArgument", "NotFound", "AlreadyExists", "Internal", "500"}
Answered == {"OK", "crashed"} \cup Errors

Live(i)     == i \in Ids /\ examples[i] # NoRow
InFlight(r) == pc[r] \in Running

\* The answer for what the service returned: gRPC maps the two domain errors to
\* codes and any other to Internal, HTTP has one status for all of them.
Code(via, result) ==
    IF result = "OK" \/ via = "grpc" THEN result ELSE "500"

Goto(r, l)        == pc' = [pc EXCEPT ![r] = l]
Return(r, result) == Goto(r, Code(call[r].via, result))

-----------------------------------------------------------------------------
(* The handlers: a request arrives.                                         *)

\* What the handlers check: gRPC wants a name and an id, HTTP nothing.
Valid(c) ==
    c.via = "grpc" =>
        /\ c.op = "Create" => c.name # NoName
        /\ c.op \in {"Get", "Update", "Delete"} => c.id # 0

First ==
    [Create |-> "exists", Get |-> "find", Update |-> "find", Delete |-> "find",
     List |-> "find"]

Arrive(r) ==
    \E c \in Call :
        /\ pc[r] = "idle"
        /\ call' = [call EXCEPT ![r] = c]
        /\ Goto(r, IF Valid(c) THEN First[c.op] ELSE "InvalidArgument")
        /\ before' = [before EXCEPT ![r] = {q \in Req : pc[q] \in Answered}]
        /\ UNCHANGED <<examples, lastId, events, local>>

-----------------------------------------------------------------------------
(* CreateExample                                                            *)

\* Bug for the mutation check: the count is not looked at.
NeverTaken(name) == FALSE

\* Exists: SELECT count(*) ... WHERE name = ?
Taken(name) == \E i \in Ids : Live(i) /\ examples[i].name = name

CreateExists(r) ==
    /\ pc[r] = "exists"
    /\ IF Taken(call[r].name) THEN Return(r, "AlreadyExists") ELSE Goto(r, "insert")
    /\ UNCHANGED <<examples, lastId, events, call, local, before>>

\* Bug for the mutation check: the transaction of the INSERT is not committed.
InsertUncommitted(r) ==
    /\ pc[r] = "insert"
    /\ lastId' = lastId + 1
    /\ local' = [local EXCEPT ![r] = [id |-> lastId', name |-> call[r].name, status |-> "active"]]
    /\ Goto(r, "publish")
    /\ UNCHANGED <<examples, events, call, before>>

\* INSERT; the database hands out the id, and no index keeps names apart.
CreateInsert(r) ==
    /\ pc[r] = "insert"
    /\ lastId' = lastId + 1
    /\ examples' = [examples EXCEPT ![lastId'] = [name |-> call[r].name, status |-> "active"]]
    /\ local' = [local EXCEPT ![r] = [id |-> lastId', name |-> call[r].name, status |-> "active"]]
    /\ Goto(r, "publish")
    /\ UNCHANGED <<events, call, before>>

-----------------------------------------------------------------------------
(* FindByID, which GetExample, UpdateExample and DeleteExample begin with,  *)
(* and FindAll of ListExamples.                                             *)

AfterFind == [Get |-> "OK", Update |-> "save", Delete |-> "delete"]

Find(r) ==
    /\ pc[r] = "find"
    /\ call[r].op # "List"
    /\ Live(call[r].id)
    /\ local' = [local EXCEPT ![r] =
           [id |-> call[r].id, name |-> examples[call[r].id].name,
            status |-> examples[call[r].id].status]]
    /\ Goto(r, AfterFind[call[r].op])
    /\ UNCHANGED <<examples, lastId, events, call, before>>

FindMisses(r) ==
    /\ pc[r] = "find"
    /\ call[r].op # "List"
    /\ ~Live(call[r].id)
    /\ Return(r, "NotFound")
    /\ UNCHANGED <<examples, lastId, events, call, local, before>>

FindAll(r) ==
    /\ pc[r] = "find"
    /\ call[r].op = "List"
    /\ Return(r, "OK")
    /\ UNCHANGED <<examples, lastId, events, call, local, before>>

-----------------------------------------------------------------------------
(* UpdateExample and DeleteExample                                          *)

\* Bug for the mutation check: fields the request leaves out are emptied.
EditedBlindly(r) == [local[r] EXCEPT !.name = call[r].name, !.status = call[r].status]

\* The example with the fields the request gives.
Edited(r) ==
    [local[r] EXCEPT !.name = IF call[r].name = NoName THEN @ ELSE call[r].name,
                     !.status = IF call[r].status = "" THEN @ ELSE call[r].status]

\* Save updates every column; if there is no such row any more, it inserts it.
UpdateSave(r) ==
    /\ pc[r] = "save"
    /\ local' = [local EXCEPT ![r] = Edited(r)]
    /\ examples' = [examples EXCEPT ![call[r].id] =
           [name |-> Edited(r).name, status |-> Edited(r).status]]
    /\ Goto(r, "publish")
    /\ UNCHANGED <<lastId, events, call, before>>

\* Bug for the mutation check: nothing is deleted.
DeleteMissing(r) ==
    /\ pc[r] = "delete"
    /\ Goto(r, "publish")
    /\ UNCHANGED <<examples, lastId, events, call, local, before>>

DeleteRow(r) ==
    /\ pc[r] = "delete"
    /\ examples' = [examples EXCEPT ![call[r].id] = NoRow]
    /\ Goto(r, "publish")
    /\ UNCHANGED <<lastId, events, call, local, before>>

-----------------------------------------------------------------------------
(* Events.                                                                  *)

\* Bug for the mutation check: the event carries the name of the request.
EventOfRequest(r) ==
    CASE call[r].op = "Create" ->
             [by |-> r, type |-> "ExampleCreated", id |-> local[r].id, name |-> call[r].name]
      [] call[r].op = "Update" ->
             [by |-> r, type |-> "ExampleUpdated", id |-> local[r].id, name |-> call[r].name]
      [] call[r].op = "Delete" ->
             [by |-> r, type |-> "ExampleDeleted", id |-> local[r].id]

EventOf(r) ==
    CASE call[r].op = "Create" ->
             [by |-> r, type |-> "ExampleCreated", id |-> local[r].id, name |-> local[r].name]
      [] call[r].op = "Update" ->
             [by |-> r, type |-> "ExampleUpdated", id |-> local[r].id, name |-> local[r].name]
      [] call[r].op = "Delete" ->
             [by |-> r, type |-> "ExampleDeleted", id |-> local[r].id]

Publish(r) ==
    /\ pc[r] = "publish"
    /\ events' = Append(events, EventOf(r))
    /\ Return(r, "OK")
    /\ UNCHANGED <<examples, lastId, call, local, before>>

\* There is no publisher, or it returns an error that is not looked at.
EventLost(r) ==
    /\ pc[r] = "publish"
    /\ Return(r, "OK")
    /\ UNCHANGED <<examples, lastId, events, call, local, before>>

-----------------------------------------------------------------------------
(* Faults.                                                                  *)

StatementFails(r) ==
    /\ InFlight(r) /\ pc[r] # "publish"
    /\ Return(r, "Internal")
    /\ UNCHANGED <<examples, lastId, events, call, local, before>>

Crash ==
    /\ \E r \in Req : InFlight(r)
    /\ pc' = [r \in Req |-> IF InFlight(r) THEN "crashed" ELSE pc[r]]
    /\ UNCHANGED <<examples, lastId, events, call, local, before>>

Step(r) ==
    \/ Arrive(r)
    \/ CreateExists(r) \/ CreateInsert(r)
    \/ Find(r) \/ FindMisses(r) \/ FindAll(r)
    \/ UpdateSave(r) \/ DeleteRow(r)
    \/ Publish(r) \/ EventLost(r)

Next == Crash \/ \E r \in Req : Step(r) \/ StatementFails(r)

Spec == Init /\ [][Next]_vars

-----------------------------------------------------------------------------

TypeOK ==
    /\ examples \in [Ids -> Row \cup {NoRow}]
    /\ lastId \in 0 .. Cardinality(Req)
    /\ events \in Seq(Event)
    /\ pc \in [Req -> {"idle"} \cup Running \cup Answered]
    /\ call \in [Req -> Call \cup {NoCall}]
    /\ local \in [Req -> Example]
    /\ before \in [Req -> SUBSET Req]

\* Neither request had ended when the other arrived.
Overlap(q, r) ==
    /\ pc[q] # "idle" /\ pc[r] # "idle" /\ q # r
    /\ q \notin before[r] /\ r \notin before[q]

\* The requests of a kind that are about example i, those that create it included.
On(op, i) == {r \in Req : /\ pc[r] # "idle" /\ call[r].op = op
                          /\ IF op = "Create" THEN local[r].id = i ELSE call[r].id = i}

\* An update gave the example the name it has.
Renamed(i) == \E u \in On("Update", i) : call[u].name = examples[i].name

\* An update that leaves the name out may have put back the one it had loaded,
\* over another update or over a deletion.
Restored(i) ==
    \E u \in On("Update", i), w \in On("Update", i) \cup On("Delete", i) :
        call[u].name = NoName /\ Overlap(u, w)

\* The name of an example is checked in one statement and used in another, and an
\* update does not check at all.  Nevertheless two examples share a name only if
\* their creates overlapped, or an update gave one of them the name, or put it back
\* over another update or over a deletion it overlapped.
NamesDistinct ==
    \A i, j \in Ids : i # j /\ Live(i) /\ Live(j) /\ examples[i].name = examples[j].name =>
        \/ \E q \in On("Create", i), r \in On("Create", j) : Overlap(q, r)
        \/ \E k \in {i, j} : Renamed(k) \/ Restored(k)

\* An example whose deletion was answered is back only if an update of it
\* overlapped the deletion.
DeletedStaysDeleted ==
    \A i \in Ids : \A d \in On("Delete", i) :
        pc[d] = "OK" /\ Live(i) => \E u \in On("Update", i) : Overlap(u, d)

\* A client that was told an example exists is told NotFound by a later request
\* only if somebody asked for its deletion.
FoundUntilDeleted ==
    \A r \in Req : pc[r] = "NotFound" =>
        \A c \in On("Create", call[r].id) :
            pc[c] = "OK" /\ c \in before[r] => On("Delete", call[r].id) # {}

Writers(i) == On("Create", i) \cup On("Update", i) \cup On("Delete", i)
EventsOn(i) == {k \in DOMAIN events : events[k].id = i}
Heard(r) == \E k \in DOMAIN events : events[k].by = r

\* Events are published after their commit and in no order.  Nevertheless, if no
\* two changes of an example overlapped, and none broke off or lost its event,
\* the last event about the example tells what became of it.
LastEventIsTrue ==
    \A i \in Ids :
        /\ \A r \in Writers(i) : pc[r] \in Errors \ {"Internal", "500"} \/ Heard(r)
        /\ \A q, r \in Writers(i) : ~Overlap(q, r)
        /\ EventsOn(i) # {}
        => LET e == events[Max(EventsOn(i))]
           IN  IF e.type = "ExampleDeleted" THEN ~Live(i)
               ELSE Live(i) /\ examples[i].name = e.name

=============================================================================
