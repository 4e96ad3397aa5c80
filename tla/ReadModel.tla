------------------------------ MODULE ReadModel ------------------------------
(***************************************************************************)
(* The read models of customers, contacts, items and work orders, and the  *)
(* consumer that projects the events of other services into them.          *)
(*                                                                         *)
(* One partition of the consumer group: the events of the aggregates in    *)
(* Crm and WorkOrders, in the order the broker keeps them.  The handler of *)
(* a message runs in one database transaction; offsets are committed in    *)
(* the broker, on their own, so a crash in between delivers messages       *)
(* again.  The handler is this repository's.  The loop around it is a      *)
(* library whose source is elsewhere, and is assumed as little as can be:  *)
(* it hands messages over in order, one at a time, after an error either   *)
(* the next one or the same one again, and commits the offset of no        *)
(* message that it has not handed over.                                    *)
(*                                                                         *)
(* One column, status, stands for each of those that events carry.  It     *)
(* holds the offset of the event that set it; so does updated_at, which is *)
(* that event's OccurredAt, or else the time of processing.                *)
(***************************************************************************)
EXTENDS Integers, SequencesExt

CONSTANTS
    Crm,         \* customers, contacts, services and parts
    WorkOrders,
    MaxLog,      \* bound on the events produced
    MaxCrashes,  \* bound on the crashes of the process
    NoRow        \* "record not found"

ASSUME IdsAssumption == Crm \cap WorkOrders = {}

ASSUME BoundsAssumption == MaxLog \in Nat /\ MaxCrashes \in Nat

Ids       == Crm \cup WorkOrders
Blank     == 0  \* a column the event did not carry
Processed == 0  \* the time of processing
Row       == [status: Blank .. MaxLog, updated_at: Processed .. MaxLog]

ASSUME NoRowAssumption == NoRow \notin Row /\ NoRow \notin Blank .. MaxLog

\* An update carries the fields it changes, the status or others; a creation carries
\* all, a deletion none.
Event ==
    [type: {"Created", "StatusUpdated", "OtherUpdated", "Deleted"}, id: Ids]
    \cup [type: {"Unreadable", "Unrelated"}]

\* The aggregate whose row a message would change.
About(e) == IF "id" \in DOMAIN e THEN {e.id} ELSE {}

VARIABLES
    log,        \* the partition
    rows,       \* the read-model tables: id -> Row, or NoRow
    next,       \* offset of the message the consumer works on or fetches next
    committed,  \* messages up to this offset are not delivered after a restart
    stage,      \* of the consumer
    skipped,    \* aggregates of the messages the consumer gave up on
    crashes

vars == <<log, rows, next, committed, stage, skipped, crashes>>

NoRows == [i \in Ids |-> NoRow]

Init ==
    /\ log = <<>>
    /\ rows = NoRows
    /\ next = 1
    /\ committed = 0
    /\ stage = "polling"
    /\ skipped = {}
    /\ crashes = 0

\* Another service publishes.
Produce ==
    /\ Len(log) < MaxLog
    /\ \E e \in Event : log' = Append(log, e)
    /\ UNCHANGED <<rows, next, committed, stage, skipped, crashes>>

-----------------------------------------------------------------------------
(* The handler: what message n does to the tables.                          *)

Carried(n) == IF log[n].type \in {"Created", "StatusUpdated"} THEN n ELSE Blank

\* Bug for the mutation check: OccurredAt is not copied to updated_at.
Undated(table, n) == [table EXCEPT ![log[n].id] = [status |-> Carried(n)]]

\* Bug for the mutation check: OnConflict DoNothing.
InsertOnly(table, n) ==
    [table EXCEPT ![log[n].id] =
        IF @ = NoRow THEN [status |-> Carried(n), updated_at |-> n] ELSE @]

\* INSERT ... ON CONFLICT UpdateAll: every column, carried or not; on a conflict the
\* ORM sets updated_at to the time of processing.
Upsert(table, n) ==
    [table EXCEPT ![log[n].id] =
        [status |-> Carried(n), updated_at |-> IF @ = NoRow THEN n ELSE Processed]]

\* Bug for the mutation check: updates that are not newer than updated_at are ignored.
UpdateNewer(table, n) ==
    [table EXCEPT ![log[n].id] =
        IF @ = NoRow \/ @.updated_at \in {Processed} \cup n .. MaxLog THEN @
        ELSE [status     |-> IF log[n].type = "StatusUpdated" THEN n ELSE @.status,
              updated_at |-> n]]

\* UPDATE of the fields carried, and always of updated_at; no row, no effect.
UpdateFields(table, n) ==
    [table EXCEPT ![log[n].id] =
        IF @ = NoRow THEN NoRow
        ELSE [status     |-> IF log[n].type = "StatusUpdated" THEN n ELSE @.status,
              updated_at |-> n]]

DeleteRow(table, n) == [table EXCEPT ![log[n].id] = NoRow]

\* Events of other types change nothing, and are "Unrelated" here.
HandledWorkOrder(table, n) ==
    CASE log[n].type = "Created" -> Upsert(table, n)
      [] log[n].type = "Deleted" -> DeleteRow(table, n)
      [] OTHER                   -> UpdateFields(table, n)

\* Of a customer, a contact, a service or a part every event is decoded as a creation
\* and upserted, whatever its type.
Handled(table, n) ==
    IF About(log[n]) = {} THEN table
    ELSE IF log[n].id \in Crm THEN Upsert(table, n)
    ELSE HandledWorkOrder(table, n)

-----------------------------------------------------------------------------
(* The consumer.                                                            *)

Fetch ==
    /\ stage = "polling"
    /\ next <= Len(log)
    /\ stage' = "handling"
    /\ UNCHANGED <<log, rows, next, committed, skipped, crashes>>

Handle ==
    /\ stage = "handling"
    /\ log[next].type # "Unreadable"
    /\ rows' = Handled(rows, next)
    /\ next' = next + 1
    /\ stage' = "polling"
    /\ UNCHANGED <<log, committed, skipped, crashes>>

\* The message cannot be read, or a statement of its transaction fails and it is
\* rolled back: the handler returns the error.
HandleFails ==
    /\ stage = "handling"
    /\ stage' = "failed"
    /\ UNCHANGED <<log, rows, next, committed, skipped, crashes>>

\* What the consumer does with the error is not known: it goes on to the next
\* message, or hands this one over again.
GoOn ==
    /\ stage = "failed"
    /\ skipped' = skipped \cup About(log[next])
    /\ next' = next + 1
    /\ stage' = "polling"
    /\ UNCHANGED <<log, rows, committed, crashes>>

TryAgain ==
    /\ stage = "failed"
    /\ stage' = "polling"
    /\ UNCHANGED <<log, rows, next, committed, skipped, crashes>>

\* Nor is it known when offsets are committed: after each message or now and then.
Commit ==
    /\ stage # "down"
    /\ \E n \in committed + 1 .. next - 1 : committed' = n
    /\ UNCHANGED <<log, rows, next, stage, skipped, crashes>>

Crash ==
    /\ stage # "down"
    /\ crashes < MaxCrashes
    /\ crashes' = crashes + 1
    /\ stage' = "down"
    /\ UNCHANGED <<log, rows, next, committed, skipped>>

\* The group hands the partition over again, from the committed offset.
Restart ==
    /\ stage = "down"
    /\ next' = committed + 1
    /\ stage' = "polling"
    /\ UNCHANGED <<log, rows, committed, skipped, crashes>>

Consume == Fetch \/ Handle \/ HandleFails \/ GoOn \/ TryAgain

Next == Produce \/ Consume \/ Commit \/ Crash \/ Restart

Spec == Init /\ [][Next]_vars

\* The consumer's goroutine keeps running and the process is restarted.
FairSpec == Spec /\ WF_vars(Consume) /\ WF_vars(Restart)

-----------------------------------------------------------------------------

TypeOK ==
    /\ log \in Seq(Event) /\ Len(log) <= MaxLog
    /\ rows \in [Ids -> Row \cup {NoRow}]
    /\ committed \in 0 .. Len(log)
    /\ next \in committed + 1 .. Len(log) + 1
    /\ stage \in {"polling", "handling", "failed", "down"}
    /\ skipped \subseteq Ids
    /\ crashes \in 0 .. MaxCrashes

\* What the properties compare of a row: all but the time.
Content(row) == IF row = NoRow THEN NoRow ELSE row.status

\* The tables after the handler ran on every message from offset n on, up to offset k,
\* on top of table.
Replay(table, n) ==
    LET result[k \in n - 1 .. Len(log)] ==
            IF k = n - 1 THEN table ELSE Handled(result[k - 1], k)
    IN  result

Replayed(n) == Replay(rows, n)[Len(log)]

\* The tables after handling every message once.
Once == Replay(NoRows, 1)[Len(log)]

\* A crash at any moment loses nothing and doubles nothing: whatever was applied
\* already, running the handler over the messages after the committed offset, some of
\* them for the second time and on top of newer rows, gives what handling every message
\* once gives, of every aggregate none of whose messages was given up.  (The handler
\* compares no OccurredAt: it is replaying to the end, not each message, that is
\* idempotent, and of the time of processing it is not.)
RestartIsSafe ==
    \A i \in Ids \ skipped : Content(Replayed(committed + 1)[i]) = Content(Once[i])

\* What the producers say of an aggregate: it was created and not deleted since, and
\* its status is that of the creation or of the last update of the status after it.
Said(i, types) == {n \in DOMAIN log : log[n].type \in types /\ About(log[n]) = {i}}

Stated(i) ==
    LET last == Max(Said(i, {"Created", "Deleted"}))
    IN  IF Said(i, {"Created", "Deleted"}) = {} \/ log[last].type = "Deleted" THEN NoRow
        ELSE Max({last} \cup {n \in Said(i, {"StatusUpdated"}) : n > last})

\* Of a customer, a contact, a service or a part the handler understands creations, and
\* later events that carry as much; others it takes for creations too.
Misread ==
    {i \in Crm :
        \/ Said(i, {"OtherUpdated", "Deleted"}) # {}
        \/ \E n \in Said(i, {"StatusUpdated"}) : \A m \in Said(i, {"Created"}) : m > n}

\* The tables show what the producers say, of the aggregates none of whose messages was
\* given up or misread.
Faithful(table) == \A i \in Ids \ (skipped \cup Misread) : Content(table[i]) = Stated(i)

\* Once the producers are silent, the process stays up and the handler fails no more,
\* the read models show what the producers say, and stay so.
Converges == <>[](stage # "failed") => <>[]Faithful(rows)

=============================================================================
