-------------------------------- MODULE Ledger --------------------------------
(***************************************************************************)
(* What the invoice and payment services promise a client that waits for   *)
(* its answers on an account: each of its calls is one step on one account *)
(* and whatever is done to other accounts meanwhile cannot be noticed.     *)
(*                                                                         *)
(* An account is an invoice with its lines and the payments received for   *)
(* it.  A call that is cut short may damage the account it was about, in   *)
(* one of two ways: the lines are gone, or a payment is received that the  *)
(* account gives no credit for.  Nothing else can happen.                  *)
(***************************************************************************)
EXTENDS Integers, FiniteSetsExt

CONSTANTS
    Id,         \* accounts, and the calls that may read them
    Org,        \* organisations
    Invoices,   \* what can be billed: [lines: a set of lines, total: an integer]
    Payments,   \* payments, each with an amount
    Statuses,   \* statuses a client may set
    None        \* no such account

VARIABLES
    books,      \* the accounts: id -> account, or None
    answers     \* what a reader was shown: id -> statement, or None

\* What a reader is shown of an account: not the payments, but the credit.
Statement(account) ==
    [status |-> account.status, lines |-> account.lines, total |-> account.total,
     credited |-> account.credited]

Worth(S) == SumFunction([p \in S |-> p.amount])

Init ==
    /\ books = [i \in Id |-> None]
    /\ answers = [i \in Id |-> None]

\* A call changes the one account it is about.

Open(i) ==
    /\ books[i] = None
    /\ books'[i] \in
           {[org |-> org, status |-> "draft", lines |-> inv.lines, total |-> inv.total,
             received |-> {}, credited |-> {}] : org \in Org, inv \in Invoices}

\* New lines, new total; whatever was received is credited; the status stays,
\* be it "paid" under a larger total.
Revise(i) ==
    /\ books[i] # None
    /\ books'[i] \in
           {[books[i] EXCEPT !.lines = inv.lines, !.total = inv.total,
                             !.credited = books[i].received] : inv \in Invoices}

Restate(i) ==
    /\ books[i] # None
    /\ books'[i] \in {[books[i] EXCEPT !.status = s] : s \in Statuses}

StatusAfter(status, credit, total) ==
    IF credit >= total THEN "paid" ELSE IF credit > 0 THEN "partial" ELSE status

\* A payment is received, credited, and decides the status.
Credit(account, p) ==
    LET credited == account.credited \cup {p}
    IN  [account EXCEPT !.received = @ \cup {p}, !.credited = credited,
                        !.status = StatusAfter(@, Worth(credited), account.total)]

Pay(i) ==
    /\ books[i] # None
    /\ books'[i] \in {Credit(books[i], p) : p \in Payments \ books[i].received}

Close(i) ==
    /\ books[i] # None
    /\ books'[i] = None

Call(i) ==
    /\ books' = [books EXCEPT ![i] = books'[i]]
    /\ Open(i) \/ Revise(i) \/ Restate(i) \/ Pay(i) \/ Close(i)
    /\ UNCHANGED answers

\* A reader is shown the account as it is: all of it at one moment.
Show(r, i) ==
    /\ books[i] # None
    /\ answers[r] = None
    /\ answers' = [answers EXCEPT ![r] = Statement(books[i])]
    /\ UNCHANGED books

\* What can become of an account in a step that cuts calls short.
Damaged(account) ==
    IF account = None THEN {None}
    ELSE {account, [account EXCEPT !.lines = {}]}
         \cup {[account EXCEPT !.received = @ \cup {p}] : p \in Payments}

\* Calls are cut short; a crash cuts short several at once.
BreakOff ==
    /\ \A i \in Id : books'[i] \in Damaged(books[i])
    /\ DOMAIN books' = Id
    /\ UNCHANGED answers

Next == BreakOff \/ \E i \in Id : Call(i) \/ \E r \in Id : Show(r, i)

Spec == Init /\ [][Next]_<<books, answers>>

=============================================================================
