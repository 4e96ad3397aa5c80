------------------------------ MODULE MCBilling ------------------------------
(* Small instances of Billing for TLC.                                       *)
EXTENDS BillingLedger, TLC

\* Two bodies that differ in lines and total.
TwoCarts == {[lines |-> <<1, 1>>, extra |-> 0, named |-> TRUE],
             [lines |-> <<1>>, extra |-> 2, named |-> FALSE]}
OneCart  == {[lines |-> <<2>>, extra |-> 0, named |-> TRUE]}

AllOps == {"Create", "Get", "Update", "Delete", "Status", "Pay"}

Symmetry == Permutations(Req)

=============================================================================
