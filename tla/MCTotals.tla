------------------------------- MODULE MCTotals -------------------------------
(* A small instance of InvoiceTotals for TLC.  Values are in 1/100 cent,       *)
(* quantities and prices in 1/100.                                             *)
EXTENDS InvoiceTotals

\* 1.5 pieces at 0.33, half a cent above 0.49.
Odd == [qty |-> 150, price |-> 33, discount |-> 0, tax |-> 0]

\* One piece at 0.80, with a discount and a tax finer than a cent.
Fine == [qty |-> 100, price |-> 80, discount |-> 1050, tax |-> 650]

MCBodies ==
    {[lines |-> <<>>, adjustment |-> 0, excise |-> 0],
     [lines |-> <<Odd, Odd>>, adjustment |-> 0, excise |-> 0],
     [lines |-> <<Odd>>, adjustment |-> -30, excise |-> 30],
     [lines |-> <<Fine, Odd>>, adjustment |-> -50, excise |-> 150],
     [lines |-> <<[Fine EXCEPT !.discount = 0, !.tax = 0]>>, adjustment |-> 0, excise |-> 0]}

\* Nothing, half a cent, 0.008, 0.10, 0.70, 0.80, and 0.10 paid back.
MCAmounts == {0, 50, 80, 1000, 7000, 8000, -1000}

=============================================================================
