------------------------------ MODULE MCExample ------------------------------
(* Small instances of ExampleService for TLC.                                *)
EXTENDS ExampleService, TLC

Symmetry == Permutations(Req) \cup Permutations(Names)

=============================================================================
