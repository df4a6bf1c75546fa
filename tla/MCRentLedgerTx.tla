--------------------------- MODULE MCRentLedgerTx ---------------------------
(* Small instances of RentLedgerTx. *)
EXTENDS RentLedgerTx

\* Both halves of a year, of which the second falls due between the days, or
\* the first only.
TwoLeases == {[start |-> 20240131, end |-> 20250130, rent |-> 3, halves |-> TRUE],
              [start |-> 20240131, end |-> 20240730, rent |-> 3, halves |-> TRUE]}

\* One instalment.
OneLease == {[start |-> 20240131, end |-> 20250130, rent |-> 3, halves |-> FALSE]}

WorkerSymmetry == Permutations(Worker)
=============================================================================
