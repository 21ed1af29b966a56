------------------------------- MODULE MCLedger -------------------------------
(* Model-checking instance of Ledger: runs and units are interchangeable. *)
EXTENDS Ledger, TLC

Symmetry == Permutations(Runs) \cup Permutations(Units)
===============================================================================
