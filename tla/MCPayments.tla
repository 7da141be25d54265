------------------------------ MODULE MCPayments ------------------------------
(* Small instances of Payments for TLC. *)
EXTENDS PaymentsProps, TLC

Symmetric == Permutations(Events) \cup Permutations(Workers)
==============================================================================
