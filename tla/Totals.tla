------------------------------- MODULE Totals -------------------------------
(***************************************************************************)
(* The total of a column of natural numbers, such as the balances of all   *)
(* the accounts that hold one token.  A column is a function f from a      *)
(* finite set of rows to Nat.  Every row contributes f[x] numbered units,  *)
(* and the total is the number of units: no recursion is needed, TLC       *)
(* counts the units and the proofs reason about cardinalities.             *)
(***************************************************************************)
EXTENDS Integers, FiniteSets

UnitsOf(f) == UNION { {x} \X (1 .. f[x]) : x \in DOMAIN f }

Total(f) == Cardinality(UnitsOf(f))

=============================================================================
