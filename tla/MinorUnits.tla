------------------------------ MODULE MinorUnits ------------------------------
(***************************************************************************)
(* Sums of money.  The code keeps every amount as an integer number of     *)
(* minor currency units (amountMinor, amountDueMinor, amountPaidMinor) and *)
(* adds them up with reduce() and SQL aggregates.  Here a sum is the       *)
(* number of individual units in a finite collection of amounts, which     *)
(* needs no recursion and can be reasoned about with the cardinality       *)
(* theorems.                                                               *)
(***************************************************************************)
EXTENDS Integers, FiniteSets

CONSTANT MaxMinor   \* bound on a single amount (a 32-bit column in the code)

ASSUME MaxMinorAssumption == MaxMinor \in Nat \ {0}

Minor == 0 .. MaxMinor

(* The units of the amounts f[i] for i in S: unit n of i is <<i, n>>. *)
Units(S, f) == {u \in S \X (1 .. MaxMinor) : u[2] <= f[u[1]]}

(* The sum of f[i] over all i in S. *)
Total(S, f) == Cardinality(Units(S, f))

=============================================================================
