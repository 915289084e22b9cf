------------------------------ MODULE Collections ------------------------------
(***************************************************************************)
(* What the service does with collections wherever it does it: sorting     *)
(* (Python's sorted, SQL's ORDER BY) and multiplying.  Orders and summands *)
(* are values, relations and functions, so that facts about these          *)
(* operators can be stated once.                                           *)
(***************************************************************************)
EXTENDS Naturals, FiniteSets, Functions

\* The elements of a set in a strict total order: before each stand those that
\* are less.
InOrder(S, less) ==
    [i \in 1 .. Cardinality(S) |->
        CHOOSE x \in S : Cardinality({y \in S : <<y, x>> \in less}) = i - 1]

ProductFunctionOnSet(fun, indices) ==
    FoldFunctionOnSet(LAMBDA x, y : x * y, 1, fun, indices)
=============================================================================
