--------------------------- MODULE MCBalanceAdmin ---------------------------
(***************************************************************************)
(* Instances of BalanceAdmin: annual and sick leave, a new employee who    *)
(* has a row of the year before and none of this year's.                   *)
(***************************************************************************)
EXTENDS BalanceAdmin, TLC

CONSTANTS annual, sick

Symmetry == Permutations(Workers)

MCTypesAtStart == annual :> 2 @@ sick :> 1

\* One of two days left of last year.
MCBalAtStart == [a \in Accounts |-> IF a = <<annual, 0>> THEN Corrected(2, 1) ELSE None]
=============================================================================
