--------------------------------- MODULE Sums ---------------------------------
(***************************************************************************)
(* The sum of the first n values of a function on 1, 2, ...  A recursive   *)
(* function instead of a fold, for the laws of a fold speak about an       *)
(* operator and cannot be instantiated in a proof.                         *)
(***************************************************************************)
EXTENDS Integers

Total(f, n) ==
    LET upTo[k \in Nat] == IF k = 0 THEN 0 ELSE upTo[k - 1] + f[k]
    IN  upTo[n]
=============================================================================
