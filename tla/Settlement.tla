----------------------------- MODULE Settlement -----------------------------
(***************************************************************************)
(* What a stage of the pipeline that hands items on promises: every item   *)
(* ends up handed on or given up, once and for all.  An item may be given  *)
(* up only for a reason the stage can name, which the modules that refine  *)
(* this one state separately.                                              *)
(***************************************************************************)
CONSTANT Item

VARIABLE fate       \* what became of each item

Fate == {"pending", "done", "given_up"}

Init == fate = [i \in Item |-> "pending"]

\* Some items, often a whole batch, are settled.
Settle ==
    /\ fate' \in [Item -> Fate]
    /\ \A i \in Item : fate[i] # "pending" => fate'[i] = fate[i]

Next == Settle

Settled(i) == fate[i] # "pending"

Spec == Init /\ [][Next]_fate /\ \A i \in Item : <>Settled(i)

=============================================================================
