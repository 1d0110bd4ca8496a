------------------------- MODULE MCDeadLetterQueue -------------------------
(* Model values for the TLC runs of DeadLetterQueue. *)
EXTENDS DeadLetterQueue, TLC

\* Entries, ids and workers are interchangeable.
QueueSymmetry == Permutations(Entry) \cup Permutations(Worker) \cup Permutations(Id)

=============================================================================
