----------------------------- MODULE MCBatchJobs -----------------------------
(* Instances of BatchJobs for TLC *)
EXTENDS BatchJobs, TLC

\* Every job is submitted with a key of its own, or all with the same one.
OwnKeys == [j \in Jobs |-> j]
SameKey == [j \in Jobs |-> "key"]

\* Items, and the threads that serve calls, are interchangeable.
Symmetry == Permutations(Items) \union Permutations(Callers)
ItemSymmetry == Permutations(Items)
=============================================================================
