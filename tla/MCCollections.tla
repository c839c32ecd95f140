--------------------------- MODULE MCCollections ---------------------------
(* Instances of Collections for TLC *)
EXTENDS Collections, TLC

CONSTANTS k1, k2, p, q

\* A platform with capacity for one collection and one with capacity for two.
Placed == k1 :> p @@ k2 :> q
Limits == p :> 1 @@ q :> 2

BatchSymmetry == Permutations(Batch)

R(coverage, data, final, transient, enrich) ==
    [coverage |-> coverage, data |-> data, final |-> final,
     transient |-> transient, enrich |-> enrich]

\* A full result, one without what was asked for, one to be enriched by the
\* browser, an unsupported work, a lost connection.
SomeResults ==
    {R("complete", TRUE, FALSE, FALSE, FALSE), R("partial", FALSE, FALSE, FALSE, FALSE),
     R("partial", TRUE, FALSE, FALSE, TRUE), R("unsupported", FALSE, TRUE, FALSE, FALSE),
     R("failed", FALSE, FALSE, TRUE, FALSE)}
=============================================================================
