---------------------------- MODULE MCAuthorJobs ----------------------------
(* Instances of AuthorJobs for TLC *)
EXTENDS AuthorJobs, TLC

CONSTANTS w1, w2

\* Two pages.  The first shows one work or another, a different one perhaps
\* when it is asked for again; the second repeats it.
TwoPages == <<{<<w1>>, <<w2>>}, {<<w2, w1>>}>>

WorkerSymmetry == Permutations(Workers)
=============================================================================
