---------------------------- MODULE MCJobClients ----------------------------
(***************************************************************************)
(* Two instances of BatchJobs for TLC that one run explores side by side.  *)
(* The one of the configuration has a job that ends at its deadline, read  *)
(* by a consumer and followed by a webhook.  In the other one caller       *)
(* cancels and resumes a job again and again.                              *)
(***************************************************************************)
EXTENDS BatchJobs, TLC

CONSTANT Silent      \* a caller that does nothing in the other instance

VARIABLE case        \* the instance that runs

OwnKeys == [j \in Jobs |-> j]

Cancelled == INSTANCE BatchJobs WITH
    Outcomes <- {"ok"}, Hooked <- {}, Readers <- {}, MaxAttempts <- 1,
    PageLimit <- 1, Timed <- FALSE, MaxCalls <- 5,
    Ops <- {"submit", "cancel", "resume"}

Expires == case = "deadline" /\ Next /\ UNCHANGED case
Cancels == case = "cancel" /\ Cancelled!Next /\ UNCHANGED <<case, call[Silent]>>

ClientsInit == Init /\ case \in {"deadline", "cancel"}

ClientsSpec == ClientsInit /\ [][Expires \/ Cancels]_<<vars, case>>

ItemSymmetry == Permutations(Items)
=============================================================================
