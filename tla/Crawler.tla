------------------------------- MODULE Crawler -------------------------------
(***************************************************************************)
(* What EngagementCrawler (app/crawlers/engagement.py) decides: whether a  *)
(* protocol result is tried again, whether the browser takes over, which   *)
(* of the two results counts, and what a result does to the circuit of its *)
(* platform.                                                               *)
(***************************************************************************)
EXTENDS Naturals

CONSTANTS
    Results,               \* the results that collectors return
    Threshold,             \* circuit_failure_threshold, 0: no circuit
    MaxAttempts,           \* protocol attempts
    MaxBrowserAttempts,
    RecoveringPlatforms,   \* weibo and toutiao, through a required proxy
    BrowserPlatforms,      \* those the generic browser can read
    TimedPlatforms         \* toutiao and kuaishou: their browser has a deadline

\* data: the fields that were asked for are there.  final: retryable is False.
\* transient: a transport error (or a risk limit of toutiao).  enrich:
\* needs_browser_stats.
Coverages == {"complete", "partial", "unsupported", "blocked", "failed"}
ResultShapes == [coverage : Coverages, data : BOOLEAN, final : BOOLEAN,
                 transient : BOOLEAN, enrich : BOOLEAN]

ASSUME CrawlerAssumption ==
    /\ Results \subseteq ResultShapes
    /\ Threshold \in Nat
    /\ MaxAttempts \in Nat \ {0} /\ MaxBrowserAttempts \in Nat \ {0}

Plain(coverage, final) ==
    [coverage |-> coverage, data |-> FALSE, final |-> final,
     transient |-> FALSE, enrich |-> FALSE]

Succeeded(r) == r.coverage \in {"complete", "partial"}

-----------------------------------------------------------------------------
(* The protocol and the browser *)

\* _should_retry_protocol
ShouldRetry(r) ==
    /\ ~r.final
    /\ \/ r.coverage \in {"blocked", "failed"}
       \/ r.coverage = "partial" /\ ~r.data

\* Attempt n may be followed by another one: up to MaxAttempts any failure is
\* tried again, then two more exits for a transient failure.
TriesAgain(p, r, n) ==
    /\ ShouldRetry(r)
    /\ \/ n < MaxAttempts
       \/ n < MaxAttempts + 2 /\ p \in RecoveringPlatforms /\ r.transient

\* ... unless the 25 seconds of recovery are over.
Recovering(n) == n >= MaxAttempts

\* _should_use_browser_fallback
ShouldUseBrowser(p, r) ==
    /\ p \in BrowserPlatforms /\ ~r.final
    /\ r.coverage \in {"unsupported", "blocked", "failed"} \/ r.enrich \/ ~r.data

\* _run_browser_fallback: this result ends the browser's attempts, attempt n.
BrowserSettles(r, n, enrich) ==
    r.final \/ (Succeeded(r) /\ r.data) \/ enrich \/ n = MaxBrowserAttempts

\* An enrichment adds to the protocol's result, any other browser result
\* replaces it.
Merged(protocol, browser) == IF protocol.enrich THEN protocol ELSE browser

-----------------------------------------------------------------------------
(* The circuit of a platform: how many failures it has counted, whether it *)
(* is open, and who sleeps for the opening in force.                       *)

ClosedCircuit == [fails |-> 0, opening |-> "closed", sleepers |-> {}]

InForce(c) == c.opening = "open"

\* Whoever finds the circuit open sleeps until the deadline of that opening.
Asleep(c, a) == [c EXCEPT !.sleepers = @ \union {a}]
Gone(c, a) == [c EXCEPT !.sleepers = @ \ {a}]

\* An opening that is found past its deadline is removed.
Passed(c) == [c EXCEPT !.opening = "closed", !.sleepers = {}]

\* Mutant: a sleeper removes whatever opening is in force by now.
WokenAny(c, a) == Passed(c)

\* A sleeper removes the opening it has slept for, the first of them; one that
\* slept for an older opening goes on and leaves this one alone.
Woken(c, a) == IF a \in c.sleepers THEN Passed(c) ELSE c

\* Mutant: the circuit opens one failure late.
RecordedLate(c, r) ==
    IF Threshold = 0 \/ r.coverage = "unsupported" THEN c
    ELSE IF Succeeded(r) THEN ClosedCircuit
    ELSE IF c.fails < Threshold THEN [c EXCEPT !.fails = @ + 1]
    ELSE [fails |-> 0, opening |-> "open", sleepers |-> {}]

\* _record_circuit_outcome
Recorded(c, r) ==
    IF Threshold = 0 \/ r.coverage = "unsupported" THEN c
    ELSE IF Succeeded(r) THEN ClosedCircuit
    ELSE IF c.fails + 1 < Threshold THEN [c EXCEPT !.fails = @ + 1]
    ELSE [fails |-> 0, opening |-> "open", sleepers |-> {}]
=============================================================================
