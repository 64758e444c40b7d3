------------------------ MODULE MCSecurityMonitoring ------------------------
(***************************************************************************)
(* Instances of SecurityMonitoring for TLC.                                *)
(***************************************************************************)
EXTENDS SecurityMonitoring

CONSTANTS R1, R2, W1, W2

\* A setting bounds the product of what may go wrong: a behaviour meets the
\* faults of one of them.
MCSettings == {
    \* one run after the other while facts, users and evaluations interleave
    [faults |-> {"drift", "user"}, runs |-> {R1}, mortal |-> {}],
    [faults |-> {"high"}, runs |-> {R1}, mortal |-> {}],
    \* processes die, requests stop half-way, writes fail
    [faults |-> {"db_error", "enqueue_error"}, runs |-> {R1}, mortal |-> {W1}],
    [faults |-> {"api_crash"}, runs |-> {R1}, mortal |-> {W1}],
    \* one run by two workers, and two runs, at once
    [faults |-> {"slow_worker", "user"}, runs |-> {R1}, mortal |-> {}],
    [faults |-> {}, runs |-> {R1, R2}, mortal |-> {}]}

=============================================================================
