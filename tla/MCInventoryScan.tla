--------------------------- MODULE MCInventoryScan --------------------------
(***************************************************************************)
(* Instances of InventoryScan for TLC.                                     *)
(***************************************************************************)
EXTENDS InventoryScan

CONSTANTS Ra, Rb, X, S1, S2, W1, W2

MCHome == [x \in Resources |-> Ra]

\* A setting bounds the product of what may go wrong: a behaviour meets the
\* faults of one of them.
MCSettings == {
    \* one scan of two regions that may fail, while the cloud changes
    [faults |-> {"aws_error", "drift"}, scans |-> {S1}, scopes |-> {{Ra, Rb}}, mortal |-> {}],
    \* one scan, run by two workers at once, while the cloud changes
    [faults |-> {"slow_worker", "aws_error", "drift"}, scans |-> {S1}, scopes |-> {{Ra}}, mortal |-> {}],
    \* one scan, its worker dies and starts, attempts and passes fail
    [faults |-> {"db_error", "blocked"}, scans |-> {S1}, scopes |-> {{Ra, Rb}},
     mortal |-> {W1}],
    \* one scan whose request or worker dies, or whose job is not accepted
    [faults |-> {"enqueue_error", "api_crash"}, scans |-> {S1}, scopes |-> {{Ra}},
     mortal |-> {W1}],
    \* two requests at once
    [faults |-> {"enqueue_error"}, scans |-> {S1, S2}, scopes |-> {{Ra}}, mortal |-> {}],
    [faults |-> {"drift"}, scans |-> {S1, S2}, scopes |-> {{Ra}}, mortal |-> {}]}
=============================================================================
