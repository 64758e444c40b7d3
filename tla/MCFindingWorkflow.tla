-------------------------- MODULE MCFindingWorkflow -------------------------
(***************************************************************************)
(* Instances of FindingWorkflow for TLC.                                   *)
(***************************************************************************)
EXTENDS FindingWorkflow

CONSTANTS U1, U2, E1, E2, F1, F2

\* A setting bounds the product of what may go wrong: a behaviour meets the
\* faults of one of them.
MCSettings == {
    \* one reviewer with every action, one engine
    [faults |-> {"drift", "plan"}, actions |-> Actions, users |-> {U1}, engines |-> {E1},
     rows |-> {F1}],
    \* two reviewers of one finding
    [faults |-> {"drift"}, actions |-> Actions, users |-> {U1, U2}, engines |-> {E1},
     rows |-> {F1}],
    \* two engines, which may both create a row, and no reviewer
    [faults |-> {"drift", "evidence_error"}, actions |-> {}, users |-> {},
     engines |-> {E1, E2}, rows |-> {F1, F2}],
    \* a reviewer who undoes what one engine does, and a second row once the
    \* first is archived
    [faults |-> {"drift"}, actions |-> {"resolve", "archive", "reopen"}, users |-> {U1},
     engines |-> {E1}, rows |-> {F1, F2}],
    \* two engines and a reviewer on one row
    [faults |-> {"drift"}, actions |-> {"acknowledge", "accept-risk", "resolve", "reopen"},
     users |-> {U1}, engines |-> {E1, E2}, rows |-> {F1}]}
=============================================================================
