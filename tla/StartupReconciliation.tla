------------------------ MODULE StartupReconciliation -----------------------
(***************************************************************************)
(* What a worker does to the runs an earlier process left behind, once,    *)
(* when it starts (runStartupReconciliation): read the active rows that    *)
(* are past their cutoff, then fail each of them with a compare-and-set on *)
(* the status and the time stamp that were read.                           *)
(*                                                                         *)
(* The two tables it goes through, monitoring runs and inventory scans,    *)
(* are functions from ids to rows with at least the fields                 *)
(*   status, stamp (a number standing for the column of the cutoff: it     *)
(*   changes when the column does), old (the column lies before the        *)
(*   cutoff), swept (the row was failed by a reconciliation).              *)
(* The limit of 100 rows a pass is above every instance checked.           *)
(***************************************************************************)

Sweepable == {"QUEUED", "RUNNING"}

\* Mutant: only the rows whose job is lost.
QueuedCandidates(rows) ==
    LET stale == {i \in DOMAIN rows : rows[i].status = "QUEUED" /\ rows[i].old}
    IN [i \in stale |-> [status |-> rows[i].status, stamp |-> rows[i].stamp]]

\* The rows a pass selects, with what it read of them.
Candidates(rows) ==
    LET stale == {i \in DOMAIN rows : rows[i].status \in Sweepable /\ rows[i].old}
    IN [i \in stale |-> [status |-> rows[i].status, stamp |-> rows[i].stamp]]

\* Mutant: the time stamp is forgotten.
StillThatStatus(row, read) == row.status = read.status

\* The compare-and-set of one candidate still applies.
StillThatRun(row, read) == row.status = read.status /\ row.stamp = read.stamp

\* One candidate of a pass: its row is failed or left alone.
Swept(row, read) ==
    IF StillThatRun(row, read)
    THEN [row EXCEPT !.status = "FAILED", !.swept = TRUE]
    ELSE row

\* What is left of a pass after candidate i.
Without(found, i) == [j \in DOMAIN found \ {i} |-> found[j]]
=============================================================================
