------------------------ MODULE MutationReconciliation -----------------------
(***************************************************************************)
(* The read-only reconciler of open mutation outcomes: a batch selects     *)
(* stale rows, claims each, looks at the instance and settles the outcome. *)
(*                                                                         *)
(* Clocks are left out.  "Stale" (15 minutes without progress) and "due"   *)
(* (a retry's nextReconciliationAt) may hold at any time, except that an   *)
(* attempt is not stale while its own run is still at work, unless         *)
(* "slow_worker" is among the faults; and a claim another reconciler       *)
(* holds is not stale unless "slow_reconciler" is.                         *)
(***************************************************************************)
EXTENDS GovernedPlan

RecAt(c, pc) == rec[c].pc = pc

RecStep(c, r) == rec' = [rec EXCEPT ![c] = r]

AttemptStale(p) ==
    \/ "slow_worker" \in Faults
    \/ \A r \in Runs : run[r].pc = "idle" \/ run[r].plan # p

ClaimStale(p) ==
    \/ "slow_reconciler" \in Faults
    \/ \A c \in Reconcilers : RecAt(c, "idle") \/ rec[c].plan # p

Unclaimed == {"null", "PENDING", "FAILED_RETRYABLE"}

Open(p) == plan[p].mutationOutcome \in {"ATTEMPTED", "OUTCOME_UNKNOWN"}

\* Mutant: no limit on the attempts.
SelectableAlways(p) ==
    \/ /\ Open(p)
       /\ \/ AttemptStale(p) /\ plan[p].reconciliationStatus \in Unclaimed
          \/ ClaimStale(p) /\ plan[p].reconciliationStatus = "IN_PROGRESS"

\* The where clause of the batch.
Selectable(p) ==
    /\ \/ /\ Open(p)
          /\ \/ AttemptStale(p) /\ plan[p].reconciliationStatus \in Unclaimed
             \/ ClaimStale(p) /\ plan[p].reconciliationStatus = "IN_PROGRESS"
       \/ /\ plan[p].lifecycleState = "EXECUTING"
          /\ AttemptStale(p)
          /\ plan[p].mutationOutcome = "NOT_ATTEMPTED"
          /\ plan[p].reconciliationStatus \in Unclaimed
    /\ plan[p].attemptCount < MaxAttempts

\* The approval half of validateReconciliationTarget.
BindingValid(p) ==
    plan[p].approvedByRequestId # 0 /\ BoundApproval(p).status = "APPROVED"

RecPick(c, p) ==
    /\ RecAt(c, "idle") /\ Selectable(p)
    /\ RecStep(c, [NoReconcilerRun EXCEPT !.pc = "claim", !.plan = p,
                      !.outcome = plan[p].mutationOutcome,
                      !.status = plan[p].reconciliationStatus,
                      !.attempts = plan[p].attemptCount,
                      !.content = plan[p].content,
                      !.bound = BindingValid(p)])
    /\ UNCHANGED <<plan, approvals, lapsed, decisions, jobs, req, run, cloud, sent>>

\* The claim's where clause.  lastReconciliationAt, which it compares for a
\* stale claim, changes only together with attemptCount or the status.
MayReconcile(c) ==
    LET row == plan[rec[c].plan] IN
    /\ row.mutationOutcome = rec[c].outcome
    /\ row.attemptCount = rec[c].attempts
    /\ row.reconciliationStatus = rec[c].status

ReconcilingRow(p) ==
    [plan[p] EXCEPT !.reconciliationStatus = "IN_PROGRESS", !.attemptCount = @ + 1]

RecClaim(c) ==
    /\ RecAt(c, "claim")
    /\ \/ /\ MayReconcile(c)
          /\ SetPlan(rec[c].plan, ReconcilingRow(rec[c].plan))
          /\ RecStep(c, [rec[c] EXCEPT !.pc = "observe"])
       \/ /\ ~MayReconcile(c)
          /\ RecStep(c, NoReconcilerRun)
          /\ UNCHANGED plan
    /\ UNCHANGED <<approvals, lapsed, decisions, jobs, req, run, cloud, sent>>

\* Mutant: off by one, the last attempt is taken for a retryable one.
PastLastAttempt(c) == rec[c].attempts + 1 > MaxAttempts

\* The attempt just claimed is the last one allowed.
LastAttempt(c) == rec[c].attempts + 1 >= MaxAttempts

\* What a look at the instance (which fails when unseen) settles.
Verdict(c, unseen) ==
    IF rec[c].outcome = "NOT_ATTEMPTED" THEN "NOT_ATTEMPTED"
    ELSE IF ~rec[c].bound THEN "MANUAL_REVIEW_REQUIRED"
    ELSE IF unseen /\ ~LastAttempt(c) THEN "RETRY"
    ELSE IF ~unseen /\ cloud[rec[c].plan].tags = rec[c].content THEN "CONFIRMED_SUCCEEDED"
    ELSE "MANUAL_REVIEW_REQUIRED"

RecObserve(c) ==
    /\ RecAt(c, "observe")
    /\ \E unseen \in {FALSE} \cup {"provider_error" \in Faults} :
          RecStep(c, [rec[c] EXCEPT !.pc = "persist", !.verdict = Verdict(c, unseen)])
    /\ UNCHANGED <<plan, approvals, lapsed, decisions, jobs, req, run, cloud, sent>>

\* Every write of a claimed reconciliation: the claim must still be this one.
MayResolve(c) ==
    LET row == plan[rec[c].plan] IN
    /\ row.mutationOutcome = rec[c].outcome
    /\ row.reconciliationStatus = "IN_PROGRESS"
    /\ row.attemptCount = rec[c].attempts + 1

\* persistResolution, persistManualReview and the record of a failed read.
ResolvedRow(p, verdict) ==
    CASE verdict = "RETRY" ->
           [plan[p] EXCEPT !.reconciliationStatus = "FAILED_RETRYABLE", !.failure = "other"]
      [] verdict = "MANUAL_REVIEW_REQUIRED" ->
           [plan[p] EXCEPT !.lifecycleState = "FAILED", !.failure = "other",
                           !.mutationOutcome = "MANUAL_REVIEW_REQUIRED",
                           !.reconciliationStatus = "MANUAL_REVIEW_REQUIRED"]
      [] verdict = "CONFIRMED_SUCCEEDED" ->
           [plan[p] EXCEPT !.lifecycleState = "ROLLBACK_AVAILABLE",
                           !.mutationOutcome = "CONFIRMED_SUCCEEDED",
                           !.reconciliationStatus = "RESOLVED"]
      [] verdict = "NOT_ATTEMPTED" ->
           [plan[p] EXCEPT !.lifecycleState = "FAILED", !.failure = "other",
                           !.reconciliationStatus = "RESOLVED"]

RecPersist(c) ==
    LET p == rec[c].plan IN
    /\ RecAt(c, "persist")
    /\ IF MayResolve(c) THEN SetPlan(p, ResolvedRow(p, rec[c].verdict)) ELSE UNCHANGED plan
    /\ RecStep(c, NoReconcilerRun)
    /\ UNCHANGED <<approvals, lapsed, decisions, jobs, req, run, cloud, sent>>

\* The worker process dies, or a query throws: the claim stays IN_PROGRESS.
RecCrash(c) ==
    /\ "reconciler_crash" \in Faults /\ ~RecAt(c, "idle")
    /\ RecStep(c, NoReconcilerRun)
    /\ UNCHANGED <<plan, approvals, lapsed, decisions, jobs, req, run, cloud, sent>>

ReconcilerStep(c) == RecClaim(c) \/ RecObserve(c) \/ RecPersist(c)

ReconciliationNext ==
    \/ \E c \in Reconcilers, p \in Plans : RecPick(c, p)
    \/ \E c \in Reconcilers : ReconcilerStep(c) \/ RecCrash(c)
=============================================================================
