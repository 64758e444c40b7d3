---------------------------- MODULE GovernedWorker ---------------------------
(***************************************************************************)
(* The job queue as the code uses it, and the governed job processor of    *)
(* the worker: processGovernedAwsChangeJob, executeGovernedEc2Tagging and  *)
(* the functions that record how a run ended.                              *)
(*                                                                         *)
(* BullMQ delivers a job at least once: a run whose lock is not renewed    *)
(* within lockDuration is taken to be stalled, its job is delivered again  *)
(* once (maxStalledCount 1), and the first run may still be alive.         *)
(***************************************************************************)
EXTENDS GovernedPlan

At(r, pc) == run[r].pc = pc

Step(r, pc) == run' = [run EXCEPT ![r].pc = pc]

\* The processor returns (or throws: attempts is 1); the job is finished
\* unless it was taken away from this run.
Return(r) ==
    /\ run' = [run EXCEPT ![r] = NoRun]
    /\ jobs' = IF jobs[run[r].key].owner = r
               THEN [jobs EXCEPT ![run[r].key] = [@ EXCEPT !.state = "finished", !.owner = None]]
               ELSE jobs

\* What every step of a run leaves alone.
Elsewhere == UNCHANGED <<approvals, lapsed, decisions, req, rec>>

-----------------------------------------------------------------------------
(* The queue.                                                              *)

Deliver(r, k) ==
    /\ At(r, "idle") /\ jobs[k].state = "waiting"
    /\ jobs' = [jobs EXCEPT ![k].state = "active", ![k].owner = r]
    /\ run' = [run EXCEPT ![r] = [NoRun EXCEPT !.pc = "dup", !.plan = jobs[k].plan,
                                               !.key = k]]
    /\ Elsewhere /\ UNCHANGED <<plan, cloud, sent>>

\* Only a run that is dead or frozen lets its lock expire.
Stalled(k) ==
    \/ At(jobs[k].owner, "idle")
    \/ run[jobs[k].owner].key # k
    \/ "stall" \in Faults

Stall(k) ==
    /\ jobs[k].state = "active" /\ Stalled(k)
    /\ jobs' = [jobs EXCEPT ![k] =
                  IF @.stalls = 0
                  THEN [@ EXCEPT !.state = "waiting", !.stalls = 1, !.owner = None]
                  ELSE [@ EXCEPT !.state = "finished", !.owner = None]]
    /\ Elsewhere /\ UNCHANGED <<plan, run, cloud, sent>>

\* removeOnComplete and removeOnFail: the queue forgets an old job's id.
Forget(k) ==
    /\ "job_forgotten" \in Faults
    /\ jobs[k].state = "finished"
    /\ jobs' = [jobs EXCEPT ![k] = NoJob]
    /\ Elsewhere /\ UNCHANGED <<plan, run, cloud, sent>>

\* The worker process dies; its job stays active until the stall check.
RunCrash(r) ==
    /\ "worker_crash" \in Faults /\ ~At(r, "idle")
    /\ run' = [run EXCEPT ![r] = NoRun]
    /\ Elsewhere /\ UNCHANGED <<plan, jobs, cloud, sent>>

\* A query throws outside every try block: the job fails, nothing is written.
RunThrows(r) ==
    /\ "db_error" \in Faults
    /\ run[r].pc \in {"dup", "load", "claim", "simulated", "schedule", "fail", "block"}
    /\ Return(r)
    /\ Elsewhere /\ UNCHANGED <<plan, cloud, sent>>

-----------------------------------------------------------------------------
(* Before the claim: two reads and their verdicts.                         *)

Ended == {"SUCCEEDED", "FAILED", "BLOCKED", "EXECUTING", "ROLLBACK_AVAILABLE"}

\* existingCompleted: the row that holds the job's key, if it has moved on.
WDup(r) ==
    LET p == run[r].plan
        holds(q) == plan[q].idempotencyKey = run[r].key /\ plan[q].lifecycleState \in Ended
        replayed == /\ plan[p].lifecycleState # "ROLLBACK_AVAILABLE"
                    /\ plan[p].lifecycleState # "SUCCEEDED"
                    /\ plan[p].mutationOutcome \in {"ATTEMPTED", "CONFIRMED_FAILED",
                           "OUTCOME_UNKNOWN", "MANUAL_REVIEW_REQUIRED"} IN
    /\ At(r, "dup")
    /\ \/ (\A q \in Plans : ~holds(q)) /\ Step(r, "load") /\ UNCHANGED jobs
       \/ holds(p) /\ replayed /\ Step(r, "schedule") /\ UNCHANGED jobs
       \/ (\E q \in Plans : holds(q) /\ ~(q = p /\ replayed)) /\ Return(r)
    /\ Elsewhere /\ UNCHANGED <<plan, cloud, sent>>

\* Mutant: the payload hash is not compared.
BindingTrusted(p) ==
    LET bound == BoundApproval(p) IN
    /\ plan[p].approvedByRequestId # 0
    /\ bound.status = "APPROVED"
    /\ bound.approvedById \notin {None, bound.requestedById}
    /\ ~Expired(p, bound.expiry)
    /\ bound.fingerprint # None

\* verifyBoundApproval.
BindingVerified(p) ==
    LET bound == BoundApproval(p) IN
    /\ plan[p].approvedByRequestId # 0
    /\ bound.status = "APPROVED"
    /\ bound.approvedById \notin {None, bound.requestedById}
    /\ ~Expired(p, bound.expiry)
    /\ bound.hash = HashOf(p)
    /\ bound.fingerprint # None

\* Where the checks between the load and the claim send a run, in their order.
LoadVerdict(p, k) ==
    IF plan[p].lifecycleState \notin {"QUEUED", "APPROVED"} THEN "block"
    ELSE IF plan[p].mutationOutcome = "null" THEN "fail"
    ELSE IF plan[p].mutationOutcome # "NOT_ATTEMPTED" THEN "schedule"
    ELSE IF plan[p].approvalStatus # "APPROVED" \/ Expired(p, plan[p].content) THEN "fail"
    ELSE IF plan[p].idempotencyKey # k THEN "drop"
    ELSE IF plan[p].approvedById = CreatedBy[p] \/ ~BindingVerified(p) THEN "fail"
    ELSE "claim"

\* validateWorkerGate: the mode, the organization's and the account's switches,
\* the role, the region and the operation, all outside the model.
GateClosed == "gate_closed" \in Faults

WLoad(r) ==
    LET p == run[r].plan
        verdict == LoadVerdict(p, run[r].key) IN
    /\ At(r, "load")
    /\ \/ verdict = "drop" /\ Return(r)
       \/ verdict \in {"block", "fail", "schedule"} /\ Step(r, verdict) /\ UNCHANGED jobs
       \/ verdict = "claim" /\ GateClosed /\ Step(r, "block") /\ UNCHANGED jobs
       \/ /\ verdict = "claim"
          /\ run' = [run EXCEPT ![r] = [@ EXCEPT !.pc = "claim",
                         !.content = plan[p].content,
                         !.approver = BoundApproval(p).approvedById,
                         !.seen = BoundApproval(p).fingerprint]]
          /\ UNCHANGED jobs
    /\ Elsewhere /\ UNCHANGED <<plan, cloud, sent>>

\* ensureMutationReconciliationScheduled: a compare-and-set over the outcome and
\* status it has judged, so it is judged here, where it writes.
Scheduled(row) ==
    IF /\ row.mutationOutcome \in {"ATTEMPTED", "OUTCOME_UNKNOWN"}
       /\ row.reconciliationStatus \notin {"PENDING", "IN_PROGRESS", "FAILED_RETRYABLE"}
    THEN [row EXCEPT !.reconciliationStatus = "PENDING", !.readers = {}] ELSE row

WSchedule(r) ==
    /\ At(r, "schedule")
    /\ plan' = [plan EXCEPT ![run[r].plan] = Scheduled(@)]
    /\ Return(r)
    /\ Elsewhere /\ UNCHANGED <<cloud, sent>>

-----------------------------------------------------------------------------
(* The claim.                                                              *)

\* Mutant: the claim does not look at the lifecycle.
MayClaimTwice(p, k) ==
    /\ plan[p].idempotencyKey = k
    /\ plan[p].approvalStatus = "APPROVED"
    /\ plan[p].mutationOutcome = "NOT_ATTEMPTED"
    /\ ~Expired(p, plan[p].content)

MayClaim(p, k) ==
    /\ plan[p].idempotencyKey = k
    /\ plan[p].lifecycleState \in {"QUEUED", "APPROVED"}
    /\ plan[p].approvalStatus = "APPROVED"
    /\ plan[p].mutationOutcome = "NOT_ATTEMPTED"
    /\ ~Expired(p, plan[p].content)

ClaimedRow(p) == [plan[p] EXCEPT !.lifecycleState = "EXECUTING"]

WClaim(r) ==
    LET p == run[r].plan IN
    /\ At(r, "claim")
    /\ \/ /\ MayClaim(p, run[r].key)
          /\ SetPlan(p, ClaimedRow(p))
          /\ \E mode \in Modes :
                Step(r, IF mode = "simulation" THEN "simulated" ELSE "preflight")
          /\ UNCHANGED jobs
       \/ /\ ~MayClaim(p, run[r].key)
          /\ Return(r)
          /\ UNCHANGED plan
    /\ Elsewhere /\ UNCHANGED <<cloud, sent>>

\* Simulation mode: no cloud call; the row is written by its id.
SimulatedRunRow(p) ==
    [plan[p] EXCEPT !.lifecycleState = "SUCCEEDED",
                    !.mutationOutcome = "NOT_ATTEMPTED",
                    !.reconciliationStatus = "NOT_REQUIRED"]

WSimulated(r) ==
    /\ At(r, "simulated")
    /\ SetPlan(run[r].plan, SimulatedRunRow(run[r].plan))
    /\ Return(r)
    /\ Elsewhere /\ UNCHANGED <<cloud, sent>>

-----------------------------------------------------------------------------
(* executeGovernedEc2Tagging.                                              *)

\* Whether the content's requested tags are on the instance.
TagsPresent(p, content) == cloud[p].tags = content

\* The gates on the tags the instance has now: not production, not protected,
\* managed, of the account's environment.
PassesTagGates(p) == cloud[p].safety \in SafeStates

\* The allowlists, the executor's identity, the tags before: no shared state
\* is written, so one step.
WPreflight(r) ==
    LET p == run[r].plan
        safe == Fingerprint(p) = run[r].seen /\ PassesTagGates(p)
        refused == ~safe \/ GateClosed \/ "provider_error" \in Faults IN
    /\ At(r, "preflight")
    /\ \/ refused /\ Step(r, "fail")
       \/ /\ safe
          /\ Step(r, IF TagsPresent(p, run[r].content) THEN "verify_noop" ELSE "barrier")
    /\ Elsewhere /\ UNCHANGED <<plan, jobs, cloud, sent>>

\* The attempt is on record before the provider is called.
MayAttempt(p) ==
    /\ plan[p].lifecycleState = "EXECUTING"
    /\ plan[p].mutationOutcome = "NOT_ATTEMPTED"

\* Mutant: only the reconciliation is scheduled before the call.
UnrecordedRow(p) == [plan[p] EXCEPT !.reconciliationStatus = "PENDING"]

AttemptedRow(p) ==
    [plan[p] EXCEPT !.mutationOutcome = "ATTEMPTED", !.reconciliationStatus = "PENDING"]

WBarrier(r) ==
    LET p == run[r].plan IN
    /\ At(r, "barrier")
    /\ \/ /\ MayAttempt(p)
          /\ SetPlan(p, AttemptedRow(p))
          /\ Step(r, "send")
       \/ /\ MayAttempt(p) /\ "db_error" \in Faults   \* committed, yet it throws
          /\ SetPlan(p, AttemptedRow(p))
          /\ Step(r, "fail")
       \/ /\ ~MayAttempt(p) \/ "db_error" \in Faults
          /\ Step(r, "fail")
          /\ UNCHANGED plan
    /\ Elsewhere /\ UNCHANGED <<jobs, cloud, sent>>

\* Mutant: an unclear answer is retried.
RetryCall(answer) ==
    IF answer = "ok" THEN "record" ELSE IF answer = "unclear" THEN "send" ELSE "persist"

\* What an answer of CreateTags leads to: a definitive refusal is recorded as
\* such, anything unclear as unknown, and nothing is ever sent again.
AfterCall(answer) == IF answer = "ok" THEN "record" ELSE "persist"

\* Mutant: every error is taken for a refusal.
AnyErrorRefuses(answer) == IF answer = "ok" THEN "none" ELSE "CONFIRMED_FAILED"

VerdictOf(answer) ==
    CASE answer = "rejected" -> "CONFIRMED_FAILED"
      [] answer = "unclear"  -> "OUTCOME_UNKNOWN"
      [] answer = "ok"       -> "none"

\* EC2's side of the call: the try that was refused applied nothing, though an
\* earlier one whose answer was lost may have; the one that succeeded did, and of
\* any other error the worker cannot tell.
Answers == {"ok"} \cup IF "provider_error" \in Faults THEN {"rejected", "unclear"} ELSE {}

MayApply(answer) == CASE answer = "ok"       -> {"last"}
                      [] answer = "rejected" -> {"no", "earlier"}
                      [] answer = "unclear"  -> Applied

WSend(r) ==
    LET p == run[r].plan IN
    /\ At(r, "send")
    /\ \E answer \in Answers : \E applied \in MayApply(answer) :
          /\ sent' = [sent EXCEPT ![p] = Append(@,
                        [key |-> run[r].key, content |-> run[r].content,
                         approver |-> run[r].approver, seen |-> run[r].seen,
                         applied |-> applied])]
          /\ cloud' = IF applied # "no" THEN [cloud EXCEPT ![p].tags = run[r].content] ELSE cloud
          /\ run' = [run EXCEPT ![r] = [@ EXCEPT !.pc = AfterCall(answer),
                                                 !.verdict = VerdictOf(answer)]]
    /\ Elsewhere /\ UNCHANGED <<plan, jobs>>

\* The run goes on to record that it cannot tell.
Unclear(r) ==
    run' = [run EXCEPT ![r] = [@ EXCEPT !.pc = "persist", !.verdict = "OUTCOME_UNKNOWN"]]

\* The provider's request id is stored while the attempt is still open.
WRecord(r) ==
    LET p == run[r].plan IN
    /\ At(r, "record")
    /\ \/ /\ plan[p].mutationOutcome = "ATTEMPTED"
          /\ SetPlan(p, plan[p])
          /\ Step(r, "verify")
       \/ /\ "provider_error" \in Faults              \* no request id came back
          /\ Step(r, "verify")
          /\ UNCHANGED plan
       \/ /\ plan[p].mutationOutcome # "ATTEMPTED" \/ "db_error" \in Faults
          /\ Unclear(r)
          /\ UNCHANGED plan
    /\ Elsewhere /\ UNCHANGED <<jobs, cloud, sent>>

\* The tags after, for a call that was made and for one that was not needed.
WVerify(r) ==
    LET present == TagsPresent(run[r].plan, run[r].content)
        missed == ~present \/ "provider_error" \in Faults IN
    /\ \/ At(r, "verify") /\ present /\ Step(r, "confirm")
       \/ At(r, "verify") /\ missed /\ Unclear(r)
       \/ At(r, "verify_noop") /\ present /\ Step(r, "confirm_noop")
       \/ At(r, "verify_noop") /\ missed /\ Step(r, "fail")
    /\ Elsewhere /\ UNCHANGED <<plan, jobs, cloud, sent>>

\* Mutant: the run settles whatever has been attempted, settled or not.
MayConfirmAgain(p) == plan[p].mutationOutcome # "NOT_ATTEMPTED"

MayConfirm(p) == plan[p].mutationOutcome = "ATTEMPTED"

\* The tags the run has observed, which also go into the before and after
\* states, are left out: only a new simulation makes anything compare them.
ConfirmedRow(p) ==
    [plan[p] EXCEPT !.lifecycleState = "ROLLBACK_AVAILABLE",
                    !.mutationOutcome = "CONFIRMED_SUCCEEDED",
                    !.reconciliationStatus = "RESOLVED"]

WConfirm(r) ==
    LET p == run[r].plan IN
    /\ At(r, "confirm")
    /\ \/ MayConfirm(p) /\ SetPlan(p, ConfirmedRow(p)) /\ Return(r)
       \/ /\ MayConfirm(p) /\ "db_error" \in Faults   \* committed, yet it throws
          /\ SetPlan(p, ConfirmedRow(p))
          /\ Unclear(r) /\ UNCHANGED jobs
       \/ /\ ~MayConfirm(p) \/ "db_error" \in Faults
          /\ Unclear(r) /\ UNCHANGED <<plan, jobs>>
    /\ Elsewhere /\ UNCHANGED <<cloud, sent>>

NoopRow(p) ==
    [plan[p] EXCEPT !.lifecycleState = "ROLLBACK_AVAILABLE",
                    !.reconciliationStatus = "NOT_REQUIRED"]

WConfirmNoop(r) ==
    LET p == run[r].plan IN
    /\ At(r, "confirm_noop")
    /\ \/ /\ plan[p].mutationOutcome = "NOT_ATTEMPTED"
          /\ SetPlan(p, NoopRow(p))
          /\ Return(r)
       \/ /\ plan[p].mutationOutcome = "NOT_ATTEMPTED"
          /\ "db_error" \in Faults                    \* committed, yet it throws
          /\ SetPlan(p, NoopRow(p))
          /\ Step(r, "fail") /\ UNCHANGED jobs
       \/ /\ plan[p].mutationOutcome # "NOT_ATTEMPTED" \/ "db_error" \in Faults
          /\ Step(r, "fail") /\ UNCHANGED <<plan, jobs>>
    /\ Elsewhere /\ UNCHANGED <<cloud, sent>>

-----------------------------------------------------------------------------
(* How a run ends.                                                         *)

\* persistMutationOutcome: only over an open attempt; a failure to persist is
\* swallowed and leaves the attempt to the reconciler.
PersistedRow(p, verdict) ==
    [plan[p] EXCEPT !.lifecycleState = "FAILED",
                    !.mutationOutcome = verdict,
                    !.reconciliationStatus = IF verdict = "OUTCOME_UNKNOWN"
                                             THEN "PENDING" ELSE "RESOLVED",
                    !.failure = "other"]

WPersist(r) ==
    LET p == run[r].plan IN
    /\ At(r, "persist")
    /\ \/ MayConfirm(p) /\ SetPlan(p, PersistedRow(p, run[r].verdict))
       \/ /\ ~MayConfirm(p) \/ "db_error" \in Faults
          /\ UNCHANGED plan
    /\ Return(r)
    /\ Elsewhere /\ UNCHANGED <<cloud, sent>>

\* failGovernedPlan, blockGovernedPlan: by id, whatever the row has become.
FailedRow(p) == [plan[p] EXCEPT !.lifecycleState = "FAILED", !.failure = "other"]

WFail(r) ==
    /\ At(r, "fail")
    /\ SetPlan(run[r].plan, FailedRow(run[r].plan))
    /\ Return(r)
    /\ Elsewhere /\ UNCHANGED <<cloud, sent>>

WBlock(r) ==
    /\ At(r, "block")
    /\ SetPlan(run[r].plan, [plan[run[r].plan] EXCEPT !.lifecycleState = "BLOCKED"])
    /\ Return(r)
    /\ Elsewhere /\ UNCHANGED <<cloud, sent>>

WorkerStep(r) ==
    \/ WDup(r) \/ WLoad(r) \/ WSchedule(r) \/ WClaim(r) \/ WSimulated(r)
    \/ WPreflight(r) \/ WBarrier(r) \/ WSend(r) \/ WRecord(r) \/ WVerify(r)
    \/ WConfirm(r) \/ WConfirmNoop(r) \/ WPersist(r) \/ WFail(r) \/ WBlock(r)

WorkerNext ==
    \/ \E r \in Runs : WorkerStep(r) \/ RunCrash(r) \/ RunThrows(r)
    \/ \E r \in Runs, k \in Keys : Deliver(r, k)
    \/ \E k \in Keys : Stall(k) \/ Forget(k)
=============================================================================
