----------------------------- MODULE GovernedApi -----------------------------
(***************************************************************************)
(* The governed half of the API process: simulate, request approval,       *)
(* capture the resource state, decide, queue the execution.                *)
(*                                                                         *)
(* A handler reads a row, awaits, and writes; between two awaits any other *)
(* request, job run or reconciliation may act.  Each action is the code    *)
(* between two awaits that touch shared state; a transaction is one        *)
(* action.  Handlers that return without writing are no step at all, so a  *)
(* read whose checks end the request is left out unless it must free the   *)
(* handler.                                                                *)
(***************************************************************************)
EXTENDS GovernedPlan

Idle(h) == req[h].step = "idle"

Continue(h, request) == req' = [req EXCEPT ![h] = request]

Finish(h) == Continue(h, NoRequest)

\* The request goes on to overwrite the plan with BLOCKED (blockedMutation).
Refuse(h, p) == Continue(h, [NoRequest EXCEPT !.step = "block", !.plan = p])

\* What the request works from: the copy of plan p it has just read.
Copied(step, p, u) == [NoRequest EXCEPT !.step = step, !.plan = p,
                                        !.actor = u, !.hash = HashOf(p)]

-----------------------------------------------------------------------------
(* simulateGovernedAwsChange: no lifecycle guard, and the write does not   *)
(* depend on the copy it read; only the unique key can refuse it.          *)

\* Mutant: only the first simulation opens an approval window, so a later one
\* of the same payload yields the same content.
SameWindowRow(p, k, blocked) ==
    [plan[p] EXCEPT !.lifecycleState = IF blocked THEN "BLOCKED" ELSE "SIMULATED",
                    !.approvalStatus = "DRAFT",
                    !.idempotencyKey = k,
                    !.content = 1,
                    !.mutationOutcome = "NOT_ATTEMPTED",
                    !.reconciliationStatus = "NOT_REQUIRED",
                    !.attemptCount = 0]

SimulatedRow(p, k, blocked) ==
    [plan[p] EXCEPT !.lifecycleState = IF blocked THEN "BLOCKED" ELSE "SIMULATED",
                    !.approvalStatus = "DRAFT",
                    !.idempotencyKey = k,
                    !.content = @ + 1,
                    !.mutationOutcome = "NOT_ATTEMPTED",
                    !.reconciliationStatus = "NOT_REQUIRED",
                    !.attemptCount = 0]

Simulate(p, k) ==
    /\ "simulate" \in ApiOps
    /\ plan[p].content < MaxSim
    /\ KeyFree(p, k)
    /\ \E blocked \in {FALSE} \cup {"gate_closed" \in Faults} :
          SetPlan(p, SimulatedRow(p, k, blocked))
    /\ UNCHANGED <<approvals, lapsed, decisions, jobs, req, run, rec, cloud, sent>>

-----------------------------------------------------------------------------
(* requestGovernedAwsChangeApproval: the transaction that follows the read *)
(* updates the plan by its id alone.                                       *)

RequestRead(h, p, u) ==
    /\ "request" \in ApiOps /\ Idle(h) /\ FreeApprovals(p) # {}
    /\ \/ /\ plan[p].lifecycleState = "SIMULATED"
          /\ Continue(h, Copied("request", p, u))
       \/ /\ \/ plan[p].lifecycleState # "SIMULATED" /\ "untimely_request" \in ApiOps
             \/ "wrong_token" \in Faults
          /\ Refuse(h, p)
    /\ UNCHANGED <<plan, approvals, lapsed, decisions, jobs, run, rec, cloud, sent>>

RequestedRow(p) ==
    [plan[p] EXCEPT !.lifecycleState = "PENDING_APPROVAL",
                    !.approvalStatus = "PENDING_APPROVAL"]

RequestCommit(h) ==
    LET p == req[h].plan IN
    /\ req[h].step = "request"
    /\ \E a \in FreeApprovals(p) :
          approvals' = [approvals EXCEPT ![p][a] =
              [NoApproval EXCEPT !.status = "PENDING",
                                 !.requestedById = req[h].actor,
                                 !.hash = req[h].hash,
                                 !.expiry = req[h].hash[1]]]
    /\ SetPlan(p, RequestedRow(p))
    /\ Finish(h)
    /\ UNCHANGED <<lapsed, decisions, jobs, run, rec, cloud, sent>>

-----------------------------------------------------------------------------
(* captureGovernedEc2ResourceState: expiry is judged by the clock read at  *)
(* the start, the fingerprint is written once and only to a pending row.   *)

CaptureRead(h, p) ==
    /\ "capture" \in ApiOps /\ Idle(h)
    /\ plan[p].lifecycleState = "PENDING_APPROVAL"
    /\ \E a \in PendingOf(p) :
          /\ PendingOf(p) = {a}
          /\ ~Expired(p, approvals[p][a].expiry)
          /\ Continue(h, [NoRequest EXCEPT !.step = "observe", !.plan = p, !.target = a])
    /\ UNCHANGED <<plan, approvals, lapsed, decisions, jobs, run, rec, cloud, sent>>

CaptureObserve(h) ==
    /\ req[h].step = "observe"
    /\ \/ Continue(h, [req[h] EXCEPT !.step = "capture",
                                     !.seen = Fingerprint(req[h].plan)])
       \/ "capture_fails" \in Faults /\ Finish(h)
    /\ UNCHANGED <<plan, approvals, lapsed, decisions, jobs, run, rec, cloud, sent>>

\* Mutant: a later capture replaces the first.
MayRecapture(approval) == approval.status # "ABSENT"

MayCapture(approval) == approval.status = "PENDING" /\ approval.fingerprint = None

CaptureCommit(h) ==
    LET p == req[h].plan
        a == req[h].target IN
    /\ req[h].step = "capture"
    /\ approvals' = IF MayCapture(approvals[p][a])
                    THEN [approvals EXCEPT ![p][a].fingerprint = req[h].seen]
                    ELSE approvals
    /\ Finish(h)
    /\ UNCHANGED <<plan, lapsed, decisions, jobs, run, rec, cloud, sent>>

-----------------------------------------------------------------------------
(* decideGovernedAwsChange: the plan, then the pending rows, then one      *)
(* transaction over both.                                                  *)

DecideRead(h, p, u, verdict) ==
    /\ "decide" \in ApiOps /\ Idle(h)
    /\ plan[p].lifecycleState = "PENDING_APPROVAL"
    /\ \/ /\ u # CreatedBy[p]
          /\ Continue(h, [Copied("select", p, u) EXCEPT !.verdict = verdict])
       \/ /\ u = CreatedBy[p] \/ "wrong_token" \in Faults
          /\ Refuse(h, p)
    /\ UNCHANGED <<plan, approvals, lapsed, decisions, jobs, run, rec, cloud, sent>>

\* validateAuthoritativeApprovalCapture: what a capture writes is consistent.
Captured(approval) == approval.fingerprint # None

\* Which row the decision is about, or why there is none.
DecideSelect(h) ==
    LET p == req[h].plan
        pending == PendingOf(p)
        stale(a) == Expired(p, approvals[p][a].expiry)
        uncaptured(a) == req[h].verdict = "APPROVED" /\ ~Captured(approvals[p][a]) IN
    /\ req[h].step = "select"
    /\ \/ pending = {} /\ Finish(h)
       \/ Cardinality(pending) > 1 /\ Refuse(h, p)
       \/ \E a \in pending :
             /\ pending = {a}
             /\ \/ stale(a) /\ Refuse(h, p)
                \/ ~stale(a) /\ uncaptured(a) /\ Finish(h)
                \/ /\ ~stale(a) /\ ~uncaptured(a)
                   /\ Continue(h, [req[h] EXCEPT !.step = "decide", !.target = a])
    /\ UNCHANGED <<plan, approvals, lapsed, decisions, jobs, run, rec, cloud, sent>>

\* The where clauses of the transaction's two updates.
MayDecide(p, a) ==
    /\ approvals[p][a].status = "PENDING"
    /\ plan[p].lifecycleState = "PENDING_APPROVAL"
    /\ plan[p].approvedByRequestId = 0

DecidedApproval(h, a) ==
    [a EXCEPT !.status = req[h].verdict,
              !.approvedById = req[h].actor,
              !.hash = req[h].hash]

DecidedRow(p, h) ==
    IF req[h].verdict = "APPROVED"
    THEN [plan[p] EXCEPT !.lifecycleState = "APPROVED",
                         !.approvalStatus = "APPROVED",
                         !.approvedById = req[h].actor,
                         !.approvedByRequestId = req[h].target]
    ELSE [plan[p] EXCEPT !.lifecycleState = "BLOCKED",
                         !.approvalStatus = "REJECTED",
                         !.approvedById = None,
                         !.approvedByRequestId = 0]

\* The approvals (not the rejections) the audit trail holds.
Recorded(h, source) ==
    IF req[h].verdict = "APPROVED"
    THEN {[by |-> req[h].actor, hash |-> req[h].hash, source |-> source]} ELSE {}

DecideCommit(h) ==
    LET p == req[h].plan
        a == req[h].target IN
    /\ req[h].step = "decide"
    /\ IF MayDecide(p, a)
       THEN /\ approvals' = [approvals EXCEPT ![p][a] = DecidedApproval(h, @)]
            /\ SetPlan(p, DecidedRow(p, h))
            /\ decisions' = [decisions EXCEPT ![p] = @ \cup Recorded(h, "governed")]
       ELSE UNCHANGED <<approvals, plan, decisions>>
    /\ Finish(h)
    /\ UNCHANGED <<lapsed, jobs, run, rec, cloud, sent>>

-----------------------------------------------------------------------------
(* blockedMutation: the plan is BLOCKED by its id, whatever it has become  *)
(* since the copy that was judged.                                         *)

BlockedRow(p) == [plan[p] EXCEPT !.lifecycleState = "BLOCKED"]

BlockCommit(h) ==
    /\ req[h].step = "block"
    /\ SetPlan(req[h].plan, BlockedRow(req[h].plan))
    /\ Finish(h)
    /\ UNCHANGED <<approvals, lapsed, decisions, jobs, run, rec, cloud, sent>>

-----------------------------------------------------------------------------
(* queueGovernedAwsChangeExecution: validate a copy of the row, look the   *)
(* key up, claim the plan against the copy's updatedAt, hand the job to    *)
(* the queue, and compensate when the queue refuses it.                    *)

ReadyToQueue(p) ==
    LET bound == BoundApproval(p) IN
    /\ plan[p].approvalStatus = "APPROVED"
    /\ plan[p].mutationOutcome = "NOT_ATTEMPTED"
    /\ plan[p].approvedByRequestId # 0
    /\ bound.status = "APPROVED"
    /\ ~Expired(p, bound.expiry)
    /\ bound.approvedById \notin {None, bound.requestedById}
    /\ bound.fingerprint # None
    /\ ~Expired(p, plan[p].content)

\* Reading marks the copy current until somebody writes the row.
ExecuteRead(h, p, k) ==
    /\ "execute" \in ApiOps /\ Idle(h)
    /\ plan[p].lifecycleState = "APPROVED"
    /\ \/ /\ ReadyToQueue(p)
          /\ Continue(h, [NoRequest EXCEPT !.step = "dup", !.plan = p, !.key = k,
                              !.target = plan[p].approvedByRequestId])
          /\ plan' = [plan EXCEPT ![p].readers = @ \cup {h}]
       \/ /\ ~ReadyToQueue(p) \/ Faults \cap {"wrong_token", "gate_closed"} # {}
          /\ Refuse(h, p)
          /\ UNCHANGED plan
    /\ UNCHANGED <<approvals, lapsed, decisions, jobs, run, rec, cloud, sent>>

\* completedDuplicate: another plan already spends the key.
ExecuteDup(h) ==
    LET p == req[h].plan
        spent == \E q \in Plans \ {p} :
                    /\ plan[q].idempotencyKey = req[h].key
                    /\ plan[q].lifecycleState \in {"QUEUED", "EXECUTING", "SUCCEEDED"} IN
    /\ req[h].step = "dup"
    /\ IF spent THEN Refuse(h, p)
                ELSE Continue(h, [req[h] EXCEPT !.step = "claim"])
    /\ UNCHANGED <<plan, approvals, lapsed, decisions, jobs, run, rec, cloud, sent>>

MayQueue(p, h) ==
    /\ plan[p].lifecycleState = "APPROVED"
    /\ plan[p].approvalStatus = "APPROVED"
    /\ plan[p].mutationOutcome = "NOT_ATTEMPTED"
    /\ plan[p].approvedByRequestId = req[h].target
    /\ h \in plan[p].readers

QueuedRow(p, k) == [plan[p] EXCEPT !.lifecycleState = "QUEUED", !.idempotencyKey = k]

\* The claim writes updatedAt itself: the claimer holds the new value.  A key
\* another plan holds makes the update throw (the unique index).
ExecuteClaim(h) ==
    LET p == req[h].plan
        k == req[h].key IN
    /\ req[h].step = "claim"
    /\ IF MayQueue(p, h) /\ KeyFree(p, k)
       THEN /\ plan' = [plan EXCEPT ![p] = [QueuedRow(p, k) EXCEPT !.readers = {h}]]
            /\ Continue(h, [req[h] EXCEPT !.step = "add"])
       ELSE /\ UNCHANGED plan
            /\ Finish(h)
    /\ UNCHANGED <<approvals, lapsed, decisions, jobs, run, rec, cloud, sent>>

\* BullMQ ignores an add whose job id it still holds.
Added(k, p) ==
    IF jobs[k].state = "absent"
    THEN [jobs EXCEPT ![k] = [NoJob EXCEPT !.state = "waiting", !.plan = p]] ELSE jobs

ExecuteAdd(h) ==
    /\ req[h].step = "add"
    /\ jobs' = Added(req[h].key, req[h].plan)
    /\ Finish(h)
    /\ UNCHANGED <<plan, approvals, lapsed, decisions, run, rec, cloud, sent>>

\* The add throws; the queue may have accepted the job all the same.
ExecuteAddFails(h) ==
    /\ req[h].step = "add" /\ "enqueue_fails" \in Faults
    /\ jobs' \in {jobs, Added(req[h].key, req[h].plan)}
    /\ Continue(h, [req[h] EXCEPT !.step = "unqueue"])
    /\ UNCHANGED <<plan, approvals, lapsed, decisions, run, rec, cloud, sent>>

\* Mutant: the compensation goes by the plan's id alone.
MayUnqueueAny(p, h) == h \in Handlers /\ p \in Plans

\* Mutant: it goes by the updatedAt the request had read before its claim.
MayUnqueueStale(p, h) == plan[p].lifecycleState = "QUEUED" /\ h \notin plan[p].readers

\* queueEnqueueFailed: only over the claim this request made.
MayUnqueue(p, h) == plan[p].lifecycleState = "QUEUED" /\ h \in plan[p].readers

EnqueueFailedRow(p, k) ==
    [plan[p] EXCEPT !.lifecycleState = "FAILED",
                    !.idempotencyKey = k,
                    !.failure = "QUEUE_ENQUEUE_FAILED",
                    !.mutationOutcome = "NOT_ATTEMPTED"]

ExecuteUnqueue(h) ==
    LET p == req[h].plan IN
    /\ req[h].step = "unqueue"
    /\ IF MayUnqueue(p, h) THEN SetPlan(p, EnqueueFailedRow(p, req[h].key))
                           ELSE UNCHANGED plan
    /\ Finish(h)
    /\ UNCHANGED <<approvals, lapsed, decisions, jobs, run, rec, cloud, sent>>

-----------------------------------------------------------------------------
(* The API process dies, or a query throws, between two awaits.            *)

RequestDropped(h) ==
    /\ "api_crash" \in Faults /\ ~Idle(h)
    /\ Finish(h)
    /\ UNCHANGED <<plan, approvals, lapsed, decisions, jobs, run, rec, cloud, sent>>

GovernedCall(h) ==
    \/ \E p \in Plans, u \in Users : \/ RequestRead(h, p, u)
                                     \/ \E v \in {"APPROVED", "REJECTED"} : DecideRead(h, p, u, v)
    \/ \E p \in Plans : CaptureRead(h, p) \/ \E k \in Keys : ExecuteRead(h, p, k)

GovernedStep(h) ==
    \/ RequestCommit(h) \/ CaptureObserve(h) \/ CaptureCommit(h)
    \/ DecideSelect(h) \/ DecideCommit(h) \/ BlockCommit(h)
    \/ ExecuteDup(h) \/ ExecuteClaim(h) \/ ExecuteAdd(h) \/ ExecuteAddFails(h)
    \/ ExecuteUnqueue(h)

ApiNext ==
    \/ \E p \in Plans, k \in Keys : Simulate(p, k)
    \/ \E h \in Handlers : GovernedCall(h) \/ GovernedStep(h) \/ RequestDropped(h)
=============================================================================
