---------------------------- MODULE RemediationApi ---------------------------
(***************************************************************************)
(* The older remediation workflow, which shares both tables with the       *)
(* governed one and writes them by id alone: request approval, approve or  *)
(* reject, mark manually completed.                                        *)
(***************************************************************************)
EXTENDS GovernedApi

\* requestApproval: an approval request with no expiry.  Its plan copy is read
\* and written back within one action: the hash of a pending row is replaced
\* by every decision, so a stale one is never compared with anything.
GenericRequest(p, u) ==
    /\ "generic_request" \in ApiOps
    /\ \E a \in FreeApprovals(p) :
          approvals' = [approvals EXCEPT ![p][a] =
              [NoApproval EXCEPT !.status = "PENDING",
                                 !.requestedById = u,
                                 !.hash = HashOf(p)]]
    /\ SetPlan(p, [plan[p] EXCEPT !.approvalStatus = "PENDING_APPROVAL"])
    /\ UNCHANGED <<lapsed, decisions, jobs, req, run, rec, cloud, sent>>

\* blockedPlanMutation, in one action with the read: the row it refuses for
\* (createdById) never changes.  The lifecycle is not touched.
GenericSelfApprove(p) ==
    /\ "generic_decide" \in ApiOps
    /\ SetPlan(p, [plan[p] EXCEPT !.approvalStatus = "REJECTED"])
    /\ UNCHANGED <<approvals, lapsed, decisions, jobs, req, run, rec, cloud, sent>>

GenericDecideRead(h, p, u, verdict) ==
    /\ "generic_decide" \in ApiOps /\ Idle(h)
    /\ ~(verdict = "APPROVED" /\ u = CreatedBy[p])
    /\ Continue(h, [Copied("generic_select", p, u) EXCEPT !.verdict = verdict])
    /\ UNCHANGED <<plan, approvals, lapsed, decisions, jobs, run, rec, cloud, sent>>

\* The newest pending row, or none (0).
GenericDecideSelect(h) ==
    LET pending == PendingOf(req[h].plan) IN
    /\ req[h].step = "generic_select"
    /\ \E a \in pending \cup {0} :
          /\ \A b \in pending : b <= a
          /\ Continue(h, [req[h] EXCEPT !.step = "generic_decide", !.target = a])
    /\ UNCHANGED <<plan, approvals, lapsed, decisions, jobs, run, rec, cloud, sent>>

GenericDecidedRow(p, h) ==
    [plan[p] EXCEPT !.approvalStatus = req[h].verdict,
                    !.approvedById = IF req[h].verdict = "APPROVED"
                                     THEN req[h].actor ELSE None]

\* Both rows are written by id: the approval may have been decided, and bound
\* to the plan, since it was selected.
GenericDecideCommit(h) ==
    LET p == req[h].plan IN
    /\ req[h].step = "generic_decide"
    /\ \/ /\ req[h].target # 0
          /\ approvals' = [approvals EXCEPT ![p][req[h].target] = DecidedApproval(h, @)]
       \/ /\ req[h].target = 0
          /\ \E a \in FreeApprovals(p) :
                approvals' = [approvals EXCEPT ![p][a] =
                    [DecidedApproval(h, NoApproval) EXCEPT !.requestedById = CreatedBy[p]]]
    /\ SetPlan(p, GenericDecidedRow(p, h))
    /\ decisions' = [decisions EXCEPT ![p] = @ \cup Recorded(h, "generic")]
    /\ Finish(h)
    /\ UNCHANGED <<lapsed, jobs, run, rec, cloud, sent>>

\* markPlanManuallyCompleted: writes back the approvalStatus it has read,
\* APPROVED as READY_FOR_EXECUTION, over whatever was decided since.
GenericCompleteRead(h, p) ==
    /\ "generic_complete" \in ApiOps /\ Idle(h)
    /\ Continue(h, [NoRequest EXCEPT !.step = "generic_complete", !.plan = p,
                                     !.status = plan[p].approvalStatus])
    /\ UNCHANGED <<plan, approvals, lapsed, decisions, jobs, run, rec, cloud, sent>>

CompletedStatus(status) == IF status = "APPROVED" THEN "READY_FOR_EXECUTION" ELSE status

GenericCompleteCommit(h) ==
    LET p == req[h].plan IN
    /\ req[h].step = "generic_complete"
    /\ SetPlan(p, [plan[p] EXCEPT !.approvalStatus = CompletedStatus(req[h].status)])
    /\ Finish(h)
    /\ UNCHANGED <<approvals, lapsed, decisions, jobs, run, rec, cloud, sent>>

RemediationNext ==
    \/ \E p \in Plans, u \in Users : GenericRequest(p, u)
    \/ \E p \in Plans : GenericSelfApprove(p)
    \/ \E h \in Handlers :
          \/ \E p \in Plans : GenericCompleteRead(h, p)
          \/ GenericCompleteCommit(h)
          \/ \E p \in Plans, u \in Users, v \in {"APPROVED", "REJECTED"} :
                GenericDecideRead(h, p, u, v)
          \/ GenericDecideSelect(h) \/ GenericDecideCommit(h)
=============================================================================
