---------------------------- MODULE GovernedChange ---------------------------
(***************************************************************************)
(* The governed AWS change subsystem: API, older remediation workflow,     *)
(* job worker and reconciler over one store, with the environment's steps, *)
(* the fairness of the schedulers, and what the whole must satisfy.        *)
(***************************************************************************)
EXTENDS RemediationApi, GovernedWorker, MutationReconciliation

-----------------------------------------------------------------------------
(* The environment.                                                        *)

\* Time passes the approvalExpiresAt of the oldest open window.
Lapse(p) ==
    /\ "lapse" \in Faults
    /\ lapsed[p] < plan[p].content
    /\ lapsed' = [lapsed EXCEPT ![p] = @ + 1]
    /\ UNCHANGED <<plan, approvals, decisions, jobs, req, run, rec, cloud, sent>>

\* Somebody outside the system changes the instance's control tags, or sets or
\* removes the tags a plan requests.
Drift(p) ==
    /\ \/ /\ "drift" \in Faults
          /\ \E s \in SafetyStates \ {cloud[p].safety} :
                cloud' = [cloud EXCEPT ![p].safety = s]
       \/ /\ "retag" \in Faults
          /\ \E c \in (0..plan[p].content) \ {cloud[p].tags} :
                cloud' = [cloud EXCEPT ![p].tags = c]
    /\ UNCHANGED <<plan, approvals, lapsed, decisions, jobs, req, run, rec, sent>>

Next ==
    \/ ApiNext
    \/ RemediationNext
    \/ WorkerNext
    \/ ReconciliationNext
    \/ \E p \in Plans : Lapse(p) \/ Drift(p)

Spec == Init /\ [][Next]_vars

\* A request that was accepted runs to its end, the queue delivers a waiting
\* job and notices a dead run, a run and a reconciliation go on, and the
\* reconciler's timer keeps firing.  Clients and the environment owe nothing.
Fairness ==
    /\ \A h \in Handlers : WF_vars(GovernedStep(h))
    /\ \A k \in Keys : WF_vars(\E r \in Runs : Deliver(r, k)) /\ WF_vars(Stall(k))
    /\ \A r \in Runs : WF_vars(WorkerStep(r))
    /\ \A p \in Plans : WF_vars(\E c \in Reconcilers : RecPick(c, p))
    /\ \A c \in Reconcilers : WF_vars(ReconcilerStep(c))

LiveSpec == Spec /\ Fairness

-----------------------------------------------------------------------------
(* Safety.                                                                 *)

Calls(p) == {sent[p][i] : i \in DOMAIN sent[p]}

\* Whatever is redelivered, retried, re-simulated or re-approved, CreateTags is
\* called at most once for a plan, not counting what the SDK repeats within a call (the barrier of executeGovernedEc2Tagging and
\* the write-once approval binding together).
AtMostOneMutation == \A p \in Plans : Len(sent[p]) <= 1

\* Somebody other than the plan's author has approved this content under this
\* key, and is the approver on the bound row.
ApprovedBy(p, approver, content, key) ==
    \E d \in decisions[p] : /\ d.by = approver
                            /\ d.by # CreatedBy[p]
                            /\ d.hash = <<content, key>>

\* Every call carries a content, and runs under an idempotency key, that
\* somebody other than the plan's author has approved, namely the approver the
\* run loaded (verifyBoundApproval's hash check, against a payload that
\* simulate, and a key that execute, may replace at any time).
MutationWasApproved ==
    \A p \in Plans : \A c \in Calls(p) : ApprovedBy(p, c.approver, c.content, c.key)

\* "Bound to an exact maker-checker approval": a governed decision on that
\* content was taken by somebody who is neither the plan's author nor the one
\* who asked for the approval.
MutationHadMakerChecker ==
    \A p \in Plans : \A call \in Calls(p) :
        \E d \in decisions[p] :
            /\ d.source = "governed" /\ d.hash[1] = call.content
            /\ d.by \notin {CreatedBy[p], BoundApproval(p).requestedById}

\* The control-tag state a call was checked against is the one captured for the
\* approval the plan is bound to: no capture that arrives later replaces it.
CallMatchesCapture ==
    \A p \in Plans : \A call \in Calls(p) :
        call.seen = BoundApproval(p).fingerprint

\* An outcome reported as a definitive failure is the provider's: there was a call,
\* and the try whose answer was judged applied nothing.  (Not more: that no earlier
\* try of the same call did, which the row also says, the code cannot know.)
RefusedTryAppliedNothing ==
    \A p \in Plans :
        plan[p].mutationOutcome = "CONFIRMED_FAILED" =>
            sent[p] # <<>> /\ \A call \in Calls(p) : call.applied # "last"

\* A call made for the plan's present content is on record: whoever crashed,
\* failed or was overtaken, the row never says that nothing was attempted.
AttemptIsOnRecord ==
    \A p \in Plans : \A call \in Calls(p) :
        call.content = plan[p].content =>
            plan[p].mutationOutcome \notin {"null", "NOT_ATTEMPTED"}

\* "No provider execution was attempted because the queue did not accept the
\* job" is true of every plan that says so, even if the queue had accepted it.
EnqueueFailureNeverExecutes ==
    \A p \in Plans : plan[p].failure = "QUEUE_ENQUEUE_FAILED" => sent[p] = <<>>

Claimed == {"simulated", "preflight", "barrier", "send", "record", "verify",
            "verify_noop", "confirm", "confirm_noop"}

\* The same of every claimed run, also of those that end without a call
\* (simulation mode, no-op, preflight failure).
ClaimWasApproved ==
    \A r \in Runs : run[r].pc \in Claimed =>
        ApprovedBy(run[r].plan, run[r].approver, run[r].content, run[r].key)

\* However often a job is delivered, one run at most works on a plan.
ExclusiveExecution ==
    \A r, s \in Runs :
        /\ run[r].pc \in Claimed /\ run[s].pc \in Claimed
        /\ run[r].plan = run[s].plan
        => r = s

\* Two plans are never both executed under one idempotency key, as long as
\* neither has been simulated again since (the unique index and the lookup of
\* queueGovernedAwsChangeExecution; job ids are reused once forgotten).
KeySpentOnce ==
    \A p, q \in Plans : \A c \in Calls(p), d \in Calls(q) :
        /\ c.content = plan[p].content /\ d.content = plan[q].content
        /\ c.key = d.key
        => p = q

-----------------------------------------------------------------------------
(* What no step may do.                                                    *)

\* Once bound to an approval a plan stays bound to it, through re-simulation,
\* further approval requests and both decision paths.
BindingWriteOnce ==
    [][\A p \in Plans :
          plan[p].approvedByRequestId # 0 =>
              plan'[p].approvedByRequestId = plan[p].approvedByRequestId]_vars

Settled == {"CONFIRMED_SUCCEEDED", "CONFIRMED_FAILED", "MANUAL_REVIEW_REQUIRED"}

\* Where an outcome may go next, once something has been attempted.
After(outcome) ==
    CASE outcome \in Settled       -> {outcome}
      [] outcome = "OUTCOME_UNKNOWN" -> {"OUTCOME_UNKNOWN"} \cup Settled
      [] outcome = "ATTEMPTED"       -> {"ATTEMPTED", "OUTCOME_UNKNOWN"} \cup Settled
      [] OTHER                       -> Outcome

\* For one content an outcome only moves forward: worker, reconciler and API
\* never overwrite each other's verdict nor forget an attempt.
OutcomeMovesForward ==
    [][\A p \in Plans :
          plan'[p].content = plan[p].content
              => plan'[p].mutationOutcome \in After(plan[p].mutationOutcome)]_vars

-----------------------------------------------------------------------------
(* Liveness.                                                               *)

\* An attempt whose outcome is open is eventually settled.
OpenSettles == \A p \in Plans : Open(p) ~> ~Open(p)

\* A queued plan eventually leaves the queue, unless the queue gives its job
\* up: whatever becomes of the enqueue, no plan waits for a job that is not
\* there (queueEnqueueFailed), and no job waits for a worker that died.
QueuedIsPickedUp ==
    \A p \in Plans :
        (plan[p].lifecycleState = "QUEUED")
            ~> (\/ plan[p].lifecycleState # "QUEUED"
                \/ jobs[plan[p].idempotencyKey].state = "finished")

-----------------------------------------------------------------------------
(* The abstract specification.                                             *)

Promise == INSTANCE ProviderPromise WITH
    authorization <- [p \in Plans |-> plan[p].approvedByRequestId],
    calls         <- [p \in Plans |-> Len(sent[p])]

PromiseKept == Promise!Spec
=============================================================================
