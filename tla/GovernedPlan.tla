---------------------------- MODULE GovernedPlan ----------------------------
(***************************************************************************)
(* The shared store of the governed AWS change subsystem: the database     *)
(* rows (RemediationPlan, ApprovalRequest), the BullMQ queue, the EC2      *)
(* instance a plan targets, and the requests, job runs and reconciliations *)
(* that are in progress over them.  The other modules add the actions.     *)
(*                                                                         *)
(* What the properties do not tell apart is abstracted here:               *)
(*   - everything one simulation writes and approvalPayloadHash covers     *)
(*     (payload, before/after state, approvalExpiresAt) is a generation    *)
(*     number, "content"; 0 is a plan never simulated.  Two simulations    *)
(*     never agree on approvalExpiresAt, hence never on their content;     *)
(*   - a payload hash is what it hashes: the content and the key;          *)
(*   - a resource-state fingerprint is the control-tag state it digests;   *)
(*   - updatedAt is the set of requests whose copy of the row is current.  *)
(***************************************************************************)
EXTENDS Naturals, FiniteSets, Sequences

CONSTANTS
    Plans,         \* remediation plans of one organization
    Users,         \* people who may call the governance API
    CreatedBy,     \* CreatedBy[p]: the user who drafted plan p
    Keys,          \* idempotency keys; a key is also a BullMQ job id
    None,          \* the null of a database column
    Handlers,      \* API requests that may be in progress at once
    Runs,          \* invocations of the job processor in progress at once
    Reconcilers,   \* reconciliations in progress at once
    SafetyStates,  \* control-tag states of an instance
    SafeStates,    \* those that pass the worker's tag gates
    Modes,         \* AWS_CHANGE_EXECUTION_MODE of the workers that run, now or later
    ApiOps,        \* the API operations clients issue
    Faults,        \* the faults the environment may inject
    MaxSim,        \* bound: simulations per plan
    MaxApprovals,  \* bound: approval requests per plan
    MaxAttempts    \* maxAttempts of the reconciler

ASSUME UsersAssumption ==
    /\ None \notin Users \cup Keys \cup SafetyStates \cup Plans \cup Runs
    /\ CreatedBy \in [Plans -> Users]
ASSUME TagsAssumption == SafeStates \subseteq SafetyStates /\ SafetyStates # {}
ASSUME BoundsAssumption ==
    /\ MaxSim \in Nat /\ MaxApprovals \in Nat
    /\ MaxAttempts \in Nat \ {0}
ASSUME ModesAssumption == Modes # {} /\ Modes \subseteq {"simulation", "staging"}

VARIABLES
    plan,       \* plan[p]: the RemediationPlan row
    approvals,  \* approvals[p][a]: the a-th ApprovalRequest row of plan p
    lapsed,     \* lapsed[p]: approval windows of contents up to this are over
    decisions,  \* decisions[p]: approvals recorded by the audit trail
    jobs,       \* jobs[k]: the BullMQ job whose id is k
    req,        \* req[h]: an API request between two of its awaits
    run,        \* run[r]: a job run between two of its awaits
    rec,        \* rec[c]: a reconciliation between two of its awaits
    cloud,      \* cloud[p]: the EC2 instance plan p targets
    sent        \* sent[p]: the CreateTags calls issued for plan p

vars == <<plan, approvals, lapsed, decisions, jobs, req, run, rec, cloud, sent>>

-----------------------------------------------------------------------------
(* The rows. *)

Lifecycle == {"RECOMMENDED", "SIMULATED", "PENDING_APPROVAL", "APPROVED",
              "QUEUED", "EXECUTING", "SUCCEEDED", "FAILED", "BLOCKED",
              "ROLLBACK_AVAILABLE"}

Outcome == {"null", "NOT_ATTEMPTED", "ATTEMPTED", "CONFIRMED_SUCCEEDED",
            "CONFIRMED_FAILED", "OUTCOME_UNKNOWN", "MANUAL_REVIEW_REQUIRED"}

Reconciliation == {"null", "NOT_REQUIRED", "PENDING", "IN_PROGRESS",
                   "RESOLVED", "FAILED_RETRYABLE", "MANUAL_REVIEW_REQUIRED"}

ApprovalStatus == {"DRAFT", "PENDING_APPROVAL", "APPROVED", "REJECTED",
                   "READY_FOR_EXECUTION"}

Contents  == 0..MaxSim
Hash      == Contents \X (Keys \cup {None})
Approvals == 1..MaxApprovals

PlanRow ==
    [lifecycleState       : Lifecycle,
     approvalStatus       : ApprovalStatus,
     approvedById         : Users \cup {None},
     approvedByRequestId  : 0..MaxApprovals,       \* 0 is null
     idempotencyKey       : Keys \cup {None},
     content              : Contents,
     mutationOutcome      : Outcome,
     reconciliationStatus : Reconciliation,
     attemptCount         : 0..MaxAttempts,
     failure              : {"none", "QUEUE_ENQUEUE_FAILED", "other"},
     readers              : SUBSET Handlers]

\* A row createRemediationPlan has just inserted.
Drafted ==
    [lifecycleState       |-> "RECOMMENDED",
     approvalStatus       |-> "DRAFT",
     approvedById         |-> None,
     approvedByRequestId  |-> 0,
     idempotencyKey       |-> None,
     content              |-> 0,
     mutationOutcome      |-> "null",
     reconciliationStatus |-> "null",
     attemptCount         |-> 0,
     failure              |-> "none",
     readers              |-> {}]

ApprovalRow ==
    [status        : {"ABSENT", "PENDING", "APPROVED", "REJECTED"},
     requestedById : Users \cup {None},
     approvedById  : Users \cup {None},
     hash          : Hash,
     fingerprint   : SafetyStates \cup {None},
     expiry        : Contents]                     \* 0 is a null expiresAt

NoApproval ==
    [status |-> "ABSENT", requestedById |-> None, approvedById |-> None,
     hash |-> <<0, None>>, fingerprint |-> None, expiry |-> 0]

Decision == [by : Users, hash : Hash, source : {"governed", "generic"}]

Job == [state  : {"absent", "waiting", "active", "finished"},
        plan   : Plans \cup {None},
        stalls : 0..1,
        owner  : Runs \cup {None}]

NoJob == [state |-> "absent", plan |-> None, stalls |-> 0, owner |-> None]

-----------------------------------------------------------------------------
(* What is in progress. *)

Request ==
    [step    : {"idle", "block", "request", "select", "decide", "observe",
                "capture", "dup", "claim", "add", "unqueue",
                "generic_select", "generic_decide", "generic_complete"},
     plan    : Plans \cup {None},
     actor   : Users \cup {None},
     verdict : {"none", "APPROVED", "REJECTED"},
     hash    : Hash,             \* the plan copy the request works from
     target  : 0..MaxApprovals,  \* the approval row it works on
     key     : Keys \cup {None}, \* the idempotency key of the body
     status  : ApprovalStatus,   \* the approvalStatus it has read
     seen    : SafetyStates \cup {None}]

NoRequest ==
    [step |-> "idle", plan |-> None, actor |-> None, verdict |-> "none",
     hash |-> <<0, None>>, target |-> 0, key |-> None, status |-> "DRAFT",
     seen |-> None]

JobRun ==
    [pc       : {"idle", "dup", "load", "claim", "simulated", "preflight",
                 "barrier", "send", "record", "verify", "verify_noop",
                 "confirm", "confirm_noop", "persist", "schedule", "fail",
                 "block"},
     plan     : Plans \cup {None},
     key      : Keys \cup {None},
     content  : Contents,
     approver : Users \cup {None},
     seen     : SafetyStates \cup {None},
     verdict  : {"none", "CONFIRMED_FAILED", "OUTCOME_UNKNOWN"}]

NoRun == [pc |-> "idle", plan |-> None, key |-> None, content |-> 0,
          approver |-> None, seen |-> None, verdict |-> "none"]

ReconcilerRun ==
    [pc       : {"idle", "claim", "observe", "persist"},
     plan     : Plans \cup {None},
     outcome  : Outcome,
     status   : Reconciliation,
     attempts : 0..MaxAttempts,
     content  : Contents,
     bound    : BOOLEAN,         \* the snapshot's approval binding is valid
     verdict  : {"none", "NOT_ATTEMPTED", "CONFIRMED_SUCCEEDED", "RETRY",
                 "MANUAL_REVIEW_REQUIRED"}]

NoReconcilerRun ==
    [pc |-> "idle", plan |-> None, outcome |-> "null", status |-> "null",
     attempts |-> 0, content |-> 0, bound |-> FALSE, verdict |-> "none"]

\* The instance: the content whose requested tags it carries (0: none of
\* them), and the state of its control tags.
Instance == [tags : Contents, safety : SafetyStates]

\* The client repeats a request that gets no clear answer (the SDK's default), so
\* that one CreateTags call is one or several tries of the same request.  EC2 may
\* have applied the last one, whose answer the worker sees, or an earlier one only.
Applied == {"no", "last", "earlier"}

\* A CreateTags call as it was issued, and what EC2 applied of it.
Call == [key : Keys \cup {None}, content : Contents, approver : Users \cup {None},
         seen : SafetyStates \cup {None}, applied : Applied]

TypeOK ==
    /\ plan \in [Plans -> PlanRow]
    /\ approvals \in [Plans -> [Approvals -> ApprovalRow]]
    /\ lapsed \in [Plans -> Contents]
    /\ decisions \in [Plans -> SUBSET Decision]
    /\ jobs \in [Keys -> Job]
    /\ req \in [Handlers -> Request]
    /\ run \in [Runs -> JobRun]
    /\ rec \in [Reconcilers -> ReconcilerRun]
    /\ cloud \in [Plans -> Instance]
    /\ sent \in [Plans -> Seq(Call)]

Init ==
    /\ plan = [p \in Plans |-> Drafted]
    /\ approvals = [p \in Plans |-> [a \in Approvals |-> NoApproval]]
    /\ lapsed = [p \in Plans |-> 0]
    /\ decisions = [p \in Plans |-> {}]
    /\ jobs = [k \in Keys |-> NoJob]
    /\ req = [h \in Handlers |-> NoRequest]
    /\ run = [r \in Runs |-> NoRun]
    /\ rec = [c \in Reconcilers |-> NoReconcilerRun]
    /\ cloud \in [Plans -> {i \in Instance : i.tags = 0 /\ i.safety \in SafeStates}]
    /\ sent = [p \in Plans |-> <<>>]

-----------------------------------------------------------------------------
(* Reading and writing the rows. *)

\* Prisma's @updatedAt: any write makes every copy read before it stale.
SetPlan(p, row) == plan' = [plan EXCEPT ![p] = [row EXCEPT !.readers = {}]]

\* approvalPayloadHash, buildCanonicalApprovalPayload.
HashOf(p) == <<plan[p].content, plan[p].idempotencyKey>>

\* computeEc2TagSafetyFingerprint of the instance's control tags.
Fingerprint(p) == cloud[p].safety

\* expiresAt < now, for an expiry written by simulation e (0: null).
Expired(p, e) == e # 0 /\ e <= lapsed[p]

PendingOf(p) == {a \in Approvals : approvals[p][a].status = "PENDING"}

\* Rows are created in the order of their numbers (createdAt).
FreeApprovals(p) ==
    {a \in Approvals : /\ approvals[p][a].status = "ABSENT"
                       /\ \A b \in 1..(a - 1) : approvals[p][b].status # "ABSENT"}

\* The unique index on (organizationId, idempotencyKey).
KeyFree(p, k) == \A q \in Plans \ {p} : plan[q].idempotencyKey # k

\* The approval row the plan is bound to; NoApproval when the column is null.
BoundApproval(p) ==
    IF plan[p].approvedByRequestId = 0 THEN NoApproval
    ELSE approvals[p][plan[p].approvedByRequestId]
=============================================================================
