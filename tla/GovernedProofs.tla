--------------------------- MODULE GovernedProofs ----------------------------
(***************************************************************************)
(* GovernedChange is type correct and keeps ProviderPromise, for every     *)
(* value of the constants.                                                 *)
(*                                                                         *)
(* Part 1, types.  TypeOK alone is not inductive: a null is in the type of *)
(* every pointer column, and a request, run or reconciliation writes where *)
(* its pointer says.  TypeInv adds which of them are set while something   *)
(* is under way.                                                           *)
(*                                                                         *)
(* Part 2, the promise: whatever interleaves, crashes or is delivered      *)
(* twice, the provider is called at most once for a plan, under an         *)
(* authorization that never changes.  First, what a step may do to a plan, *)
(* as far as the argument can see: Effects has one step per action.  Then, *)
(* from those effects alone, that Once is inductive.  A call is spent as   *)
(* soon as a run has passed the barrier; from then on the plan cannot be   *)
(* approved again, because its binding is write-once; hence not be queued, *)
(* claimed, and pass the barrier again - not even after another            *)
(* simulation, which puts the outcome back to NOT_ATTEMPTED.               *)
(*                                                                         *)
(* Part 3, safety beyond the single call: what runs and calls work on was  *)
(* approved, for the state that was captured, under a key of their own,    *)
(* one run at a time; and what the rows report of it is true.  Again, what *)
(* a step may do, as far as the argument can see: Routine for all but nine *)
(* kinds of steps.  Then, from those kinds alone, that SafeInv is          *)
(* inductive.  A plan is Past when it is bound and neither approved nor    *)
(* queued: it can never be claimed again, so that whatever is at work on   *)
(* it is alone.                                                            *)
(***************************************************************************)
EXTENDS GovernedChange, TLAPS

RequestPoints(q) ==
    /\ q.step # "idle" => q.plan \in Plans
    /\ q.step \in {"select", "decide", "generic_select", "generic_decide"}
           => q.actor \in Users /\ q.verdict # "none"
    /\ q.step \in {"observe", "capture", "decide"} => q.target \in Approvals
    /\ q.step \in {"dup", "claim", "add", "unqueue"} => q.key \in Keys

RunPoints(r) ==
    /\ r.pc # "idle" => r.plan \in Plans /\ r.key \in Keys
    /\ r.pc = "persist" => r.verdict # "none"

ReconcilerPoints(c) ==
    /\ c.pc # "idle" => c.plan \in Plans
    /\ c.pc = "claim" => c.attempts < MaxAttempts
    /\ c.pc = "persist" => c.verdict # "none"

JobPoints(j) == j.state # "absent" \/ j.owner # None => j.plan \in Plans

PlansTyped       == plan \in [Plans -> PlanRow]
ApprovalsTyped   == approvals \in [Plans -> [Approvals -> ApprovalRow]]
DecisionsTyped   == decisions \in [Plans -> SUBSET Decision]
RequestsTyped    == req \in [Handlers -> {q \in Request : RequestPoints(q)}]
RunsTyped        == run \in [Runs -> {r \in JobRun : RunPoints(r)}]
ReconcilersTyped == rec \in [Reconcilers -> {c \in ReconcilerRun : ReconcilerPoints(c)}]
JobsTyped        == jobs \in [Keys -> {j \in Job : JobPoints(j)}]

\* The inductive invariant.
TypeInv ==
    /\ PlansTyped /\ ApprovalsTyped /\ DecisionsTyped
    /\ RequestsTyped /\ RunsTyped /\ ReconcilersTyped /\ JobsTyped
    /\ lapsed \in [Plans -> Contents]
    /\ cloud \in [Plans -> Instance]
    /\ sent \in [Plans -> Seq(Call)]

\* TypeInv says more than TypeOK.
LEMMA TypeInvImpliesTypeOK == TypeInv => TypeOK
<1> SUFFICES ASSUME TypeInv PROVE TypeOK
  OBVIOUS
<1>1. req \in [Handlers -> Request]
  BY DEF TypeInv, RequestsTyped
<1>2. run \in [Runs -> JobRun]
  BY DEF TypeInv, RunsTyped
<1>3. rec \in [Reconcilers -> ReconcilerRun]
  BY DEF TypeInv, ReconcilersTyped
<1>4. jobs \in [Keys -> Job]
  BY DEF TypeInv, JobsTyped
<1>5. QED
  BY <1>1, <1>2, <1>3, <1>4
     DEF TypeInv, TypeOK, PlansTyped, ApprovalsTyped, DecisionsTyped

-----------------------------------------------------------------------------
(* The plan rows.                                                          *)

\* No step of a run or of the queue writes approvals, decisions or what a request or
\* the reconciler holds.
LEMMA WorkerStays == ASSUME WorkerNext PROVE Elsewhere
<1>1. ASSUME NEW r \in Runs, WorkerStep(r) PROVE Elsewhere
  <2>1. WDup(r) => Elsewhere
    BY DEF WDup
  <2>2. WLoad(r) => Elsewhere
    BY DEF WLoad
  <2>3. WSchedule(r) => Elsewhere
    BY DEF WSchedule
  <2>4. WClaim(r) => Elsewhere
    BY DEF WClaim
  <2>5. WSimulated(r) => Elsewhere
    BY DEF WSimulated
  <2>6. WPreflight(r) => Elsewhere
    BY DEF WPreflight
  <2>7. WBarrier(r) => Elsewhere
    BY DEF WBarrier
  <2>8. WSend(r) => Elsewhere
    BY DEF WSend
  <2>9. WRecord(r) => Elsewhere
    BY DEF WRecord
  <2>10. WVerify(r) => Elsewhere
    BY DEF WVerify
  <2>11. WConfirm(r) => Elsewhere
    BY DEF WConfirm
  <2>12. WConfirmNoop(r) => Elsewhere
    BY DEF WConfirmNoop
  <2>13. WPersist(r) => Elsewhere
    BY DEF WPersist
  <2>14. WFail(r) => Elsewhere
    BY DEF WFail
  <2>15. WBlock(r) => Elsewhere
    BY DEF WBlock
  <2> QED
    BY <1>1, <2>1, <2>2, <2>3, <2>4, <2>5, <2>6, <2>7, <2>8,
       <2>9, <2>10, <2>11, <2>12, <2>13, <2>14, <2>15 DEF WorkerStep
<1>2. ASSUME NEW r \in Runs, RunCrash(r) \/ RunThrows(r) \/ \E k \in Keys : Deliver(r, k)
      PROVE  Elsewhere
  BY <1>2 DEF RunCrash, RunThrows, Deliver
<1>3. ASSUME NEW k \in Keys, Stall(k) \/ Forget(k) PROVE Elsewhere
  BY <1>3 DEF Stall, Forget
<1> QED
  BY <1>1, <1>2, <1>3 DEF WorkerNext

\* Writing a well-typed row into the table leaves a well-typed table.
LEMMA SetPlanTyped ==
    ASSUME PlansTyped, NEW p \in Plans, NEW row \in PlanRow, SetPlan(p, row)
    PROVE  PlansTyped'
BY DEF SetPlan, PlanRow, PlansTyped

\* The values that the code writes are values of their columns.
LEMMA LiteralsTyped ==
    /\ {"SIMULATED", "PENDING_APPROVAL", "APPROVED", "QUEUED", "EXECUTING",
        "SUCCEEDED", "FAILED", "BLOCKED", "ROLLBACK_AVAILABLE"} \subseteq Lifecycle
    /\ {"NOT_ATTEMPTED", "ATTEMPTED", "CONFIRMED_SUCCEEDED", "CONFIRMED_FAILED",
        "OUTCOME_UNKNOWN", "MANUAL_REVIEW_REQUIRED"} \subseteq Outcome
    /\ {"NOT_REQUIRED", "PENDING", "IN_PROGRESS", "RESOLVED", "FAILED_RETRYABLE",
        "MANUAL_REVIEW_REQUIRED"} \subseteq Reconciliation
    /\ {"DRAFT", "PENDING_APPROVAL", "APPROVED", "REJECTED",
        "READY_FOR_EXECUTION"} \subseteq ApprovalStatus
BY DEF Lifecycle, Outcome, Reconciliation, ApprovalStatus

\* Nothing copied, nothing selected, nothing counted.
LEMMA NullsTyped ==
    /\ 0 \in Contents /\ <<0, None>> \in Hash
    /\ 0 \in 0..MaxApprovals /\ 0 \in 0..MaxAttempts
<1>1. 0 \in Contents /\ 0 \in 0..MaxApprovals /\ 0 \in 0..MaxAttempts
  BY BoundsAssumption DEF Contents
<1>2. <<0, None>> \in Hash
  BY <1>1 DEF Hash
<1>3. QED
  BY <1>1, <1>2

\* The counter that a simulation increments stays within its bound.
LEMMA SimulatedRowTyped ==
    ASSUME PlansTyped, NEW p \in Plans, plan[p].content < MaxSim,
           NEW k \in Keys, NEW b
    PROVE  SimulatedRow(p, k, b) \in PlanRow
<1>1. plan[p] \in PlanRow
  BY DEF PlansTyped
<1>2. plan[p].content + 1 \in Contents
  BY <1>1, BoundsAssumption DEF PlanRow, Contents
<1>3. (IF b THEN "BLOCKED" ELSE "SIMULATED") \in Lifecycle
  BY LiteralsTyped
<1>4. QED
  BY <1>1, <1>2, <1>3, NullsTyped, LiteralsTyped DEF SimulatedRow, PlanRow

\* The other rows that the governed API writes are well typed.
LEMMA ApiRowsTyped ==
    ASSUME PlansTyped, NEW p \in Plans
    PROVE  /\ RequestedRow(p) \in PlanRow
           /\ BlockedRow(p) \in PlanRow
           /\ \A k \in Keys : QueuedRow(p, k) \in PlanRow
           /\ \A k \in Keys : EnqueueFailedRow(p, k) \in PlanRow
<1>1. plan[p] \in PlanRow
  BY DEF PlansTyped
<1>2. RequestedRow(p) \in PlanRow
  BY <1>1, LiteralsTyped DEF RequestedRow, PlanRow
<1>3. BlockedRow(p) \in PlanRow
  BY <1>1, LiteralsTyped DEF BlockedRow, PlanRow
<1>4. ASSUME NEW k \in Keys
      PROVE  QueuedRow(p, k) \in PlanRow
  BY <1>1, LiteralsTyped DEF QueuedRow, PlanRow
<1>5. ASSUME NEW k \in Keys
      PROVE  EnqueueFailedRow(p, k) \in PlanRow
  BY <1>1, LiteralsTyped DEF EnqueueFailedRow, PlanRow
<1>6. QED
  BY <1>2, <1>3, <1>4, <1>5

\* The row a decision writes, by a request that knows what it decides.
LEMMA DecidedRowTyped ==
    ASSUME PlansTyped, NEW p \in Plans, NEW h \in Handlers,
           req[h].actor \in Users, req[h].target \in 0..MaxApprovals,
           req[h].verdict \in {"APPROVED", "REJECTED"}
    PROVE  DecidedRow(p, h) \in PlanRow /\ GenericDecidedRow(p, h) \in PlanRow
<1>1. plan[p] \in PlanRow
  BY DEF PlansTyped
<1>2. DecidedRow(p, h) \in PlanRow
  BY <1>1, NullsTyped, LiteralsTyped DEF DecidedRow, PlanRow
<1>3. GenericDecidedRow(p, h) \in PlanRow
  BY <1>1, LiteralsTyped DEF GenericDecidedRow, PlanRow
<1>4. QED
  BY <1>2, <1>3

\* The rows that the worker writes are well typed.
LEMMA WorkerRowsTyped ==
    ASSUME PlansTyped, NEW p \in Plans
    PROVE  /\ ClaimedRow(p) \in PlanRow
           /\ SimulatedRunRow(p) \in PlanRow
           /\ AttemptedRow(p) \in PlanRow
           /\ ConfirmedRow(p) \in PlanRow
           /\ NoopRow(p) \in PlanRow
           /\ FailedRow(p) \in PlanRow
           /\ \A v \in {"CONFIRMED_FAILED", "OUTCOME_UNKNOWN"} :
                 PersistedRow(p, v) \in PlanRow
           /\ Scheduled(plan[p]) \in PlanRow
<1>1. plan[p] \in PlanRow
  BY DEF PlansTyped
<1>2. ClaimedRow(p) \in PlanRow
  BY <1>1, LiteralsTyped DEF ClaimedRow, PlanRow
<1>3. SimulatedRunRow(p) \in PlanRow
  BY <1>1, LiteralsTyped DEF SimulatedRunRow, PlanRow
<1>4. AttemptedRow(p) \in PlanRow
  BY <1>1, LiteralsTyped DEF AttemptedRow, PlanRow
<1>5. ConfirmedRow(p) \in PlanRow
  BY <1>1, LiteralsTyped DEF ConfirmedRow, PlanRow
<1>6. NoopRow(p) \in PlanRow
  BY <1>1, LiteralsTyped DEF NoopRow, PlanRow
<1>7. FailedRow(p) \in PlanRow
  BY <1>1, LiteralsTyped DEF FailedRow, PlanRow
<1>8. ASSUME NEW v \in {"CONFIRMED_FAILED", "OUTCOME_UNKNOWN"}
      PROVE  PersistedRow(p, v) \in PlanRow
  <2>1. v \in Outcome
    BY LiteralsTyped
  <2>2. (IF v = "OUTCOME_UNKNOWN" THEN "PENDING" ELSE "RESOLVED") \in Reconciliation
    BY LiteralsTyped
  <2>3. QED
    BY <1>1, <2>1, <2>2, LiteralsTyped DEF PersistedRow, PlanRow
<1>9. Scheduled(plan[p]) \in PlanRow
  BY <1>1, LiteralsTyped DEF Scheduled, PlanRow
<1>10. QED
  BY <1>2, <1>3, <1>4, <1>5, <1>6, <1>7, <1>8, <1>9

\* The rows that the reconciler writes are well typed; the claim counts.
LEMMA ReconcilerRowsTyped ==
    ASSUME PlansTyped, NEW p \in Plans
    PROVE  /\ plan[p].attemptCount < MaxAttempts => ReconcilingRow(p) \in PlanRow
           /\ \A v \in {"NOT_ATTEMPTED", "CONFIRMED_SUCCEEDED", "RETRY",
                        "MANUAL_REVIEW_REQUIRED"} : ResolvedRow(p, v) \in PlanRow
<1>1. plan[p] \in PlanRow
  BY DEF PlansTyped
<1>2. ASSUME plan[p].attemptCount < MaxAttempts
      PROVE  ReconcilingRow(p) \in PlanRow
  <2>1. plan[p].attemptCount + 1 \in 0..MaxAttempts
    BY <1>1, <1>2, BoundsAssumption DEF PlanRow
  <2>2. QED
    BY <1>1, <2>1, LiteralsTyped DEF ReconcilingRow, PlanRow
<1>3. ResolvedRow(p, "RETRY") \in PlanRow
  BY <1>1, LiteralsTyped DEF ResolvedRow, PlanRow
<1>4. ResolvedRow(p, "NOT_ATTEMPTED") \in PlanRow
  BY <1>1, LiteralsTyped DEF ResolvedRow, PlanRow
<1>5. ResolvedRow(p, "CONFIRMED_SUCCEEDED") \in PlanRow
  BY <1>1, LiteralsTyped DEF ResolvedRow, PlanRow
<1>6. ResolvedRow(p, "MANUAL_REVIEW_REQUIRED") \in PlanRow
  BY <1>1, LiteralsTyped DEF ResolvedRow, PlanRow
<1>7. QED
  BY <1>2, <1>3, <1>4, <1>5, <1>6

-----------------------------------------------------------------------------
(* What is in progress.                                                    *)

\* A request goes on with a well-typed state, or is done.
LEMMA ContinueTyped ==
    ASSUME RequestsTyped, NEW h \in Handlers, NEW q \in Request, RequestPoints(q),
           Continue(h, q)
    PROVE  RequestsTyped'
BY DEF RequestsTyped, Continue

LEMMA FinishTyped ==
    ASSUME RequestsTyped, NEW h \in Handlers, Finish(h)
    PROVE  RequestsTyped'
<1>1. NoRequest \in Request
  BY NullsTyped, LiteralsTyped DEF NoRequest, Request
<1>2. RequestPoints(NoRequest)
  BY DEF RequestPoints, NoRequest
<1>3. QED
  BY <1>1, <1>2, ContinueTyped DEF Finish

LEMMA RefuseTyped ==
    ASSUME RequestsTyped, NEW h \in Handlers, NEW p \in Plans, Refuse(h, p)
    PROVE  RequestsTyped'
<1> DEFINE q == [NoRequest EXCEPT !.step = "block", !.plan = p]
<1>1. q \in Request
  BY NullsTyped, LiteralsTyped DEF NoRequest, Request
<1>2. RequestPoints(q)
  BY DEF RequestPoints, NoRequest
<1>3. QED
  BY <1>1, <1>2, ContinueTyped DEF Refuse

\* A copy of a row, as a request that somebody sent works from it.
LEMMA CopiedTyped ==
    ASSUME PlansTyped, NEW p \in Plans, NEW u \in Users,
           NEW s \in {"request", "select", "generic_select"}
    PROVE  /\ Copied(s, p, u) \in Request
           /\ \A v \in {"APPROVED", "REJECTED"} :
                 /\ [Copied(s, p, u) EXCEPT !.verdict = v] \in Request
                 /\ RequestPoints([Copied(s, p, u) EXCEPT !.verdict = v])
           /\ RequestPoints(Copied("request", p, u))
<1>1. HashOf(p) \in Hash
  BY DEF PlansTyped, PlanRow, HashOf, Hash
<1>2. Copied(s, p, u) \in Request
  BY <1>1, NullsTyped, LiteralsTyped DEF Copied, NoRequest, Request
<1>3. RequestPoints(Copied("request", p, u))
  BY DEF Copied, NoRequest, RequestPoints
<1>4. ASSUME NEW v \in {"APPROVED", "REJECTED"}
      PROVE  /\ [Copied(s, p, u) EXCEPT !.verdict = v] \in Request
             /\ RequestPoints([Copied(s, p, u) EXCEPT !.verdict = v])
  BY <1>1, NullsTyped, LiteralsTyped DEF Copied, NoRequest, Request, RequestPoints
<1>5. QED
  BY <1>2, <1>3, <1>4

\* A run goes on to a step other than the one that persists a verdict.
LEMMA StepTyped ==
    ASSUME RunsTyped, NEW r \in Runs, run[r].pc # "idle",
           NEW pc \in {"load", "claim", "simulated", "preflight", "barrier", "send",
                       "record", "verify", "verify_noop", "confirm", "confirm_noop",
                       "schedule", "fail", "block"},
           Step(r, pc)
    PROVE  RunsTyped'
<1> DEFINE x == [run[r] EXCEPT !.pc = pc]
<1>1. run[r] \in JobRun /\ RunPoints(run[r])
  BY DEF RunsTyped
<1>2. x \in JobRun /\ RunPoints(x)
  BY <1>1 DEF JobRun, RunPoints
<1>3. QED
  BY <1>2 DEF RunsTyped, Step

LEMMA UnclearTyped ==
    ASSUME RunsTyped, NEW r \in Runs, run[r].pc # "idle", Unclear(r)
    PROVE  RunsTyped'
<1> DEFINE x == [run[r] EXCEPT !.pc = "persist", !.verdict = "OUTCOME_UNKNOWN"]
<1>1. run[r] \in JobRun /\ RunPoints(run[r])
  BY DEF RunsTyped
<1>2. x \in JobRun /\ RunPoints(x)
  BY <1>1 DEF JobRun, RunPoints
<1>3. QED
  BY <1>2 DEF RunsTyped, Unclear

LEMMA NoRunTyped == NoRun \in JobRun /\ RunPoints(NoRun)
BY NullsTyped DEF NoRun, JobRun, RunPoints

LEMMA ReturnTyped ==
    ASSUME RunsTyped, JobsTyped, NEW r \in Runs, run[r].pc # "idle", Return(r)
    PROVE  RunsTyped' /\ JobsTyped'
<1> DEFINE k == run[r].key
           j == [jobs[k] EXCEPT !.state = "finished", !.owner = None]
<1>1. k \in Keys
  BY DEF RunsTyped, RunPoints
<1>2. RunsTyped'
  BY NoRunTyped DEF RunsTyped, Return
<1>3. CASE jobs[k].owner = r
  <2>1. jobs[k] \in Job /\ jobs[k].plan \in Plans
    BY <1>1, <1>3, UsersAssumption DEF JobsTyped, JobPoints
  <2>2. j \in Job /\ JobPoints(j)
    BY <2>1 DEF Job, JobPoints
  <2>3. jobs' = [jobs EXCEPT ![k] = j]
    BY <1>3 DEF Return
  <2>4. QED
    BY <1>1, <1>2, <2>2, <2>3 DEF JobsTyped
<1>4. CASE jobs[k].owner # r
  <2>1. jobs' = jobs
    BY <1>4 DEF Return
  <2>2. QED
    BY <1>2, <2>1 DEF JobsTyped
<1>5. QED
  BY <1>3, <1>4

-----------------------------------------------------------------------------
(* The governed API.                                                       *)

\* An action that touches only plans, approvals, decisions, requests and jobs
\* preserves the type invariant if it preserves their types.
LEMMA ApiPartsSuffice ==
    ASSUME TypeInv, UNCHANGED <<lapsed, run, rec, cloud, sent>>,
           PlansTyped', ApprovalsTyped', DecisionsTyped', RequestsTyped', JobsTyped'
    PROVE  TypeInv'
BY DEF TypeInv, RunsTyped, ReconcilersTyped

\* An action that leaves them alone preserves them.
LEMMA UnchangedTyped ==
    ASSUME TypeInv
    PROVE  /\ UNCHANGED plan => PlansTyped'
           /\ UNCHANGED approvals => ApprovalsTyped'
           /\ UNCHANGED decisions => DecisionsTyped'
           /\ UNCHANGED req => RequestsTyped'
           /\ UNCHANGED run => RunsTyped'
           /\ UNCHANGED rec => ReconcilersTyped'
           /\ UNCHANGED jobs => JobsTyped'
BY DEF TypeInv, PlansTyped, ApprovalsTyped, DecisionsTyped, RequestsTyped, RunsTyped,
       ReconcilersTyped, JobsTyped

\* A request under way knows its plan.
LEMMA BusyRequest ==
    ASSUME RequestsTyped, NEW h \in Handlers
    PROVE  /\ req[h] \in Request /\ RequestPoints(req[h])
           /\ ~Idle(h) => req[h].plan \in Plans
BY DEF RequestsTyped, RequestPoints, Idle

\* Writing one approval row.
LEMMA ApprovalWriteTyped ==
    ASSUME ApprovalsTyped, NEW p \in Plans, NEW a \in Approvals, NEW row \in ApprovalRow,
           approvals' = [approvals EXCEPT ![p][a] = row]
    PROVE  ApprovalsTyped'
BY DEF ApprovalsTyped

\* The row that a decision leaves, over an existing row or a new one.
LEMMA DecidedApprovalTyped ==
    ASSUME RequestsTyped, NEW h \in Handlers, req[h].verdict # "none",
           NEW row \in ApprovalRow
    PROVE  DecidedApproval(h, row) \in ApprovalRow
<1>1. /\ req[h].verdict \in {"APPROVED", "REJECTED"}
      /\ req[h].actor \in Users \cup {None} /\ req[h].hash \in Hash
  BY DEF RequestsTyped, Request
<1>2. QED
  BY <1>1 DEF DecidedApproval, ApprovalRow

LEMMA RecordedTyped ==
    ASSUME RequestsTyped, NEW h \in Handlers, req[h].actor \in Users,
           NEW s \in {"governed", "generic"}
    PROVE  Recorded(h, s) \subseteq Decision
<1>1. req[h].hash \in Hash
  BY DEF RequestsTyped, Request
<1>2. QED
  BY <1>1 DEF Recorded, Decision

\* The approval row that a request inserts.
LEMMA NewApprovalTyped ==
    ASSUME NEW u \in Users \cup {None}, NEW x \in Hash, NEW e \in Contents
    PROVE  [NoApproval EXCEPT !.status = "PENDING", !.requestedById = u,
                              !.hash = x, !.expiry = e] \in ApprovalRow
BY DEF NoApproval, ApprovalRow

LEMMA NoApprovalTyped == NoApproval \in ApprovalRow
BY NullsTyped DEF NoApproval, ApprovalRow

\* Every action of the governed API preserves the type invariant.
LEMMA SimulateTyped ==
    ASSUME TypeInv, NEW p \in Plans, NEW k \in Keys, Simulate(p, k)
    PROVE  TypeInv'
<1>1. PICK b \in {FALSE} \cup {"gate_closed" \in Faults} :
        SetPlan(p, SimulatedRow(p, k, b))
  BY DEF Simulate
<1>2. PlansTyped /\ plan[p].content < MaxSim
  BY DEF Simulate, TypeInv
<1>3. PlansTyped'
  BY <1>1, <1>2, SimulatedRowTyped, SetPlanTyped
<1>4. QED
  BY <1>3, UnchangedTyped, ApiPartsSuffice DEF Simulate

LEMMA GovernedCallTyped ==
    ASSUME TypeInv, NEW h \in Handlers, GovernedCall(h)
    PROVE  TypeInv'
<1> USE DEF TypeInv
<1>1. ASSUME NEW p \in Plans, NEW u \in Users, RequestRead(h, p, u)
      PROVE  TypeInv'
  <2>1. CASE Continue(h, Copied("request", p, u))
    BY <1>1, <2>1, CopiedTyped, ContinueTyped, UnchangedTyped, ApiPartsSuffice
       DEF RequestRead
  <2>2. CASE Refuse(h, p)
    BY <1>1, <2>2, RefuseTyped, UnchangedTyped, ApiPartsSuffice DEF RequestRead
  <2>3. QED
    BY <1>1, <2>1, <2>2 DEF RequestRead
<1>2. ASSUME NEW p \in Plans, NEW u \in Users, NEW v \in {"APPROVED", "REJECTED"},
             DecideRead(h, p, u, v)
      PROVE  TypeInv'
  <2>1. CASE Continue(h, [Copied("select", p, u) EXCEPT !.verdict = v])
    BY <1>2, <2>1, CopiedTyped, ContinueTyped, UnchangedTyped, ApiPartsSuffice
       DEF DecideRead
  <2>2. CASE Refuse(h, p)
    BY <1>2, <2>2, RefuseTyped, UnchangedTyped, ApiPartsSuffice DEF DecideRead
  <2>3. QED
    BY <1>2, <2>1, <2>2 DEF DecideRead
<1>3. ASSUME NEW p \in Plans, CaptureRead(h, p)
      PROVE  TypeInv'
  <2>1. PICK a \in Approvals :
          Continue(h, [NoRequest EXCEPT !.step = "observe", !.plan = p, !.target = a])
    BY <1>3 DEF CaptureRead, PendingOf
  <2> DEFINE q == [NoRequest EXCEPT !.step = "observe", !.plan = p, !.target = a]
  <2>2. a \in 0..MaxApprovals
    BY BoundsAssumption DEF Approvals
  <2>3. q \in Request
    BY <2>2, NullsTyped, LiteralsTyped DEF NoRequest, Request
  <2>4. RequestPoints(q)
    BY DEF RequestPoints, NoRequest
  <2>5. QED
    BY <1>3, <2>1, <2>3, <2>4, ContinueTyped, UnchangedTyped, ApiPartsSuffice
       DEF CaptureRead
<1>4. ASSUME NEW p \in Plans, NEW k \in Keys, ExecuteRead(h, p, k)
      PROVE  TypeInv'
  <2> DEFINE q == [NoRequest EXCEPT !.step = "dup", !.plan = p, !.key = k,
                                    !.target = plan[p].approvedByRequestId]
             row == [plan[p] EXCEPT !.readers = @ \cup {h}]
  <2>1. CASE Continue(h, q) /\ plan' = [plan EXCEPT ![p].readers = @ \cup {h}]
    <3>1. plan[p] \in PlanRow
      BY DEF PlansTyped
    <3>2. q \in Request
      BY <3>1, NullsTyped, LiteralsTyped DEF NoRequest, Request, PlanRow
    <3>3. RequestPoints(q)
      BY DEF RequestPoints, NoRequest
    <3>4. row \in PlanRow
      BY <3>1 DEF PlanRow
    <3>5. PlansTyped'
      BY <2>1, <3>4 DEF PlansTyped
    <3>6. QED
      BY <1>4, <2>1, <3>2, <3>3, <3>5, ContinueTyped, UnchangedTyped, ApiPartsSuffice
         DEF ExecuteRead
  <2>2. CASE Refuse(h, p) /\ UNCHANGED plan
    BY <1>4, <2>2, RefuseTyped, UnchangedTyped, ApiPartsSuffice DEF ExecuteRead
  <2>3. QED
    BY <1>4, <2>1, <2>2 DEF ExecuteRead
<1>5. QED
  BY <1>1, <1>2, <1>3, <1>4 DEF GovernedCall

\* The steps of the governed requests, one lemma per transaction or call.
LEMMA RequestCommitTyped ==
    ASSUME TypeInv, NEW h \in Handlers, RequestCommit(h)
    PROVE  TypeInv'
<1> DEFINE p == req[h].plan
<1>1. p \in Plans /\ req[h] \in Request
  BY BusyRequest DEF TypeInv, RequestCommit, Idle
<1>2. PICK a \in Approvals :
        approvals' = [approvals EXCEPT ![p][a] =
            [NoApproval EXCEPT !.status = "PENDING",
                               !.requestedById = req[h].actor,
                               !.hash = req[h].hash,
                               !.expiry = req[h].hash[1]]]
  BY DEF RequestCommit, FreeApprovals
<1>3. ApprovalsTyped'
  <2>1. req[h].actor \in Users \cup {None} /\ req[h].hash \in Hash
    BY <1>1 DEF Request
  <2>2. req[h].hash[1] \in Contents
    BY <2>1 DEF Hash
  <2>3. QED
    BY <1>1, <1>2, <2>1, <2>2, NewApprovalTyped, ApprovalWriteTyped DEF TypeInv
<1>4. PlansTyped'
  BY <1>1, ApiRowsTyped, SetPlanTyped DEF TypeInv, RequestCommit
<1>5. QED
  BY <1>3, <1>4, FinishTyped, UnchangedTyped, ApiPartsSuffice DEF TypeInv, RequestCommit

LEMMA CaptureTyped ==
    ASSUME TypeInv, NEW h \in Handlers, CaptureObserve(h) \/ CaptureCommit(h)
    PROVE  TypeInv'
<1> DEFINE p == req[h].plan
           a == req[h].target
<1>1. p \in Plans /\ a \in Approvals /\ req[h] \in Request /\ RequestPoints(req[h])
  BY BusyRequest DEF TypeInv, CaptureObserve, CaptureCommit, Idle, RequestPoints
<1>2. CASE CaptureObserve(h)
  <2> DEFINE q == [req[h] EXCEPT !.step = "capture", !.seen = cloud[p].safety]
  <2>1. CASE Continue(h, q)
    <3>1. cloud[p].safety \in SafetyStates
      BY <1>1 DEF TypeInv, Instance
    <3>2. q \in Request /\ RequestPoints(q)
      BY <1>1, <3>1 DEF Request, RequestPoints
    <3>3. QED
      BY <1>2, <2>1, <3>2, ContinueTyped, UnchangedTyped, ApiPartsSuffice
         DEF CaptureObserve, Fingerprint, TypeInv
  <2>2. CASE Finish(h)
    BY <1>2, <2>2, FinishTyped, UnchangedTyped, ApiPartsSuffice DEF CaptureObserve, TypeInv
  <2>3. QED
    BY <1>2, <2>1, <2>2 DEF CaptureObserve, Fingerprint
<1>3. CASE CaptureCommit(h)
  <2> DEFINE row == [approvals[p][a] EXCEPT !.fingerprint = req[h].seen]
  <2>1. row \in ApprovalRow
    <3>1. approvals[p][a] \in ApprovalRow
      BY <1>1 DEF TypeInv, ApprovalsTyped
    <3>2. req[h].seen \in SafetyStates \cup {None}
      BY <1>1 DEF Request
    <3>3. QED
      BY <3>1, <3>2 DEF ApprovalRow
  <2>2. approvals' = [approvals EXCEPT ![p][a] = row] \/ UNCHANGED approvals
    BY <1>3 DEF CaptureCommit
  <2>3. ApprovalsTyped'
    BY <1>1, <2>1, <2>2, ApprovalWriteTyped, UnchangedTyped DEF TypeInv
  <2>4. QED
    BY <1>3, <2>3, FinishTyped, UnchangedTyped, ApiPartsSuffice DEF CaptureCommit, TypeInv
<1>4. QED
  BY <1>2, <1>3

LEMMA DecideTyped ==
    ASSUME TypeInv, NEW h \in Handlers, DecideSelect(h) \/ DecideCommit(h)
    PROVE  TypeInv'
<1> DEFINE p == req[h].plan
<1>1. /\ p \in Plans /\ req[h] \in Request /\ RequestPoints(req[h])
      /\ req[h].actor \in Users /\ req[h].verdict \in {"APPROVED", "REJECTED"}
  BY BusyRequest DEF TypeInv, DecideSelect, DecideCommit, Idle, RequestPoints, Request
<1>2. CASE DecideSelect(h)
  <2>1. CASE Finish(h)
    BY <1>2, <2>1, FinishTyped, UnchangedTyped, ApiPartsSuffice DEF DecideSelect, TypeInv
  <2>2. CASE Refuse(h, p)
    BY <1>1, <1>2, <2>2, RefuseTyped, UnchangedTyped, ApiPartsSuffice
       DEF DecideSelect, TypeInv
  <2>3. ASSUME NEW a \in Approvals,
               Continue(h, [req[h] EXCEPT !.step = "decide", !.target = a])
        PROVE  TypeInv'
    <3> DEFINE q == [req[h] EXCEPT !.step = "decide", !.target = a]
    <3>1. a \in 0..MaxApprovals
      BY BoundsAssumption DEF Approvals
    <3>2. q \in Request /\ RequestPoints(q)
      BY <1>1, <3>1 DEF Request, RequestPoints
    <3>3. QED
      BY <1>2, <2>3, <3>2, ContinueTyped, UnchangedTyped, ApiPartsSuffice
         DEF DecideSelect, TypeInv
  <2>4. QED
    BY <1>2, <2>1, <2>2, <2>3 DEF DecideSelect, PendingOf
<1>3. CASE DecideCommit(h)
  <2> DEFINE a == req[h].target
  <2>1. a \in Approvals /\ a \in 0..MaxApprovals
    BY <1>1, <1>3 DEF DecideCommit, RequestPoints, Request
  <2>2. CASE MayDecide(p, a)
    <3>1. approvals[p][a] \in ApprovalRow
      BY <1>1, <2>1 DEF TypeInv, ApprovalsTyped
    <3>2. DecidedApproval(h, approvals[p][a]) \in ApprovalRow
      BY <1>1, <3>1, DecidedApprovalTyped DEF TypeInv
    <3>3. ApprovalsTyped'
      BY <1>1, <1>3, <2>1, <2>2, <3>2, ApprovalWriteTyped DEF DecideCommit, TypeInv
    <3>4. PlansTyped'
      BY <1>1, <1>3, <2>1, <2>2, DecidedRowTyped, SetPlanTyped DEF DecideCommit, TypeInv
    <3>5. DecisionsTyped'
      <4>1. Recorded(h, "governed") \subseteq Decision
        BY <1>1, RecordedTyped DEF TypeInv
      <4>2. QED
        BY <1>1, <1>3, <2>2, <4>1 DEF DecideCommit, TypeInv, DecisionsTyped
    <3>6. QED
      BY <1>3, <3>3, <3>4, <3>5, FinishTyped, UnchangedTyped, ApiPartsSuffice
         DEF DecideCommit, TypeInv
  <2>3. CASE ~MayDecide(p, a)
    BY <1>3, <2>3, FinishTyped, UnchangedTyped, ApiPartsSuffice DEF DecideCommit, TypeInv
  <2>4. QED
    BY <2>2, <2>3
<1>4. QED
  BY <1>2, <1>3

LEMMA BlockCommitTyped ==
    ASSUME TypeInv, NEW h \in Handlers, BlockCommit(h)
    PROVE  TypeInv'
<1>1. req[h].plan \in Plans
  BY BusyRequest DEF TypeInv, BlockCommit, Idle
<1>2. PlansTyped'
  BY <1>1, ApiRowsTyped, SetPlanTyped DEF TypeInv, BlockCommit
<1>3. QED
  BY <1>2, FinishTyped, UnchangedTyped, ApiPartsSuffice DEF TypeInv, BlockCommit

\* A job for a plan, under a key.
LEMMA AddedTyped ==
    ASSUME JobsTyped, NEW k \in Keys, NEW p \in Plans, jobs' = Added(k, p)
    PROVE  JobsTyped'
<1> DEFINE j == [NoJob EXCEPT !.state = "waiting", !.plan = p]
<1>1. 0 \in 0..1
  OBVIOUS
<1>2. j \in Job
  BY <1>1 DEF NoJob, Job
<1>3. JobPoints(j)
  BY DEF NoJob, JobPoints
<1>4. jobs' = [jobs EXCEPT ![k] = j] \/ jobs' = jobs
  BY DEF Added
<1>5. QED
  BY <1>2, <1>3, <1>4 DEF JobsTyped

LEMMA ExecuteTyped ==
    ASSUME TypeInv, NEW h \in Handlers,
           \/ ExecuteDup(h) \/ ExecuteClaim(h) \/ ExecuteAdd(h)
           \/ ExecuteAddFails(h) \/ ExecuteUnqueue(h)
    PROVE  TypeInv'
<1> DEFINE p == req[h].plan
           k == req[h].key
<1>1. p \in Plans /\ k \in Keys /\ req[h] \in Request /\ RequestPoints(req[h])
  BY BusyRequest DEF TypeInv, ExecuteDup, ExecuteClaim, ExecuteAdd, ExecuteAddFails,
                     ExecuteUnqueue, Idle, RequestPoints
<1>2. ASSUME NEW s \in {"claim", "add", "unqueue"},
             Continue(h, [req[h] EXCEPT !.step = s])
      PROVE  RequestsTyped'
  <2> DEFINE q == [req[h] EXCEPT !.step = s]
  <2>1. q \in Request /\ RequestPoints(q)
    BY <1>1 DEF Request, RequestPoints
  <2>2. QED
    BY <1>2, <2>1, ContinueTyped DEF TypeInv
<1>3. CASE ExecuteDup(h)
  BY <1>1, <1>2, <1>3, RefuseTyped, UnchangedTyped, ApiPartsSuffice DEF ExecuteDup, TypeInv
<1>4. CASE ExecuteClaim(h)
  <2>1. CASE MayQueue(p, h) /\ KeyFree(p, k)
    <3> DEFINE row == [QueuedRow(p, k) EXCEPT !.readers = {h}]
    <3>1. row \in PlanRow
      <4>1. QueuedRow(p, k) \in PlanRow
        BY <1>1, ApiRowsTyped DEF TypeInv
      <4>2. QED
        BY <4>1 DEF PlanRow
    <3>2. plan' = [plan EXCEPT ![p] = row]
      BY <1>4, <2>1 DEF ExecuteClaim
    <3>3. PlansTyped'
      BY <1>1, <3>1, <3>2 DEF PlansTyped, TypeInv
    <3>4. QED
      BY <1>2, <1>4, <2>1, <3>3, UnchangedTyped, ApiPartsSuffice DEF ExecuteClaim
  <2>2. CASE ~(MayQueue(p, h) /\ KeyFree(p, k))
    BY <1>4, <2>2, FinishTyped, UnchangedTyped, ApiPartsSuffice DEF ExecuteClaim, TypeInv
  <2>3. QED
    BY <2>1, <2>2
<1>5. CASE ExecuteAdd(h)
  BY <1>1, <1>5, AddedTyped, FinishTyped, UnchangedTyped, ApiPartsSuffice
     DEF ExecuteAdd, TypeInv
<1>6. CASE ExecuteAddFails(h)
  <2>1. JobsTyped'
    BY <1>1, <1>6, AddedTyped, UnchangedTyped DEF ExecuteAddFails, TypeInv
  <2>2. QED
    BY <1>2, <1>6, <2>1, UnchangedTyped, ApiPartsSuffice DEF ExecuteAddFails, TypeInv
<1>7. CASE ExecuteUnqueue(h)
  <2>1. PlansTyped'
    BY <1>1, <1>7, ApiRowsTyped, SetPlanTyped, UnchangedTyped DEF ExecuteUnqueue, TypeInv
  <2>2. QED
    BY <1>7, <2>1, FinishTyped, UnchangedTyped, ApiPartsSuffice DEF ExecuteUnqueue, TypeInv
<1>8. QED
  BY <1>3, <1>4, <1>5, <1>6, <1>7

LEMMA ApiNextTyped ==
    ASSUME TypeInv, ApiNext
    PROVE  TypeInv'
<1>1. ASSUME NEW p \in Plans, NEW k \in Keys, Simulate(p, k)
      PROVE  TypeInv'
  BY <1>1, SimulateTyped
<1>2. ASSUME NEW h \in Handlers, GovernedCall(h)
      PROVE  TypeInv'
  BY <1>2, GovernedCallTyped
<1>3. ASSUME NEW h \in Handlers, GovernedStep(h)
      PROVE  TypeInv'
  BY <1>3, RequestCommitTyped, CaptureTyped, DecideTyped, BlockCommitTyped, ExecuteTyped
     DEF GovernedStep
<1>4. ASSUME NEW h \in Handlers, RequestDropped(h)
      PROVE  TypeInv'
  BY <1>4, FinishTyped, UnchangedTyped, ApiPartsSuffice DEF RequestDropped, TypeInv
<1>5. QED
  BY <1>1, <1>2, <1>3, <1>4 DEF ApiNext

-----------------------------------------------------------------------------
(* The older workflow.                                                     *)

LEMMA GenericRequestTyped ==
    ASSUME TypeInv, NEW p \in Plans, NEW u \in Users, GenericRequest(p, u)
    PROVE  TypeInv'
<1> DEFINE row == [NoApproval EXCEPT !.status = "PENDING", !.requestedById = u,
                                     !.hash = HashOf(p)]
           written == [plan[p] EXCEPT !.approvalStatus = "PENDING_APPROVAL"]
<1>1. plan[p] \in PlanRow
  BY DEF TypeInv, PlansTyped
<1>2. PICK a \in Approvals : approvals' = [approvals EXCEPT ![p][a] = row]
  BY DEF GenericRequest, FreeApprovals
<1>3. row \in ApprovalRow
  <2>1. HashOf(p) \in Hash
    BY <1>1 DEF HashOf, Hash, PlanRow
  <2>2. QED
    BY <2>1, NullsTyped DEF NoApproval, ApprovalRow
<1>4. ApprovalsTyped'
  BY <1>2, <1>3, ApprovalWriteTyped DEF TypeInv
<1>5. written \in PlanRow
  BY <1>1, LiteralsTyped DEF PlanRow
<1>6. PlansTyped'
  BY <1>5, SetPlanTyped DEF TypeInv, GenericRequest
<1>7. QED
  BY <1>4, <1>6, UnchangedTyped, ApiPartsSuffice DEF GenericRequest

LEMMA GenericSelfApproveTyped ==
    ASSUME TypeInv, NEW p \in Plans, GenericSelfApprove(p)
    PROVE  TypeInv'
<1> DEFINE written == [plan[p] EXCEPT !.approvalStatus = "REJECTED"]
<1>1. plan[p] \in PlanRow
  BY DEF TypeInv, PlansTyped
<1>2. written \in PlanRow
  BY <1>1, LiteralsTyped DEF PlanRow
<1>3. PlansTyped'
  BY <1>2, SetPlanTyped DEF TypeInv, GenericSelfApprove
<1>4. QED
  BY <1>3, UnchangedTyped, ApiPartsSuffice DEF GenericSelfApprove

LEMMA GenericDecideTyped ==
    ASSUME TypeInv, NEW h \in Handlers,
           \/ \E p \in Plans, u \in Users, v \in {"APPROVED", "REJECTED"} :
                 GenericDecideRead(h, p, u, v)
           \/ GenericDecideSelect(h)
           \/ GenericDecideCommit(h)
    PROVE  TypeInv'
<1>1. ASSUME NEW p \in Plans, NEW u \in Users, NEW v \in {"APPROVED", "REJECTED"},
             GenericDecideRead(h, p, u, v)
      PROVE  TypeInv'
  BY <1>1, CopiedTyped, ContinueTyped, UnchangedTyped, ApiPartsSuffice
     DEF GenericDecideRead, TypeInv
<1> DEFINE p == req[h].plan
           t == req[h].target
<1>2. ASSUME GenericDecideSelect(h) \/ GenericDecideCommit(h)
      PROVE  /\ p \in Plans /\ req[h] \in Request /\ RequestPoints(req[h])
             /\ req[h].actor \in Users /\ req[h].verdict \in {"APPROVED", "REJECTED"}
  BY <1>2, BusyRequest
     DEF TypeInv, GenericDecideSelect, GenericDecideCommit, Idle, RequestPoints, Request
<1>3. CASE GenericDecideSelect(h)
  <2>1. PICK a \in Approvals \cup {0} :
          Continue(h, [req[h] EXCEPT !.step = "generic_decide", !.target = a])
    BY <1>3 DEF GenericDecideSelect, PendingOf
  <2> DEFINE q == [req[h] EXCEPT !.step = "generic_decide", !.target = a]
  <2>2. a \in 0..MaxApprovals
    BY BoundsAssumption DEF Approvals
  <2>3. q \in Request /\ RequestPoints(q)
    BY <1>2, <1>3, <2>2 DEF Request, RequestPoints
  <2>4. QED
    BY <1>3, <2>1, <2>3, ContinueTyped, UnchangedTyped, ApiPartsSuffice
       DEF GenericDecideSelect, TypeInv
<1>4. CASE GenericDecideCommit(h)
  <2>1. ApprovalsTyped'
    <3>1. CASE /\ t # 0
               /\ approvals' = [approvals EXCEPT ![p][t] = DecidedApproval(h, @)]
      <4>1. t \in Approvals
        BY <1>2, <1>4, <3>1, BoundsAssumption DEF Request, Approvals
      <4>2. approvals[p][t] \in ApprovalRow
        BY <1>2, <1>4, <4>1 DEF TypeInv, ApprovalsTyped
      <4>3. DecidedApproval(h, approvals[p][t]) \in ApprovalRow
        BY <1>2, <1>4, <4>2, DecidedApprovalTyped DEF TypeInv
      <4>4. QED
        BY <1>2, <1>4, <3>1, <4>1, <4>3, ApprovalWriteTyped DEF TypeInv
    <3>2. ASSUME NEW a \in Approvals,
                 approvals' = [approvals EXCEPT ![p][a] =
                    [DecidedApproval(h, NoApproval) EXCEPT !.requestedById = CreatedBy[p]]]
          PROVE  ApprovalsTyped'
      <4> DEFINE row == [DecidedApproval(h, NoApproval)
                            EXCEPT !.requestedById = CreatedBy[p]]
      <4>1. DecidedApproval(h, NoApproval) \in ApprovalRow
        BY <1>2, <1>4, NoApprovalTyped, DecidedApprovalTyped DEF TypeInv
      <4>2. CreatedBy[p] \in Users
        BY <1>2, <1>4, UsersAssumption
      <4>3. row \in ApprovalRow
        BY <4>1, <4>2 DEF ApprovalRow
      <4>4. QED
        BY <1>2, <1>4, <3>2, <4>3, ApprovalWriteTyped DEF TypeInv
    <3>3. QED
      BY <1>4, <3>1, <3>2 DEF GenericDecideCommit, FreeApprovals
  <2>2. PlansTyped'
    <3>1. t \in 0..MaxApprovals
      BY <1>2, <1>4 DEF Request
    <3>2. QED
      BY <1>2, <1>4, <3>1, DecidedRowTyped, SetPlanTyped DEF TypeInv, GenericDecideCommit
  <2>3. DecisionsTyped'
    <3>1. Recorded(h, "generic") \subseteq Decision
      BY <1>2, <1>4, RecordedTyped DEF TypeInv
    <3>2. QED
      BY <1>2, <1>4, <3>1 DEF GenericDecideCommit, TypeInv, DecisionsTyped
  <2>4. QED
    BY <1>4, <2>1, <2>2, <2>3, FinishTyped, UnchangedTyped, ApiPartsSuffice
       DEF GenericDecideCommit, TypeInv
<1>5. QED
  BY <1>1, <1>3, <1>4

LEMMA GenericCompleteTyped ==
    ASSUME TypeInv, NEW h \in Handlers,
           (\E p \in Plans : GenericCompleteRead(h, p)) \/ GenericCompleteCommit(h)
    PROVE  TypeInv'
<1>1. ASSUME NEW p \in Plans, GenericCompleteRead(h, p)
      PROVE  TypeInv'
  <2> DEFINE q == [NoRequest EXCEPT !.step = "generic_complete", !.plan = p,
                                    !.status = plan[p].approvalStatus]
  <2>1. plan[p].approvalStatus \in ApprovalStatus
    BY DEF TypeInv, PlansTyped, PlanRow
  <2>2. q \in Request
    BY <2>1, NullsTyped DEF NoRequest, Request
  <2>3. RequestPoints(q)
    BY DEF NoRequest, RequestPoints
  <2>4. QED
    BY <1>1, <2>2, <2>3, ContinueTyped, UnchangedTyped, ApiPartsSuffice
       DEF GenericCompleteRead, TypeInv
<1>2. CASE GenericCompleteCommit(h)
  <2> DEFINE p == req[h].plan
             row == [plan[p] EXCEPT !.approvalStatus = CompletedStatus(req[h].status)]
  <2>1. p \in Plans /\ req[h] \in Request
    BY <1>2, BusyRequest DEF TypeInv, GenericCompleteCommit, Idle
  <2>2. CompletedStatus(req[h].status) \in ApprovalStatus
    BY <2>1, LiteralsTyped DEF CompletedStatus, Request
  <2>3. plan[p] \in PlanRow
    BY <2>1 DEF TypeInv, PlansTyped
  <2>4. row \in PlanRow
    BY <2>2, <2>3 DEF PlanRow
  <2>5. PlansTyped'
    BY <1>2, <2>1, <2>4, SetPlanTyped DEF TypeInv, GenericCompleteCommit
  <2>6. QED
    BY <1>2, <2>5, FinishTyped, UnchangedTyped, ApiPartsSuffice
       DEF TypeInv, GenericCompleteCommit
<1>3. QED
  BY <1>1, <1>2

LEMMA RemediationNextTyped ==
    ASSUME TypeInv, RemediationNext
    PROVE  TypeInv'
BY GenericRequestTyped, GenericSelfApproveTyped, GenericDecideTyped, GenericCompleteTyped
   DEF RemediationNext

-----------------------------------------------------------------------------
(* The queue and the worker.                                               *)

\* An action of the worker preserves the type invariant if it preserves the
\* types of what a worker writes.
LEMMA WorkerPartsSuffice ==
    ASSUME TypeInv, UNCHANGED <<lapsed, approvals, decisions, req, rec>>,
           PlansTyped', RunsTyped', JobsTyped',
           (cloud \in [Plans -> Instance])', (sent \in [Plans -> Seq(Call)])'
    PROVE  TypeInv'
BY DEF TypeInv, ApprovalsTyped, DecisionsTyped, RequestsTyped, ReconcilersTyped

LEMMA CloudUnchangedTyped ==
    ASSUME TypeInv
    PROVE  /\ UNCHANGED cloud => (cloud \in [Plans -> Instance])'
           /\ UNCHANGED sent => (sent \in [Plans -> Seq(Call)])'
BY DEF TypeInv

\* The queue's own steps.
LEMMA QueueTyped ==
    ASSUME TypeInv, NEW k \in Keys,
           (\E r \in Runs : Deliver(r, k)) \/ Stall(k) \/ Forget(k)
    PROVE  TypeInv'
<1>1. jobs[k] \in Job /\ JobPoints(jobs[k])
  BY DEF TypeInv, JobsTyped
<1>2. ASSUME NEW r \in Runs, Deliver(r, k)
      PROVE  TypeInv'
  <2> DEFINE j == [jobs[k] EXCEPT !.state = "active", !.owner = r]
             x == [NoRun EXCEPT !.pc = "dup", !.plan = jobs[k].plan, !.key = k]
  <2>1. jobs[k].plan \in Plans
    BY <1>1, <1>2 DEF Deliver, JobPoints
  <2>2. j \in Job /\ JobPoints(j)
    BY <1>1, <2>1 DEF Job, JobPoints
  <2>3. x \in JobRun /\ RunPoints(x)
    BY <2>1, NullsTyped DEF NoRun, JobRun, RunPoints
  <2>4. jobs' = [jobs EXCEPT ![k] = j]
    BY <1>2, <1>1 DEF Deliver, TypeInv, JobsTyped
  <2>5. JobsTyped'
    BY <2>2, <2>4 DEF TypeInv, JobsTyped
  <2>6. RunsTyped'
    BY <1>2, <2>3 DEF Deliver, TypeInv, RunsTyped
  <2>7. QED
    BY <1>2, <2>5, <2>6, UnchangedTyped, CloudUnchangedTyped, WorkerPartsSuffice
       DEF Deliver, Elsewhere
<1>3. CASE Stall(k)
  <2> DEFINE again == [jobs[k] EXCEPT !.state = "waiting", !.stalls = 1, !.owner = None]
             over  == [jobs[k] EXCEPT !.state = "finished", !.owner = None]
  <2>1. jobs[k].plan \in Plans
    BY <1>1, <1>3 DEF Stall, JobPoints
  <2>2. again \in Job /\ JobPoints(again)
    <3>1. 1 \in 0..1
      OBVIOUS
    <3>2. QED
      BY <1>1, <2>1, <3>1 DEF Job, JobPoints
  <2>3. over \in Job /\ JobPoints(over)
    BY <1>1, <2>1 DEF Job, JobPoints
  <2>4. jobs' = [jobs EXCEPT ![k] = again] \/ jobs' = [jobs EXCEPT ![k] = over]
    BY <1>3 DEF Stall, TypeInv, JobsTyped
  <2>5. JobsTyped'
    BY <2>2, <2>3, <2>4 DEF TypeInv, JobsTyped
  <2>6. QED
    BY <1>3, <2>5, UnchangedTyped, CloudUnchangedTyped, WorkerPartsSuffice
       DEF Stall, Elsewhere
<1>4. CASE Forget(k)
  <2>1. NoJob \in Job /\ JobPoints(NoJob)
    <3>1. 0 \in 0..1
      OBVIOUS
    <3>2. QED
      BY <3>1 DEF NoJob, Job, JobPoints
  <2>2. JobsTyped'
    BY <1>4, <2>1 DEF Forget, TypeInv, JobsTyped
  <2>3. QED
    BY <1>4, <2>2, UnchangedTyped, CloudUnchangedTyped, WorkerPartsSuffice
       DEF Forget, Elsewhere
<1>5. QED
  BY <1>2, <1>3, <1>4

\* A run that dies, or throws outside its try blocks.
LEMMA RunLostTyped ==
    ASSUME TypeInv, NEW r \in Runs, RunCrash(r) \/ RunThrows(r)
    PROVE  TypeInv'
<1>1. CASE RunCrash(r)
  <2>1. RunsTyped'
    BY <1>1, NoRunTyped DEF RunCrash, TypeInv, RunsTyped
  <2>2. QED
    BY <1>1, <2>1, UnchangedTyped, CloudUnchangedTyped, WorkerPartsSuffice
       DEF RunCrash, Elsewhere
<1>2. CASE RunThrows(r)
  BY <1>2, ReturnTyped, UnchangedTyped, CloudUnchangedTyped, WorkerPartsSuffice
     DEF RunThrows, TypeInv, Elsewhere
<1>3. QED
  BY <1>1, <1>2

\* A run under way knows its plan and its key.
LEMMA BusyRun ==
    ASSUME RunsTyped, NEW r \in Runs
    PROVE  /\ run[r] \in JobRun /\ RunPoints(run[r])
           /\ run[r].pc # "idle" => run[r].plan \in Plans /\ run[r].key \in Keys
BY DEF RunsTyped, RunPoints

\* A run goes on (Step, Unclear) or returns, having written a well-typed row
\* or none.
LEMMA RunGoesOn ==
    ASSUME TypeInv, NEW r \in Runs, run[r].pc # "idle", PlansTyped',
           \/ /\ \E pc \in {"load", "claim", "simulated", "preflight", "barrier", "send",
                            "record", "verify", "verify_noop", "confirm", "confirm_noop",
                            "schedule", "fail", "block"} : Step(r, pc)
              /\ UNCHANGED jobs
           \/ Unclear(r) /\ UNCHANGED jobs
           \/ Return(r),
           Elsewhere, UNCHANGED <<cloud, sent>>
    PROVE  TypeInv'
<1>1. RunsTyped' /\ JobsTyped'
  BY StepTyped, UnclearTyped, ReturnTyped, UnchangedTyped DEF TypeInv
<1>2. QED
  BY <1>1, CloudUnchangedTyped, WorkerPartsSuffice DEF Elsewhere

\* The call itself.
LEMMA SendTyped ==
    ASSUME TypeInv, NEW r \in Runs, WSend(r)
    PROVE  TypeInv'
<1> DEFINE p == run[r].plan
           call(b) == [key |-> run[r].key, content |-> run[r].content,
                       approver |-> run[r].approver, seen |-> run[r].seen, applied |-> b]
           next(a) == [run[r] EXCEPT !.pc = AfterCall(a), !.verdict = VerdictOf(a)]
<1>1. run[r] \in JobRun /\ p \in Plans /\ run[r].key \in Keys
  BY BusyRun DEF WSend, At, TypeInv
<1>2. PICK a \in {"ok", "rejected", "unclear"} : \E b \in MayApply(a) :
          /\ sent' = [sent EXCEPT ![p] = Append(@, call(b))]
          /\ cloud' = IF b # "no" THEN [cloud EXCEPT ![p].tags = run[r].content] ELSE cloud
          /\ run' = [run EXCEPT ![r] = next(a)]
  BY DEF WSend, Answers
<1>3. PICK b \in MayApply(a) :
          /\ sent' = [sent EXCEPT ![p] = Append(@, call(b))]
          /\ cloud' = IF b # "no" THEN [cloud EXCEPT ![p].tags = run[r].content] ELSE cloud
          /\ run' = [run EXCEPT ![r] = next(a)]
  BY <1>2
<1>4. (sent \in [Plans -> Seq(Call)])'
  <2>1. b \in Applied
    BY DEF MayApply, Applied
  <2>2. call(b) \in Call
    BY <1>1, <2>1 DEF Call, JobRun
  <2>3. QED
    BY <1>1, <1>3, <2>2 DEF TypeInv
<1>5. (cloud \in [Plans -> Instance])'
  <2>1. run[r].content \in Contents
    BY <1>1 DEF JobRun
  <2>2. QED
    BY <1>1, <1>3, <2>1 DEF TypeInv, Instance
<1>6. RunsTyped'
  <2>1. next(a) \in JobRun
    BY <1>1 DEF JobRun, AfterCall, VerdictOf
  <2>2. RunPoints(next(a))
    BY <1>1 DEF JobRun, RunPoints, AfterCall, VerdictOf
  <2>3. QED
    BY <1>3, <2>1, <2>2 DEF TypeInv, RunsTyped
<1>7. QED
  BY <1>4, <1>5, <1>6, UnchangedTyped, WorkerPartsSuffice DEF WSend, Elsewhere

\* Every step of a job run preserves the type invariant.
LEMMA WorkerStepTyped ==
    ASSUME TypeInv, NEW r \in Runs, WorkerStep(r)
    PROVE  TypeInv'
<1> DEFINE p == run[r].plan
<1>1. CASE WSend(r)
  BY <1>1, SendTyped
<1>2. CASE ~WSend(r)
  <2>1. /\ run[r].pc # "idle" /\ run[r] \in JobRun /\ RunPoints(run[r])
        /\ p \in Plans /\ PlansTyped
    BY <1>2, BusyRun
       DEF TypeInv, WorkerStep, At, WDup, WLoad, WSchedule, WClaim, WSimulated, WPreflight,
           WBarrier, WRecord, WVerify, WConfirm, WConfirmNoop, WPersist, WFail, WBlock
  <2>2. CASE WDup(r)
    BY <2>1, <2>2, RunGoesOn, UnchangedTyped DEF WDup
  <2>3. CASE WLoad(r)
    <3>1. ASSUME run' = [run EXCEPT ![r] = [@ EXCEPT !.pc = "claim",
                            !.content = plan[p].content,
                            !.approver = BoundApproval(p).approvedById,
                            !.seen = BoundApproval(p).fingerprint]],
                 UNCHANGED jobs
          PROVE  TypeInv'
      <4> DEFINE x == [run[r] EXCEPT !.pc = "claim",
                            !.content = plan[p].content,
                            !.approver = BoundApproval(p).approvedById,
                            !.seen = BoundApproval(p).fingerprint]
      <4>1. plan[p].content \in Contents /\ plan[p].approvedByRequestId \in 0..MaxApprovals
        BY <2>1 DEF PlansTyped, PlanRow
      <4>2. plan[p].approvedByRequestId # 0 => plan[p].approvedByRequestId \in Approvals
        BY <4>1, BoundsAssumption DEF Approvals
      <4>3. BoundApproval(p) \in ApprovalRow
        BY <2>1, <4>2, NoApprovalTyped DEF BoundApproval, TypeInv, ApprovalsTyped
      <4>4. /\ BoundApproval(p).approvedById \in Users \cup {None}
            /\ BoundApproval(p).fingerprint \in SafetyStates \cup {None}
        BY <4>3 DEF ApprovalRow
      <4>5. x \in JobRun /\ RunPoints(x)
        BY <2>1, <4>1, <4>4 DEF JobRun, RunPoints
      <4>6. RunsTyped'
        BY <3>1, <4>5 DEF TypeInv, RunsTyped
      <4>7. QED
        BY <2>3, <3>1, <4>6, UnchangedTyped, CloudUnchangedTyped, WorkerPartsSuffice
           DEF WLoad, Elsewhere
    <3>2. QED
      BY <2>1, <2>3, <3>1, RunGoesOn, UnchangedTyped DEF WLoad
  <2>4. CASE WSchedule(r)
    <3>1. Scheduled(plan[p]) \in PlanRow
      BY <2>1, WorkerRowsTyped
    <3>2. PlansTyped'
      BY <2>1, <2>4, <3>1 DEF WSchedule, PlansTyped
    <3>3. QED
      BY <2>1, <2>4, <3>2, RunGoesOn DEF WSchedule
  <2>5. CASE WClaim(r)
    <3>1. PlansTyped'
      BY <2>1, <2>5, WorkerRowsTyped, SetPlanTyped, UnchangedTyped DEF WClaim
    <3>2. QED
      BY <2>1, <2>5, <3>1, RunGoesOn DEF WClaim
  <2>6. CASE WSimulated(r)
    <3>1. PlansTyped'
      BY <2>1, <2>6, WorkerRowsTyped, SetPlanTyped DEF WSimulated
    <3>2. QED
      BY <2>1, <2>6, <3>1, RunGoesOn DEF WSimulated
  <2>7. CASE WPreflight(r)
    BY <2>1, <2>7, RunGoesOn, UnchangedTyped DEF WPreflight
  <2>8. CASE WBarrier(r)
    <3>1. PlansTyped'
      BY <2>1, <2>8, WorkerRowsTyped, SetPlanTyped, UnchangedTyped DEF WBarrier
    <3>2. QED
      BY <2>1, <2>8, <3>1, RunGoesOn DEF WBarrier
  <2>9. CASE WRecord(r)
    <3>1. plan[p] \in PlanRow
      BY <2>1 DEF PlansTyped
    <3>2. PlansTyped'
      BY <2>1, <2>9, <3>1, SetPlanTyped, UnchangedTyped DEF WRecord
    <3>3. QED
      BY <2>1, <2>9, <3>2, RunGoesOn DEF WRecord
  <2>10. CASE WVerify(r)
    BY <2>1, <2>10, RunGoesOn, UnchangedTyped DEF WVerify
  <2>11. CASE WConfirm(r)
    <3>1. PlansTyped'
      BY <2>1, <2>11, WorkerRowsTyped, SetPlanTyped, UnchangedTyped DEF WConfirm
    <3>2. QED
      BY <2>1, <2>11, <3>1, RunGoesOn DEF WConfirm
  <2>12. CASE WConfirmNoop(r)
    <3>1. PlansTyped'
      BY <2>1, <2>12, WorkerRowsTyped, SetPlanTyped, UnchangedTyped DEF WConfirmNoop
    <3>2. QED
      BY <2>1, <2>12, <3>1, RunGoesOn DEF WConfirmNoop
  <2>13. CASE WPersist(r)
    <3>1. run[r].verdict \in {"CONFIRMED_FAILED", "OUTCOME_UNKNOWN"}
      BY <2>1, <2>13 DEF WPersist, At, RunPoints, JobRun
    <3>2. PlansTyped'
      BY <2>1, <2>13, <3>1, WorkerRowsTyped, SetPlanTyped, UnchangedTyped DEF WPersist
    <3>3. QED
      BY <2>1, <2>13, <3>2, RunGoesOn DEF WPersist
  <2>14. CASE WFail(r)
    <3>1. PlansTyped'
      BY <2>1, <2>14, WorkerRowsTyped, SetPlanTyped DEF WFail
    <3>2. QED
      BY <2>1, <2>14, <3>1, RunGoesOn DEF WFail
  <2>15. CASE WBlock(r)
    <3>1. [plan[p] EXCEPT !.lifecycleState = "BLOCKED"] \in PlanRow
      BY <2>1, ApiRowsTyped DEF BlockedRow
    <3>2. PlansTyped'
      BY <2>1, <2>15, <3>1, SetPlanTyped DEF WBlock
    <3>3. QED
      BY <2>1, <2>15, <3>2, RunGoesOn DEF WBlock
  <2>16. QED
    BY <1>2, <2>2, <2>3, <2>4, <2>5, <2>6, <2>7, <2>8, <2>9, <2>10, <2>11, <2>12, <2>13,
       <2>14, <2>15 DEF WorkerStep
<1>3. QED
  BY <1>1, <1>2

LEMMA WorkerNextTyped ==
    ASSUME TypeInv, WorkerNext
    PROVE  TypeInv'
BY WorkerStepTyped, RunLostTyped, QueueTyped DEF WorkerNext

-----------------------------------------------------------------------------
(* The reconciler.                                                         *)

LEMMA ReconciliationNextTyped ==
    ASSUME TypeInv, ReconciliationNext
    PROVE  TypeInv'
<1>1. ASSUME PlansTyped', ReconcilersTyped',
             UNCHANGED <<approvals, lapsed, decisions, jobs, req, run, cloud, sent>>
      PROVE  TypeInv'
  BY <1>1 DEF TypeInv, ApprovalsTyped, DecisionsTyped, RequestsTyped, RunsTyped, JobsTyped
<1>2. ASSUME NEW c \in Reconcilers, rec[c].pc # "idle"
      PROVE  /\ rec[c] \in ReconcilerRun /\ ReconcilerPoints(rec[c])
             /\ rec[c].plan \in Plans
  BY <1>2 DEF TypeInv, ReconcilersTyped, ReconcilerPoints
<1>3. ASSUME NEW c \in Reconcilers, RecStep(c, NoReconcilerRun)
      PROVE  ReconcilersTyped'
  <2>1. NoReconcilerRun \in ReconcilerRun /\ ReconcilerPoints(NoReconcilerRun)
    BY NullsTyped
       DEF NoReconcilerRun, ReconcilerRun, ReconcilerPoints, Outcome, Reconciliation
  <2>2. QED
    BY <1>3, <2>1 DEF RecStep, TypeInv, ReconcilersTyped
<1>4. ASSUME NEW c \in Reconcilers, NEW p \in Plans, RecPick(c, p)
      PROVE  TypeInv'
  <2> DEFINE x == [NoReconcilerRun EXCEPT !.pc = "claim", !.plan = p,
                      !.outcome = plan[p].mutationOutcome,
                      !.status = plan[p].reconciliationStatus,
                      !.attempts = plan[p].attemptCount,
                      !.content = plan[p].content,
                      !.bound = BindingValid(p)]
  <2>1. plan[p] \in PlanRow /\ plan[p].attemptCount < MaxAttempts
    BY <1>4 DEF TypeInv, PlansTyped, RecPick, Selectable
  <2>2. BindingValid(p) \in BOOLEAN
    BY DEF BindingValid
  <2>3. x \in ReconcilerRun
    BY <2>1, <2>2 DEF NoReconcilerRun, ReconcilerRun, PlanRow
  <2>4. ReconcilerPoints(x)
    BY <2>1 DEF NoReconcilerRun, ReconcilerPoints
  <2>5. ReconcilersTyped'
    BY <1>4, <2>3, <2>4 DEF RecPick, RecStep, TypeInv, ReconcilersTyped
  <2>6. QED
    BY <1>1, <1>4, <2>5, UnchangedTyped DEF RecPick
<1>5. ASSUME NEW c \in Reconcilers, RecClaim(c)
      PROVE  TypeInv'
  <2> DEFINE p == rec[c].plan
             x == [rec[c] EXCEPT !.pc = "observe"]
  <2>1. /\ rec[c] \in ReconcilerRun /\ ReconcilerPoints(rec[c]) /\ p \in Plans
        /\ rec[c].attempts < MaxAttempts
    BY <1>2, <1>5 DEF RecClaim, RecAt, ReconcilerPoints
  <2>2. CASE MayReconcile(c)
    <3>1. PlansTyped'
      BY <1>5, <2>1, <2>2, ReconcilerRowsTyped, SetPlanTyped
         DEF RecClaim, MayReconcile, TypeInv
    <3>2. x \in ReconcilerRun /\ ReconcilerPoints(x)
      BY <2>1 DEF ReconcilerRun, ReconcilerPoints
    <3>3. ReconcilersTyped'
      BY <1>5, <2>2, <3>2 DEF RecClaim, RecStep, TypeInv, ReconcilersTyped
    <3>4. QED
      BY <1>1, <1>5, <3>1, <3>3 DEF RecClaim
  <2>3. CASE ~MayReconcile(c)
    BY <1>1, <1>3, <1>5, <2>3, UnchangedTyped DEF RecClaim
  <2>4. QED
    BY <2>2, <2>3
<1>6. ASSUME NEW c \in Reconcilers, RecObserve(c)
      PROVE  TypeInv'
  <2>1. PICK unseen \in {FALSE} \cup {"provider_error" \in Faults} :
          RecStep(c, [rec[c] EXCEPT !.pc = "persist", !.verdict = Verdict(c, unseen)])
    BY <1>6 DEF RecObserve
  <2> DEFINE x == [rec[c] EXCEPT !.pc = "persist", !.verdict = Verdict(c, unseen)]
  <2>2. Verdict(c, unseen) \in {"NOT_ATTEMPTED", "CONFIRMED_SUCCEEDED", "RETRY",
                                "MANUAL_REVIEW_REQUIRED"}
    BY DEF Verdict
  <2>3. rec[c] \in ReconcilerRun /\ ReconcilerPoints(rec[c]) /\ rec[c].plan \in Plans
    BY <1>2, <1>6 DEF RecObserve, RecAt
  <2>4. x \in ReconcilerRun /\ ReconcilerPoints(x)
    BY <2>2, <2>3 DEF ReconcilerRun, ReconcilerPoints
  <2>5. ReconcilersTyped'
    BY <2>1, <2>4 DEF RecStep, TypeInv, ReconcilersTyped
  <2>6. QED
    BY <1>1, <1>6, <2>5, UnchangedTyped DEF RecObserve
<1>7. ASSUME NEW c \in Reconcilers, RecPersist(c)
      PROVE  TypeInv'
  <2>1. /\ rec[c].plan \in Plans
        /\ rec[c].verdict \in {"NOT_ATTEMPTED", "CONFIRMED_SUCCEEDED", "RETRY",
                               "MANUAL_REVIEW_REQUIRED"}
    BY <1>2, <1>7 DEF RecPersist, RecAt, ReconcilerRun, ReconcilerPoints
  <2>2. PlansTyped'
    BY <1>7, <2>1, ReconcilerRowsTyped, SetPlanTyped, UnchangedTyped DEF RecPersist, TypeInv
  <2>3. QED
    BY <1>1, <1>3, <1>7, <2>2 DEF RecPersist
<1>8. ASSUME NEW c \in Reconcilers, RecCrash(c)
      PROVE  TypeInv'
  BY <1>1, <1>3, <1>8, UnchangedTyped DEF RecCrash
<1>9. QED
  BY <1>4, <1>5, <1>6, <1>7, <1>8 DEF ReconciliationNext, ReconcilerStep

-----------------------------------------------------------------------------
(* The whole.                                                              *)

LEMMA EnvironmentTyped ==
    ASSUME TypeInv, NEW p \in Plans, Lapse(p) \/ Drift(p)
    PROVE  TypeInv'
<1>1. CASE Lapse(p)
  <2>1. plan[p].content \in Contents /\ lapsed[p] \in Contents
    BY DEF TypeInv, PlansTyped, PlanRow
  <2>2. lapsed[p] + 1 \in Contents
    BY <1>1, <2>1, BoundsAssumption DEF Lapse, Contents
  <2>3. (lapsed \in [Plans -> Contents])'
    BY <1>1, <2>2 DEF Lapse, TypeInv
  <2>4. QED
    BY <1>1, <2>3, UnchangedTyped DEF Lapse, TypeInv
<1>2. CASE Drift(p)
  <2>1. plan[p].content \in Contents
    BY DEF TypeInv, PlansTyped, PlanRow
  <2>2. 0..plan[p].content \subseteq Contents
    BY <2>1, BoundsAssumption DEF Contents
  <2>3. (cloud \in [Plans -> Instance])'
    BY <1>2, <2>2 DEF Drift, TypeInv, Instance
  <2>4. QED
    BY <1>2, <2>3, UnchangedTyped DEF Drift, TypeInv
<1>3. QED
  BY <1>1, <1>2

LEMMA InitTyped == Init => TypeInv
<1> SUFFICES ASSUME Init PROVE TypeInv
  OBVIOUS
<1>1. Drafted \in PlanRow
  BY NullsTyped
     DEF Drafted, PlanRow, Lifecycle, ApprovalStatus, Outcome, Reconciliation
<1>2. NoRequest \in Request /\ RequestPoints(NoRequest)
  BY NullsTyped, LiteralsTyped DEF NoRequest, Request, RequestPoints
<1>3. NoReconcilerRun \in ReconcilerRun /\ ReconcilerPoints(NoReconcilerRun)
  BY NullsTyped
     DEF NoReconcilerRun, ReconcilerRun, ReconcilerPoints, Outcome, Reconciliation
<1>4. NoJob \in Job /\ JobPoints(NoJob)
  <2>1. 0 \in 0..1
    OBVIOUS
  <2>2. QED
    BY <2>1 DEF NoJob, Job, JobPoints
<1>5. PlansTyped /\ ApprovalsTyped /\ DecisionsTyped
  BY <1>1, NoApprovalTyped DEF Init, PlansTyped, ApprovalsTyped, DecisionsTyped
<1>6. RequestsTyped /\ RunsTyped /\ ReconcilersTyped /\ JobsTyped
  BY <1>2, <1>3, <1>4, NoRunTyped
     DEF Init, RequestsTyped, RunsTyped, ReconcilersTyped, JobsTyped
<1>7. lapsed \in [Plans -> Contents] /\ cloud \in [Plans -> Instance]
  BY NullsTyped DEF Init
<1>8. sent \in [Plans -> Seq(Call)]
  BY DEF Init
<1>9. QED
  BY <1>5, <1>6, <1>7, <1>8 DEF TypeInv

LEMMA NextTyped == TypeInv /\ [Next]_vars => TypeInv'
<1> SUFFICES ASSUME TypeInv, [Next]_vars PROVE TypeInv'
  OBVIOUS
<1>1. CASE Next
  BY <1>1, ApiNextTyped, RemediationNextTyped, WorkerNextTyped, ReconciliationNextTyped,
     EnvironmentTyped DEF Next
<1>2. CASE UNCHANGED vars
  BY <1>2, UnchangedTyped, ApiPartsSuffice DEF vars
<1>3. QED
  BY <1>1, <1>2

\* In every reachable state, whatever the constants, every row, job, request,
\* run and reconciliation is well typed, and what is under way points to what
\* it works on: no step of API, worker or reconciler writes through a null.
THEOREM TypeInvariance == Spec => []TypeInv
<1>1. QED
  BY InitTyped, NextTyped, PTL DEF Spec

\* Type correctness: columns only take the values of their enumerations, and
\* the reconciler's attempt counter never passes maxAttempts, although its
\* selection and its claim read the counter at different times.
THEOREM TypeCorrectness == Spec => []TypeOK
<1>1. QED
  BY TypeInvariance, TypeInvImpliesTypeOK, PTL
-----------------------------------------------------------------------------
(* Part 2: the promise.                                                    *)

Underway == {"APPROVED", "QUEUED", "EXECUTING"}

\* The runs that have passed the barrier and not yet called the provider.
Sending(p) == {r \in Runs : run[r].pc = "send" /\ run[r].plan = p}

Spent(p) == sent[p] # <<>> \/ Sending(p) # {}

\* The inductive invariant, for one plan.
Once(p) ==
    /\ plan[p].lifecycleState \in Underway => plan[p].approvedByRequestId # 0
    /\ Spent(p) =>
         /\ plan[p].approvedByRequestId # 0
         /\ plan[p].lifecycleState \notin {"APPROVED", "QUEUED"}
         /\ ~MayAttempt(p)
    /\ Sending(p) # {} => sent[p] = <<>> /\ \E r \in Runs : Sending(p) = {r}
    /\ Len(sent[p]) <= 1

OnceInv == TypeInv /\ \A p \in Plans : Once(p)

-----------------------------------------------------------------------------
(* What a step may do to a plan.                                           *)

\* The row does not come closer to the provider.
QuietRow(p, row) ==
    /\ row.approvedByRequestId = plan[p].approvedByRequestId
    /\ row.lifecycleState \in Underway =>
         /\ row.lifecycleState = plan[p].lifecycleState
         /\ row.mutationOutcome = "NOT_ATTEMPTED" => plan[p].mutationOutcome = "NOT_ATTEMPTED"

NoCall(p) == sent'[p] = sent[p] /\ Sending(p)' \subseteq Sending(p)

Quiet(p) == QuietRow(p, plan'[p]) /\ NoCall(p)

\* decideGovernedAwsChange binds the plan to an approval.
Approves(p) ==
    /\ plan[p].approvedByRequestId = 0
    /\ plan'[p].approvedByRequestId \in Approvals
    /\ NoCall(p)

\* The plan is queued or claimed.
Advances(p) ==
    /\ plan[p].lifecycleState \in {"APPROVED", "QUEUED"}
    /\ plan'[p].lifecycleState \in {"QUEUED", "EXECUTING"}
    /\ plan'[p].approvedByRequestId = plan[p].approvedByRequestId
    /\ NoCall(p)

\* A run passes the barrier.
Attempts(p) ==
    /\ MayAttempt(p)
    /\ plan'[p].lifecycleState = "EXECUTING" /\ plan'[p].mutationOutcome = "ATTEMPTED"
    /\ plan'[p].approvedByRequestId = plan[p].approvedByRequestId
    /\ sent'[p] = sent[p]
    /\ \E r \in Runs : Sending(p)' \subseteq Sending(p) \cup {r}

\* A run that has passed it calls the provider.
Issues(p) ==
    /\ plan'[p] = plan[p]
    /\ \E call \in Call : sent'[p] = Append(sent[p], call)
    /\ \E r \in Sending(p) : Sending(p)' = Sending(p) \ {r}

\* One plan at most is not left quiet.
Effect ==
    \/ \A q \in Plans : Quiet(q)
    \/ \E p \in Plans : /\ Quiet(p) \/ Approves(p) \/ Advances(p) \/ Attempts(p) \/ Issues(p)
                        /\ \A q \in Plans \ {p} : Quiet(q)

-----------------------------------------------------------------------------
(* Rows and runs that are quiet.                                           *)

\* None of these rows is closer to the provider than the one it replaces.
LEMMA QuietRows ==
    ASSUME TypeInv, NEW p \in Plans
    PROVE  /\ QuietRow(p, plan[p])
           /\ \A k \in Keys : \A b : QuietRow(p, SimulatedRow(p, k, b))
           /\ QuietRow(p, RequestedRow(p)) /\ QuietRow(p, BlockedRow(p))
           /\ \A k \in Keys : QuietRow(p, EnqueueFailedRow(p, k))
           /\ \A h \in Handlers : QuietRow(p, GenericDecidedRow(p, h))
           /\ QuietRow(p, SimulatedRunRow(p)) /\ QuietRow(p, ConfirmedRow(p))
           /\ QuietRow(p, NoopRow(p)) /\ QuietRow(p, FailedRow(p))
           /\ \A v : QuietRow(p, PersistedRow(p, v))
           /\ QuietRow(p, Scheduled(plan[p]))
           /\ QuietRow(p, ReconcilingRow(p))
           /\ \A v \in {"NOT_ATTEMPTED", "CONFIRMED_SUCCEEDED", "RETRY",
                        "MANUAL_REVIEW_REQUIRED"} : QuietRow(p, ResolvedRow(p, v))
           /\ \A s : QuietRow(p, [plan[p] EXCEPT !.approvalStatus = s])
<1>1. plan[p] \in PlanRow
  BY DEF TypeInv, PlansTyped
<1> USE <1>1 DEF PlanRow, QuietRow, Underway
<1>2. QuietRow(p, plan[p]) /\ \A s : QuietRow(p, [plan[p] EXCEPT !.approvalStatus = s])
  OBVIOUS
<1>3. \A k \in Keys : \A b : QuietRow(p, SimulatedRow(p, k, b))
  BY DEF SimulatedRow
<1>4. QuietRow(p, RequestedRow(p)) /\ QuietRow(p, BlockedRow(p))
  BY DEF RequestedRow, BlockedRow
<1>5. \A k \in Keys : QuietRow(p, EnqueueFailedRow(p, k))
  BY DEF EnqueueFailedRow
<1>6. \A h \in Handlers : QuietRow(p, GenericDecidedRow(p, h))
  BY DEF GenericDecidedRow
<1>7. QuietRow(p, SimulatedRunRow(p)) /\ QuietRow(p, ConfirmedRow(p))
  BY DEF SimulatedRunRow, ConfirmedRow
<1>8. QuietRow(p, NoopRow(p)) /\ QuietRow(p, FailedRow(p))
  BY DEF NoopRow, FailedRow
<1>9. \A v : QuietRow(p, PersistedRow(p, v))
  BY DEF PersistedRow
<1>10. QuietRow(p, Scheduled(plan[p])) /\ QuietRow(p, ReconcilingRow(p))
  BY DEF Scheduled, ReconcilingRow
<1>11. QuietRow(p, ResolvedRow(p, "NOT_ATTEMPTED")) /\ QuietRow(p, ResolvedRow(p, "RETRY"))
  BY DEF ResolvedRow
<1>12. /\ QuietRow(p, ResolvedRow(p, "CONFIRMED_SUCCEEDED"))
       /\ QuietRow(p, ResolvedRow(p, "MANUAL_REVIEW_REQUIRED"))
  BY DEF ResolvedRow
<1>13. QED
  BY <1>2, <1>3, <1>4, <1>5, <1>6, <1>7, <1>8, <1>9, <1>10, <1>11, <1>12

\* A write is seen by the plan it goes to, and by no other.
LEMMA SetPlanWrites ==
    ASSUME TypeInv, NEW p \in Plans, NEW row \in PlanRow, SetPlan(p, row)
    PROVE  /\ \A q \in Plans \ {p} : plan'[q] = plan[q]
           /\ plan'[p].approvedByRequestId = row.approvedByRequestId
           /\ plan'[p].lifecycleState = row.lifecycleState
           /\ plan'[p].mutationOutcome = row.mutationOutcome
BY DEF SetPlan, TypeInv, PlansTyped, PlanRow

LEMMA SetQuiet ==
    ASSUME TypeInv, NEW p \in Plans, NEW row \in PlanRow, SetPlan(p, row), QuietRow(p, row)
    PROVE  \A q \in Plans : QuietRow(q, plan'[q])
<1>1. QuietRow(p, plan'[p])
  BY SetPlanWrites DEF QuietRow
<1>2. \A q \in Plans \ {p} : QuietRow(q, plan'[q])
  BY SetPlanWrites, QuietRows
<1>3. QED
  BY <1>1, <1>2

\* No run comes to the call but by the barrier.
LEMMA NoNewSender ==
    ASSUME TypeInv, NEW r \in Runs,
           \/ \E pc : pc # "send" /\ Step(r, pc)
           \/ Unclear(r) \/ Return(r) \/ run' = [run EXCEPT ![r] = NoRun]
    PROVE  \A q \in Plans : Sending(q)' \subseteq Sending(q)
<1>1. \A s \in Runs : s # r => run'[s] = run[s]
  BY DEF Step, Unclear, Return, TypeInv, RunsTyped
<1>2. run'[r].pc # "send"
  <2>1. run \in [Runs -> JobRun]
    BY DEF TypeInv, RunsTyped
  <2>2. ASSUME NEW pc, pc # "send", Step(r, pc)
        PROVE  run'[r].pc # "send"
    BY <2>1, <2>2 DEF Step, JobRun
  <2>3. CASE Unclear(r)
    BY <2>1, <2>3 DEF Unclear, JobRun
  <2>4. CASE run' = [run EXCEPT ![r] = NoRun]
    BY <2>1, <2>4 DEF NoRun
  <2>5. QED
    BY <2>2, <2>3, <2>4 DEF Return
<1>3. QED
  BY <1>1, <1>2 DEF Sending

LEMMA AllQuiet ==
    ASSUME TypeInv, \A q \in Plans : QuietRow(q, plan'[q]),
           \A q \in Plans : Sending(q)' \subseteq Sending(q), UNCHANGED sent
    PROVE  Effect
BY DEF Effect, Quiet, NoCall

LEMMA UnchangedQuiet ==
    ASSUME TypeInv
    PROVE  /\ UNCHANGED plan => \A q \in Plans : QuietRow(q, plan'[q])
           /\ UNCHANGED run => \A q \in Plans : Sending(q)' \subseteq Sending(q)
BY QuietRows DEF Sending

-----------------------------------------------------------------------------
(* The effect of every action.                                             *)

LEMMA ApiEffect ==
    ASSUME TypeInv, ApiNext
    PROVE  Effect
<1>1. PlansTyped /\ RequestsTyped
  BY DEF TypeInv
<1>2. ASSUME NEW p \in Plans, NEW k \in Keys, Simulate(p, k)
      PROVE  Effect
  <2>1. PICK b \in {FALSE} \cup {"gate_closed" \in Faults} :
          SetPlan(p, SimulatedRow(p, k, b))
    BY <1>2 DEF Simulate
  <2>2. SimulatedRow(p, k, b) \in PlanRow
    BY <1>1, <1>2, SimulatedRowTyped DEF Simulate
  <2>3. QED
    BY <1>2, <2>1, <2>2, QuietRows, SetQuiet, UnchangedQuiet, AllQuiet DEF Simulate
<1>3. ASSUME NEW h \in Handlers, GovernedCall(h)
      PROVE  Effect
  <2>1. UNCHANGED <<run, sent>>
    BY <1>3 DEF GovernedCall, RequestRead, DecideRead, CaptureRead, ExecuteRead
  <2>2. \A q \in Plans : QuietRow(q, plan'[q])
    <3>1. CASE UNCHANGED plan
      BY <3>1, UnchangedQuiet
    <3>2. ASSUME NEW p \in Plans, plan' = [plan EXCEPT ![p].readers = @ \cup {h}]
          PROVE  \A q \in Plans : QuietRow(q, plan'[q])
      BY <1>1, <3>2 DEF PlansTyped, PlanRow, QuietRow
    <3>3. QED
      BY <1>3, <3>1, <3>2
         DEF GovernedCall, RequestRead, DecideRead, CaptureRead, ExecuteRead
  <2>3. QED
    BY <2>1, <2>2, UnchangedQuiet, AllQuiet
<1>4. ASSUME NEW h \in Handlers, GovernedStep(h)
      PROVE  Effect
  <2>0. PICK p : p = req[h].plan
    OBVIOUS
  <2> DEFINE k == req[h].key
  <2>1. /\ p = req[h].plan /\ p \in Plans /\ req[h] \in Request /\ RequestPoints(req[h])
        /\ UNCHANGED <<run, sent>>
    BY <1>1, <1>4, <2>0, BusyRequest
       DEF Idle, GovernedStep, RequestCommit, CaptureObserve, CaptureCommit, DecideSelect,
           DecideCommit, BlockCommit, ExecuteDup, ExecuteClaim, ExecuteAdd, ExecuteAddFails,
           ExecuteUnqueue
  <2> \A q \in Plans : NoCall(q)
    BY <2>1, UnchangedQuiet DEF NoCall
  <2>2. CASE UNCHANGED plan
    BY <2>1, <2>2, UnchangedQuiet, AllQuiet
  <2>3. CASE RequestCommit(h)
    BY <1>1, <2>1, <2>3, ApiRowsTyped, QuietRows, SetQuiet, UnchangedQuiet, AllQuiet
       DEF RequestCommit
  <2>4. CASE BlockCommit(h)
    BY <1>1, <2>1, <2>4, ApiRowsTyped, QuietRows, SetQuiet, UnchangedQuiet, AllQuiet
       DEF BlockCommit
  <2>5. CASE ExecuteUnqueue(h) /\ MayUnqueue(p, h)
    <3>1. k \in Keys /\ SetPlan(p, EnqueueFailedRow(p, k))
      BY <2>1, <2>5 DEF ExecuteUnqueue, RequestPoints
    <3>2. QED
      BY <1>1, <2>1, <3>1, ApiRowsTyped, QuietRows, SetQuiet, UnchangedQuiet, AllQuiet
  <2>6. CASE ExecuteClaim(h) /\ MayQueue(p, h) /\ KeyFree(p, k)
    <3> DEFINE row == [QueuedRow(p, k) EXCEPT !.readers = {h}]
    <3>1. plan' = [plan EXCEPT ![p] = row]
      BY <2>1, <2>6 DEF ExecuteClaim
    <3>2. plan'[p] = row /\ \A q \in Plans \ {p} : plan'[q] = plan[q]
      BY <1>1, <2>1, <3>1 DEF PlansTyped
    <3>3. /\ row.lifecycleState = "QUEUED"
          /\ row.approvedByRequestId = plan[p].approvedByRequestId
      BY <1>1, <2>1 DEF QueuedRow, PlansTyped, PlanRow
    <3>4. Advances(p)
      BY <2>1, <2>6, <3>2, <3>3 DEF Advances, MayQueue
    <3>5. QED
      BY <2>1, <3>2, <3>4, QuietRows DEF Effect, Quiet
  <2>7. CASE DecideCommit(h) /\ MayDecide(p, req[h].target)
    <3> DEFINE a == req[h].target
    <3>1. /\ a \in Approvals /\ a \in 0..MaxApprovals /\ req[h].actor \in Users
          /\ req[h].verdict \in {"APPROVED", "REJECTED"}
      BY <2>1, <2>7 DEF DecideCommit, RequestPoints, Request
    <3>2. DecidedRow(p, h) \in PlanRow /\ SetPlan(p, DecidedRow(p, h))
      BY <1>1, <2>1, <2>7, <3>1, DecidedRowTyped DEF DecideCommit
    <3>3. plan[p].approvedByRequestId = 0 /\ plan[p] \in PlanRow
      BY <1>1, <2>1, <2>7 DEF MayDecide, PlansTyped
    <3>4. CASE req[h].verdict = "APPROVED"
      <4>1. DecidedRow(p, h).approvedByRequestId = a
        BY <3>3, <3>4 DEF DecidedRow, PlanRow
      <4>2. /\ plan'[p].approvedByRequestId = a
            /\ \A q \in Plans \ {p} : plan'[q] = plan[q]
        BY <2>1, <3>2, <4>1, SetPlanWrites
      <4>3. Approves(p)
        BY <2>1, <3>1, <3>3, <4>2 DEF Approves
      <4>4. QED
        BY <2>1, <4>2, <4>3, QuietRows DEF Effect, Quiet
    <3>5. CASE req[h].verdict = "REJECTED"
      <4>1. QuietRow(p, DecidedRow(p, h))
        BY <3>3, <3>5 DEF DecidedRow, PlanRow, QuietRow, Underway
      <4>2. QED
        BY <2>1, <3>2, <4>1, SetQuiet, UnchangedQuiet, AllQuiet
    <3>6. QED
      BY <3>1, <3>4, <3>5
  <2>8. QED
    BY <1>4, <2>1, <2>2, <2>3, <2>4, <2>5, <2>6, <2>7
       DEF GovernedStep, CaptureObserve, CaptureCommit, DecideSelect, DecideCommit,
           ExecuteDup, ExecuteClaim, ExecuteAdd, ExecuteAddFails, ExecuteUnqueue
<1>5. ASSUME NEW h \in Handlers, RequestDropped(h)
      PROVE  Effect
  BY <1>5, UnchangedQuiet, AllQuiet DEF RequestDropped
<1>6. QED
  BY <1>2, <1>3, <1>4, <1>5 DEF ApiNext

LEMMA RemediationEffect ==
    ASSUME TypeInv, RemediationNext
    PROVE  Effect
<1> USE DEF TypeInv
<1>1. UNCHANGED <<run, sent>>
  BY DEF RemediationNext, GenericRequest, GenericSelfApprove, GenericCompleteRead,
         GenericCompleteCommit, GenericDecideRead, GenericDecideSelect, GenericDecideCommit
<1>2. CASE UNCHANGED plan
  BY <1>1, <1>2, UnchangedQuiet, AllQuiet
<1>3. ASSUME NEW p \in Plans, NEW s \in ApprovalStatus,
             SetPlan(p, [plan[p] EXCEPT !.approvalStatus = s])
      PROVE  Effect
  <2>1. [plan[p] EXCEPT !.approvalStatus = s] \in PlanRow
    BY ZenonT(60) DEF PlansTyped, PlanRow
  <2>2. QED
    BY <1>1, <1>3, <2>1, QuietRows, SetQuiet, UnchangedQuiet, AllQuiet
<1>4. ASSUME NEW h \in Handlers, GenericDecideCommit(h)
      PROVE  Effect
  <2>1. /\ req[h].plan \in Plans /\ req[h] \in Request /\ RequestPoints(req[h])
    BY <1>4, BusyRequest DEF GenericDecideCommit, Idle
  <2>2. /\ req[h].actor \in Users /\ req[h].target \in 0..MaxApprovals
        /\ req[h].verdict \in {"APPROVED", "REJECTED"}
    BY <1>4, <2>1 DEF GenericDecideCommit, RequestPoints, Request
  <2>3. QED
    BY <1>1, <1>4, <2>1, <2>2, DecidedRowTyped, QuietRows, SetQuiet, UnchangedQuiet, AllQuiet
       DEF GenericDecideCommit
<1>5. ASSUME NEW h \in Handlers, GenericCompleteCommit(h)
      PROVE  Effect
  <2>1. req[h].plan \in Plans /\ req[h] \in Request
    BY <1>5, BusyRequest DEF GenericCompleteCommit, Idle
  <2>2. CompletedStatus(req[h].status) \in ApprovalStatus
    BY <2>1, LiteralsTyped DEF CompletedStatus, Request
  <2>3. QED
    BY <1>3, <1>5, <2>1, <2>2 DEF GenericCompleteCommit
<1>6. QED
  BY <1>2, <1>3, <1>4, <1>5, LiteralsTyped
     DEF RemediationNext, GenericRequest, GenericSelfApprove, GenericCompleteRead,
         GenericDecideRead, GenericDecideSelect

\* The call is issued by a run that is thereby no longer about to issue it.
LEMMA SendEffect ==
    ASSUME TypeInv, NEW r \in Runs, WSend(r)
    PROVE  Effect
<1>0. PICK p : p = run[r].plan
  OBVIOUS
<1> DEFINE call(b) == [key |-> run[r].key, content |-> run[r].content,
                       approver |-> run[r].approver, seen |-> run[r].seen, applied |-> b]
<1>1. /\ p = run[r].plan /\ p \in Plans
      /\ run[r] \in JobRun /\ run[r].key \in Keys /\ run \in [Runs -> JobRun]
  BY <1>0, BusyRun DEF WSend, At, TypeInv, RunsTyped
<1>2. PICK a \in {"ok", "rejected", "unclear"}, b \in Applied :
          /\ sent' = [sent EXCEPT ![p] = Append(@, call(b))]
          /\ run' = [run EXCEPT ![r] = [@ EXCEPT !.pc = AfterCall(a),
                                                 !.verdict = VerdictOf(a)]]
  BY <1>1 DEF WSend, Answers, MayApply, Applied
<1>3. /\ run'[r].pc \in {"record", "persist"} /\ \A s \in Runs \ {r} : run'[s] = run[s]
  BY <1>1, <1>2 DEF AfterCall, JobRun
<1>4. r \in Sending(p) /\ Sending(p)' = Sending(p) \ {r}
  <2>1. run[r].pc = "send" /\ run'[r].pc # "send"
    BY <1>3 DEF WSend, At
  <2>2. QED
    BY <1>1, <1>3, <2>1 DEF Sending
<1>5. call(b) \in Call
  BY <1>1 DEF Call, JobRun
<1>6. sent'[p] = Append(sent[p], call(b)) /\ \A q \in Plans \ {p} : sent'[q] = sent[q]
  BY <1>1, <1>2 DEF TypeInv
<1>7. Issues(p)
  BY <1>1, <1>4, <1>5, <1>6 DEF Issues, WSend
<1>8. ASSUME NEW q \in Plans \ {p}
      PROVE  Quiet(q)
  <2>1. Sending(q)' \subseteq Sending(q)
    BY <1>3 DEF Sending
  <2>2. QED
    BY <1>6, <2>1, QuietRows DEF Quiet, NoCall, WSend
<1>9. QED
  BY <1>1, <1>7, <1>8 DEF Effect

LEMMA BarrierEffect ==
    ASSUME TypeInv, NEW r \in Runs, WBarrier(r)
    PROVE  Effect
<1>0. PICK p : p = run[r].plan
  OBVIOUS
<1>1. p = run[r].plan /\ p \in Plans /\ run \in [Runs -> JobRun] /\ PlansTyped /\ UNCHANGED sent
  BY <1>0, BusyRun DEF WBarrier, At, TypeInv, RunsTyped
<1>2. /\ \A s \in Runs \ {r} : run'[s] = run[s]
      /\ run'[r].plan = p
  BY <1>1 DEF WBarrier, Step, JobRun
<1>3. \A q \in Plans \ {p} : Sending(q)' \subseteq Sending(q)
  BY <1>2 DEF Sending
<1>4. Sending(p)' \subseteq Sending(p) \cup {r}
  BY <1>2 DEF Sending
<1>5. CASE MayAttempt(p) /\ SetPlan(p, AttemptedRow(p))
  <2>1. AttemptedRow(p) \in PlanRow /\ plan[p] \in PlanRow
    BY <1>1, WorkerRowsTyped DEF PlansTyped
  <2>2. /\ AttemptedRow(p).mutationOutcome = "ATTEMPTED"
        /\ AttemptedRow(p).lifecycleState = plan[p].lifecycleState
        /\ AttemptedRow(p).approvedByRequestId = plan[p].approvedByRequestId
    BY <2>1 DEF AttemptedRow, PlanRow
  <2>3. Attempts(p)
    BY <1>1, <1>4, <1>5, <2>1, <2>2, SetPlanWrites DEF Attempts, MayAttempt
  <2>4. \A q \in Plans \ {p} : Quiet(q)
    BY <1>1, <1>3, <1>5, <2>1, SetPlanWrites, QuietRows DEF Quiet, NoCall
  <2>5. QED
    BY <1>1, <2>3, <2>4 DEF Effect
<1>6. CASE UNCHANGED plan /\ Step(r, "fail")
  BY <1>1, <1>6, NoNewSender, UnchangedQuiet, AllQuiet
<1>7. QED
  BY <1>1, <1>5, <1>6 DEF WBarrier

LEMMA ClaimEffect ==
    ASSUME TypeInv, NEW r \in Runs, WClaim(r)
    PROVE  Effect
<1>0. PICK p : p = run[r].plan
  OBVIOUS
<1>1. p = run[r].plan /\ p \in Plans /\ PlansTyped /\ UNCHANGED sent
  BY <1>0, BusyRun DEF WClaim, At, TypeInv
<1>2. \A q \in Plans : Sending(q)' \subseteq Sending(q)
  BY NoNewSender DEF WClaim
<1>3. CASE MayClaim(p, run[r].key)
  <2>1. ClaimedRow(p) \in PlanRow /\ plan[p] \in PlanRow /\ SetPlan(p, ClaimedRow(p))
    BY <1>1, <1>3, WorkerRowsTyped DEF PlansTyped, WClaim
  <2>2. /\ ClaimedRow(p).lifecycleState = "EXECUTING"
        /\ ClaimedRow(p).approvedByRequestId = plan[p].approvedByRequestId
    BY <2>1 DEF ClaimedRow, PlanRow
  <2>3. Advances(p)
    <3>1. /\ plan'[p].lifecycleState = "EXECUTING"
          /\ plan'[p].approvedByRequestId = plan[p].approvedByRequestId
      BY <1>1, <2>1, <2>2, SetPlanWrites
    <3>2. NoCall(p)
      BY <1>1, <1>2 DEF NoCall
    <3>3. QED
      BY <1>3, <3>1, <3>2 DEF Advances, MayClaim
  <2>4. \A q \in Plans \ {p} : Quiet(q)
    BY <1>1, <1>2, <2>1, SetPlanWrites, QuietRows DEF Quiet, NoCall
  <2>5. QED
    BY <1>1, <2>3, <2>4 DEF Effect
<1>4. CASE ~MayClaim(p, run[r].key)
  BY <1>1, <1>2, <1>4, UnchangedQuiet, AllQuiet DEF WClaim
<1>5. QED
  BY <1>3, <1>4

\* Every other step of a job run is quiet.
LEMMA WorkerStepEffect ==
    ASSUME TypeInv, NEW r \in Runs, WorkerStep(r)
    PROVE  Effect
<1>0. PICK p : p = run[r].plan
  OBVIOUS
<1>1. CASE WSend(r) \/ WBarrier(r) \/ WClaim(r)
  BY <1>1, SendEffect, BarrierEffect, ClaimEffect
<1>2. CASE WLoad(r)
  <2>1. \A q \in Plans : Sending(q)' \subseteq Sending(q)
    <3>1. CASE \E v \in {"block", "fail", "schedule"} : Step(r, v)
      BY <3>1, NoNewSender
    <3>2. CASE Return(r)
      BY <3>2, NoNewSender
    <3>3. ASSUME run' = [run EXCEPT ![r] = [@ EXCEPT !.pc = "claim",
                            !.content = plan[p].content,
                            !.approver = BoundApproval(p).approvedById,
                            !.seen = BoundApproval(p).fingerprint]]
          PROVE  \A q \in Plans : Sending(q)' \subseteq Sending(q)
      <4>1. run \in [Runs -> JobRun]
        BY DEF TypeInv, RunsTyped
      <4>2. run'[r].pc = "claim" /\ \A s \in Runs \ {r} : run'[s] = run[s]
        BY <3>3, <4>1 DEF JobRun
      <4>3. QED
        BY <4>2 DEF Sending
    <3>4. QED
      BY <1>0, <1>2, <3>1, <3>2, <3>3 DEF WLoad
  <2>2. QED
    BY <1>2, <2>1, UnchangedQuiet, AllQuiet DEF WLoad
<1>3. CASE /\ WorkerStep(r)
           /\ ~WSend(r) /\ ~WBarrier(r) /\ ~WClaim(r) /\ ~WLoad(r)
  <2>1. /\ p = run[r].plan /\ p \in Plans /\ PlansTyped
        /\ run[r] \in JobRun /\ RunPoints(run[r]) /\ UNCHANGED sent
    BY <1>0, <1>3, BusyRun
       DEF TypeInv, WorkerStep, At, WDup, WSchedule, WSimulated, WPreflight,
           WRecord, WVerify, WConfirm, WConfirmNoop, WPersist, WFail, WBlock
  <2>2. \A q \in Plans : Sending(q)' \subseteq Sending(q)
    BY <1>3, NoNewSender
       DEF WorkerStep, WDup, WSchedule, WSimulated, WPreflight, WRecord, WVerify,
           WConfirm, WConfirmNoop, WPersist, WFail, WBlock
  <2>3. plan[p] \in PlanRow
    BY <2>1 DEF PlansTyped
  <2>4. ASSUME NEW row \in PlanRow, QuietRow(p, row), SetPlan(p, row)
        PROVE  Effect
    BY <2>1, <2>2, <2>4, SetQuiet, AllQuiet
  <2>5. CASE UNCHANGED plan
    BY <2>1, <2>2, <2>5, UnchangedQuiet, AllQuiet
  <2>6. CASE WSchedule(r)
    <3>1. plan' = [plan EXCEPT ![p] = Scheduled(plan[p])]
      BY <2>1, <2>6 DEF WSchedule
    <3>2. \A q \in Plans : QuietRow(q, plan'[q])
      BY <2>1, <3>1, QuietRows DEF PlansTyped
    <3>3. QED
      BY <2>1, <2>2, <3>2, AllQuiet
  <2>7. CASE WSimulated(r)
    BY <2>1, <2>4, <2>7, WorkerRowsTyped, QuietRows DEF WSimulated
  <2>8. CASE WRecord(r)
    BY <2>3, <2>1, <2>4, <2>5, <2>8, QuietRows DEF WRecord
  <2>9. CASE WConfirm(r)
    BY <2>1, <2>4, <2>5, <2>9, WorkerRowsTyped, QuietRows DEF WConfirm
  <2>10. CASE WConfirmNoop(r)
    BY <2>1, <2>4, <2>5, <2>10, WorkerRowsTyped, QuietRows DEF WConfirmNoop
  <2>11. CASE WPersist(r)
    <3>1. run[r].verdict \in {"CONFIRMED_FAILED", "OUTCOME_UNKNOWN"}
      BY <2>1, <2>11 DEF WPersist, At, RunPoints, JobRun
    <3>2. QED
      BY <2>1, <2>4, <2>5, <2>11, <3>1, WorkerRowsTyped, QuietRows DEF WPersist
  <2>12. CASE WFail(r)
    BY <2>1, <2>4, <2>12, WorkerRowsTyped, QuietRows DEF WFail
  <2>13. CASE WBlock(r)
    <3>1. SetPlan(p, BlockedRow(p))
      BY <2>1, <2>13 DEF WBlock, BlockedRow
    <3>2. QED
      BY <2>1, <2>4, <3>1, ApiRowsTyped, QuietRows
  <2>14. CASE WDup(r) \/ WPreflight(r) \/ WVerify(r)
    BY <2>5, <2>14 DEF WDup, WPreflight, WVerify
  <2>15. QED
    BY <1>3, <2>6, <2>7, <2>8, <2>9, <2>10, <2>11, <2>12, <2>13, <2>14 DEF WorkerStep
<1>4. QED
  BY <1>1, <1>2, <1>3

LEMMA WorkerEffect ==
    ASSUME TypeInv, WorkerNext
    PROVE  Effect
<1>1. ASSUME NEW r \in Runs, WorkerStep(r)
      PROVE  Effect
  BY <1>1, WorkerStepEffect
<1>2. ASSUME NEW r \in Runs, RunCrash(r) \/ RunThrows(r)
      PROVE  Effect
  BY <1>2, NoNewSender, UnchangedQuiet, AllQuiet DEF RunCrash, RunThrows
<1>3. ASSUME NEW r \in Runs, NEW k \in Keys, Deliver(r, k)
      PROVE  Effect
  <2>1. run' = [run EXCEPT ![r] = [NoRun EXCEPT !.pc = "dup", !.plan = jobs[k].plan, !.key = k]]
    BY <1>3 DEF Deliver
  <2>2. run'[r].pc = "dup" /\ \A s \in Runs \ {r} : run'[s] = run[s]
    BY <2>1 DEF TypeInv, RunsTyped, NoRun
  <2>3. \A q \in Plans : Sending(q)' \subseteq Sending(q)
    BY <2>2 DEF Sending
  <2>4. QED
    BY <1>3, <2>3, UnchangedQuiet, AllQuiet DEF Deliver
<1>4. ASSUME NEW k \in Keys, Stall(k) \/ Forget(k)
      PROVE  Effect
  BY <1>4, UnchangedQuiet, AllQuiet DEF Stall, Forget
<1>5. QED
  BY <1>1, <1>2, <1>3, <1>4 DEF WorkerNext

LEMMA ReconciliationEffect ==
    ASSUME TypeInv, ReconciliationNext
    PROVE  Effect
<1>1. UNCHANGED <<run, sent>>
  BY DEF ReconciliationNext, ReconcilerStep, RecPick, RecClaim, RecObserve, RecPersist, RecCrash
<1>2. CASE UNCHANGED plan
  BY <1>1, <1>2, UnchangedQuiet, AllQuiet
<1>3. ASSUME NEW c \in Reconcilers, rec[c].pc # "idle"
      PROVE  rec[c] \in ReconcilerRun /\ ReconcilerPoints(rec[c]) /\ rec[c].plan \in Plans
  BY <1>3 DEF TypeInv, ReconcilersTyped, ReconcilerPoints
<1>4. ASSUME NEW c \in Reconcilers, RecClaim(c), MayReconcile(c)
      PROVE  Effect
  <2>0. PICK p : p = rec[c].plan
    OBVIOUS
  <2>1. p \in Plans /\ plan[p].attemptCount < MaxAttempts /\ SetPlan(p, ReconcilingRow(p))
    BY <1>3, <1>4, <2>0 DEF RecClaim, RecAt, ReconcilerPoints, MayReconcile
  <2>2. QED
    BY <1>1, <2>1, ReconcilerRowsTyped, QuietRows, SetQuiet, UnchangedQuiet, AllQuiet
       DEF TypeInv
<1>5. ASSUME NEW c \in Reconcilers, RecPersist(c), MayResolve(c)
      PROVE  Effect
  <2>0. PICK p : p = rec[c].plan
    OBVIOUS
  <2> DEFINE v == rec[c].verdict
  <2>1. /\ p \in Plans /\ SetPlan(p, ResolvedRow(p, v))
        /\ v \in {"NOT_ATTEMPTED", "CONFIRMED_SUCCEEDED", "RETRY", "MANUAL_REVIEW_REQUIRED"}
    BY <1>3, <1>5, <2>0 DEF RecPersist, RecAt, ReconcilerPoints, ReconcilerRun
  <2>2. QED
    BY <1>1, <2>1, ReconcilerRowsTyped, QuietRows, SetQuiet, UnchangedQuiet, AllQuiet
       DEF TypeInv
<1>6. QED
  BY <1>2, <1>4, <1>5
     DEF ReconciliationNext, ReconcilerStep, RecPick, RecClaim, RecObserve, RecPersist, RecCrash

\* Whatever step is taken, it has one of the effects above.
LEMMA StepEffect ==
    ASSUME TypeInv, [Next]_vars
    PROVE  Effect
<1>1. CASE UNCHANGED <<plan, run, sent>>
  BY <1>1, UnchangedQuiet, AllQuiet
<1>2. ASSUME NEW p \in Plans, Lapse(p) \/ Drift(p)
      PROVE  UNCHANGED <<plan, run, sent>>
  BY <1>2 DEF Lapse, Drift
<1>3. QED
  BY <1>1, <1>2, ApiEffect, RemediationEffect, WorkerEffect, ReconciliationEffect
     DEF Next, vars

-----------------------------------------------------------------------------
(* Once is inductive.                                                      *)

LEMMA InitOnce == Init => OnceInv
<1> SUFFICES ASSUME Init PROVE OnceInv
  OBVIOUS
<1>1. ASSUME NEW p \in Plans
      PROVE  Once(p)
  <2>1. plan[p].lifecycleState = "RECOMMENDED"
    BY DEF Init, Drafted
  <2>2. Sending(p) = {}
    BY DEF Init, Sending, NoRun
  <2>3. sent[p] = <<>>
    BY DEF Init
  <2>4. QED
    BY <2>1, <2>2, <2>3 DEF Once, Spent, Underway
<1>2. QED
  BY <1>1, InitTyped DEF OnceInv

\* A quiet step keeps what holds of a plan.
LEMMA QuietKeepsOnce ==
    ASSUME NEW p \in Plans, Once(p), Quiet(p)
    PROVE  Once(p)'
<1>1. plan'[p].lifecycleState \in Underway => plan'[p].approvedByRequestId # 0
  BY DEF Once, Quiet, QuietRow
<1>2. Spent(p)' => Spent(p)
  BY DEF Quiet, NoCall, Spent
<1>3. Spent(p)' => /\ plan'[p].approvedByRequestId # 0
                   /\ plan'[p].lifecycleState \notin {"APPROVED", "QUEUED"}
                   /\ ~MayAttempt(p)'
  BY <1>2 DEF Once, Quiet, QuietRow, Underway, MayAttempt
<1>4. Sending(p)' # {} => sent'[p] = <<>> /\ \E r \in Runs : Sending(p)' = {r}
  BY DEF Once, Quiet, NoCall
<1>5. Len(sent'[p]) <= 1
  BY DEF Once, Quiet, NoCall
<1>6. QED
  BY <1>1, <1>3, <1>4, <1>5 DEF Once

LEMMA NextOnce == OnceInv /\ [Next]_vars => OnceInv'
<1> SUFFICES ASSUME OnceInv, [Next]_vars PROVE OnceInv'
  OBVIOUS
<1>1. TypeInv /\ TypeInv' /\ Effect
  BY NextTyped, StepEffect DEF OnceInv
<1>2. ASSUME NEW p \in Plans, Approves(p)
      PROVE  Once(p)'
  \* Not bound, hence not spent, and no run is on its way to the call.
  <2>1. sent[p] = <<>> /\ Sending(p) = {}
    BY <1>2 DEF OnceInv, Once, Spent, Approves
  <2>2. sent'[p] = <<>> /\ Sending(p)' = {}
    BY <1>2, <2>1 DEF Approves, NoCall
  <2>3. plan'[p].approvedByRequestId # 0
    BY <1>2, BoundsAssumption DEF Approves, Approvals
  <2>4. QED
    BY <2>2, <2>3 DEF Once, Spent
<1>3. ASSUME NEW p \in Plans, Advances(p)
      PROVE  Once(p)'
  \* Approved or queued, hence bound and not spent.
  <2>1. sent[p] = <<>> /\ Sending(p) = {} /\ plan[p].approvedByRequestId # 0
    BY <1>3 DEF OnceInv, Once, Spent, Advances, Underway
  <2>2. sent'[p] = <<>> /\ Sending(p)' = {} /\ plan'[p].approvedByRequestId # 0
    BY <1>3, <2>1 DEF Advances, NoCall
  <2>3. QED
    BY <2>2 DEF Once, Spent
<1>4. ASSUME NEW p \in Plans, Attempts(p)
      PROVE  Once(p)'
  \* Not spent before; afterwards the barrier is down.
  <2>1. sent[p] = <<>> /\ Sending(p) = {} /\ plan[p].approvedByRequestId # 0
    BY <1>4 DEF OnceInv, Once, Spent, Attempts, MayAttempt, Underway
  <2>2. /\ sent'[p] = <<>> /\ plan'[p].approvedByRequestId # 0
        /\ plan'[p].lifecycleState \notin {"APPROVED", "QUEUED"}
        /\ ~MayAttempt(p)'
    BY <1>4, <2>1 DEF Attempts, MayAttempt
  <2>3. \A r \in Runs : Sending(p)' \subseteq {r} /\ Sending(p)' # {} => Sending(p)' = {r}
    OBVIOUS
  <2>4. Sending(p)' # {} => \E r \in Runs : Sending(p)' = {r}
    BY <1>4, <2>1, <2>3 DEF Attempts
  <2>5. QED
    BY <2>2, <2>4 DEF Once
<1>5. ASSUME NEW p \in Plans, Issues(p)
      PROVE  Once(p)'
  \* The only run on its way to the call makes the first one.
  <2>1. PICK r \in Sending(p) : Sending(p)' = Sending(p) \ {r}
    BY <1>5 DEF Issues
  <2>2. sent[p] = <<>> /\ Sending(p) = {r}
    BY <1>5, <2>1 DEF OnceInv, Once
  <2>3. Sending(p)' = {} /\ Spent(p)
    BY <2>1, <2>2 DEF Spent
  <2>4. Len(sent'[p]) = 1
    BY <1>5, <2>2 DEF Issues
  <2>5. plan'[p] = plan[p]
    BY <1>5 DEF Issues
  <2>6. QED
    BY <2>3, <2>4, <2>5 DEF OnceInv, Once, MayAttempt
<1>6. \A p \in Plans : Once(p)'
  BY <1>1, <1>2, <1>3, <1>4, <1>5, QuietKeepsOnce DEF Effect, OnceInv
<1>7. QED
  BY <1>1, <1>6 DEF OnceInv

\* A plan that is approved, queued or executing is bound to an approval; once
\* a run has passed the barrier the plan can never be approved, queued or
\* attempted again; and one run at most is between the barrier and the call.
THEOREM OnceInvariance == Spec => []OnceInv
<1>1. QED
  BY InitOnce, NextOnce, PTL DEF Spec

\* CreateTags is issued at most once for a plan, whatever is redelivered,
\* retried, re-simulated or re-approved, for any number of plans, requests,
\* runs, reconcilers and simulations.
THEOREM AtMostOnce == Spec => []AtMostOneMutation
<1>1. OnceInv => AtMostOneMutation
  BY DEF OnceInv, Once, AtMostOneMutation
<1>2. QED
  BY <1>1, OnceInvariance, PTL

-----------------------------------------------------------------------------
(* The binding and the refinement.                                         *)

\* The approval a plan is bound to never changes: re-simulation, further
\* approval requests and the decisions of both workflows leave it alone.
THEOREM BindingIsWriteOnce == Spec => BindingWriteOnce
<1> DEFINE Kept == \A p \in Plans :
                     plan[p].approvedByRequestId # 0 =>
                        plan'[p].approvedByRequestId = plan[p].approvedByRequestId
<1>1. TypeInv /\ [Next]_vars => Kept
  <2> SUFFICES ASSUME TypeInv, [Next]_vars PROVE Kept
    OBVIOUS
  <2>1. Effect
    BY StepEffect
  <2>2. QED
    BY <2>1 DEF Effect, Quiet, QuietRow, Approves, Advances, Attempts, Issues
<1>2. TypeInv /\ [Next]_vars => [Kept]_vars
  BY <1>1
<1>3. QED
  BY <1>2, TypeInvariance, PTL DEF Spec, BindingWriteOnce

\* GovernedChange implements ProviderPromise: a decision that binds the plan
\* is Authorize, the call is Call, and every other step changes neither.
THEOREM Refinement == Spec => PromiseKept
<1>1. Init => Promise!Init
  BY DEF Init, Drafted, Promise!Init
<1>2. OnceInv /\ OnceInv' /\ [Next]_vars => [Promise!Next]_(Promise!vars)
  <2> SUFFICES ASSUME OnceInv, OnceInv', [Next]_vars
               PROVE  [Promise!Next]_(Promise!vars)
    OBVIOUS
  <2> DEFINE bound(p)  == plan[p].approvedByRequestId
             bound1(p) == plan'[p].approvedByRequestId
             still(p)  == bound1(p) = bound(p) /\ sent'[p] = sent[p]
  <2>1. Effect
    BY StepEffect DEF OnceInv
  <2>2. \A q \in Plans : Quiet(q) => still(q)
    BY DEF Quiet, QuietRow, NoCall
  <2>3. CASE \A q \in Plans : still(q)
    BY <2>3 DEF Promise!vars
  <2>4. ASSUME NEW p \in Plans, \A q \in Plans \ {p} : still(q), Approves(p)
        PROVE  Promise!Authorize(p)
    <3>1. bound(p) = 0 /\ bound1(p) \in 1..MaxApprovals /\ sent'[p] = sent[p]
      BY <2>4 DEF Approves, NoCall, Approvals
    <3>2. QED
      BY <2>4, <3>1 DEF Promise!Authorize
  <2>5. ASSUME NEW p \in Plans, \A q \in Plans \ {p} : still(q), Issues(p)
        PROVE  Promise!Call(p)
    <3>1. sent[p] = <<>> /\ bound(p) # 0
      BY <2>5 DEF Issues, OnceInv, Once, Spent
    <3>2. Len(sent[p]) = 0 /\ Len(sent'[p]) = 1 /\ bound1(p) = bound(p)
      BY <2>5, <3>1 DEF Issues
    <3>3. QED
      BY <2>5, <3>1, <3>2 DEF Promise!Call
  <2>6. ASSUME NEW p \in Plans, Advances(p) \/ Attempts(p)
        PROVE  still(p)
    BY <2>6 DEF Advances, Attempts, NoCall
  <2>7. QED
    BY <2>1, <2>2, <2>3, <2>4, <2>5, <2>6 DEF Effect, Promise!Next
<1>3. QED
  BY <1>1, <1>2, OnceInvariance, PTL DEF Spec, PromiseKept, Promise!Spec
-----------------------------------------------------------------------------
(* Part 3, safety beyond the single call.                                 *)

Early == {"simulated", "preflight", "barrier", "verify_noop", "confirm_noop"}
Unattempted == {"null", "NOT_ATTEMPTED"}
Decided == {"APPROVED", "REJECTED"}

Working(p) == {r \in Runs : run[r].pc \in Claimed /\ run[r].plan = p}

Past(p) ==
    /\ plan[p].approvedByRequestId # 0
    /\ plan[p].lifecycleState \notin {"APPROVED", "QUEUED"}

\* EC2 was called, and the try that was answered applied nothing.
Refuted(p) == sent[p] # <<>> /\ \A c \in Calls(p) : c.applied # "last"

\* Approved by somebody else, and checked against the captured state.
Warranted(p, approver, content, key, seen) ==
    /\ ApprovedBy(p, approver, content, key)
    /\ plan[p].approvedByRequestId # 0
    /\ seen = BoundApproval(p).fingerprint
    /\ content \in 0..plan[p].content

\* What holds of a run x over plan p.
RunFits(p, x) ==
    /\ x.pc \in Claimed \cup {"claim"} => Warranted(p, x.approver, x.content, x.key, x.seen)
    /\ x.pc \in Claimed => /\ Past(p)
                           /\ x.content = plan[p].content => x.key = plan[p].idempotencyKey
    /\ x.pc \in Early => sent[p] = <<>> /\ plan[p].mutationOutcome \in Unattempted
    /\ (x.pc = "send" /\ x.content = plan[p].content)
         => plan[p].mutationOutcome \notin Unattempted
    /\ (x.pc = "persist" /\ x.verdict = "CONFIRMED_FAILED") => Refuted(p)

\* What holds of a call c for plan p.
CallFits(p, c) ==
    /\ Warranted(p, c.approver, c.content, c.key, c.seen)
    /\ c.key \in Keys
    /\ c.content = plan[p].content => /\ c.key = plan[p].idempotencyKey
                                      /\ plan[p].mutationOutcome \notin Unattempted

\* What holds of the row of plan p.
RowFits(p) ==
    /\ plan[p].mutationOutcome \notin Unattempted => Past(p)
    /\ plan[p].mutationOutcome = "CONFIRMED_FAILED" => Refuted(p)
    /\ plan[p].failure = "QUEUE_ENQUEUE_FAILED"
         => Past(p) /\ Working(p) = {} /\ sent[p] = <<>>
    /\ plan[p].approvedByRequestId # 0 => BoundApproval(p).status \in Decided

\* What holds of a request: the author approves nothing, and who holds a claim
\* knows its key.
RequestFits(q) ==
    (q.step \in {"select", "decide", "generic_select", "generic_decide"}
       /\ q.verdict = "APPROVED") => q.actor # CreatedBy[q.plan]

ClaimKnown(h) ==
    (req[h].step \in {"add", "unqueue"} /\ h \in plan[req[h].plan].readers)
        => plan[req[h].plan].idempotencyKey = req[h].key

\* What holds of a reconciliation: it is about an outcome that is open.
ReconciliationFits(c) ==
    /\ c.pc # "idle" => c.outcome \in {"ATTEMPTED", "OUTCOME_UNKNOWN", "NOT_ATTEMPTED"}
    /\ (c.pc = "persist" /\ c.verdict \in {"CONFIRMED_SUCCEEDED", "MANUAL_REVIEW_REQUIRED"})
         => c.outcome # "NOT_ATTEMPTED"

\* The decision on an approved row is in the audit trail.
Endorsed(p, a) ==
    approvals[p][a].status = "APPROVED"
        => ApprovedBy(p, approvals[p][a].approvedById,
                      approvals[p][a].hash[1], approvals[p][a].hash[2])

RunsFit == \A r \in Runs, p \in Plans : run[r].plan = p => RunFits(p, run[r])
Alone == \A p \in Plans : \A r, s \in Working(p) : r = s
CallsFit == \A p \in Plans : \A c \in Calls(p) : CallFits(p, c)
RowsFit == \A p \in Plans : RowFits(p)
RequestsFit == \A h \in Handlers : RequestFits(req[h])
ClaimsKnown == \A h \in Handlers : ClaimKnown(h)
ReconcilersFit == \A c \in Reconcilers : ReconciliationFits(rec[c])
AllEndorsed == \A p \in Plans, a \in Approvals : Endorsed(p, a)
KeysApart == \A p \in Plans : \A q \in Plans \ {p} :
                plan[p].idempotencyKey = plan[q].idempotencyKey
                    => plan[p].idempotencyKey = None

\* The inductive invariant.
SafeInv ==
    /\ OnceInv
    /\ RunsFit /\ Alone /\ CallsFit /\ RowsFit
    /\ RequestsFit /\ ClaimsKnown /\ ReconcilersFit /\ AllEndorsed /\ KeysApart

-----------------------------------------------------------------------------
(* What a step may do.                                                     *)

\* The row still is about the same change, and is not approved anew; nothing
\* is attempted, and no attempt forgotten.
SteadyRow(old, row) ==
    /\ row.approvedByRequestId = old.approvedByRequestId
    /\ row.content = old.content /\ row.idempotencyKey = old.idempotencyKey
    /\ row.lifecycleState \in {"APPROVED", "QUEUED"}
         => old.lifecycleState \in {"APPROVED", "QUEUED"}
    /\ row.failure = "QUEUE_ENQUEUE_FAILED" => old.failure = "QUEUE_ENQUEUE_FAILED"
    /\ row.mutationOutcome \in After(old.mutationOutcome)
    /\ row.mutationOutcome \in Unattempted <=> old.mutationOutcome \in Unattempted

\* ... nor a refusal reported.
KeptRow(old, row) ==
    /\ SteadyRow(old, row)
    /\ row.mutationOutcome = "CONFIRMED_FAILED" => old.mutationOutcome = "CONFIRMED_FAILED"

\* A run that no longer works on anything, and one that goes on.
Leaves(y) ==
    /\ y.pc \notin Claimed \cup {"claim"}
    /\ ~(y.pc = "persist" /\ y.verdict = "CONFIRMED_FAILED")

Continues(x, y) ==
    /\ x.pc \in Claimed /\ y.pc \in Claimed \ {"send"}
    /\ y.pc \in Early => x.pc \in Early
    /\ y.plan = x.plan /\ y.key = x.key /\ y.content = x.content
    /\ y.approver = x.approver /\ y.seen = x.seen

GoesOn(x, y) == y = x \/ Leaves(y) \/ Continues(x, y)

Routine ==
    /\ \A q \in Plans : KeptRow(plan[q], plan'[q])
    /\ \A s \in Runs : GoesOn(run[s], run'[s])
    /\ UNCHANGED sent

OtherPlans(p) == \A q \in Plans \ {p} : plan'[q] = plan[q]
OtherRuns(r) == \A s \in Runs \ {r} : run'[s] = run[s]

\* The plan is simulated: another content, with nothing attempted.
Renews(p) ==
    /\ plan'[p].approvedByRequestId = plan[p].approvedByRequestId
    /\ plan'[p].content = plan[p].content + 1
    /\ plan'[p].lifecycleState \notin {"APPROVED", "QUEUED"}
    /\ plan'[p].failure = plan[p].failure
    /\ plan'[p].mutationOutcome = "NOT_ATTEMPTED"
    /\ KeyFree(p, plan'[p].idempotencyKey)
    /\ UNCHANGED <<run, sent>>

\* The plan is queued under its key.
Queues(p) ==
    /\ plan[p].lifecycleState = "APPROVED"
    /\ plan'[p].approvedByRequestId = plan[p].approvedByRequestId
    /\ plan'[p].content = plan[p].content
    /\ plan'[p].failure = plan[p].failure
    /\ plan'[p].mutationOutcome = plan[p].mutationOutcome
    /\ KeyFree(p, plan'[p].idempotencyKey)
    /\ UNCHANGED <<run, sent>>

\* The queue has refused it.
Unqueues(p) ==
    /\ plan[p].lifecycleState = "QUEUED"
    /\ plan'[p].lifecycleState = "FAILED"
    /\ plan'[p].approvedByRequestId = plan[p].approvedByRequestId
    /\ plan'[p].content = plan[p].content
    /\ plan'[p].idempotencyKey = plan[p].idempotencyKey
    /\ plan'[p].mutationOutcome = "NOT_ATTEMPTED"
    /\ UNCHANGED <<run, sent>>

\* It is approved and bound.
Binds(p) ==
    /\ plan[p].approvedByRequestId = 0
    /\ plan'[p].approvedByRequestId \in Approvals
    /\ approvals'[p][plan'[p].approvedByRequestId].status \in Decided
    /\ plan'[p].content = plan[p].content
    /\ plan'[p].idempotencyKey = plan[p].idempotencyKey
    /\ plan'[p].failure = plan[p].failure
    /\ plan'[p].mutationOutcome = plan[p].mutationOutcome
    /\ UNCHANGED <<run, sent>>

\* A run has verified what it will claim.
Loads(p, r) ==
    /\ UNCHANGED <<plan, sent>>
    /\ run'[r].pc = "claim" /\ run'[r].plan = p
    /\ Warranted(p, run'[r].approver, run'[r].content, run'[r].key, run'[r].seen)

SameWork(x, y) ==
    /\ y.plan = x.plan /\ y.key = x.key /\ y.content = x.content
    /\ y.approver = x.approver /\ y.seen = x.seen

\* A run claims the plan.
Claims(p, r) ==
    /\ plan[p].lifecycleState \in {"APPROVED", "QUEUED"}
    /\ plan[p].mutationOutcome = "NOT_ATTEMPTED"
    /\ plan'[p].lifecycleState = "EXECUTING"
    /\ plan'[p].approvedByRequestId = plan[p].approvedByRequestId
    /\ plan'[p].content = plan[p].content
    /\ plan'[p].idempotencyKey = plan[p].idempotencyKey
    /\ plan'[p].failure = plan[p].failure
    /\ plan'[p].mutationOutcome = plan[p].mutationOutcome
    /\ run[r].pc = "claim" /\ run[r].plan = p /\ run[r].key = plan[p].idempotencyKey
    /\ run'[r].pc \in Early /\ SameWork(run[r], run'[r])
    /\ UNCHANGED sent

\* A run records the attempt.
Attempted(p, r) ==
    /\ plan[p].mutationOutcome = "NOT_ATTEMPTED"
    /\ plan'[p].mutationOutcome = "ATTEMPTED"
    /\ plan'[p].lifecycleState = "EXECUTING"
    /\ plan'[p].approvedByRequestId = plan[p].approvedByRequestId
    /\ plan'[p].content = plan[p].content
    /\ plan'[p].idempotencyKey = plan[p].idempotencyKey
    /\ plan'[p].failure = plan[p].failure
    /\ run[r].pc = "barrier" /\ run[r].plan = p
    /\ Leaves(run'[r]) \/ (run'[r].pc = "send" /\ SameWork(run[r], run'[r]))
    /\ UNCHANGED sent

\* A run calls the provider.
Sends(p, r) ==
    /\ UNCHANGED plan
    /\ run[r].pc = "send" /\ run[r].plan = p
    /\ \A q \in Plans \ {p} : sent'[q] = sent[q]
    /\ \E c \in Call :
         /\ sent'[p] = Append(sent[p], c)
         /\ c.key = run[r].key /\ c.content = run[r].content
         /\ c.approver = run[r].approver /\ c.seen = run[r].seen
         /\ \/ run'[r].pc = "record" /\ SameWork(run[r], run'[r])
            \/ run'[r].pc = "persist" /\ (run'[r].verdict = "CONFIRMED_FAILED" => c.applied # "last")
    /\ run'[r].plan = p

\* A run persists the verdict on its call.
Settles(p, r) ==
    /\ run[r].pc = "persist" /\ run[r].plan = p
    /\ SteadyRow(plan[p], plan'[p])
    /\ plan'[p].mutationOutcome = run[r].verdict
    /\ Leaves(run'[r])
    /\ UNCHANGED sent

ApiChange(p) == Renews(p) \/ Queues(p) \/ Unqueues(p) \/ Binds(p)
RunChange(p, r) == Claims(p, r) \/ Attempted(p, r) \/ Sends(p, r) \/ Settles(p, r)

Change ==
    \/ Routine
    \/ \E p \in Plans : OtherPlans(p) /\ ApiChange(p)
    \/ \E p \in Plans, r \in Runs : OtherRuns(r) /\ Loads(p, r)
    \/ \E p \in Plans, r \in Runs : OtherPlans(p) /\ OtherRuns(r) /\ RunChange(p, r)

\* Decisions stay in the audit trail, and a decided approval keeps what was
\* captured.
Filed ==
    \A p \in Plans :
        /\ decisions[p] \subseteq decisions'[p]
        /\ \A a \in Approvals :
             approvals[p][a].status \in Decided
                 => /\ approvals'[p][a].status \in Decided
                    /\ approvals'[p][a].fingerprint = approvals[p][a].fingerprint

-----------------------------------------------------------------------------
(* From those kinds of steps: what holds of a run, a call and a row is     *)
(* carried over.                                                           *)

\* A warrant stays one.
Carried(p) ==
    /\ \A u, x, k, s : Warranted(p, u, x, k, s) => Warranted(p, u, x, k, s)'
    /\ plan[p].approvedByRequestId # 0 =>
         /\ plan'[p].approvedByRequestId = plan[p].approvedByRequestId
         /\ (BoundApproval(p).status \in Decided)'

LEMMA WarrantsCarried ==
    ASSUME SafeInv, [Next]_vars, Filed, NEW p \in Plans, plan'[p].content >= plan[p].content
    PROVE  Carried(p)
<1>1. TypeInv /\ TypeInv'
  BY NextTyped DEF SafeInv, OnceInv
<1> DEFINE b == plan[p].approvedByRequestId
<1>2. b # 0 => plan'[p].approvedByRequestId = b
  BY <1>1, StepEffect DEF Effect, Quiet, QuietRow, Approves, Advances, Attempts, Issues
<1>3. b # 0 => b \in Approvals /\ approvals[p][b].status \in Decided
  <2>1. b \in 0..MaxApprovals
    BY <1>1 DEF TypeInv, PlansTyped, PlanRow
  <2>2. b # 0 => BoundApproval(p) = approvals[p][b]
    BY DEF BoundApproval
  <2>3. QED
    BY <2>1, <2>2, BoundsAssumption DEF SafeInv, RowsFit, RowFits, Approvals
<1>4. b # 0 => /\ BoundApproval(p) = approvals[p][b]
               /\ BoundApproval(p)' = approvals'[p][b]
  BY <1>2 DEF BoundApproval
<1>5. b # 0 => /\ (BoundApproval(p).status \in Decided)'
               /\ BoundApproval(p).fingerprint' = BoundApproval(p).fingerprint
  BY <1>3, <1>4 DEF Filed
<1>6. plan[p].content \in Nat /\ plan'[p].content \in Nat
  BY <1>1, BoundsAssumption DEF TypeInv, PlansTyped, PlanRow, Contents
<1>7. ASSUME NEW u, NEW x, NEW k, NEW s, Warranted(p, u, x, k, s)
      PROVE  Warranted(p, u, x, k, s)'
  <2>1. ApprovedBy(p, u, x, k)'
    BY <1>7 DEF Warranted, ApprovedBy, Filed
  <2>2. plan'[p].approvedByRequestId # 0 /\ s = BoundApproval(p).fingerprint'
    BY <1>2, <1>5, <1>7 DEF Warranted
  <2>3. x \in 0..plan'[p].content
    BY <1>6, <1>7 DEF Warranted
  <2>4. QED
    BY <2>1, <2>2, <2>3 DEF Warranted
<1>8. QED
  BY <1>2, <1>5, <1>7 DEF Carried

\* What an outcome is, it may stay.
LEMMA OutcomesStay == \A x \in Outcome : x \in After(x)
BY DEF Outcome, After, Settled

\* A run that leaves, or goes on, fits as the run it was.
LEMMA GoesOnFits ==
    ASSUME NEW p, NEW x, NEW y, GoesOn(x, y), y.plan = p, x.plan = p => RunFits(p, x)
    PROVE  RunFits(p, y)
<1>1. CASE Leaves(y)
  BY <1>1 DEF Leaves, RunFits, Claimed, Early
<1>2. CASE Continues(x, y)
  BY <1>2 DEF Continues, RunFits, Claimed, Early
<1>3. QED
  BY <1>1, <1>2 DEF GoesOn

\* A steady row changes nothing for the runs and the calls of its plan.
LEMMA SteadyCarries ==
    ASSUME NEW p \in Plans, Carried(p), SteadyRow(plan[p], plan'[p])
    PROVE  /\ Past(p) => Past(p)'
           /\ \A x : RunFits(p, x) /\ sent'[p] = sent[p] => RunFits(p, x)'
           /\ \A c : CallFits(p, c) => CallFits(p, c)'
<1>1. Past(p) => Past(p)'
  BY DEF SteadyRow, Past
<1>2. ASSUME NEW x, RunFits(p, x), sent'[p] = sent[p]
      PROVE  RunFits(p, x)'
  <2>1. x.pc \in Claimed \cup {"claim"} => Warranted(p, x.approver, x.content, x.key, x.seen)'
    BY <1>2 DEF RunFits, Carried
  <2>2. Refuted(p) => Refuted(p)'
    BY <1>2 DEF Refuted, Calls
  <2>3. QED
    BY <1>1, <1>2, <2>1, <2>2 DEF RunFits, SteadyRow
<1>3. ASSUME NEW c, CallFits(p, c)
      PROVE  CallFits(p, c)'
  <2>1. Warranted(p, c.approver, c.content, c.key, c.seen)'
    BY <1>3 DEF CallFits, Carried
  <2>2. QED
    BY <1>3, <2>1 DEF CallFits, SteadyRow
<1>4. QED
  BY <1>1, <1>2, <1>3

\* Neither does a new content: what was claimed or called is of an earlier one.
LEMMA RenewalCarries ==
    ASSUME NEW p \in Plans, Carried(p), Renews(p), plan[p].content \in Nat
    PROVE  /\ Past(p) => Past(p)'
           /\ \A x : RunFits(p, x) => RunFits(p, x)'
           /\ \A c : CallFits(p, c) => CallFits(p, c)'
<1>1. Past(p) => Past(p)'
  BY DEF Renews, Past
<1>2. \A n \in 0..plan[p].content : n # plan'[p].content
  BY DEF Renews
<1>3. ASSUME NEW x, RunFits(p, x)
      PROVE  RunFits(p, x)'
  <2>1. x.pc \in Claimed \cup {"claim"} =>
           /\ Warranted(p, x.approver, x.content, x.key, x.seen)'
           /\ x.content # plan'[p].content
    BY <1>2, <1>3 DEF RunFits, Carried, Warranted
  <2>2. Refuted(p) => Refuted(p)'
    BY DEF Refuted, Calls, Renews
  <2>3. QED
    BY <1>1, <1>3, <2>1, <2>2 DEF RunFits, Renews, Claimed, Unattempted
<1>4. ASSUME NEW c, CallFits(p, c)
      PROVE  CallFits(p, c)'
  <2>1. Warranted(p, c.approver, c.content, c.key, c.seen)' /\ c.content # plan'[p].content
    BY <1>2, <1>4 DEF CallFits, Carried, Warranted
  <2>2. QED
    BY <1>4, <2>1 DEF CallFits
<1>5. QED
  BY <1>1, <1>3, <1>4

\* A run that has not claimed its plan fits whatever becomes of the row.
LEMMA UnclaimedCarries ==
    ASSUME NEW p \in Plans, Carried(p), NEW x, x.pc \notin Claimed, RunFits(p, x),
           sent'[p] = sent[p] \/ ~Refuted(p)
    PROVE  RunFits(p, x)'
<1>1. x.pc = "claim" => Warranted(p, x.approver, x.content, x.key, x.seen)'
  BY DEF RunFits, Carried
<1>2. Refuted(p) => Refuted(p)'
  BY DEF Refuted, Calls
<1>3. QED
  BY <1>1, <1>2 DEF RunFits, Claimed, Early

\* As long as a plan is not past, nothing works on it or has called for it.
LEMMA NotPast ==
    ASSUME SafeInv, NEW p \in Plans, ~Past(p)
    PROVE  /\ Working(p) = {} /\ sent[p] = <<>> /\ Sending(p) = {}
           /\ plan[p].mutationOutcome \in Unattempted
           /\ plan[p].failure # "QUEUE_ENQUEUE_FAILED"
           /\ \A r \in Runs : run[r].plan = p => run[r].pc \notin Claimed
<1>1. \A r \in Runs : run[r].plan = p => run[r].pc \notin Claimed
  BY DEF SafeInv, RunsFit, RunFits
<1>2. sent[p] = <<>> /\ Sending(p) = {}
  BY DEF SafeInv, OnceInv, Once, Spent, Past
<1>3. QED
  BY <1>1, <1>2 DEF Working, SafeInv, RowsFit, RowFits

-----------------------------------------------------------------------------
(* From those kinds of steps: SafeInv is kept.                             *)

Works == RunsFit /\ Alone /\ CallsFit /\ RowsFit

\* Whatever record the run has become.
LEMMA RunFitsNext ==
    ASSUME NEW p \in Plans, NEW r \in Runs, NEW x, x = run'[r], RunFits(p, x)'
    PROVE  RunFits(p, run[r])'
BY DEF RunFits, Warranted, ApprovedBy

\* The pieces of Works, one step later.
LEMMA WorksNext ==
    ASSUME \A r \in Runs, p \in Plans : run'[r].plan = p => RunFits(p, run[r])',
           \A p \in Plans : \A r, s \in Working(p)' : r = s,
           \A p \in Plans : \A c \in Calls(p)' : CallFits(p, c)',
           \A p \in Plans : RowFits(p)'
    PROVE  Works'
BY DEF Works, RunsFit, Alone, CallsFit, RowsFit

\* What a row says, when it is steady and no run is new on its plan.
LEMMA RowCarries ==
    ASSUME SafeInv, NEW p \in Plans, Carried(p),
           SteadyRow(plan[p], plan'[p]) \/ Renews(p),
           plan'[p].mutationOutcome = "CONFIRMED_FAILED"
              => plan[p].mutationOutcome = "CONFIRMED_FAILED" \/ Refuted(p),
           sent'[p] = sent[p] \/ ~Past(p), Working(p)' \subseteq Working(p)
    PROVE  RowFits(p)'
<1>1. RowFits(p)
  BY DEF SafeInv, RowsFit
<1>2. Past(p) => Past(p)' /\ sent'[p] = sent[p]
  BY SteadyCarries DEF Renews, Past
<1>3. plan'[p].mutationOutcome \notin Unattempted => plan[p].mutationOutcome \notin Unattempted
  BY DEF SteadyRow, Renews, Unattempted
<1>4. plan'[p].mutationOutcome = "CONFIRMED_FAILED" => Refuted(p)'
  <2>1. ASSUME plan'[p].mutationOutcome = "CONFIRMED_FAILED"
        PROVE  Refuted(p) /\ Past(p)
    BY <1>1, <1>3, <2>1 DEF RowFits, Unattempted
  <2>2. QED
    BY <1>2, <2>1 DEF Refuted, Calls
<1>5. plan'[p].failure = "QUEUE_ENQUEUE_FAILED" => plan[p].failure = "QUEUE_ENQUEUE_FAILED"
  BY DEF SteadyRow, Renews
<1>6. plan'[p].approvedByRequestId # 0 => (BoundApproval(p).status \in Decided)'
  BY DEF Carried, SteadyRow, Renews
<1>7. QED
  BY <1>1, <1>2, <1>3, <1>4, <1>5, <1>6 DEF RowFits

LEMMA RoutineKeeps ==
    ASSUME SafeInv, \A p \in Plans : Carried(p), Routine
    PROVE  Works'
<1>1. ASSUME NEW r \in Runs, NEW p \in Plans, run'[r].plan = p
      PROVE  RunFits(p, run[r])'
  <2>1. RunFits(p, run'[r])
    BY <1>1, GoesOnFits DEF Routine, SafeInv, RunsFit
  <2>2. SteadyRow(plan[p], plan'[p]) /\ sent'[p] = sent[p] /\ Carried(p)
    BY DEF Routine, KeptRow
  <2>3. PICK x : x = run'[r]
    OBVIOUS
  <2>4. RunFits(p, x)'
    BY <2>1, <2>2, <2>3, SteadyCarries
  <2>5. QED
    BY <2>3, <2>4, RunFitsNext
<1>2. \A p \in Plans : Working(p)' \subseteq Working(p)
  BY DEF Routine, GoesOn, Leaves, Continues, Working
<1>3. \A p \in Plans : \A r, s \in Working(p)' : r = s
  BY <1>2 DEF SafeInv, Alone
<1>4. ASSUME NEW p \in Plans, NEW c \in Calls(p)'
      PROVE  CallFits(p, c)'
  <2>1. c \in Calls(p)
    BY <1>4 DEF Routine, Calls
  <2>2. CallFits(p, c)
    BY <2>1 DEF SafeInv, CallsFit
  <2>3. QED
    BY <2>2, SteadyCarries DEF Routine, KeptRow
<1>5. ASSUME NEW p \in Plans
      PROVE  RowFits(p)'
  BY <1>2, RowCarries DEF Routine, KeptRow
<1>6. QED
  BY <1>1, <1>3, <1>4, <1>5, WorksNext

\* A change of one plan, or of a run on it, leaves the others as they were.
LEMMA OthersKeep ==
    ASSUME SafeInv, NEW p \in Plans, \A q \in Plans : Carried(q), OtherPlans(p),
           \A q \in Plans \ {p} : sent'[q] = sent[q],
           \A r \in Runs : GoesOn(run[r], run'[r]) \/ run'[r].plan = p
    PROVE  \A q \in Plans \ {p} :
              /\ \A r \in Runs : run'[r].plan = q => RunFits(q, run[r])'
              /\ \A r, s \in Working(q)' : r = s
              /\ \A c \in Calls(q)' : CallFits(q, c)'
              /\ RowFits(q)'
<1> SUFFICES ASSUME NEW q \in Plans \ {p}
             PROVE  /\ \A r \in Runs : run'[r].plan = q => RunFits(q, run[r])'
                    /\ \A r, s \in Working(q)' : r = s
                    /\ \A c \in Calls(q)' : CallFits(q, c)'
                    /\ RowFits(q)'
  OBVIOUS
<1>1. plan'[q] = plan[q] /\ sent'[q] = sent[q] /\ Carried(q) /\ Working(q)' \subseteq Working(q)
  BY DEF OtherPlans, Working, GoesOn, Leaves, Continues
<1>2. SteadyRow(plan[q], plan'[q])
  BY <1>1, OutcomesStay DEF SteadyRow, SafeInv, OnceInv, TypeInv, PlansTyped, PlanRow
<1>3. ASSUME NEW r \in Runs, run'[r].plan = q
      PROVE  RunFits(q, run[r])'
  <2>1. PICK x : x = run'[r]
    OBVIOUS
  <2>2. RunFits(q, x)
    BY <1>3, <2>1, GoesOnFits DEF SafeInv, RunsFit
  <2>3. RunFits(q, x)'
    BY <1>1, <1>2, <2>2, SteadyCarries
  <2>4. QED
    BY <2>1, <2>3, RunFitsNext
<1>4. \A r, s \in Working(q)' : r = s
  BY <1>1 DEF SafeInv, Alone
<1>5. ASSUME NEW c \in Calls(q)'
      PROVE  CallFits(q, c)'
  <2>1. c \in Calls(q)
    BY <1>1, <1>5 DEF Calls
  <2>2. QED
    BY <1>1, <1>2, <2>1, SteadyCarries DEF SafeInv, CallsFit
<1>6. RowFits(q)'
  BY <1>1, <1>2, RowCarries
<1>7. QED
  BY <1>3, <1>4, <1>5, <1>6

\* What holds of the plan itself, and with the others of all.
LEMMA OnePlan ==
    ASSUME SafeInv, NEW p \in Plans, \A q \in Plans : Carried(q), OtherPlans(p),
           \A q \in Plans \ {p} : sent'[q] = sent[q],
           \A r \in Runs : GoesOn(run[r], run'[r]) \/ run'[r].plan = p,
           \A r \in Runs : run'[r].plan = p => RunFits(p, run[r])',
           \A r, s \in Working(p)' : r = s,
           \A c \in Calls(p)' : CallFits(p, c)',
           RowFits(p)'
    PROVE  Works'
BY OthersKeep, WorksNext

\* The changes that the API makes.
LEMMA ApiChangeKeeps ==
    ASSUME SafeInv, \A q \in Plans : Carried(q), NEW p \in Plans, OtherPlans(p), ApiChange(p)
    PROVE  Works'
<1>0. UNCHANGED <<run, sent>> /\ Working(p)' = Working(p) /\ Carried(p)
  BY DEF ApiChange, Renews, Queues, Unqueues, Binds, Working
<1>1. ASSUME \A r \in Runs : run[r].plan = p => RunFits(p, run[r])',
             \A c \in Calls(p) : CallFits(p, c)', RowFits(p)'
      PROVE  Works'
  <2>1. \A r \in Runs : GoesOn(run[r], run'[r])
    BY <1>0 DEF GoesOn
  <2>2. \A r, s \in Working(p)' : r = s
    BY <1>0 DEF SafeInv, Alone
  <2>3. Calls(p)' = Calls(p)
    BY <1>0 DEF Calls
  <2>4. QED
    BY <1>0, <1>1, <2>1, <2>2, <2>3, OnePlan
<1>2. CASE Renews(p)
  <2>1. plan[p].content \in Nat
    BY BoundsAssumption DEF SafeInv, OnceInv, TypeInv, PlansTyped, PlanRow, Contents
  <2>2. ASSUME NEW r \in Runs, run[r].plan = p
        PROVE  RunFits(p, run[r])'
    <3>1. PICK x : x = run[r]
      OBVIOUS
    <3>2. RunFits(p, x)'
      BY <1>0, <1>2, <2>1, <2>2, <3>1, RenewalCarries DEF SafeInv, RunsFit
    <3>3. QED
      BY <1>0, <3>1, <3>2, RunFitsNext
  <2>3. \A c \in Calls(p) : CallFits(p, c)'
    BY <1>0, <1>2, <2>1, RenewalCarries DEF SafeInv, CallsFit
  <2>4. RowFits(p)'
    BY <1>0, <1>2, RowCarries DEF Renews
  <2>5. QED
    BY <1>1, <2>2, <2>3, <2>4
<1>3. CASE Queues(p) \/ Unqueues(p) \/ Binds(p)
  <2>1. ~Past(p)
    BY <1>3 DEF Queues, Unqueues, Binds, Past
  <2>2. ASSUME NEW r \in Runs, run[r].plan = p
        PROVE  RunFits(p, run[r])'
    <3>1. PICK x : x = run[r]
      OBVIOUS
    <3>2. RunFits(p, x)'
      BY <1>0, <2>1, <2>2, <3>1, NotPast, UnclaimedCarries DEF SafeInv, RunsFit
    <3>3. QED
      BY <1>0, <3>1, <3>2, RunFitsNext
  <2>3. Calls(p) = {}
    BY <2>1, NotPast DEF Calls
  <2>4. RowFits(p)'
    <3>1. plan'[p].mutationOutcome \in Unattempted
      BY <1>3, <2>1, NotPast DEF Queues, Unqueues, Binds, Unattempted
    <3>2. plan'[p].failure = "QUEUE_ENQUEUE_FAILED" => Unqueues(p)
      BY <1>3, <2>1, NotPast DEF Queues, Binds
    <3>3. Unqueues(p) => Past(p)' /\ Working(p)' = {} /\ sent'[p] = <<>>
      <4>1. Unqueues(p) => plan[p].approvedByRequestId # 0
        BY DEF Unqueues, SafeInv, OnceInv, Once, Underway
      <4>2. QED
        BY <1>0, <2>1, <4>1, NotPast DEF Unqueues, Past
    <3>4. plan'[p].approvedByRequestId # 0 => (BoundApproval(p).status \in Decided)'
      BY <1>3 DEF Queues, Unqueues, Binds, Carried, BoundApproval
    <3>5. QED
      BY <3>1, <3>2, <3>3, <3>4 DEF RowFits, Unattempted
  <2>5. QED
    BY <1>1, <2>2, <2>3, <2>4
<1>4. QED
  BY <1>2, <1>3 DEF ApiChange

\* A run that has loaded what it will claim.
LEMMA LoadKeeps ==
    ASSUME SafeInv, \A q \in Plans : Carried(q), NEW p \in Plans, NEW r \in Runs,
           OtherRuns(r), Loads(p, r)
    PROVE  Works'
<1>1. /\ Carried(p) /\ OtherPlans(p) /\ SteadyRow(plan[p], plan'[p])
      /\ \A q \in Plans : sent'[q] = sent[q]
  BY OutcomesStay
     DEF Loads, OtherPlans, SteadyRow, SafeInv, OnceInv, TypeInv, PlansTyped, PlanRow
<1>2. \A s \in Runs : GoesOn(run[s], run'[s]) \/ run'[s].plan = p
  BY DEF OtherRuns, Loads, GoesOn
<1>3. ASSUME NEW s \in Runs, run'[s].plan = p
      PROVE  RunFits(p, run[s])'
  <2>1. PICK x : x = run'[s]
    OBVIOUS
  <2>2. RunFits(p, x)
    <3>1. CASE s = r
      BY <2>1, <3>1 DEF Loads, RunFits, Claimed, Early
    <3>2. CASE s # r
      BY <1>3, <2>1, <3>2 DEF OtherRuns, SafeInv, RunsFit
    <3>3. QED
      BY <3>1, <3>2
  <2>3. QED
    BY <1>1, <2>1, <2>2, SteadyCarries, RunFitsNext
<1>4. Working(p)' \subseteq Working(p)
  BY DEF Working, OtherRuns, Loads, Claimed
<1>5. \A c \in Calls(p)' : CallFits(p, c)'
  <2>1. Calls(p)' = Calls(p)
    BY <1>1 DEF Calls
  <2>2. QED
    BY <1>1, <2>1, SteadyCarries DEF SafeInv, CallsFit
<1>6. RowFits(p)'
  BY <1>1, <1>4, RowCarries DEF Loads
<1>7. QED
  BY <1>1, <1>2, <1>3, <1>4, <1>5, <1>6, OnePlan DEF SafeInv, Alone

\* A run that claims its plan: nothing worked on it, or had called for it.
LEMMA ClaimKeeps ==
    ASSUME SafeInv, \A q \in Plans : Carried(q), NEW p \in Plans, NEW r \in Runs,
           OtherPlans(p), OtherRuns(r), Claims(p, r)
    PROVE  Works'
<1>1. /\ ~Past(p) /\ Carried(p) /\ run'[r].plan = p /\ \A q \in Plans : sent'[q] = sent[q]
  BY DEF Claims, Past, SameWork
<1>2. /\ Working(p) = {} /\ sent[p] = <<>>
      /\ plan[p].mutationOutcome \in Unattempted /\ plan[p].failure # "QUEUE_ENQUEUE_FAILED"
      /\ \A s \in Runs : run[s].plan = p => run[s].pc \notin Claimed
  BY <1>1, NotPast
<1>3. plan[p].approvedByRequestId # 0
  BY DEF Claims, SafeInv, OnceInv, Once, Underway
<1>4. Past(p)'
  BY <1>3 DEF Claims, Past
<1>5. ASSUME NEW s \in Runs, run'[s].plan = p
      PROVE  RunFits(p, run[s])'
  <2>1. PICK x : x = run'[s]
    OBVIOUS
  <2>2. CASE s = r
    <3>1. x.pc \in Early
      BY <2>1, <2>2 DEF Claims
    <3>2. Warranted(p, x.approver, x.content, x.key, x.seen)
      BY <2>1, <2>2 DEF Claims, SameWork, SafeInv, RunsFit, RunFits
    <3>3. Warranted(p, x.approver, x.content, x.key, x.seen)'
      BY <1>1, <3>2 DEF Carried
    <3>4. x.key = plan'[p].idempotencyKey
      BY <2>1, <2>2 DEF Claims, SameWork
    <3>5. sent'[p] = <<>> /\ plan'[p].mutationOutcome \in Unattempted
      BY <1>2 DEF Claims
    <3>6. RunFits(p, x)'
      BY <1>4, <3>1, <3>3, <3>4, <3>5 DEF RunFits, Early
    <3>7. QED
      BY <2>1, <2>2, <3>6, RunFitsNext
  <2>3. CASE s # r
    <3>1. RunFits(p, x) /\ x.pc \notin Claimed
      BY <1>2, <1>5, <2>1, <2>3 DEF OtherRuns, SafeInv, RunsFit
    <3>2. RunFits(p, x)'
      BY <1>1, <3>1, UnclaimedCarries
    <3>3. QED
      BY <2>1, <3>2, RunFitsNext
  <2>4. QED
    BY <2>2, <2>3
<1>6. Working(p)' \subseteq {r}
  BY <1>2 DEF Working, OtherRuns
<1>7. Calls(p)' = {}
  BY <1>1, <1>2 DEF Calls
<1>8. RowFits(p)'
  BY <1>2, <1>4, <1>1 DEF RowFits, Claims, Carried, Unattempted, Past
<1>9. \A s \in Runs : GoesOn(run[s], run'[s]) \/ run'[s].plan = p
  BY <1>1 DEF OtherRuns, GoesOn
<1>10. QED
  BY <1>1, <1>5, <1>6, <1>7, <1>8, <1>9, OnePlan

\* A run that records its attempt is alone, and has the plan to itself.
LEMMA AttemptKeeps ==
    ASSUME SafeInv, \A q \in Plans : Carried(q), NEW p \in Plans, NEW r \in Runs,
           OtherPlans(p), OtherRuns(r), Attempted(p, r)
    PROVE  Works'
<1>1. Carried(p) /\ \A q \in Plans : sent'[q] = sent[q]
  BY DEF Attempted
<1>2. RunFits(p, run[r]) /\ RowFits(p) /\ r \in Working(p)
  BY DEF Attempted, SafeInv, RunsFit, RowsFit, Working, Claimed
<1>3. /\ sent[p] = <<>> /\ Past(p) /\ plan[p].failure # "QUEUE_ENQUEUE_FAILED"
      /\ Warranted(p, run[r].approver, run[r].content, run[r].key, run[r].seen)
      /\ run[r].content = plan[p].content => run[r].key = plan[p].idempotencyKey
  BY <1>2 DEF RunFits, RowFits, Attempted, Claimed, Early
<1>4. Past(p)'
  BY <1>3 DEF Attempted, Past
<1>5. ASSUME NEW s \in Runs, run'[s].plan = p
      PROVE  RunFits(p, run[s])'
  <2>1. PICK x : x = run'[s]
    OBVIOUS
  <2>2. CASE s = r
    <3>1. CASE Leaves(x)
      BY <2>1, <3>1, RunFitsNext DEF Leaves, RunFits, Claimed, Early
    <3>2. CASE x.pc = "send" /\ SameWork(run[r], x)
      <4>1. Warranted(p, x.approver, x.content, x.key, x.seen)'
        BY <1>1, <1>3, <3>2 DEF Carried, SameWork
      <4>2. /\ plan'[p].mutationOutcome \notin Unattempted
            /\ x.content = plan'[p].content => x.key = plan'[p].idempotencyKey
        BY <1>3, <3>2 DEF Attempted, SameWork, Unattempted
      <4>3. RunFits(p, x)'
        BY <1>4, <3>2, <4>1, <4>2 DEF RunFits, Early
      <4>4. QED
        BY <2>1, <4>3, RunFitsNext
    <3>3. QED
      BY <2>1, <2>2, <3>1, <3>2 DEF Attempted
  <2>3. CASE s # r
    <3>1. RunFits(p, x) /\ run[s].plan = p
      BY <1>5, <2>1, <2>3 DEF OtherRuns, SafeInv, RunsFit
    <3>2. x.pc \notin Claimed
      BY <1>2, <2>1, <2>3, <3>1 DEF OtherRuns, SafeInv, Alone, Working
    <3>3. RunFits(p, x)'
      BY <1>1, <3>1, <3>2, UnclaimedCarries
    <3>4. QED
      BY <2>1, <3>3, RunFitsNext
  <2>4. QED
    BY <2>2, <2>3
<1>6. Working(p)' \subseteq {r}
  BY <1>2 DEF Working, OtherRuns, SafeInv, Alone
<1>7. Calls(p)' = {}
  BY <1>1, <1>3 DEF Calls
<1>8. RowFits(p)'
  BY <1>1, <1>3, <1>4 DEF RowFits, Attempted, Carried, Past
<1>9. \A s \in Runs : GoesOn(run[s], run'[s]) \/ run'[s].plan = p
  BY DEF OtherRuns, GoesOn, Attempted, SameWork
<1>10. QED
  BY <1>1, <1>5, <1>6, <1>7, <1>8, <1>9, OnePlan

\* A run that calls the provider makes the first call, under its own warrant.
LEMMA SendKeeps ==
    ASSUME SafeInv, \A q \in Plans : Carried(q), NEW p \in Plans, NEW r \in Runs,
           OtherRuns(r), Sends(p, r)
    PROVE  Works'
<1>1. Carried(p) /\ OtherPlans(p) /\ plan'[p] = plan[p] /\ run'[r].plan = p
  BY DEF Sends, OtherPlans
<1>2. RunFits(p, run[r]) /\ RowFits(p) /\ r \in Working(p) /\ r \in Sending(p)
  BY DEF Sends, SafeInv, RunsFit, RowsFit, Working, Claimed, Sending
<1>3. /\ sent[p] = <<>> /\ Past(p) /\ plan[p].failure # "QUEUE_ENQUEUE_FAILED"
      /\ Warranted(p, run[r].approver, run[r].content, run[r].key, run[r].seen)
      /\ run[r].content = plan[p].content => /\ run[r].key = plan[p].idempotencyKey
                                             /\ plan[p].mutationOutcome \notin Unattempted
  <2>1. sent[p] = <<>>
    BY <1>2 DEF SafeInv, OnceInv, Once
  <2>2. QED
    BY <1>2, <2>1 DEF RunFits, RowFits, Sends, Claimed
<1>4. ~Refuted(p) /\ Past(p)'
  BY <1>1, <1>3 DEF Refuted, Past
<1>5. PICK c \in Call :
        /\ sent'[p] = Append(sent[p], c)
        /\ c.key = run[r].key /\ c.content = run[r].content
        /\ c.approver = run[r].approver /\ c.seen = run[r].seen
        /\ \/ run'[r].pc = "record" /\ SameWork(run[r], run'[r])
           \/ run'[r].pc = "persist" /\ (run'[r].verdict = "CONFIRMED_FAILED" => c.applied # "last")
  BY DEF Sends
<1>6. sent'[p] = <<c>>
  BY <1>3, <1>5
<1>7. sent'[p] # <<>> /\ Calls(p)' = {c}
  BY <1>6 DEF Calls
<1>8. CallFits(p, c)'
  <2>1. Warranted(p, c.approver, c.content, c.key, c.seen)'
    BY <1>1, <1>3, <1>5 DEF Carried
  <2>2. c.key \in Keys
    BY <1>5 DEF Sends, SafeInv, OnceInv, TypeInv, RunsTyped, RunPoints
  <2>3. QED
    BY <1>1, <1>3, <1>5, <2>1, <2>2 DEF CallFits
<1>9. ASSUME NEW s \in Runs, run'[s].plan = p
      PROVE  RunFits(p, run[s])'
  <2>1. PICK x : x = run'[s]
    OBVIOUS
  <2>2. CASE s = r
    <3>1. CASE x.pc = "record" /\ SameWork(run[r], x)
      <4>1. Warranted(p, x.approver, x.content, x.key, x.seen)'
        BY <1>1, <1>3, <3>1 DEF Carried, SameWork
      <4>2. x.content = plan'[p].content => x.key = plan'[p].idempotencyKey
        BY <1>1, <1>3, <3>1 DEF SameWork
      <4>3. RunFits(p, x)'
        BY <1>4, <3>1, <4>1, <4>2 DEF RunFits, Early
      <4>4. QED
        BY <2>1, <4>3, RunFitsNext
    <3>2. CASE x.pc = "persist" /\ (x.verdict = "CONFIRMED_FAILED" => c.applied # "last")
      <4>1. x.verdict = "CONFIRMED_FAILED" => Refuted(p)'
        BY <1>7, <3>2 DEF Refuted
      <4>2. RunFits(p, x)'
        BY <3>2, <4>1 DEF RunFits, Claimed, Early
      <4>3. QED
        BY <2>1, <4>2, RunFitsNext
    <3>3. QED
      BY <1>5, <2>1, <2>2, <3>1, <3>2
  <2>3. CASE s # r
    <3>1. RunFits(p, x) /\ run[s].plan = p
      BY <1>9, <2>1, <2>3 DEF OtherRuns, SafeInv, RunsFit
    <3>2. x.pc \notin Claimed
      BY <1>2, <2>1, <2>3, <3>1 DEF OtherRuns, SafeInv, Alone, Working
    <3>3. RunFits(p, x)'
      BY <1>1, <1>4, <3>1, <3>2, UnclaimedCarries
    <3>4. QED
      BY <2>1, <3>3, RunFitsNext
  <2>4. QED
    BY <2>2, <2>3
<1>10. Working(p)' \subseteq {r}
  BY <1>2 DEF Working, OtherRuns, SafeInv, Alone
<1>11. RowFits(p)'
  <2>1. plan'[p].mutationOutcome # "CONFIRMED_FAILED"
    BY <1>1, <1>2, <1>4 DEF RowFits
  <2>2. QED
    BY <1>1, <1>3, <1>4, <2>1 DEF RowFits, Carried, Past
<1>12. \A s \in Runs : GoesOn(run[s], run'[s]) \/ run'[s].plan = p
  BY <1>1 DEF OtherRuns, GoesOn
<1>13. \A q \in Plans \ {p} : sent'[q] = sent[q]
  BY DEF Sends
<1>14. QED
  BY <1>1, <1>7, <1>8, <1>9, <1>10, <1>11, <1>12, <1>13, OnePlan

\* A run that persists a verdict persists what it has heard.
LEMMA SettleKeeps ==
    ASSUME SafeInv, \A q \in Plans : Carried(q), NEW p \in Plans, NEW r \in Runs,
           OtherPlans(p), OtherRuns(r), Settles(p, r)
    PROVE  Works'
<1>1. Carried(p) /\ SteadyRow(plan[p], plan'[p]) /\ \A q \in Plans : sent'[q] = sent[q]
  BY DEF Settles
<1>2. \A s \in Runs : GoesOn(run[s], run'[s])
  BY DEF OtherRuns, Settles, GoesOn
<1>3. ASSUME NEW s \in Runs, run'[s].plan = p
      PROVE  RunFits(p, run[s])'
  <2>1. PICK x : x = run'[s]
    OBVIOUS
  <2>2. RunFits(p, x)
    BY <1>2, <1>3, <2>1, GoesOnFits DEF SafeInv, RunsFit
  <2>3. QED
    BY <1>1, <2>1, <2>2, SteadyCarries, RunFitsNext
<1>4. Working(p)' \subseteq Working(p)
  BY <1>2 DEF GoesOn, Leaves, Continues, Working
<1>5. \A c \in Calls(p)' : CallFits(p, c)'
  <2>1. Calls(p)' = Calls(p)
    BY <1>1 DEF Calls
  <2>2. QED
    BY <1>1, <2>1, SteadyCarries DEF SafeInv, CallsFit
<1>6. plan'[p].mutationOutcome = "CONFIRMED_FAILED" => Refuted(p)
  BY DEF Settles, SafeInv, RunsFit, RunFits
<1>7. RowFits(p)'
  BY <1>1, <1>4, <1>6, RowCarries
<1>8. QED
  BY <1>1, <1>2, <1>3, <1>4, <1>5, <1>7, OnePlan DEF SafeInv, Alone

\* Contents only grow.
LEMMA ContentsGrow ==
    ASSUME SafeInv, Change, NEW p \in Plans
    PROVE  plan'[p].content >= plan[p].content
<1>1. plan[p].content \in Nat
  BY BoundsAssumption DEF SafeInv, OnceInv, TypeInv, PlansTyped, PlanRow, Contents
<1>2. plan'[p].content \in {plan[p].content, plan[p].content + 1}
  BY DEF Change, Routine, KeptRow, SteadyRow, OtherPlans, ApiChange, Renews, Queues, Unqueues,
         Binds, Loads, RunChange, Claims, Attempted, Sends, Settles
<1>3. QED
  BY <1>1, <1>2

\* Whatever the step, Works is kept.
LEMMA ChangeKeeps ==
    ASSUME SafeInv, [Next]_vars, Change, Filed
    PROVE  Works'
<1>1. \A p \in Plans : Carried(p)
  BY ContentsGrow, WarrantsCarried
<1>2. QED
  BY <1>1, RoutineKeeps, ApiChangeKeeps, LoadKeeps, ClaimKeeps, AttemptKeeps, SendKeeps,
     SettleKeeps DEF Change, RunChange

-----------------------------------------------------------------------------
(* What the steps do to the approvals and the audit trail.                 *)

LEMMA NothingFiled ==
    ASSUME SafeInv, UNCHANGED <<approvals, decisions>>
    PROVE  Filed /\ AllEndorsed'
BY DEF Filed, SafeInv, AllEndorsed, Endorsed, ApprovedBy

\* One approval row is written, and the decision on it, if any, recorded.
LEMMA RowFiled ==
    ASSUME SafeInv, NEW p \in Plans, NEW a \in Approvals, NEW row \in ApprovalRow, NEW D,
           approvals' = [approvals EXCEPT ![p][a] = row],
           decisions' = [decisions EXCEPT ![p] = @ \cup D],
           approvals[p][a].status \in Decided =>
              row.status \in Decided /\ row.fingerprint = approvals[p][a].fingerprint,
           row.status = "APPROVED" =>
              \E d \in decisions[p] \cup D :
                 d.by = row.approvedById /\ d.by # CreatedBy[p] /\ d.hash = row.hash
    PROVE  Filed /\ AllEndorsed'
<1>1. approvals \in [Plans -> [Approvals -> ApprovalRow]] /\ decisions \in [Plans -> SUBSET Decision]
  BY DEF SafeInv, OnceInv, TypeInv, ApprovalsTyped, DecisionsTyped
<1>2. /\ approvals'[p][a] = row /\ decisions'[p] = decisions[p] \cup D
      /\ \A b \in Approvals \ {a} : approvals'[p][b] = approvals[p][b]
      /\ \A q \in Plans \ {p} : approvals'[q] = approvals[q] /\ decisions'[q] = decisions[q]
  BY <1>1
<1>3. \A q \in Plans : decisions[q] \subseteq decisions'[q]
  BY <1>2
<1>4. Filed
  <2>1. ASSUME NEW q \in Plans, NEW b \in Approvals, approvals[q][b].status \in Decided
        PROVE  /\ approvals'[q][b].status \in Decided
               /\ approvals'[q][b].fingerprint = approvals[q][b].fingerprint
    <3>1. CASE q = p /\ b = a
      BY <1>2, <2>1, <3>1
    <3>2. CASE q # p \/ b # a
      <4>1. approvals'[q][b] = approvals[q][b]
        BY <1>2, <3>2
      <4>2. QED
        BY <2>1, <4>1
    <3>3. QED
      BY <3>1, <3>2
  <2>2. QED
    BY <1>3, <2>1 DEF Filed
<1>5. ASSUME NEW q \in Plans, NEW b \in Approvals, approvals'[q][b].status = "APPROVED"
      PROVE  \E d \in decisions'[q] :
                /\ d.by = approvals'[q][b].approvedById /\ d.by # CreatedBy[q]
                /\ d.hash = <<approvals'[q][b].hash[1], approvals'[q][b].hash[2]>>
  <2>1. CASE q = p /\ b = a
    <3>1. row.hash = <<row.hash[1], row.hash[2]>>
      BY DEF ApprovalRow, Hash
    <3>2. QED
      BY <1>2, <1>5, <2>1, <3>1
  <2>2. CASE q # p \/ b # a
    <3>1. approvals'[q][b] = approvals[q][b]
      BY <1>2, <2>2
    <3>2. ApprovedBy(q, approvals[q][b].approvedById, approvals[q][b].hash[1],
                     approvals[q][b].hash[2])
      BY <1>5, <3>1 DEF SafeInv, AllEndorsed, Endorsed
    <3>3. PICK d \in decisions[q] :
            /\ d.by = approvals[q][b].approvedById /\ d.by # CreatedBy[q]
            /\ d.hash = <<approvals[q][b].hash[1], approvals[q][b].hash[2]>>
      BY <3>2 DEF ApprovedBy
    <3>4. d \in decisions'[q]
      BY <1>3
    <3>5. QED
      BY <3>1, <3>3, <3>4
  <2>3. QED
    BY <2>1, <2>2
<1>6. QED
  BY <1>4, <1>5, ZenonT(60) DEF AllEndorsed, Endorsed, ApprovedBy

\* The row that a decision leaves, and what it records.
LEMMA DecisionFiled ==
    ASSUME SafeInv, NEW h \in Handlers, NEW p \in Plans, p = req[h].plan,
           req[h].step \in {"decide", "generic_decide"},
           NEW a \in Approvals, NEW old \in ApprovalRow, NEW u \in Users \cup {None},
           approvals[p][a].status \in Decided => old = approvals[p][a] /\ u = old.requestedById,
           approvals' = [approvals EXCEPT
               ![p][a] = [DecidedApproval(h, old) EXCEPT !.requestedById = u]],
           NEW s \in {"governed", "generic"},
           decisions' = [decisions EXCEPT ![p] = @ \cup Recorded(h, s)]
    PROVE  Filed /\ AllEndorsed'
<1> DEFINE row == [DecidedApproval(h, old) EXCEPT !.requestedById = u]
<1>1. /\ req[h] \in Request /\ RequestPoints(req[h]) /\ RequestFits(req[h])
      /\ req[h].verdict \in Decided
  <2>1. req[h] \in Request /\ RequestPoints(req[h]) /\ RequestFits(req[h])
    BY DEF SafeInv, OnceInv, TypeInv, RequestsTyped, RequestsFit
  <2>2. QED
    BY <2>1 DEF Request, RequestPoints, Decided
<1>2. DecidedApproval(h, old) \in ApprovalRow
  BY <1>1, DecidedApprovalTyped DEF SafeInv, OnceInv, TypeInv, Decided
<1>3. row \in ApprovalRow
  BY <1>2 DEF ApprovalRow
<1>4. /\ row.status = req[h].verdict /\ row.fingerprint = old.fingerprint
      /\ row.approvedById = req[h].actor /\ row.hash = req[h].hash
  BY DEF DecidedApproval, ApprovalRow
<1>5. row.status = "APPROVED" =>
         \E d \in Recorded(h, s) :
            d.by = row.approvedById /\ d.by # CreatedBy[p] /\ d.hash = row.hash
  BY <1>1, <1>4 DEF Recorded, RequestFits
<1>6. QED
  BY <1>1, <1>3, <1>4, <1>5, RowFiled

LEMMA StepFiled ==
    ASSUME SafeInv, [Next]_vars
    PROVE  Filed /\ AllEndorsed'
<1> PlansTyped /\ ApprovalsTyped /\ DecisionsTyped /\ RequestsTyped
  BY DEF SafeInv, OnceInv, TypeInv
<1>1. ASSUME NEW p \in Plans, NEW a \in FreeApprovals(p), NEW row \in ApprovalRow,
             row.status = "PENDING", UNCHANGED decisions,
             approvals' = [approvals EXCEPT ![p][a] = row]
      PROVE  Filed /\ AllEndorsed'
  <2>1. a \in Approvals /\ approvals[p][a].status = "ABSENT"
    BY DEF FreeApprovals
  <2>2. decisions' = [decisions EXCEPT ![p] = @ \cup {}]
    BY <1>1 DEF DecisionsTyped
  <2>3. QED
    BY <1>1, <2>1, <2>2, RowFiled DEF Decided
<1>2. ASSUME NEW h \in Handlers, RequestCommit(h)
      PROVE  Filed /\ AllEndorsed'
  <2>0. PICK p : p = req[h].plan
    OBVIOUS
  <2> DEFINE row == [NoApproval EXCEPT !.status = "PENDING", !.requestedById = req[h].actor,
                                       !.hash = req[h].hash, !.expiry = req[h].hash[1]]
  <2>1. p \in Plans /\ req[h] \in Request
    BY <1>2, <2>0, BusyRequest DEF RequestCommit, Idle
  <2>2. row \in ApprovalRow /\ row.status = "PENDING"
    <3>1. req[h].actor \in Users \cup {None} /\ req[h].hash \in Hash /\ req[h].hash[1] \in Contents
      BY <2>1 DEF Request, Hash
    <3>2. QED
      BY <3>1, NewApprovalTyped DEF NoApproval
  <2>3. PICK a \in FreeApprovals(p) : approvals' = [approvals EXCEPT ![p][a] = row]
    BY <1>2, <2>0 DEF RequestCommit
  <2>4. QED
    BY <1>1, <1>2, <2>1, <2>2, <2>3 DEF RequestCommit
<1>3. ASSUME NEW p \in Plans, NEW u \in Users, GenericRequest(p, u)
      PROVE  Filed /\ AllEndorsed'
  <2> DEFINE row == [NoApproval EXCEPT !.status = "PENDING", !.requestedById = u,
                                       !.hash = HashOf(p)]
  <2>1. row \in ApprovalRow /\ row.status = "PENDING"
    <3>1. HashOf(p) \in Hash
      BY DEF PlansTyped, PlanRow, HashOf, Hash
    <3>2. QED
      BY <3>1, NullsTyped DEF NoApproval, ApprovalRow
  <2>2. PICK a \in FreeApprovals(p) : approvals' = [approvals EXCEPT ![p][a] = row]
    BY <1>3 DEF GenericRequest
  <2>3. QED
    BY <1>1, <1>3, <2>1, <2>2 DEF GenericRequest
<1>4. ASSUME NEW h \in Handlers, CaptureCommit(h)
      PROVE  Filed /\ AllEndorsed'
  <2>0. PICK p, a : p = req[h].plan /\ a = req[h].target
    OBVIOUS
  <2>1. p \in Plans /\ a \in Approvals /\ req[h] \in Request /\ UNCHANGED decisions
    BY <1>4, <2>0, BusyRequest DEF CaptureCommit, Idle, RequestPoints
  <2>2. CASE MayCapture(approvals[p][a])
    <3> DEFINE row == [approvals[p][a] EXCEPT !.fingerprint = req[h].seen]
    <3>1. approvals[p][a] \in ApprovalRow
      BY <2>1 DEF ApprovalsTyped
    <3>2. row \in ApprovalRow /\ row.status = "PENDING"
      BY <2>1, <2>2, <3>1 DEF MayCapture, ApprovalRow, Request
    <3>3. approvals' = [approvals EXCEPT ![p][a] = row]
      BY <1>4, <2>0, <2>1, <2>2 DEF CaptureCommit, ApprovalsTyped
    <3>4. decisions' = [decisions EXCEPT ![p] = @ \cup {}]
      BY <2>1 DEF DecisionsTyped
    <3>5. QED
      BY <2>1, <2>2, <3>2, <3>3, <3>4, RowFiled DEF MayCapture, Decided
  <2>3. CASE ~MayCapture(approvals[p][a])
    BY <1>4, <2>0, <2>3, NothingFiled DEF CaptureCommit
  <2>4. QED
    BY <2>2, <2>3
<1>5. ASSUME NEW h \in Handlers, DecideCommit(h)
      PROVE  Filed /\ AllEndorsed'
  <2>0. PICK p, a : p = req[h].plan /\ a = req[h].target
    OBVIOUS
  <2>1. p \in Plans /\ a \in Approvals
    BY <1>5, <2>0, BusyRequest DEF DecideCommit, Idle, RequestPoints
  <2>2. CASE MayDecide(p, a)
    <3> DEFINE old == approvals[p][a]
               u == old.requestedById
    <3>1. old \in ApprovalRow /\ u \in Users \cup {None}
      BY <2>1 DEF ApprovalsTyped, ApprovalRow
    <3>2. approvals' = [approvals EXCEPT
             ![p][a] = [DecidedApproval(h, old) EXCEPT !.requestedById = u]]
      <4>1. [DecidedApproval(h, old) EXCEPT !.requestedById = u] = DecidedApproval(h, old)
        BY <3>1 DEF DecidedApproval, ApprovalRow
      <4>2. approvals' = [approvals EXCEPT ![p][a] = DecidedApproval(h, old)]
        BY <1>5, <2>0, <2>1, <2>2 DEF DecideCommit, ApprovalsTyped
      <4>3. QED
        BY <4>1, <4>2
    <3>3. decisions' = [decisions EXCEPT ![p] = @ \cup Recorded(h, "governed")]
      BY <1>5, <2>0, <2>2 DEF DecideCommit
    <3>4. req[h].step \in {"decide", "generic_decide"}
      BY <1>5 DEF DecideCommit
    <3>5. QED
      BY <2>0, <2>1, <3>1, <3>2, <3>3, <3>4, DecisionFiled
  <2>3. CASE ~MayDecide(p, a)
    BY <1>5, <2>0, <2>3, NothingFiled DEF DecideCommit
  <2>4. QED
    BY <2>2, <2>3
<1>6. ASSUME NEW h \in Handlers, GenericDecideCommit(h)
      PROVE  Filed /\ AllEndorsed'
  <2>0. PICK p : p = req[h].plan
    OBVIOUS
  <2>1. /\ p \in Plans /\ req[h] \in Request
        /\ decisions' = [decisions EXCEPT ![p] = @ \cup Recorded(h, "generic")]
        /\ req[h].step \in {"decide", "generic_decide"}
    BY <1>6, <2>0, BusyRequest DEF GenericDecideCommit, Idle
  <2>2. ASSUME NEW a \in Approvals,
               approvals' = [approvals EXCEPT ![p][a] = DecidedApproval(h, approvals[p][a])]
        PROVE  Filed /\ AllEndorsed'
    <3> DEFINE old == approvals[p][a]
               u == old.requestedById
    <3>1. old \in ApprovalRow /\ u \in Users \cup {None}
      BY <2>1 DEF ApprovalsTyped, ApprovalRow
    <3>2. [DecidedApproval(h, old) EXCEPT !.requestedById = u] = DecidedApproval(h, old)
      BY <3>1 DEF DecidedApproval, ApprovalRow
    <3>3. approvals' = [approvals EXCEPT
             ![p][a] = [DecidedApproval(h, old) EXCEPT !.requestedById = u]]
      BY <2>2, <3>2
    <3>4. QED
      BY <2>0, <2>1, <3>1, <3>3, DecisionFiled
  <2>3. ASSUME NEW a \in FreeApprovals(p),
               approvals' = [approvals EXCEPT ![p][a] =
                  [DecidedApproval(h, NoApproval) EXCEPT !.requestedById = CreatedBy[p]]]
        PROVE  Filed /\ AllEndorsed'
    <3>1. a \in Approvals /\ approvals[p][a].status = "ABSENT"
      BY DEF FreeApprovals
    <3>2. NoApproval \in ApprovalRow /\ CreatedBy[p] \in Users \cup {None}
      BY <2>1, NoApprovalTyped, UsersAssumption
    <3>3. approvals[p][a].status \notin Decided
      BY <3>1 DEF Decided
    <3>4. QED
      BY <2>0, <2>1, <2>3, <3>1, <3>2, <3>3, DecisionFiled
  <2>4. CASE req[h].target # 0
    <3>1. req[h].target \in Approvals
      BY <2>1, <2>4, BoundsAssumption DEF Request, Approvals
    <3>2. approvals' = [approvals EXCEPT
             ![p][req[h].target] = DecidedApproval(h, approvals[p][req[h].target])]
      BY <1>6, <2>0, <2>1, <2>4, <3>1 DEF GenericDecideCommit, ApprovalsTyped
    <3>3. QED
      BY <2>2, <3>1, <3>2
  <2>5. CASE req[h].target = 0
    <3>1. PICK a \in FreeApprovals(p) : approvals' = [approvals EXCEPT ![p][a] =
             [DecidedApproval(h, NoApproval) EXCEPT !.requestedById = CreatedBy[p]]]
      BY <1>6, <2>0, <2>5 DEF GenericDecideCommit
    <3>2. QED
      BY <2>3, <3>1
  <2>6. QED
    BY <2>4, <2>5
<1>7. CASE UNCHANGED <<approvals, decisions>>
  BY <1>7, NothingFiled
<1>8. CASE ApiNext
  <2>1. ASSUME NEW p \in Plans, NEW k \in Keys, Simulate(p, k)
        PROVE  UNCHANGED <<approvals, decisions>>
    BY <2>1 DEF Simulate
  <2>2. ASSUME NEW h \in Handlers, GovernedCall(h) \/ RequestDropped(h)
        PROVE  UNCHANGED <<approvals, decisions>>
    BY <2>2 DEF GovernedCall, RequestRead, DecideRead, CaptureRead, ExecuteRead, RequestDropped
  <2>3. ASSUME NEW h \in Handlers, GovernedStep(h)
        PROVE  \/ RequestCommit(h) \/ CaptureCommit(h) \/ DecideCommit(h)
               \/ UNCHANGED <<approvals, decisions>>
    BY <2>3 DEF GovernedStep, CaptureObserve, DecideSelect, BlockCommit, ExecuteDup,
                ExecuteClaim, ExecuteAdd, ExecuteAddFails, ExecuteUnqueue
  <2>4. QED
    BY <1>2, <1>4, <1>5, <1>7, <1>8, <2>1, <2>2, <2>3 DEF ApiNext
<1>9. CASE RemediationNext
  BY <1>3, <1>6, <1>7, <1>9
     DEF RemediationNext, GenericSelfApprove, GenericCompleteRead, GenericCompleteCommit,
         GenericDecideRead, GenericDecideSelect
<1>10. CASE WorkerNext
  BY <1>7, <1>10, WorkerStays DEF Elsewhere
<1>11. CASE ReconciliationNext
  BY <1>7, <1>11
     DEF ReconciliationNext, ReconcilerStep, RecPick, RecClaim, RecObserve, RecPersist, RecCrash
<1>12. QED
  BY <1>7, <1>8, <1>9, <1>10, <1>11 DEF Next, vars, Lapse, Drift

-----------------------------------------------------------------------------
(* What the steps do to the rows, the runs and the calls.                  *)

LEMMA StillKept ==
    ASSUME TypeInv, NEW p \in Plans
    PROVE  KeptRow(plan[p], plan[p])
BY OutcomesStay DEF TypeInv, PlansTyped, PlanRow, KeptRow, SteadyRow

\* These rows are kept whatever the plan has become.
LEMMA KeptRows ==
    ASSUME TypeInv, NEW p \in Plans
    PROVE  /\ KeptRow(plan[p], RequestedRow(p)) /\ KeptRow(plan[p], BlockedRow(p))
           /\ \A h \in Handlers : KeptRow(plan[p], GenericDecidedRow(p, h))
           /\ \A s : KeptRow(plan[p], [plan[p] EXCEPT !.approvalStatus = s])
           /\ KeptRow(plan[p], NoopRow(p)) /\ KeptRow(plan[p], FailedRow(p))
           /\ KeptRow(plan[p], Scheduled(plan[p])) /\ KeptRow(plan[p], ReconcilingRow(p))
           /\ KeptRow(plan[p], ResolvedRow(p, "RETRY"))
           /\ KeptRow(plan[p], ResolvedRow(p, "NOT_ATTEMPTED"))
<1>1. plan[p] \in PlanRow /\ plan[p].mutationOutcome \in After(plan[p].mutationOutcome)
  BY OutcomesStay DEF TypeInv, PlansTyped, PlanRow
<1> USE <1>1 DEF PlanRow, KeptRow, SteadyRow
<1>2. KeptRow(plan[p], RequestedRow(p)) /\ KeptRow(plan[p], BlockedRow(p))
  BY DEF RequestedRow, BlockedRow
<1>3. \A h \in Handlers : KeptRow(plan[p], GenericDecidedRow(p, h))
  BY DEF GenericDecidedRow
<1>4. \A s : KeptRow(plan[p], [plan[p] EXCEPT !.approvalStatus = s])
  OBVIOUS
<1>5. KeptRow(plan[p], NoopRow(p)) /\ KeptRow(plan[p], FailedRow(p))
  BY DEF NoopRow, FailedRow
<1>6. KeptRow(plan[p], Scheduled(plan[p])) /\ KeptRow(plan[p], ReconcilingRow(p))
  BY DEF Scheduled, ReconcilingRow
<1>7. /\ KeptRow(plan[p], ResolvedRow(p, "RETRY"))
      /\ KeptRow(plan[p], ResolvedRow(p, "NOT_ATTEMPTED"))
  BY DEF ResolvedRow
<1>8. QED
  BY <1>2, <1>3, <1>4, <1>5, <1>6, <1>7

\* And these, where the outcome allows the write.
LEMMA JudgedRows ==
    ASSUME TypeInv, NEW p \in Plans
    PROVE  /\ plan[p].mutationOutcome \in Unattempted => KeptRow(plan[p], SimulatedRunRow(p))
           /\ MayConfirm(p) => /\ KeptRow(plan[p], ConfirmedRow(p))
                               /\ \A v \in {"CONFIRMED_FAILED", "OUTCOME_UNKNOWN"} :
                                     SteadyRow(plan[p], PersistedRow(p, v))
           /\ plan[p].mutationOutcome \in {"ATTEMPTED", "OUTCOME_UNKNOWN"} =>
                 /\ KeptRow(plan[p], ResolvedRow(p, "CONFIRMED_SUCCEEDED"))
                 /\ KeptRow(plan[p], ResolvedRow(p, "MANUAL_REVIEW_REQUIRED"))
<1>1. plan[p] \in PlanRow
  BY DEF TypeInv, PlansTyped
<1> USE <1>1 DEF PlanRow, KeptRow, SteadyRow, Unattempted, After, Settled
<1>2. plan[p].mutationOutcome \in Unattempted => KeptRow(plan[p], SimulatedRunRow(p))
  BY DEF SimulatedRunRow, Outcome
<1>3. MayConfirm(p) => KeptRow(plan[p], ConfirmedRow(p))
  BY DEF MayConfirm, ConfirmedRow
<1>4. MayConfirm(p) => \A v \in {"CONFIRMED_FAILED", "OUTCOME_UNKNOWN"} :
                          SteadyRow(plan[p], PersistedRow(p, v))
  BY DEF MayConfirm, PersistedRow
<1>5. plan[p].mutationOutcome \in {"ATTEMPTED", "OUTCOME_UNKNOWN"} =>
         KeptRow(plan[p], ResolvedRow(p, "CONFIRMED_SUCCEEDED"))
  BY DEF ResolvedRow
<1>6. plan[p].mutationOutcome \in {"ATTEMPTED", "OUTCOME_UNKNOWN"} =>
         KeptRow(plan[p], ResolvedRow(p, "MANUAL_REVIEW_REQUIRED"))
  BY DEF ResolvedRow
<1>7. QED
  BY <1>2, <1>3, <1>4, <1>5, <1>6

\* A write changes what it writes, and no copy of the row stays current.
LEMMA SetPlanSets ==
    ASSUME TypeInv, NEW p \in Plans, NEW row \in PlanRow, SetPlan(p, row)
    PROVE  /\ OtherPlans(p)
           /\ plan'[p] = [row EXCEPT !.readers = {}]
           /\ plan'[p].approvedByRequestId = row.approvedByRequestId
           /\ plan'[p].content = row.content /\ plan'[p].idempotencyKey = row.idempotencyKey
           /\ plan'[p].lifecycleState = row.lifecycleState /\ plan'[p].failure = row.failure
           /\ plan'[p].mutationOutcome = row.mutationOutcome
           /\ plan'[p].readers = {}
<1>1. plan'[p] = [row EXCEPT !.readers = {}] /\ OtherPlans(p)
  BY DEF SetPlan, TypeInv, PlansTyped, OtherPlans
<1>2. QED
  BY <1>1 DEF PlanRow

LEMMA SetKept ==
    ASSUME TypeInv, NEW p \in Plans, NEW row \in PlanRow, SetPlan(p, row)
    PROVE  /\ KeptRow(plan[p], row) => \A q \in Plans : KeptRow(plan[q], plan'[q])
           /\ SteadyRow(plan[p], row) => SteadyRow(plan[p], plan'[p])
<1>1. SteadyRow(plan[p], row) => SteadyRow(plan[p], plan'[p])
  BY SetPlanSets DEF SteadyRow
<1>2. KeptRow(plan[p], row) => KeptRow(plan[p], plan'[p])
  BY <1>1, SetPlanSets DEF KeptRow
<1>3. QED
  BY <1>1, <1>2, SetPlanSets, StillKept, ZenonT(60) DEF OtherPlans

\* Steps that leave the rows alone, or the runs.
LEMMA AloneKept ==
    ASSUME TypeInv
    PROVE  /\ UNCHANGED plan => \A q \in Plans : KeptRow(plan[q], plan'[q])
           /\ UNCHANGED run => \A s \in Runs : GoesOn(run[s], run'[s])
BY StillKept DEF GoesOn

LEMMA IsRoutine ==
    ASSUME \A q \in Plans : KeptRow(plan[q], plan'[q]),
           \A s \in Runs : GoesOn(run[s], run'[s]), UNCHANGED sent
    PROVE  Change
BY DEF Change, Routine

\* The steps of the governed API.
LEMMA ApiChanges ==
    ASSUME SafeInv, ApiNext
    PROVE  Change
<1>1. TypeInv /\ PlansTyped /\ RequestsTyped /\ ApprovalsTyped
  BY DEF SafeInv, OnceInv, TypeInv
<1>2. ASSUME NEW p \in Plans, NEW k \in Keys, Simulate(p, k)
      PROVE  Change
  <2>1. PICK b \in {FALSE} \cup {"gate_closed" \in Faults} :
          SetPlan(p, SimulatedRow(p, k, b))
    BY <1>2 DEF Simulate
  <2>2. SimulatedRow(p, k, b) \in PlanRow /\ plan[p] \in PlanRow
    BY <1>1, <1>2, SimulatedRowTyped DEF Simulate, PlansTyped
  <2> DEFINE row == SimulatedRow(p, k, b)
  <2>3. /\ row.approvedByRequestId = plan[p].approvedByRequestId
        /\ row.content = plan[p].content + 1 /\ row.idempotencyKey = k
        /\ row.lifecycleState \notin {"APPROVED", "QUEUED"}
        /\ row.failure = plan[p].failure /\ row.mutationOutcome = "NOT_ATTEMPTED"
    BY <2>2 DEF SimulatedRow, PlanRow
  <2>4. /\ OtherPlans(p)
        /\ plan'[p].approvedByRequestId = row.approvedByRequestId
        /\ plan'[p].content = row.content /\ plan'[p].idempotencyKey = row.idempotencyKey
        /\ plan'[p].lifecycleState = row.lifecycleState /\ plan'[p].failure = row.failure
        /\ plan'[p].mutationOutcome = row.mutationOutcome
    BY <1>1, <2>1, <2>2, SetPlanSets
  <2>5. KeyFree(p, k) /\ UNCHANGED <<run, sent>>
    BY <1>2 DEF Simulate
  <2> HIDE DEF row
  <2>6. Renews(p)
    BY <2>3, <2>4, <2>5 DEF Renews
  <2>7. QED
    BY <2>4, <2>6 DEF Change, ApiChange
<1>3. ASSUME NEW h \in Handlers, GovernedCall(h) \/ RequestDropped(h)
      PROVE  Change
  <2>1. UNCHANGED <<run, sent>>
    BY <1>3 DEF GovernedCall, RequestRead, DecideRead, CaptureRead, ExecuteRead, RequestDropped
  <2>2. CASE UNCHANGED plan
    BY <1>1, <2>1, <2>2, AloneKept, IsRoutine
  <2>3. ASSUME NEW p \in Plans, plan' = [plan EXCEPT ![p].readers = @ \cup {h}]
        PROVE  Change
    <3>1. KeptRow(plan[p], plan'[p]) /\ OtherPlans(p)
      BY <1>1, <2>3, OutcomesStay DEF PlansTyped, PlanRow, KeptRow, SteadyRow, OtherPlans
    <3>2. \A q \in Plans : KeptRow(plan[q], plan'[q])
      BY <1>1, <3>1, StillKept DEF OtherPlans
    <3>3. QED
      BY <1>1, <2>1, <3>2, AloneKept, IsRoutine
  <2>4. QED
    BY <1>3, <2>2, <2>3
       DEF GovernedCall, RequestRead, DecideRead, CaptureRead, ExecuteRead, RequestDropped
<1>4. ASSUME NEW h \in Handlers, GovernedStep(h)
      PROVE  Change
  <2>0. PICK p : p = req[h].plan
    OBVIOUS
  <2> DEFINE k == req[h].key
  <2>1. /\ p = req[h].plan /\ p \in Plans /\ req[h] \in Request /\ RequestPoints(req[h])
        /\ UNCHANGED <<run, sent>>
    BY <1>1, <1>4, <2>0, BusyRequest
       DEF Idle, GovernedStep, RequestCommit, CaptureObserve, CaptureCommit, DecideSelect,
           DecideCommit, BlockCommit, ExecuteDup, ExecuteClaim, ExecuteAdd, ExecuteAddFails,
           ExecuteUnqueue
  <2>2. plan[p] \in PlanRow
    BY <1>1, <2>1 DEF PlansTyped
  <2>3. ASSUME NEW row \in PlanRow, SetPlan(p, row), KeptRow(plan[p], row)
        PROVE  Change
    BY <1>1, <2>1, <2>3, SetKept, AloneKept, IsRoutine
  <2>4. CASE UNCHANGED plan
    BY <1>1, <2>1, <2>4, AloneKept, IsRoutine
  <2>5. CASE RequestCommit(h)
    BY <1>1, <2>1, <2>3, <2>5, ApiRowsTyped, KeptRows DEF RequestCommit
  <2>6. CASE BlockCommit(h)
    BY <1>1, <2>1, <2>3, <2>6, ApiRowsTyped, KeptRows DEF BlockCommit
  <2>7. CASE ExecuteUnqueue(h) /\ MayUnqueue(p, h)
    <3>1. /\ k \in Keys /\ SetPlan(p, EnqueueFailedRow(p, k))
          /\ plan[p].lifecycleState = "QUEUED" /\ plan[p].idempotencyKey = k
      BY <2>1, <2>7
         DEF ExecuteUnqueue, MayUnqueue, RequestPoints, SafeInv, ClaimsKnown, ClaimKnown
    <3> DEFINE row == EnqueueFailedRow(p, k)
    <3>2. row \in PlanRow
      BY <1>1, <2>1, <3>1, ApiRowsTyped
    <3>3. /\ row.lifecycleState = "FAILED" /\ row.mutationOutcome = "NOT_ATTEMPTED"
          /\ row.approvedByRequestId = plan[p].approvedByRequestId
          /\ row.content = plan[p].content /\ row.idempotencyKey = plan[p].idempotencyKey
      BY <2>2, <3>1 DEF EnqueueFailedRow, PlanRow
    <3>4. Unqueues(p) /\ OtherPlans(p)
      BY <1>1, <2>1, <3>1, <3>2, <3>3, SetPlanSets DEF Unqueues
    <3>5. QED
      BY <2>1, <3>4 DEF Change, ApiChange
  <2>8. CASE ExecuteClaim(h) /\ MayQueue(p, h) /\ KeyFree(p, k)
    <3> DEFINE row == [QueuedRow(p, k) EXCEPT !.readers = {h}]
    <3>1. plan'[p] = row /\ OtherPlans(p)
      BY <1>1, <2>1, <2>8 DEF ExecuteClaim, PlansTyped, OtherPlans
    <3>2. /\ row.approvedByRequestId = plan[p].approvedByRequestId
          /\ row.content = plan[p].content /\ row.failure = plan[p].failure
          /\ row.mutationOutcome = plan[p].mutationOutcome /\ row.idempotencyKey = k
      BY <2>1, <2>2 DEF QueuedRow, PlanRow
    <3>3. Queues(p)
      BY <2>1, <2>8, <3>1, <3>2 DEF Queues, MayQueue
    <3>4. QED
      BY <2>1, <3>1, <3>3 DEF Change, ApiChange
  <2>9. CASE DecideCommit(h) /\ MayDecide(p, req[h].target)
    <3> DEFINE a == req[h].target
    <3>1. /\ a \in Approvals /\ a \in 0..MaxApprovals /\ req[h].actor \in Users
          /\ req[h].verdict \in {"APPROVED", "REJECTED"}
      BY <2>1, <2>9 DEF DecideCommit, RequestPoints, Request
    <3>2. /\ DecidedRow(p, h) \in PlanRow /\ SetPlan(p, DecidedRow(p, h))
          /\ plan[p].approvedByRequestId = 0
      BY <1>1, <2>1, <2>9, <3>1, DecidedRowTyped DEF DecideCommit, MayDecide
    <3>3. approvals' = [approvals EXCEPT ![p][a] = DecidedApproval(h, approvals[p][a])]
      BY <1>1, <2>1, <2>9, <3>1 DEF DecideCommit, ApprovalsTyped
    <3>4. approvals'[p][a].status = req[h].verdict
      <4>1. approvals'[p][a] = DecidedApproval(h, approvals[p][a])
        BY <1>1, <2>1, <3>1, <3>3 DEF ApprovalsTyped
      <4>2. approvals[p][a] \in ApprovalRow
        BY <1>1, <2>1, <3>1 DEF ApprovalsTyped
      <4>3. QED
        BY <4>1, <4>2 DEF DecidedApproval, ApprovalRow
    <3>5. CASE req[h].verdict = "APPROVED"
      <4> DEFINE row == DecidedRow(p, h)
      <4>1. /\ row.approvedByRequestId = a /\ row.content = plan[p].content
            /\ row.idempotencyKey = plan[p].idempotencyKey /\ row.failure = plan[p].failure
            /\ row.mutationOutcome = plan[p].mutationOutcome
        BY <2>2, <3>5 DEF DecidedRow, PlanRow
      <4>2. Binds(p) /\ OtherPlans(p)
        BY <1>1, <2>1, <3>1, <3>2, <3>4, <3>5, <4>1, SetPlanSets, ZenonT(60) DEF Binds, Decided
      <4>3. QED
        BY <2>1, <4>2 DEF Change, ApiChange
    <3>6. CASE req[h].verdict = "REJECTED"
      <4>1. KeptRow(plan[p], DecidedRow(p, h))
        BY <2>2, <3>2, <3>6, OutcomesStay DEF DecidedRow, PlanRow, KeptRow, SteadyRow
      <4>2. QED
        BY <2>3, <3>2, <4>1
    <3>7. QED
      BY <3>1, <3>5, <3>6
  <2>10. QED
    BY <1>4, <2>1, <2>4, <2>5, <2>6, <2>7, <2>8, <2>9
       DEF GovernedStep, CaptureObserve, CaptureCommit, DecideSelect, DecideCommit,
           ExecuteDup, ExecuteClaim, ExecuteAdd, ExecuteAddFails, ExecuteUnqueue
<1>5. QED
  BY <1>2, <1>3, <1>4 DEF ApiNext

\* The steps of the older workflow.
LEMMA RemediationChanges ==
    ASSUME SafeInv, RemediationNext
    PROVE  Change
<1>1. TypeInv /\ PlansTyped /\ RequestsTyped /\ UNCHANGED <<run, sent>>
  BY DEF SafeInv, OnceInv, TypeInv, RemediationNext, GenericRequest, GenericSelfApprove,
         GenericCompleteRead, GenericCompleteCommit, GenericDecideRead, GenericDecideSelect,
         GenericDecideCommit
<1>2. CASE UNCHANGED plan
  BY <1>1, <1>2, AloneKept, IsRoutine
<1>3. ASSUME NEW p \in Plans, NEW row \in PlanRow, SetPlan(p, row), KeptRow(plan[p], row)
      PROVE  Change
  BY <1>1, <1>3, SetKept, AloneKept, IsRoutine
<1>4. ASSUME NEW p \in Plans, NEW s \in ApprovalStatus,
             SetPlan(p, [plan[p] EXCEPT !.approvalStatus = s])
      PROVE  Change
  <2>1. [plan[p] EXCEPT !.approvalStatus = s] \in PlanRow
    BY <1>1 DEF PlansTyped, PlanRow
  <2>2. QED
    BY <1>1, <1>3, <1>4, <2>1, KeptRows
<1>5. ASSUME NEW h \in Handlers, GenericDecideCommit(h)
      PROVE  Change
  <2>0. PICK p : p = req[h].plan
    OBVIOUS
  <2>1. /\ p \in Plans /\ req[h] \in Request /\ RequestPoints(req[h])
        /\ SetPlan(p, GenericDecidedRow(p, h))
    BY <1>1, <1>5, <2>0, BusyRequest DEF GenericDecideCommit, Idle
  <2>2. /\ req[h].actor \in Users /\ req[h].target \in 0..MaxApprovals
        /\ req[h].verdict \in {"APPROVED", "REJECTED"}
    BY <1>5, <2>1 DEF GenericDecideCommit, RequestPoints, Request
  <2>3. GenericDecidedRow(p, h) \in PlanRow
    BY <1>1, <2>1, <2>2, DecidedRowTyped
  <2>4. QED
    BY <1>1, <1>3, <2>1, <2>3, KeptRows
<1>6. ASSUME NEW h \in Handlers, GenericCompleteCommit(h)
      PROVE  Change
  <2>1. req[h].plan \in Plans /\ req[h] \in Request
    BY <1>1, <1>6, BusyRequest DEF GenericCompleteCommit, Idle
  <2>2. CompletedStatus(req[h].status) \in ApprovalStatus
    BY <2>1, LiteralsTyped DEF CompletedStatus, Request
  <2>3. QED
    BY <1>4, <1>6, <2>1, <2>2 DEF GenericCompleteCommit
<1>7. QED
  BY <1>2, <1>4, <1>5, <1>6, LiteralsTyped
     DEF RemediationNext, GenericRequest, GenericSelfApprove, GenericCompleteRead,
         GenericDecideRead, GenericDecideSelect

\* What a run has loaded, verified against its approval, it is warranted.
LEMMA LoadChanges ==
    ASSUME SafeInv, NEW r \in Runs, WLoad(r)
    PROVE  Change
<1>0. PICK p : p = run[r].plan
  OBVIOUS
<1>1. /\ TypeInv /\ p = run[r].plan /\ p \in Plans /\ run \in [Runs -> JobRun]
      /\ run[r] \in JobRun /\ UNCHANGED <<plan, sent>>
  BY <1>0, BusyRun DEF SafeInv, OnceInv, TypeInv, RunsTyped, WLoad, At, Elsewhere
<1>2. ASSUME NEW v \in {"block", "fail", "schedule"}, Step(r, v)
      PROVE  Change
  <2>1. run'[r].pc = v /\ OtherRuns(r)
    BY <1>1, <1>2 DEF Step, JobRun, OtherRuns
  <2>2. \A s \in Runs : GoesOn(run[s], run'[s])
    BY <2>1 DEF OtherRuns, GoesOn, Leaves, Claimed
  <2>3. QED
    BY <1>1, <2>2, AloneKept, IsRoutine
<1>3. CASE Return(r)
  <2>1. run'[r] = NoRun /\ OtherRuns(r)
    BY <1>1, <1>3 DEF Return, OtherRuns
  <2>2. \A s \in Runs : GoesOn(run[s], run'[s])
    BY <2>1 DEF OtherRuns, GoesOn, Leaves, Claimed, NoRun
  <2>3. QED
    BY <1>1, <2>2, AloneKept, IsRoutine
<1>4. ASSUME LoadVerdict(p, run[r].key) = "claim",
             run' = [run EXCEPT ![r] = [@ EXCEPT !.pc = "claim",
                         !.content = plan[p].content,
                         !.approver = BoundApproval(p).approvedById,
                         !.seen = BoundApproval(p).fingerprint]]
      PROVE  Change
  <2> DEFINE b == plan[p].approvedByRequestId
             x == run'[r]
  <2>1. /\ OtherRuns(r)
        /\ x.pc = "claim" /\ x.plan = p /\ x.key = run[r].key
        /\ x.content = plan[p].content /\ x.approver = BoundApproval(p).approvedById
        /\ x.seen = BoundApproval(p).fingerprint
    BY <1>1, <1>4 DEF JobRun, OtherRuns
  <2>2. plan[p].idempotencyKey = run[r].key /\ BindingVerified(p)
    BY <1>4 DEF LoadVerdict
  <2>3. /\ b # 0 /\ BoundApproval(p).status = "APPROVED" /\ BoundApproval(p).hash = HashOf(p)
    BY <2>2 DEF BindingVerified
  <2>4. b \in Approvals /\ BoundApproval(p) = approvals[p][b]
    BY <1>1, <2>3, BoundsAssumption DEF TypeInv, PlansTyped, PlanRow, Approvals, BoundApproval
  <2>5. ApprovedBy(p, BoundApproval(p).approvedById, plan[p].content, plan[p].idempotencyKey)
    <3>1. Endorsed(p, b)
      BY <1>1, <2>4 DEF SafeInv, AllEndorsed
    <3>2. approvals[p][b].hash = <<plan[p].content, plan[p].idempotencyKey>>
      BY <2>3, <2>4 DEF HashOf
    <3>3. QED
      BY <2>3, <2>4, <3>1, <3>2 DEF Endorsed
  <2>6. plan[p].content \in 0..plan[p].content
    BY <1>1, BoundsAssumption DEF TypeInv, PlansTyped, PlanRow, Contents
  <2>7. Warranted(p, x.approver, x.content, x.key, x.seen)
    BY <2>1, <2>2, <2>3, <2>5, <2>6 DEF Warranted
  <2>8. Loads(p, r)
    BY <1>1, <2>1, <2>7 DEF Loads
  <2>9. QED
    BY <1>1, <2>1, <2>8 DEF Change
<1>5. QED
  BY <1>1, <1>2, <1>3, <1>4 DEF WLoad

\* The claim and the barrier.
LEMMA ClaimChanges ==
    ASSUME SafeInv, NEW r \in Runs, WClaim(r)
    PROVE  Change
<1>0. PICK p : p = run[r].plan
  OBVIOUS
<1>1. /\ TypeInv /\ PlansTyped /\ p = run[r].plan /\ p \in Plans /\ run \in [Runs -> JobRun]
      /\ run[r].pc = "claim" /\ plan[p] \in PlanRow /\ UNCHANGED sent
  BY <1>0, BusyRun DEF SafeInv, OnceInv, TypeInv, RunsTyped, WClaim, At, PlansTyped
<1>2. CASE MayClaim(p, run[r].key)
  <2> DEFINE row == ClaimedRow(p)
  <2>1. /\ row \in PlanRow /\ SetPlan(p, row)
        /\ \E mode \in Modes :
              Step(r, IF mode = "simulation" THEN "simulated" ELSE "preflight")
    BY <1>1, <1>2, WorkerRowsTyped DEF WClaim
  <2>2. /\ row.lifecycleState = "EXECUTING" /\ row.content = plan[p].content
        /\ row.approvedByRequestId = plan[p].approvedByRequestId
        /\ row.idempotencyKey = plan[p].idempotencyKey /\ row.failure = plan[p].failure
        /\ row.mutationOutcome = plan[p].mutationOutcome
    BY <1>1 DEF ClaimedRow, PlanRow
  <2>3. run'[r].pc \in Early /\ SameWork(run[r], run'[r]) /\ OtherRuns(r)
    BY <1>1, <2>1 DEF Step, JobRun, Early, SameWork, OtherRuns
  <2>4. /\ OtherPlans(p)
        /\ plan'[p].lifecycleState = "EXECUTING" /\ plan'[p].content = plan[p].content
        /\ plan'[p].approvedByRequestId = plan[p].approvedByRequestId
        /\ plan'[p].idempotencyKey = plan[p].idempotencyKey
        /\ plan'[p].failure = plan[p].failure
        /\ plan'[p].mutationOutcome = plan[p].mutationOutcome
    BY <1>1, <2>1, <2>2, SetPlanSets
  <2>5. /\ plan[p].lifecycleState \in {"APPROVED", "QUEUED"}
        /\ plan[p].mutationOutcome = "NOT_ATTEMPTED" /\ run[r].key = plan[p].idempotencyKey
    BY <1>2 DEF MayClaim
  <2>6. Claims(p, r)
    BY <1>1, <2>3, <2>4, <2>5 DEF Claims
  <2>7. QED
    BY <1>1, <2>3, <2>4, <2>6 DEF Change, RunChange
<1>3. CASE ~MayClaim(p, run[r].key)
  <2>1. run'[r] = NoRun /\ OtherRuns(r) /\ UNCHANGED plan
    BY <1>1, <1>3 DEF WClaim, Return, OtherRuns
  <2>2. \A s \in Runs : GoesOn(run[s], run'[s])
    BY <2>1 DEF OtherRuns, GoesOn, Leaves, Claimed, NoRun
  <2>3. QED
    BY <1>1, <2>1, <2>2, AloneKept, IsRoutine
<1>4. QED
  BY <1>2, <1>3

LEMMA BarrierChanges ==
    ASSUME SafeInv, NEW r \in Runs, WBarrier(r)
    PROVE  Change
<1>0. PICK p : p = run[r].plan
  OBVIOUS
<1>1. /\ TypeInv /\ PlansTyped /\ p = run[r].plan /\ p \in Plans /\ run \in [Runs -> JobRun]
      /\ run[r].pc = "barrier" /\ plan[p] \in PlanRow /\ UNCHANGED sent
  BY <1>0, BusyRun DEF SafeInv, OnceInv, TypeInv, RunsTyped, WBarrier, At, PlansTyped
<1>2. CASE MayAttempt(p) /\ SetPlan(p, AttemptedRow(p))
  <2> DEFINE row == AttemptedRow(p)
  <2>1. row \in PlanRow
    BY <1>1, WorkerRowsTyped
  <2>2. /\ row.lifecycleState = "EXECUTING" /\ row.content = plan[p].content
        /\ row.approvedByRequestId = plan[p].approvedByRequestId
        /\ row.idempotencyKey = plan[p].idempotencyKey /\ row.failure = plan[p].failure
        /\ row.mutationOutcome = "ATTEMPTED"
    BY <1>1, <1>2 DEF AttemptedRow, PlanRow, MayAttempt
  <2>3. PICK pc \in {"send", "fail"} : Step(r, pc)
    BY <1>1 DEF WBarrier
  <2>4. /\ run'[r].pc = pc /\ SameWork(run[r], run'[r]) /\ OtherRuns(r)
    BY <1>1, <2>3 DEF Step, JobRun, SameWork, OtherRuns
  <2>5. Leaves(run'[r]) \/ (run'[r].pc = "send" /\ SameWork(run[r], run'[r]))
    BY <2>4 DEF Leaves, Claimed
  <2>6. /\ OtherPlans(p)
        /\ plan'[p].lifecycleState = "EXECUTING" /\ plan'[p].content = plan[p].content
        /\ plan'[p].approvedByRequestId = plan[p].approvedByRequestId
        /\ plan'[p].idempotencyKey = plan[p].idempotencyKey
        /\ plan'[p].failure = plan[p].failure /\ plan'[p].mutationOutcome = "ATTEMPTED"
    BY <1>1, <1>2, <2>1, <2>2, SetPlanSets
  <2>7. Attempted(p, r)
    BY <1>1, <1>2, <2>5, <2>6 DEF Attempted, MayAttempt
  <2>8. QED
    BY <1>1, <2>4, <2>6, <2>7 DEF Change, RunChange
<1>3. CASE UNCHANGED plan /\ Step(r, "fail")
  <2>1. run'[r].pc = "fail" /\ OtherRuns(r)
    BY <1>1, <1>3 DEF Step, JobRun, OtherRuns
  <2>2. \A s \in Runs : GoesOn(run[s], run'[s])
    BY <2>1 DEF OtherRuns, GoesOn, Leaves, Claimed
  <2>3. QED
    BY <1>1, <1>3, <2>2, AloneKept, IsRoutine
<1>4. QED
  BY <1>1, <1>2, <1>3 DEF WBarrier

\* The call.
LEMMA SendChanges ==
    ASSUME SafeInv, NEW r \in Runs, WSend(r)
    PROVE  Change
<1>0. PICK p : p = run[r].plan
  OBVIOUS
<1> DEFINE call(b) == [key |-> run[r].key, content |-> run[r].content,
                       approver |-> run[r].approver, seen |-> run[r].seen, applied |-> b]
<1>1. /\ p = run[r].plan /\ p \in Plans /\ run[r].pc = "send" /\ UNCHANGED plan
      /\ run[r] \in JobRun /\ run[r].key \in Keys /\ run \in [Runs -> JobRun]
      /\ sent \in [Plans -> Seq(Call)]
  BY <1>0, BusyRun DEF WSend, At, SafeInv, OnceInv, TypeInv, RunsTyped
<1>2. PICK a \in Answers : \E b \in MayApply(a) :
          /\ sent' = [sent EXCEPT ![p] = Append(@, call(b))]
          /\ run' = [run EXCEPT ![r] = [@ EXCEPT !.pc = AfterCall(a),
                                                 !.verdict = VerdictOf(a)]]
  BY <1>1 DEF WSend
<1>3. PICK b \in MayApply(a) :
          /\ sent' = [sent EXCEPT ![p] = Append(@, call(b))]
          /\ run' = [run EXCEPT ![r] = [@ EXCEPT !.pc = AfterCall(a),
                                                 !.verdict = VerdictOf(a)]]
  BY <1>2
<1>4. a \in {"ok", "rejected", "unclear"} /\ b \in Applied /\ (a = "rejected" => b # "last")
  BY <1>2, <1>3 DEF Answers, MayApply, Applied
<1>5. /\ OtherRuns(r) /\ run'[r].plan = p
      /\ run'[r].pc = AfterCall(a) /\ run'[r].verdict = VerdictOf(a)
      /\ SameWork(run[r], run'[r])
  BY <1>1, <1>3 DEF JobRun, OtherRuns, SameWork
<1>6. \/ run'[r].pc = "record" /\ SameWork(run[r], run'[r])
      \/ run'[r].pc = "persist" /\ (run'[r].verdict = "CONFIRMED_FAILED" => b # "last")
  BY <1>4, <1>5 DEF AfterCall, VerdictOf
<1>7. call(b) \in Call
  BY <1>1, <1>4 DEF Call, JobRun
<1>8. sent'[p] = Append(sent[p], call(b)) /\ \A q \in Plans \ {p} : sent'[q] = sent[q]
  BY <1>1, <1>3
<1>9. Sends(p, r)
  <2>1. PICK c \in Call : c = call(b)
    BY <1>7
  <2>2. /\ c.key = run[r].key /\ c.content = run[r].content /\ c.approver = run[r].approver
        /\ c.seen = run[r].seen /\ c.applied = b
    BY <2>1
  <2>3. QED
    BY <1>1, <1>5, <1>6, <1>8, <2>1, <2>2 DEF Sends
<1>10. QED
  BY <1>1, <1>5, <1>9 DEF Change, RunChange, OtherPlans

\* A run that leaves or goes on.
LEMMA RunKept ==
    ASSUME TypeInv, NEW r \in Runs,
           \/ \E pc \in {"load", "schedule", "fail", "block"} : Step(r, pc)
           \/ \E pc \in Claimed \ {"send"} :
                 /\ Step(r, pc) /\ run[r].pc \in Claimed
                 /\ pc \in Early => run[r].pc \in Early
           \/ Unclear(r) \/ Return(r) \/ run' = [run EXCEPT ![r] = NoRun]
    PROVE  \A s \in Runs : GoesOn(run[s], run'[s])
<1>1. run \in [Runs -> JobRun] /\ run[r] \in JobRun
  BY DEF TypeInv, RunsTyped
<1>2. OtherRuns(r)
  BY <1>1 DEF Step, Unclear, Return, OtherRuns
<1>3. GoesOn(run[r], run'[r])
  <2>1. ASSUME NEW pc \in {"load", "schedule", "fail", "block"}, Step(r, pc)
        PROVE  Leaves(run'[r])
    BY <1>1, <2>1 DEF Step, JobRun, Leaves, Claimed
  <2>2. ASSUME NEW pc \in Claimed \ {"send"}, Step(r, pc), run[r].pc \in Claimed,
               pc \in Early => run[r].pc \in Early
        PROVE  Continues(run[r], run'[r])
    BY <1>1, <2>2 DEF Step, JobRun, Continues
  <2>3. CASE Unclear(r)
    BY <1>1, <2>3 DEF Unclear, JobRun, Leaves, Claimed, GoesOn
  <2>4. CASE run' = [run EXCEPT ![r] = NoRun]
    BY <1>1, <2>4 DEF NoRun, Leaves, Claimed, GoesOn
  <2>5. QED
    BY <2>1, <2>2, <2>3, <2>4 DEF Return, GoesOn
<1>4. QED
  BY <1>2, <1>3 DEF OtherRuns, GoesOn

\* The verdict on a call.
LEMMA PersistChanges ==
    ASSUME SafeInv, NEW r \in Runs, WPersist(r)
    PROVE  Change
<1>0. PICK p : p = run[r].plan
  OBVIOUS
<1> DEFINE v == run[r].verdict
<1>1. /\ TypeInv /\ PlansTyped /\ p = run[r].plan /\ p \in Plans /\ run \in [Runs -> JobRun]
      /\ run[r].pc = "persist" /\ v \in {"CONFIRMED_FAILED", "OUTCOME_UNKNOWN"}
      /\ UNCHANGED sent /\ Return(r)
  BY <1>0, BusyRun
     DEF SafeInv, OnceInv, TypeInv, RunsTyped, WPersist, At, RunPoints, JobRun
<1>2. CASE MayConfirm(p) /\ SetPlan(p, PersistedRow(p, v))
  <2>1. PersistedRow(p, v) \in PlanRow /\ plan[p] \in PlanRow
    BY <1>1, WorkerRowsTyped DEF PlansTyped
  <2>2. PersistedRow(p, v).mutationOutcome = v
    BY <2>1 DEF PersistedRow, PlanRow
  <2>3. /\ OtherPlans(p) /\ SteadyRow(plan[p], plan'[p]) /\ plan'[p].mutationOutcome = v
    BY <1>1, <1>2, <2>1, <2>2, SetPlanSets, SetKept, JudgedRows
  <2>4. Leaves(run'[r]) /\ OtherRuns(r)
    BY <1>1 DEF Return, OtherRuns, Leaves, NoRun, Claimed
  <2>5. Settles(p, r)
    BY <1>1, <2>3, <2>4 DEF Settles
  <2>6. QED
    BY <1>1, <2>3, <2>4, <2>5 DEF Change, RunChange
<1>3. CASE UNCHANGED plan
  BY <1>1, <1>3, RunKept, AloneKept, IsRoutine
<1>4. QED
  BY <1>0, <1>1, <1>2, <1>3 DEF WPersist

\* Every other step of a run is routine.
LEMMA WorkerStepChanges ==
    ASSUME SafeInv, NEW r \in Runs, WorkerStep(r)
    PROVE  Change
<1>0. PICK p : p = run[r].plan
  OBVIOUS
<1>1. CASE WLoad(r) \/ WClaim(r) \/ WBarrier(r) \/ WSend(r) \/ WPersist(r)
  BY <1>1, LoadChanges, ClaimChanges, BarrierChanges, SendChanges, PersistChanges
<1>2. CASE ~(WLoad(r) \/ WClaim(r) \/ WBarrier(r) \/ WSend(r) \/ WPersist(r))
  <2>1. /\ TypeInv /\ PlansTyped /\ p = run[r].plan /\ p \in Plans
        /\ run[r] \in JobRun /\ UNCHANGED sent
    BY <1>0, <1>2, BusyRun
       DEF SafeInv, OnceInv, TypeInv, WorkerStep, At, WDup, WSchedule, WSimulated, WPreflight,
           WRecord, WVerify, WConfirm, WConfirmNoop, WFail, WBlock
  <2>2. plan[p] \in PlanRow
    BY <2>1 DEF PlansTyped
  <2>3. \A s \in Runs : GoesOn(run[s], run'[s])
    <3>1. CASE WDup(r) \/ WSchedule(r) \/ WSimulated(r) \/ WFail(r) \/ WBlock(r)
      BY <2>1, <3>1, RunKept DEF WDup, WSchedule, WSimulated, WFail, WBlock
    <3>2. CASE WPreflight(r)
      BY <2>1, <3>2, RunKept DEF WPreflight, At, Claimed, Early
    <3>3. CASE WRecord(r) \/ WConfirm(r)
      BY <2>1, <3>3, RunKept DEF WRecord, WConfirm, At, Claimed, Early
    <3>4. CASE WVerify(r)
      BY <2>1, <3>4, RunKept DEF WVerify, At, Claimed, Early
    <3>5. CASE WConfirmNoop(r)
      BY <2>1, <3>5, RunKept DEF WConfirmNoop
    <3>6. QED
      BY <1>2, <3>1, <3>2, <3>3, <3>4, <3>5 DEF WorkerStep
  <2>4. ASSUME NEW row \in PlanRow, SetPlan(p, row), KeptRow(plan[p], row)
        PROVE  Change
    BY <2>1, <2>3, <2>4, SetKept, IsRoutine
  <2>5. CASE UNCHANGED plan
    BY <2>1, <2>3, <2>5, AloneKept, IsRoutine
  <2>6. CASE WSchedule(r)
    <3>1. plan' = [plan EXCEPT ![p] = Scheduled(plan[p])]
      BY <2>1, <2>6 DEF WSchedule
    <3>2. \A q \in Plans : KeptRow(plan[q], plan'[q])
      BY <2>1, <3>1, KeptRows, StillKept DEF PlansTyped
    <3>3. QED
      BY <2>1, <2>3, <3>2, IsRoutine
  <2>7. CASE WSimulated(r)
    <3>1. plan[p].mutationOutcome \in Unattempted
      BY <2>1, <2>7 DEF WSimulated, At, SafeInv, RunsFit, RunFits, Early
    <3>2. QED
      BY <2>1, <2>4, <2>7, <3>1, WorkerRowsTyped, JudgedRows DEF WSimulated
  <2>8. CASE WRecord(r)
    BY <2>1, <2>2, <2>4, <2>5, <2>8, StillKept DEF WRecord
  <2>9. CASE WConfirm(r)
    BY <2>1, <2>4, <2>5, <2>9, WorkerRowsTyped, JudgedRows DEF WConfirm
  <2>10. CASE WConfirmNoop(r)
    BY <2>1, <2>4, <2>5, <2>10, WorkerRowsTyped, KeptRows DEF WConfirmNoop
  <2>11. CASE WFail(r)
    BY <2>1, <2>4, <2>11, WorkerRowsTyped, KeptRows DEF WFail
  <2>12. CASE WBlock(r)
    <3>1. SetPlan(p, BlockedRow(p))
      BY <2>1, <2>12 DEF WBlock, BlockedRow
    <3>2. QED
      BY <2>1, <2>4, <3>1, ApiRowsTyped, KeptRows
  <2>13. CASE WDup(r) \/ WPreflight(r) \/ WVerify(r)
    BY <2>5, <2>13 DEF WDup, WPreflight, WVerify
  <2>14. QED
    BY <1>2, <2>6, <2>7, <2>8, <2>9, <2>10, <2>11, <2>12, <2>13 DEF WorkerStep
<1>3. QED
  BY <1>1, <1>2

LEMMA WorkerChanges ==
    ASSUME SafeInv, WorkerNext
    PROVE  Change
<1>0. TypeInv
  BY DEF SafeInv, OnceInv
<1>1. ASSUME NEW r \in Runs, RunCrash(r) \/ RunThrows(r)
      PROVE  Change
  BY <1>0, <1>1, RunKept, AloneKept, IsRoutine DEF RunCrash, RunThrows
<1>2. ASSUME NEW r \in Runs, NEW k \in Keys, Deliver(r, k)
      PROVE  Change
  <2>1. run' = [run EXCEPT ![r] = [NoRun EXCEPT !.pc = "dup", !.plan = jobs[k].plan, !.key = k]]
    BY <1>2 DEF Deliver
  <2>2. run'[r].pc = "dup" /\ \A s \in Runs \ {r} : run'[s] = run[s]
    BY <1>0, <2>1 DEF TypeInv, RunsTyped, NoRun
  <2>3. \A s \in Runs : GoesOn(run[s], run'[s])
    BY <2>2 DEF GoesOn, Leaves, Claimed
  <2>4. QED
    BY <1>0, <1>2, <2>3, AloneKept, IsRoutine DEF Deliver
<1>3. ASSUME NEW k \in Keys, Stall(k) \/ Forget(k)
      PROVE  Change
  BY <1>0, <1>3, AloneKept, IsRoutine DEF Stall, Forget
<1>4. QED
  BY <1>1, <1>2, <1>3, WorkerStepChanges DEF WorkerNext

\* The steps of the reconciler: it settles what is open, and nothing else.
LEMMA ReconciliationChanges ==
    ASSUME SafeInv, ReconciliationNext
    PROVE  Change
<1>1. TypeInv /\ UNCHANGED <<run, sent>>
  BY DEF SafeInv, OnceInv, ReconciliationNext, ReconcilerStep, RecPick, RecClaim, RecObserve,
         RecPersist, RecCrash
<1>2. CASE UNCHANGED plan
  BY <1>1, <1>2, AloneKept, IsRoutine
<1>3. ASSUME NEW c \in Reconcilers, rec[c].pc # "idle"
      PROVE  rec[c] \in ReconcilerRun /\ ReconcilerPoints(rec[c]) /\ rec[c].plan \in Plans
  BY <1>1, <1>3 DEF TypeInv, ReconcilersTyped, ReconcilerPoints
<1>4. ASSUME NEW p \in Plans, NEW row \in PlanRow, SetPlan(p, row), KeptRow(plan[p], row)
      PROVE  Change
  BY <1>1, <1>4, SetKept, AloneKept, IsRoutine
<1>5. ASSUME NEW c \in Reconcilers, RecClaim(c), MayReconcile(c)
      PROVE  Change
  <2>0. PICK p : p = rec[c].plan
    OBVIOUS
  <2>1. p \in Plans /\ plan[p].attemptCount < MaxAttempts /\ SetPlan(p, ReconcilingRow(p))
    BY <1>3, <1>5, <2>0 DEF RecClaim, RecAt, ReconcilerPoints, MayReconcile
  <2>2. ReconcilingRow(p) \in PlanRow
    BY <1>1, <2>1, ReconcilerRowsTyped DEF TypeInv
  <2>3. QED
    BY <1>1, <1>4, <2>1, <2>2, KeptRows
<1>6. ASSUME NEW c \in Reconcilers, RecPersist(c), MayResolve(c)
      PROVE  Change
  <2>0. PICK p : p = rec[c].plan
    OBVIOUS
  <2> DEFINE v == rec[c].verdict
  <2>1. /\ p \in Plans /\ SetPlan(p, ResolvedRow(p, v))
        /\ v \in {"NOT_ATTEMPTED", "CONFIRMED_SUCCEEDED", "RETRY", "MANUAL_REVIEW_REQUIRED"}
    BY <1>3, <1>6, <2>0 DEF RecPersist, RecAt, ReconcilerPoints, ReconcilerRun
  <2>2. ResolvedRow(p, v) \in PlanRow
    BY <1>1, <2>1, ReconcilerRowsTyped DEF TypeInv
  <2>3. ReconciliationFits(rec[c]) /\ plan[p].mutationOutcome = rec[c].outcome
    BY <1>6, <2>0 DEF SafeInv, ReconcilersFit, MayResolve
  <2>4. v \in {"CONFIRMED_SUCCEEDED", "MANUAL_REVIEW_REQUIRED"} =>
           plan[p].mutationOutcome \in {"ATTEMPTED", "OUTCOME_UNKNOWN"}
    BY <1>6, <2>3 DEF ReconciliationFits, RecPersist, RecAt
  <2>5. KeptRow(plan[p], ResolvedRow(p, v))
    BY <1>1, <2>1, <2>4, KeptRows, JudgedRows
  <2>6. QED
    BY <1>4, <2>1, <2>2, <2>5
<1>7. QED
  BY <1>2, <1>5, <1>6
     DEF ReconciliationNext, ReconcilerStep, RecPick, RecClaim, RecObserve, RecPersist, RecCrash

\* Whatever step is taken, it is one of those kinds.
LEMMA StepChange ==
    ASSUME SafeInv, [Next]_vars
    PROVE  Change
<1>0. TypeInv
  BY DEF SafeInv, OnceInv
<1>1. CASE UNCHANGED <<plan, run, sent>>
  BY <1>0, <1>1, AloneKept, IsRoutine
<1>2. ASSUME NEW p \in Plans, Lapse(p) \/ Drift(p)
      PROVE  UNCHANGED <<plan, run, sent>>
  BY <1>2 DEF Lapse, Drift
<1>3. QED
  BY <1>1, <1>2, ApiChanges, RemediationChanges, WorkerChanges, ReconciliationChanges
     DEF Next, vars

-----------------------------------------------------------------------------
(* What the steps do to the requests and the reconciliations.              *)

\* No copy of a row becomes current, and a current one keeps its key.
CopyKept(g) ==
    \A q \in Plans : g \in plan'[q].readers =>
        g \in plan[q].readers /\ plan'[q].idempotencyKey = plan[q].idempotencyKey

\* A request that approves nothing and has claimed nothing.
Harmless(q) ==
    q.step \notin {"select", "decide", "generic_select", "generic_decide", "add", "unqueue"}

LEMMA CopiesKept ==
    ASSUME TypeInv
    PROVE  /\ UNCHANGED plan => \A g : CopyKept(g)
           /\ \A p \in Plans : plan' = [plan EXCEPT ![p] = Scheduled(plan[p])]
                 => \A g : CopyKept(g)
<1>1. UNCHANGED plan => \A g : CopyKept(g)
  BY DEF CopyKept
<1>2. ASSUME NEW p \in Plans, plan' = [plan EXCEPT ![p] = Scheduled(plan[p])]
      PROVE  \A g : CopyKept(g)
  BY <1>2 DEF CopyKept, Scheduled, TypeInv, PlansTyped, PlanRow
<1>3. QED
  BY <1>1, <1>2

LEMMA WriteKept ==
    ASSUME TypeInv, NEW p \in Plans, NEW row \in PlanRow, SetPlan(p, row)
    PROVE  \A g : CopyKept(g)
BY SetPlanSets DEF CopyKept, OtherPlans

LEMMA OtherRequestsKept ==
    ASSUME SafeInv, NEW g \in Handlers, req'[g] = req[g], CopyKept(g)
    PROVE  RequestFits(req'[g]) /\ ClaimKnown(g)'
<1>1. RequestFits(req'[g])
  BY DEF SafeInv, RequestsFit
<1>2. req[g].step \in {"add", "unqueue"} => req[g].plan \in Plans
  BY DEF SafeInv, OnceInv, TypeInv, RequestsTyped, RequestPoints
<1>3. ClaimKnown(g)'
  BY <1>2 DEF CopyKept, SafeInv, ClaimsKnown, ClaimKnown
<1>4. QED
  BY <1>1, <1>3

\* One request goes on, the others stay.
LEMMA OneRequest ==
    ASSUME SafeInv, NEW h \in Handlers, NEW y, Continue(h, y),
           RequestFits(y), \A g \in Handlers \ {h} : CopyKept(g),
           y.step \in {"add", "unqueue"} => ClaimKnown(h)'
    PROVE  RequestsFit' /\ ClaimsKnown'
<1>1. req'[h] = y /\ \A g \in Handlers \ {h} : req'[g] = req[g]
  BY DEF Continue, SafeInv, OnceInv, TypeInv, RequestsTyped
<1>2. RequestFits(req'[h]) /\ ClaimKnown(h)'
  BY <1>1 DEF ClaimKnown
<1>3. \A g \in Handlers : RequestFits(req'[g]) /\ ClaimKnown(g)'
  BY <1>1, <1>2, OtherRequestsKept
<1>4. QED
  BY <1>3 DEF RequestsFit, ClaimsKnown, RequestFits

LEMMA HarmlessRequest ==
    ASSUME SafeInv, NEW h \in Handlers, NEW y, Continue(h, y), Harmless(y),
           \A g \in Handlers \ {h} : CopyKept(g)
    PROVE  RequestsFit' /\ ClaimsKnown'
<1>1. RequestFits(y) /\ y.step \notin {"add", "unqueue"}
  BY DEF RequestFits, Harmless
<1>2. QED
  BY <1>1, OneRequest

LEMMA RequestEnds ==
    ASSUME SafeInv, NEW h \in Handlers, NEW p \in Plans, Finish(h) \/ Refuse(h, p),
           \A g \in Handlers \ {h} : CopyKept(g)
    PROVE  RequestsFit' /\ ClaimsKnown'
<1>1. Harmless(NoRequest) /\ Harmless([NoRequest EXCEPT !.step = "block", !.plan = p])
  BY DEF Harmless, NoRequest
<1>2. QED
  BY <1>1, HarmlessRequest DEF Finish, Refuse

LEMMA RequestsStay ==
    ASSUME SafeInv, UNCHANGED req, \A g \in Handlers : CopyKept(g)
    PROVE  RequestsFit' /\ ClaimsKnown'
<1>1. \A g \in Handlers : RequestFits(req'[g]) /\ ClaimKnown(g)'
  BY OtherRequestsKept
<1>2. QED
  BY <1>1 DEF RequestsFit, ClaimsKnown, RequestFits

\* The first step of a request.
LEMMA CallRequests ==
    ASSUME SafeInv, NEW h \in Handlers, GovernedCall(h)
    PROVE  RequestsFit' /\ ClaimsKnown'
<1>1. TypeInv /\ PlansTyped
  BY DEF SafeInv, OnceInv, TypeInv
<1>2. ASSUME NEW p \in Plans, NEW u \in Users, RequestRead(h, p, u)
      PROVE  RequestsFit' /\ ClaimsKnown'
  <2>1. Harmless(Copied("request", p, u))
    BY DEF Harmless, Copied, NoRequest
  <2>2. \A g \in Handlers \ {h} : CopyKept(g)
    BY <1>1, <1>2, CopiesKept DEF RequestRead
  <2>3. QED
    BY <1>2, <2>1, <2>2, HarmlessRequest, RequestEnds DEF RequestRead
<1>3. ASSUME NEW p \in Plans, NEW u \in Users, NEW v \in {"APPROVED", "REJECTED"},
             DecideRead(h, p, u, v)
      PROVE  RequestsFit' /\ ClaimsKnown'
  <2> DEFINE y == [Copied("select", p, u) EXCEPT !.verdict = v]
  <2>1. \A g \in Handlers \ {h} : CopyKept(g)
    BY <1>1, <1>3, CopiesKept DEF DecideRead
  <2>2. y.step = "select" /\ y.actor = u /\ y.plan = p
    BY DEF Copied, NoRequest
  <2>3. u # CreatedBy[p] => RequestFits(y)
    BY <2>2 DEF RequestFits
  <2>4. CASE u # CreatedBy[p] /\ Continue(h, y)
    BY <2>1, <2>2, <2>3, <2>4, OneRequest
  <2>5. QED
    BY <1>3, <2>1, <2>4, RequestEnds DEF DecideRead
<1>4. ASSUME NEW p \in Plans, CaptureRead(h, p)
      PROVE  RequestsFit' /\ ClaimsKnown'
  <2>1. \A g \in Handlers \ {h} : CopyKept(g)
    BY <1>1, <1>4, CopiesKept DEF CaptureRead
  <2>2. PICK a \in PendingOf(p) :
          Continue(h, [NoRequest EXCEPT !.step = "observe", !.plan = p, !.target = a])
    BY <1>4 DEF CaptureRead
  <2>3. Harmless([NoRequest EXCEPT !.step = "observe", !.plan = p, !.target = a])
    BY DEF Harmless, NoRequest
  <2>4. QED
    BY <2>1, <2>2, <2>3, HarmlessRequest
<1>5. ASSUME NEW p \in Plans, NEW k \in Keys, ExecuteRead(h, p, k)
      PROVE  RequestsFit' /\ ClaimsKnown'
  <2> DEFINE y == [NoRequest EXCEPT !.step = "dup", !.plan = p, !.key = k,
                                    !.target = plan[p].approvedByRequestId]
  <2>1. Harmless(y)
    BY DEF Harmless, NoRequest
  <2>2. CASE Continue(h, y) /\ plan' = [plan EXCEPT ![p].readers = @ \cup {h}]
    <3>1. \A g \in Handlers \ {h} : CopyKept(g)
      BY <1>1, <2>2 DEF CopyKept, PlansTyped, PlanRow
    <3>2. QED
      BY <2>1, <2>2, <3>1, HarmlessRequest
  <2>3. CASE Refuse(h, p) /\ UNCHANGED plan
    BY <1>1, <2>3, CopiesKept, RequestEnds
  <2>4. QED
    BY <1>5, <2>2, <2>3 DEF ExecuteRead
<1>6. QED
  BY <1>2, <1>3, <1>4, <1>5 DEF GovernedCall

\* The later ones.
LEMMA StepRequests ==
    ASSUME SafeInv, NEW h \in Handlers, GovernedStep(h)
    PROVE  RequestsFit' /\ ClaimsKnown'
<1>0. PICK p : p = req[h].plan
  OBVIOUS
<1> DEFINE k == req[h].key
<1>1. TypeInv /\ PlansTyped /\ RequestsTyped
  BY DEF SafeInv, OnceInv, TypeInv
<1>2. p \in Plans /\ req[h] \in Request /\ RequestPoints(req[h])
  BY <1>0, <1>1, BusyRequest
     DEF Idle, GovernedStep, RequestCommit, CaptureObserve, CaptureCommit, DecideSelect,
         DecideCommit, BlockCommit, ExecuteDup, ExecuteClaim, ExecuteAdd, ExecuteAddFails,
         ExecuteUnqueue
<1>3. ASSUME \A g \in Handlers \ {h} : CopyKept(g), Finish(h) \/ Refuse(h, p)
      PROVE  RequestsFit' /\ ClaimsKnown'
  BY <1>2, <1>3, RequestEnds
<1>4. UNCHANGED plan => \A g \in Handlers \ {h} : CopyKept(g)
  BY <1>1, CopiesKept
<1>5. ASSUME NEW row \in PlanRow, SetPlan(p, row)
      PROVE  \A g \in Handlers \ {h} : CopyKept(g)
  BY <1>1, <1>2, <1>5, WriteKept
<1>6. CASE RequestCommit(h)
  BY <1>0, <1>1, <1>2, <1>3, <1>5, <1>6, ApiRowsTyped DEF RequestCommit
<1>7. CASE CaptureObserve(h)
  <2> DEFINE y == [req[h] EXCEPT !.step = "capture", !.seen = Fingerprint(req[h].plan)]
  <2>1. Harmless(y)
    BY <1>2 DEF Harmless, Request
  <2>2. CASE Continue(h, y)
    BY <1>4, <1>7, <2>1, <2>2, HarmlessRequest DEF CaptureObserve
  <2>3. QED
    BY <1>3, <1>4, <1>7, <2>2 DEF CaptureObserve
<1>8. CASE CaptureCommit(h)
  BY <1>3, <1>4, <1>8 DEF CaptureCommit
<1>9. CASE DecideSelect(h)
  <2>1. UNCHANGED plan
    BY <1>9 DEF DecideSelect
  <2>2. ASSUME NEW a, Continue(h, [req[h] EXCEPT !.step = "decide", !.target = a])
        PROVE  RequestsFit' /\ ClaimsKnown'
    <3> DEFINE y == [req[h] EXCEPT !.step = "decide", !.target = a]
    <3>1. /\ y.step = "decide" /\ y.verdict = req[h].verdict
          /\ y.actor = req[h].actor /\ y.plan = req[h].plan
      BY <1>2 DEF Request
    <3>2. RequestFits(req[h]) /\ req[h].step = "select"
      BY <1>9 DEF DecideSelect, SafeInv, RequestsFit
    <3>3. RequestFits(y)
      BY <3>1, <3>2 DEF RequestFits
    <3>4. QED
      BY <1>4, <2>1, <2>2, <3>1, <3>3, OneRequest
  <2>3. CASE Finish(h) \/ Refuse(h, p)
    BY <1>3, <1>4, <2>1, <2>3
  <2>4. QED
    BY <1>0, <1>9, <2>2, <2>3 DEF DecideSelect
<1>10. CASE DecideCommit(h)
  <2>1. CASE MayDecide(p, req[h].target)
    <3>1. /\ req[h].target \in 0..MaxApprovals /\ req[h].actor \in Users
          /\ req[h].verdict \in {"APPROVED", "REJECTED"}
      BY <1>2, <1>10 DEF DecideCommit, RequestPoints, Request
    <3>2. DecidedRow(p, h) \in PlanRow /\ SetPlan(p, DecidedRow(p, h)) /\ Finish(h)
      BY <1>0, <1>1, <1>2, <1>10, <2>1, <3>1, DecidedRowTyped DEF DecideCommit
    <3>3. QED
      BY <1>3, <1>5, <3>2
  <2>2. CASE ~MayDecide(p, req[h].target)
    BY <1>0, <1>3, <1>4, <1>10, <2>2 DEF DecideCommit
  <2>3. QED
    BY <2>1, <2>2
<1>11. CASE BlockCommit(h)
  BY <1>0, <1>1, <1>2, <1>3, <1>5, <1>11, ApiRowsTyped DEF BlockCommit
<1>12. CASE ExecuteDup(h)
  <2>1. Harmless([req[h] EXCEPT !.step = "claim"])
    BY <1>2 DEF Harmless, Request
  <2>2. UNCHANGED plan
    BY <1>12 DEF ExecuteDup
  <2>3. CASE Continue(h, [req[h] EXCEPT !.step = "claim"])
    BY <1>4, <2>1, <2>2, <2>3, HarmlessRequest
  <2>4. QED
    BY <1>0, <1>3, <1>4, <1>12, <2>2, <2>3 DEF ExecuteDup
<1>13. CASE ExecuteClaim(h)
  <2>1. CASE MayQueue(p, h) /\ KeyFree(p, k)
    <3> DEFINE y == [req[h] EXCEPT !.step = "add"]
               row == [QueuedRow(p, k) EXCEPT !.readers = {h}]
    <3>1. plan' = [plan EXCEPT ![p] = row] /\ Continue(h, y)
      BY <1>0, <1>13, <2>1 DEF ExecuteClaim
    <3>2. plan'[p] = row /\ \A q \in Plans \ {p} : plan'[q] = plan[q]
      BY <1>1, <1>2, <3>1 DEF PlansTyped
    <3>3. row.idempotencyKey = k /\ row.readers = {h}
      BY <1>1, <1>2 DEF QueuedRow, PlansTyped, PlanRow
    <3>4. \A g \in Handlers \ {h} : CopyKept(g)
      BY <3>2, <3>3 DEF CopyKept
    <3>5. req'[h] = y /\ y.step = "add" /\ y.plan = p /\ y.key = k
      BY <1>0, <1>1, <1>2, <3>1 DEF Continue, RequestsTyped, Request
    <3>6. ClaimKnown(h)'
      BY <3>2, <3>3, <3>5 DEF ClaimKnown
    <3>7. RequestFits(y)
      BY <3>5 DEF RequestFits
    <3>8. QED
      BY <3>1, <3>4, <3>6, <3>7, OneRequest
  <2>2. CASE ~(MayQueue(p, h) /\ KeyFree(p, k))
    BY <1>0, <1>3, <1>4, <1>13, <2>2 DEF ExecuteClaim
  <2>3. QED
    BY <2>1, <2>2
<1>14. CASE ExecuteAdd(h)
  BY <1>3, <1>4, <1>14 DEF ExecuteAdd
<1>15. CASE ExecuteAddFails(h)
  <2> DEFINE y == [req[h] EXCEPT !.step = "unqueue"]
  <2>1. Continue(h, y) /\ UNCHANGED plan /\ req[h].step = "add"
    BY <1>15 DEF ExecuteAddFails
  <2>2. req'[h] = y /\ y.step = "unqueue" /\ y.plan = p /\ y.key = k
    BY <1>0, <1>1, <1>2, <2>1 DEF Continue, RequestsTyped, Request
  <2>3. ClaimKnown(h)'
    BY <1>0, <2>1, <2>2 DEF ClaimKnown, SafeInv, ClaimsKnown
  <2>4. RequestFits(y)
    BY <2>2 DEF RequestFits
  <2>5. QED
    BY <1>4, <2>1, <2>3, <2>4, OneRequest
<1>16. CASE ExecuteUnqueue(h)
  <2>1. CASE MayUnqueue(p, h)
    <3>1. k \in Keys
      BY <1>2, <1>16 DEF ExecuteUnqueue, RequestPoints
    <3>2. EnqueueFailedRow(p, k) \in PlanRow /\ SetPlan(p, EnqueueFailedRow(p, k)) /\ Finish(h)
      BY <1>0, <1>1, <1>2, <1>16, <2>1, <3>1, ApiRowsTyped DEF ExecuteUnqueue
    <3>3. QED
      BY <1>3, <1>5, <3>2
  <2>2. CASE ~MayUnqueue(p, h)
    BY <1>0, <1>3, <1>4, <1>16, <2>2 DEF ExecuteUnqueue
  <2>3. QED
    BY <2>1, <2>2
<1>17. QED
  BY <1>6, <1>7, <1>8, <1>9, <1>10, <1>11, <1>12, <1>13, <1>14, <1>15, <1>16 DEF GovernedStep

\* Those of the older workflow.
LEMMA RemediationRequests ==
    ASSUME SafeInv, RemediationNext
    PROVE  RequestsFit' /\ ClaimsKnown'
<1>1. TypeInv /\ PlansTyped /\ RequestsTyped
  BY DEF SafeInv, OnceInv, TypeInv
<1>2. ASSUME NEW p \in Plans, NEW s \in ApprovalStatus,
             SetPlan(p, [plan[p] EXCEPT !.approvalStatus = s])
      PROVE  \A g \in Handlers : CopyKept(g)
  <2>1. [plan[p] EXCEPT !.approvalStatus = s] \in PlanRow
    BY <1>1 DEF PlansTyped, PlanRow
  <2>2. QED
    BY <1>1, <1>2, <2>1, WriteKept
<1>3. ASSUME NEW p \in Plans, GenericSelfApprove(p) \/ \E u \in Users : GenericRequest(p, u)
      PROVE  RequestsFit' /\ ClaimsKnown'
  BY <1>2, <1>3, RequestsStay, LiteralsTyped DEF GenericSelfApprove, GenericRequest
<1>4. ASSUME NEW h \in Handlers, NEW p \in Plans, GenericCompleteRead(h, p)
      PROVE  RequestsFit' /\ ClaimsKnown'
  <2> DEFINE y == [NoRequest EXCEPT !.step = "generic_complete", !.plan = p,
                                    !.status = plan[p].approvalStatus]
  <2>1. Harmless(y) /\ Continue(h, y)
    BY <1>4 DEF GenericCompleteRead, Harmless, NoRequest
  <2>2. \A g \in Handlers \ {h} : CopyKept(g)
    BY <1>1, <1>4, CopiesKept DEF GenericCompleteRead
  <2>3. QED
    BY <2>1, <2>2, HarmlessRequest
<1>5. ASSUME NEW h \in Handlers, GenericCompleteCommit(h)
      PROVE  RequestsFit' /\ ClaimsKnown'
  <2>1. req[h].plan \in Plans /\ req[h] \in Request
    BY <1>1, <1>5, BusyRequest DEF GenericCompleteCommit, Idle
  <2>2. CompletedStatus(req[h].status) \in ApprovalStatus
    BY <2>1, LiteralsTyped DEF CompletedStatus, Request
  <2>3. QED
    BY <1>2, <1>5, <2>1, <2>2, RequestEnds DEF GenericCompleteCommit
<1>6. ASSUME NEW h \in Handlers, NEW p \in Plans, NEW u \in Users,
             NEW v \in {"APPROVED", "REJECTED"}, GenericDecideRead(h, p, u, v)
      PROVE  RequestsFit' /\ ClaimsKnown'
  <2> DEFINE y == [Copied("generic_select", p, u) EXCEPT !.verdict = v]
  <2>1. y.step = "generic_select" /\ y.actor = u /\ y.plan = p /\ y.verdict = v
    BY DEF Copied, NoRequest
  <2>2. Continue(h, y) /\ UNCHANGED plan /\ ~(v = "APPROVED" /\ u = CreatedBy[p])
    BY <1>6 DEF GenericDecideRead
  <2>3. RequestFits(y)
    BY <2>1, <2>2 DEF RequestFits
  <2>4. \A g \in Handlers \ {h} : CopyKept(g)
    BY <1>1, <2>2, CopiesKept
  <2>5. QED
    BY <2>1, <2>2, <2>3, <2>4, OneRequest
<1>7. ASSUME NEW h \in Handlers, GenericDecideSelect(h)
      PROVE  RequestsFit' /\ ClaimsKnown'
  <2>1. PICK a : Continue(h, [req[h] EXCEPT !.step = "generic_decide", !.target = a])
    BY <1>7 DEF GenericDecideSelect
  <2> DEFINE y == [req[h] EXCEPT !.step = "generic_decide", !.target = a]
  <2>2. /\ y.step = "generic_decide" /\ y.verdict = req[h].verdict
        /\ y.actor = req[h].actor /\ y.plan = req[h].plan
    BY <1>1, BusyRequest DEF Request
  <2>3. RequestFits(req[h]) /\ req[h].step = "generic_select" /\ UNCHANGED plan
    BY <1>7 DEF GenericDecideSelect, SafeInv, RequestsFit
  <2>4. RequestFits(y)
    BY <2>2, <2>3 DEF RequestFits
  <2>5. \A g \in Handlers \ {h} : CopyKept(g)
    BY <1>1, <2>3, CopiesKept
  <2>6. QED
    BY <2>1, <2>2, <2>4, <2>5, OneRequest
<1>8. ASSUME NEW h \in Handlers, GenericDecideCommit(h)
      PROVE  RequestsFit' /\ ClaimsKnown'
  <2>1. /\ req[h].plan \in Plans /\ req[h] \in Request /\ RequestPoints(req[h])
        /\ SetPlan(req[h].plan, GenericDecidedRow(req[h].plan, h)) /\ Finish(h)
    BY <1>1, <1>8, BusyRequest DEF GenericDecideCommit, Idle
  <2>2. /\ req[h].actor \in Users /\ req[h].target \in 0..MaxApprovals
        /\ req[h].verdict \in {"APPROVED", "REJECTED"}
    BY <1>8, <2>1 DEF GenericDecideCommit, RequestPoints, Request
  <2>3. GenericDecidedRow(req[h].plan, h) \in PlanRow
    BY <1>1, <2>1, <2>2, DecidedRowTyped
  <2>4. \A g \in Handlers \ {h} : CopyKept(g)
    BY <1>1, <2>1, <2>3, WriteKept
  <2>5. QED
    BY <2>1, <2>4, RequestEnds
<1>9. QED
  BY <1>3, <1>4, <1>5, <1>6, <1>7, <1>8 DEF RemediationNext

\* The worker and the reconciler leave the requests alone.
LEMMA WorkerCopies ==
    ASSUME SafeInv, WorkerNext
    PROVE  \A g \in Handlers : CopyKept(g)
<1>1. TypeInv /\ PlansTyped
  BY DEF SafeInv, OnceInv, TypeInv
<1>2. CASE UNCHANGED plan
  BY <1>1, <1>2, CopiesKept
<1>3. ASSUME NEW r \in Runs, WorkerStep(r)
      PROVE  \A g \in Handlers : CopyKept(g)
  <2>0. PICK p : p = run[r].plan
    OBVIOUS
  <2>1. /\ p = run[r].plan /\ p \in Plans /\ run[r] \in JobRun /\ RunPoints(run[r])
    BY <1>1, <1>3, <2>0, BusyRun
       DEF TypeInv, WorkerStep, At, WDup, WLoad, WSchedule, WClaim, WSimulated, WPreflight,
           WBarrier, WSend, WRecord, WVerify, WConfirm, WConfirmNoop, WPersist, WFail, WBlock
  <2>2. plan[p] \in PlanRow
    BY <1>1, <2>1 DEF PlansTyped
  <2>3. ASSUME NEW row \in PlanRow, SetPlan(p, row)
        PROVE  \A g \in Handlers : CopyKept(g)
    BY <1>1, <2>1, <2>3, WriteKept
  <2>4. CASE WSchedule(r)
    BY <1>1, <2>1, <2>4, CopiesKept DEF WSchedule, PlansTyped
  <2>5. CASE WClaim(r)
    BY <1>1, <1>2, <2>1, <2>3, <2>5, WorkerRowsTyped DEF WClaim
  <2>6. CASE WSimulated(r)
    BY <1>1, <2>1, <2>3, <2>6, WorkerRowsTyped DEF WSimulated
  <2>7. CASE WBarrier(r)
    BY <1>1, <1>2, <2>1, <2>3, <2>7, WorkerRowsTyped DEF WBarrier
  <2>8. CASE WRecord(r)
    BY <1>2, <2>1, <2>2, <2>3, <2>8 DEF WRecord
  <2>9. CASE WConfirm(r)
    BY <1>1, <1>2, <2>1, <2>3, <2>9, WorkerRowsTyped DEF WConfirm
  <2>10. CASE WConfirmNoop(r)
    BY <1>1, <1>2, <2>1, <2>3, <2>10, WorkerRowsTyped DEF WConfirmNoop
  <2>11. CASE WPersist(r)
    <3>1. run[r].verdict \in {"CONFIRMED_FAILED", "OUTCOME_UNKNOWN"}
      BY <2>1, <2>11 DEF WPersist, At, RunPoints, JobRun
    <3>2. QED
      BY <1>1, <1>2, <2>1, <2>3, <2>11, <3>1, WorkerRowsTyped DEF WPersist
  <2>12. CASE WFail(r)
    BY <1>1, <2>1, <2>3, <2>12, WorkerRowsTyped DEF WFail
  <2>13. CASE WBlock(r)
    <3>1. SetPlan(p, BlockedRow(p))
      BY <2>1, <2>13 DEF WBlock, BlockedRow
    <3>2. QED
      BY <1>1, <2>1, <2>3, <3>1, ApiRowsTyped
  <2>14. CASE WDup(r) \/ WLoad(r) \/ WPreflight(r) \/ WSend(r) \/ WVerify(r)
    BY <1>2, <2>14 DEF WDup, WLoad, WPreflight, WSend, WVerify
  <2>15. QED
    BY <1>3, <2>4, <2>5, <2>6, <2>7, <2>8, <2>9, <2>10, <2>11, <2>12, <2>13, <2>14
       DEF WorkerStep
<1>4. QED
  BY <1>2, <1>3 DEF WorkerNext, RunCrash, RunThrows, Deliver, Stall, Forget

LEMMA ReconcilerCopies ==
    ASSUME SafeInv, ReconciliationNext
    PROVE  \A g \in Handlers : CopyKept(g)
<1>1. TypeInv
  BY DEF SafeInv, OnceInv
<1>2. CASE UNCHANGED plan
  BY <1>1, <1>2, CopiesKept
<1>3. ASSUME NEW c \in Reconcilers, rec[c].pc # "idle"
      PROVE  rec[c] \in ReconcilerRun /\ ReconcilerPoints(rec[c]) /\ rec[c].plan \in Plans
  BY <1>1, <1>3 DEF TypeInv, ReconcilersTyped, ReconcilerPoints
<1>4. ASSUME NEW c \in Reconcilers, RecClaim(c), MayReconcile(c)
      PROVE  \A g \in Handlers : CopyKept(g)
  <2>0. PICK p : p = rec[c].plan
    OBVIOUS
  <2>1. p \in Plans /\ plan[p].attemptCount < MaxAttempts /\ SetPlan(p, ReconcilingRow(p))
    BY <1>3, <1>4, <2>0 DEF RecClaim, RecAt, ReconcilerPoints, MayReconcile
  <2>2. ReconcilingRow(p) \in PlanRow
    BY <1>1, <2>1, ReconcilerRowsTyped DEF TypeInv
  <2>3. QED
    BY <1>1, <2>1, <2>2, WriteKept
<1>5. ASSUME NEW c \in Reconcilers, RecPersist(c), MayResolve(c)
      PROVE  \A g \in Handlers : CopyKept(g)
  <2>0. PICK p : p = rec[c].plan
    OBVIOUS
  <2> DEFINE v == rec[c].verdict
  <2>1. /\ p \in Plans /\ SetPlan(p, ResolvedRow(p, v))
        /\ v \in {"NOT_ATTEMPTED", "CONFIRMED_SUCCEEDED", "RETRY", "MANUAL_REVIEW_REQUIRED"}
    BY <1>3, <1>5, <2>0 DEF RecPersist, RecAt, ReconcilerPoints, ReconcilerRun
  <2>2. ResolvedRow(p, v) \in PlanRow
    BY <1>1, <2>1, ReconcilerRowsTyped DEF TypeInv
  <2>3. QED
    BY <1>1, <2>1, <2>2, WriteKept
<1>6. QED
  BY <1>2, <1>4, <1>5
     DEF ReconciliationNext, ReconcilerStep, RecPick, RecClaim, RecObserve, RecPersist, RecCrash

LEMMA RequestsNext ==
    ASSUME SafeInv, [Next]_vars
    PROVE  RequestsFit' /\ ClaimsKnown'
<1>1. TypeInv /\ RequestsTyped
  BY DEF SafeInv, OnceInv, TypeInv
<1>2. CASE UNCHANGED <<plan, req>>
  BY <1>1, <1>2, CopiesKept, RequestsStay
<1>3. CASE ApiNext
  <2>1. ASSUME NEW p \in Plans, NEW k \in Keys, Simulate(p, k)
        PROVE  RequestsFit' /\ ClaimsKnown'
    <3>1. PICK b \in {FALSE} \cup {"gate_closed" \in Faults} :
            SetPlan(p, SimulatedRow(p, k, b))
      BY <2>1 DEF Simulate
    <3>2. SimulatedRow(p, k, b) \in PlanRow
      BY <1>1, <2>1, SimulatedRowTyped DEF Simulate, TypeInv
    <3>3. QED
      BY <1>1, <2>1, <3>1, <3>2, WriteKept, RequestsStay DEF Simulate
  <2>2. ASSUME NEW h \in Handlers, RequestDropped(h)
        PROVE  RequestsFit' /\ ClaimsKnown'
    <3>1. req[h].plan \in Plans /\ Finish(h) /\ UNCHANGED plan
      BY <1>1, <2>2, BusyRequest DEF RequestDropped
    <3>2. QED
      BY <1>1, <3>1, CopiesKept, RequestEnds
  <2>3. QED
    BY <1>3, <2>1, <2>2, CallRequests, StepRequests DEF ApiNext
<1>4. CASE WorkerNext
  <2>1. UNCHANGED req
    BY <1>4, WorkerStays DEF Elsewhere
  <2>2. QED
    BY <1>4, <2>1, WorkerCopies, RequestsStay
<1>5. CASE ReconciliationNext
  <2>1. UNCHANGED req
    BY <1>5 DEF ReconciliationNext, ReconcilerStep, RecPick, RecClaim, RecObserve, RecPersist,
                RecCrash
  <2>2. QED
    BY <1>5, <2>1, ReconcilerCopies, RequestsStay
<1>6. QED
  BY <1>2, <1>3, <1>4, <1>5, RemediationRequests DEF Next, vars, Lapse, Drift

\* A reconciliation is picked for an outcome that is open, and judges it so.
LEMMA ReconcilersNext ==
    ASSUME SafeInv, [Next]_vars
    PROVE  ReconcilersFit'
<1>1. /\ ReconcilersFit /\ rec \in [Reconcilers -> ReconcilerRun]
  BY DEF SafeInv, OnceInv, TypeInv, ReconcilersTyped
<1>2. CASE UNCHANGED rec
  BY <1>1, <1>2 DEF ReconcilersFit, ReconciliationFits
<1>3. ASSUME NEW c \in Reconcilers, NEW x, RecStep(c, x), ReconciliationFits(x)
      PROVE  ReconcilersFit'
  <2>1. \A d \in Reconcilers : ReconciliationFits(rec'[d])
    BY <1>1, <1>3 DEF RecStep, ReconcilersFit
  <2>2. QED
    BY <2>1 DEF ReconcilersFit, ReconciliationFits
<1>4. ReconciliationFits(NoReconcilerRun)
  BY DEF ReconciliationFits, NoReconcilerRun
<1>5. ASSUME NEW c \in Reconcilers, NEW p \in Plans, RecPick(c, p)
      PROVE  ReconcilersFit'
  <2> DEFINE x == [NoReconcilerRun EXCEPT !.pc = "claim", !.plan = p,
                      !.outcome = plan[p].mutationOutcome,
                      !.status = plan[p].reconciliationStatus,
                      !.attempts = plan[p].attemptCount,
                      !.content = plan[p].content,
                      !.bound = BindingValid(p)]
  <2>1. plan[p].mutationOutcome \in {"ATTEMPTED", "OUTCOME_UNKNOWN", "NOT_ATTEMPTED"}
    BY <1>5 DEF RecPick, Selectable, Open
  <2>2. x.pc = "claim" /\ x.outcome = plan[p].mutationOutcome
    BY DEF NoReconcilerRun
  <2>3. ReconciliationFits(x)
    BY <2>1, <2>2 DEF ReconciliationFits
  <2>4. RecStep(c, x)
    BY <1>5 DEF RecPick
  <2>5. QED
    BY <1>3, <2>3, <2>4
<1>6. ASSUME NEW c \in Reconcilers, RecClaim(c)
      PROVE  ReconcilersFit'
  <2> DEFINE x == [rec[c] EXCEPT !.pc = "observe"]
  <2>1. ReconciliationFits(x)
    BY <1>1, <1>6 DEF RecClaim, RecAt, ReconcilersFit, ReconciliationFits, ReconcilerRun
  <2>2. QED
    BY <1>3, <1>4, <1>6, <2>1 DEF RecClaim
<1>7. ASSUME NEW c \in Reconcilers, RecObserve(c)
      PROVE  ReconcilersFit'
  <2>1. PICK unseen \in {FALSE} \cup {"provider_error" \in Faults} :
          RecStep(c, [rec[c] EXCEPT !.pc = "persist", !.verdict = Verdict(c, unseen)])
    BY <1>7 DEF RecObserve
  <2> DEFINE x == [rec[c] EXCEPT !.pc = "persist", !.verdict = Verdict(c, unseen)]
  <2>2. x.outcome = rec[c].outcome /\ x.verdict = Verdict(c, unseen) /\ x.pc = "persist"
    BY <1>1 DEF ReconcilerRun
  <2>3. rec[c].outcome = "NOT_ATTEMPTED" => Verdict(c, unseen) = "NOT_ATTEMPTED"
    BY DEF Verdict
  <2>4. ReconciliationFits(x)
    BY <1>1, <1>7, <2>2, <2>3 DEF RecObserve, RecAt, ReconcilersFit, ReconciliationFits
  <2>5. QED
    BY <1>3, <2>1, <2>4
<1>8. ASSUME NEW c \in Reconcilers, RecPersist(c) \/ RecCrash(c)
      PROVE  ReconcilersFit'
  BY <1>3, <1>4, <1>8 DEF RecPersist, RecCrash
<1>9. CASE ReconciliationNext
  BY <1>5, <1>6, <1>7, <1>8, <1>9 DEF ReconciliationNext, ReconcilerStep
<1>10. CASE WorkerNext
  BY <1>2, <1>10, WorkerStays DEF Elsewhere
<1>11. CASE ApiNext
  <2>1. ASSUME NEW p \in Plans, NEW k \in Keys, Simulate(p, k)
        PROVE  UNCHANGED rec
    BY <2>1 DEF Simulate
  <2>2. ASSUME NEW h \in Handlers, GovernedCall(h) \/ RequestDropped(h)
        PROVE  UNCHANGED rec
    BY <2>2 DEF GovernedCall, RequestRead, DecideRead, CaptureRead, ExecuteRead, RequestDropped
  <2>3. ASSUME NEW h \in Handlers, GovernedStep(h)
        PROVE  UNCHANGED rec
    BY <2>3 DEF GovernedStep, RequestCommit, CaptureObserve, CaptureCommit, DecideSelect,
                DecideCommit, BlockCommit, ExecuteDup, ExecuteClaim, ExecuteAdd,
                ExecuteAddFails, ExecuteUnqueue
  <2>4. QED
    BY <1>2, <1>11, <2>1, <2>2, <2>3 DEF ApiNext
<1>12. CASE RemediationNext
  BY <1>2, <1>12
     DEF RemediationNext, GenericRequest, GenericSelfApprove, GenericCompleteRead,
         GenericCompleteCommit, GenericDecideRead, GenericDecideSelect, GenericDecideCommit
<1>13. QED
  BY <1>2, <1>9, <1>10, <1>11, <1>12 DEF Next, vars, Lapse, Drift

-----------------------------------------------------------------------------
(* The keys.                                                               *)

LEMMA KeysNext ==
    ASSUME SafeInv, Change
    PROVE  KeysApart'
<1> DEFINE same(p) == plan'[p].idempotencyKey = plan[p].idempotencyKey
<1>1. CASE \A p \in Plans : same(p)
  BY <1>1 DEF SafeInv, KeysApart
<1>2. ASSUME NEW p \in Plans, OtherPlans(p), KeyFree(p, plan'[p].idempotencyKey)
      PROVE  KeysApart'
  <2>1. \A q \in Plans \ {p} : same(q) /\ plan'[q].idempotencyKey # plan'[p].idempotencyKey
    BY <1>2 DEF OtherPlans, KeyFree
  <2>2. QED
    BY <2>1 DEF SafeInv, KeysApart
<1>3. CASE Routine
  BY <1>1, <1>3 DEF Routine, KeptRow, SteadyRow
<1>4. ASSUME NEW p \in Plans, OtherPlans(p), ApiChange(p)
      PROVE  KeysApart'
  <2>1. CASE Renews(p) \/ Queues(p)
    BY <1>2, <1>4, <2>1 DEF Renews, Queues
  <2>2. CASE Unqueues(p) \/ Binds(p)
    BY <1>1, <1>4, <2>2 DEF Unqueues, Binds, OtherPlans
  <2>3. QED
    BY <1>4, <2>1, <2>2 DEF ApiChange
<1>5. ASSUME NEW p \in Plans, NEW r \in Runs, Loads(p, r)
      PROVE  KeysApart'
  BY <1>1, <1>5 DEF Loads
<1>6. ASSUME NEW p \in Plans, NEW r \in Runs, OtherPlans(p), RunChange(p, r)
      PROVE  KeysApart'
  BY <1>1, <1>6 DEF RunChange, Claims, Attempted, Sends, Settles, SteadyRow, OtherPlans
<1>7. QED
  BY <1>3, <1>4, <1>5, <1>6 DEF Change

-----------------------------------------------------------------------------
(* SafeInv is inductive, and what follows from it.                         *)

LEMMA InitSafe == Init => SafeInv
<1> SUFFICES ASSUME Init PROVE SafeInv
  OBVIOUS
<1>1. OnceInv
  BY InitOnce
<1>2. \A r \in Runs : run[r] = NoRun
  BY DEF Init
<1>3. \A p \in Plans : sent[p] = <<>> /\ plan[p] = Drafted
  BY DEF Init
<1>4. RunsFit /\ Alone
  BY <1>2 DEF RunsFit, RunFits, Alone, Working, NoRun, Claimed, Early
<1>5. CallsFit
  BY <1>3 DEF CallsFit, Calls
<1>6. RowsFit
  BY <1>3 DEF RowsFit, RowFits, Drafted, Unattempted
<1>7. RequestsFit /\ ClaimsKnown
  BY DEF Init, NoRequest, RequestsFit, RequestFits, ClaimsKnown, ClaimKnown
<1>8. ReconcilersFit
  BY DEF Init, NoReconcilerRun, ReconcilersFit, ReconciliationFits
<1>9. AllEndorsed
  BY DEF Init, NoApproval, AllEndorsed, Endorsed
<1>10. KeysApart
  BY <1>3 DEF KeysApart, Drafted
<1>11. QED
  BY <1>1, <1>4, <1>5, <1>6, <1>7, <1>8, <1>9, <1>10 DEF SafeInv

LEMMA NextSafe == SafeInv /\ [Next]_vars => SafeInv'
<1> SUFFICES ASSUME SafeInv, [Next]_vars PROVE SafeInv'
  OBVIOUS
<1>1. OnceInv'
  BY NextOnce DEF SafeInv
<1>2. Change /\ Filed /\ AllEndorsed'
  BY StepChange, StepFiled
<1>3. Works' /\ KeysApart'
  BY <1>2, ChangeKeeps, KeysNext
<1>4. RequestsFit' /\ ClaimsKnown' /\ ReconcilersFit'
  BY RequestsNext, ReconcilersNext
<1>5. QED
  BY <1>1, <1>2, <1>3, <1>4 DEF SafeInv, Works

\* Runs and calls are warranted and alone, rows report what is true of them,
\* requests and reconciliations have been let in for a reason, approvals are in
\* the audit trail, and no two rows share a key: in every state that the four
\* parts of the subsystem can reach together.
THEOREM SafeInvariance == Spec => []SafeInv
<1>1. QED
  BY InitSafe, NextSafe, PTL DEF Spec

\* Every call carries a content, and runs under a key, that somebody other than
\* the plan's author has approved.
THEOREM OnlyApprovedMutations == Spec => []MutationWasApproved
<1>1. SafeInv => MutationWasApproved
  BY DEF SafeInv, CallsFit, CallFits, Warranted, MutationWasApproved
<1>2. QED
  BY <1>1, SafeInvariance, PTL

\* So does every claim, also of the runs that never come to a call.
THEOREM OnlyApprovedClaims == Spec => []ClaimWasApproved
<1>1. SafeInv => ClaimWasApproved
  <2> SUFFICES ASSUME SafeInv, NEW r \in Runs, run[r].pc \in Claimed
               PROVE  ApprovedBy(run[r].plan, run[r].approver, run[r].content, run[r].key)
    BY DEF ClaimWasApproved
  <2>1. run[r].plan \in Plans
    BY DEF SafeInv, OnceInv, TypeInv, RunsTyped, RunPoints, Claimed
  <2>2. QED
    BY <2>1 DEF SafeInv, RunsFit, RunFits, Warranted
<1>2. QED
  BY <1>1, SafeInvariance, PTL

\* However often a job is delivered, one run at most works on a plan.
THEOREM OneRunAtATime == Spec => []ExclusiveExecution
<1>1. SafeInv => ExclusiveExecution
  <2> SUFFICES ASSUME SafeInv, NEW r \in Runs, NEW s \in Runs,
                      run[r].pc \in Claimed, run[s].pc \in Claimed, run[r].plan = run[s].plan
               PROVE  r = s
    BY DEF ExclusiveExecution
  <2>1. run[r].plan \in Plans
    BY DEF SafeInv, OnceInv, TypeInv, RunsTyped, RunPoints, Claimed
  <2>2. r \in Working(run[r].plan) /\ s \in Working(run[r].plan)
    BY DEF Working
  <2>3. QED
    BY <2>1, <2>2 DEF SafeInv, Alone
<1>2. QED
  BY <1>1, SafeInvariance, PTL

\* A call was checked against the state captured for the approval that the plan
\* is bound to, whatever is captured or decided later.
THEOREM CallsMatchTheCapture == Spec => []CallMatchesCapture
<1>1. SafeInv => CallMatchesCapture
  BY DEF SafeInv, CallsFit, CallFits, Warranted, CallMatchesCapture
<1>2. QED
  BY <1>1, SafeInvariance, PTL

\* A row that reports a definitive refusal reports one of a call that was made, by
\* a try of it that changed nothing.
THEOREM RefusalsAreTheProviders == Spec => []RefusedTryAppliedNothing
<1>1. SafeInv => RefusedTryAppliedNothing
  BY DEF SafeInv, RowsFit, RowFits, Refuted, RefusedTryAppliedNothing
<1>2. QED
  BY <1>1, SafeInvariance, PTL

\* A call made for the present content is on record, whoever crashed or threw.
THEOREM AttemptsAreOnRecord == Spec => []AttemptIsOnRecord
<1>1. SafeInv => AttemptIsOnRecord
  BY DEF SafeInv, CallsFit, CallFits, Unattempted, AttemptIsOnRecord
<1>2. QED
  BY <1>1, SafeInvariance, PTL

\* A plan that reports a refused enqueue is never executed, even if the queue
\* had accepted the job.
THEOREM RefusedEnqueueNeverExecutes == Spec => []EnqueueFailureNeverExecutes
<1>1. SafeInv => EnqueueFailureNeverExecutes
  BY DEF SafeInv, RowsFit, RowFits, EnqueueFailureNeverExecutes
<1>2. QED
  BY <1>1, SafeInvariance, PTL

\* One key executes one plan, as long as the plans keep their contents.
THEOREM KeysAreSpentOnce == Spec => []KeySpentOnce
<1>1. SafeInv => KeySpentOnce
  <2> SUFFICES ASSUME SafeInv, NEW p \in Plans, NEW q \in Plans,
                      NEW c \in Calls(p), NEW d \in Calls(q),
                      c.content = plan[p].content, d.content = plan[q].content, c.key = d.key
               PROVE  p = q
    BY DEF KeySpentOnce
  <2>1. /\ c.key \in Keys /\ c.key = plan[p].idempotencyKey
        /\ d.key = plan[q].idempotencyKey
    BY DEF SafeInv, CallsFit, CallFits
  <2>2. plan[p].idempotencyKey # None
    BY <2>1, UsersAssumption
  <2>3. QED
    BY <2>1, <2>2 DEF SafeInv, KeysApart
<1>2. QED
  BY <1>1, SafeInvariance, PTL

\* For one content an outcome only moves forward: worker, reconciler and API
\* never overwrite each other's verdict nor forget an attempt.
THEOREM OutcomesMoveForward == Spec => OutcomeMovesForward
<1> DEFINE Forward == \A p \in Plans :
              plan'[p].content = plan[p].content
                 => plan'[p].mutationOutcome \in After(plan[p].mutationOutcome)
<1>1. SafeInv /\ [Next]_vars => Forward
  <2> SUFFICES ASSUME SafeInv, [Next]_vars, NEW p \in Plans,
                      plan'[p].content = plan[p].content
               PROVE  plan'[p].mutationOutcome \in After(plan[p].mutationOutcome)
    OBVIOUS
  <2>1. /\ Change /\ plan[p].content \in Nat
        /\ plan[p].mutationOutcome \in Outcome /\ plan'[p].mutationOutcome \in Outcome
    BY StepChange, NextTyped, BoundsAssumption
       DEF SafeInv, OnceInv, TypeInv, PlansTyped, PlanRow, Contents
  <2>2. CASE plan'[p].mutationOutcome = plan[p].mutationOutcome
    BY <2>1, <2>2, OutcomesStay
  <2>3. CASE SteadyRow(plan[p], plan'[p])
    BY <2>3 DEF SteadyRow
  <2>4. CASE plan[p].mutationOutcome \in Unattempted
    BY <2>1, <2>4 DEF Unattempted, After, Settled
  <2>5. ~Past(p) => plan[p].mutationOutcome \in Unattempted
    BY DEF SafeInv, RowsFit, RowFits
  <2>6. ASSUME NEW q \in Plans, OtherPlans(q), ApiChange(q)
        PROVE  plan'[p].mutationOutcome \in After(plan[p].mutationOutcome)
    <3>1. CASE p # q
      BY <2>2, <2>6, <3>1 DEF OtherPlans
    <3>2. CASE p = q
      <4>1. ~Renews(p)
        BY <2>1 DEF Renews
      <4>2. CASE Queues(p) \/ Binds(p)
        BY <2>2, <4>2 DEF Queues, Binds
      <4>3. CASE Unqueues(p)
        BY <2>4, <2>5, <4>3 DEF Unqueues, Past
      <4>4. QED
        BY <2>6, <3>2, <4>1, <4>2, <4>3 DEF ApiChange
    <3>3. QED
      BY <3>1, <3>2
  <2>7. ASSUME NEW q \in Plans, NEW r \in Runs, OtherPlans(q), RunChange(q, r)
        PROVE  plan'[p].mutationOutcome \in After(plan[p].mutationOutcome)
    <3>1. CASE p # q
      BY <2>2, <2>7, <3>1 DEF OtherPlans
    <3>2. CASE p = q
      <4>1. CASE Claims(p, r) \/ Sends(p, r)
        BY <2>2, <4>1 DEF Claims, Sends
      <4>2. CASE Attempted(p, r)
        BY <2>4, <4>2 DEF Attempted, Unattempted
      <4>3. CASE Settles(p, r)
        BY <2>3, <4>3 DEF Settles
      <4>4. QED
        BY <2>7, <3>2, <4>1, <4>2, <4>3 DEF RunChange
    <3>3. QED
      BY <3>1, <3>2
  <2>8. CASE Routine
    BY <2>3, <2>8 DEF Routine, KeptRow
  <2>9. CASE UNCHANGED plan
    BY <2>2, <2>9
  <2>10. QED
    BY <2>1, <2>6, <2>7, <2>8, <2>9 DEF Change, Loads
<1>2. SafeInv /\ [Next]_vars => [Forward]_vars
  BY <1>1
<1>3. QED
  BY <1>2, SafeInvariance, PTL DEF Spec, OutcomeMovesForward
=============================================================================
