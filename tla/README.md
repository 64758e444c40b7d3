# CloudShield Enterprise: formal models

TLA+ models of the parts of CloudShield Enterprise that change state, the TLC runs
that check them on small instances, and proofs of what matters most for every value
of the constants. Paths are relative to the repository root (`src/` in
`PROJECT.json`), with these short names:

| short | file |
| --- | --- |
| `S`, `P`, `Q` | `apps/backend/src/modules/governance/aws-change-execution.service.ts`, and `.policy.ts`, `.queue.ts` beside it |
| `M`, `C` | `remediation.service.ts`, `resource-state-capture.service.ts`, in the same directory |
| `W`, `R` | `apps/worker/src/index.ts`, `apps/worker/src/mutation-reconciliation.ts` |
| `D` | `packages/database/prisma/schema.prisma` |
| `IO`, `SC` | `apps/backend/src/modules/aws-inventory/inventory-orchestration.service.ts`, `apps/worker/src/aws-ec2-scanner.ts` |
| `RR` | `packages/database/src/reliability-reconciliation.repository.ts` |
| `MO`, `ME` | `apps/worker/src/monitoring-orchestrator.ts`, `packages/security-monitoring/src/monitoring.engine.ts` |
| `EN`, `RW` | `packages/database/src/security-posture/security-rule.engine.ts`, `apps/backend/src/modules/risk-workflow/risk-workflow.service.ts` |
| `MB`, `AU` | `apps/backend/src/routes/members.routes.ts`, `auth.routes.ts` |
| `AR`, `CR` | `apps/backend/src/routes/aws-account.routes.ts`, `aws-connector.routes.ts` |
| `SD` | `apps/worker/src/shutdown.ts` |
| `AA`, `CE` | `apps/backend/src/routes/automation.routes.ts`, `apps/backend/src/modules/compliance-evidence/compliance-evidence.service.ts` |
| `DA`, `EX` | `apps/backend/src/modules/dashboard/dashboard.service.ts`, `executive-dashboard.service.ts` beside it |
| `CL` | `apps/frontend/lib/client-api.tsx` |

## 1. The system

A Fastify API and a worker process share a PostgreSQL database (through Prisma) and
BullMQ queues. The API plans work and enqueues jobs; the worker runs them against
AWS. Everything but one path is read-only towards AWS. That path, the **governed
change**, tags one EC2 instance after a simulation, an approval by a second person
and a capture of the instance's state; it is the core of this project.

### Components

| component | state | operations | modelled in |
| --- | --- | --- | --- |
| Governed change store (`D`, `packages/utils`) | `RemediationPlan`, `ApprovalRequest`, audit events, unique `(organizationId, idempotencyKey)` | payload hash, state fingerprint | `GovernedPlan` |
| Governed change API (`S`, `P`, `Q`, `C`) | those rows, the `governed-aws-changes` queue | simulate, request approval, capture, decide, execute, block | `GovernedApi` |
| Remediation workflow API (`M`) | the same rows | request approval, approve/reject, complete by hand | `RemediationApi` |
| Governed change worker (`W`) | the rows, the job, the instance | lookup, load, claim, preflight, barrier, CreateTags, verification, confirmation, failure | `GovernedWorker` |
| Mutation reconciler (`R`) | the same rows | select, claim, observe, resolve | `MutationReconciliation` |
| Inventory scans (`IO`, `SC`, `RR`) | `ScanRun`, scan queue, `CloudResource` | plan with deduplication, scan by region, start-up reconciliation | `InventoryScan`, `StartupReconciliation` |
| Security monitoring (`MO`, `ME`, `RR`) | `MonitoringRun`, snapshot, `SecurityAlert` | request, evaluate, auto-resolve, acknowledge, start-up reconciliation | `SecurityMonitoring`, `StartupReconciliation` |
| Risk workflow (`RW`, `EN`, `M`) | `SecurityFinding`, acceptances | eight reviewer actions, the rule engine, the remediation plan's write | `FindingWorkflow` |
| AWS accounts and connector (`AR`, `CR`) | `AwsAccount` | register, edit, archive, three validations; what scans and changes read and write | `AwsAccounts` |
| Membership, invitations, sessions (`MB`, `AU`) | memberships, invitations, sessions, reset tokens | invite ... reset password | `Membership` |
| Worker shutdown (`SD`, `W`) | open resources, a deadline | ordered close, signals, exit code | `WorkerShutdown` |
| Automated assessment (`AA`) | `AutomationAssessment`, its events, draft plans, report, summary, a queue | one request that notes every step, creates drafts, completes | `Assessment` |
| Compliance evidence (`CE`) | `ComplianceControl`, `ComplianceEvidence` | store the catalog, evaluate control by control, list live | `Compliance` |
| Dashboards (`DA`, `EX`) | none: what one request has read so far | some thirty reads without a transaction, derived scores, freshness and actions | `CommandCenter`, `ExecutiveSummary` |
| Frontend (`CL` and the pages), in part | the CSRF token, what a page shows, its calls under way | load, act, report, load again; read a list page by page | `ActionPages`, `PagedLists` |
| Teams, role permissions, posture predicates, reports, search and platform pages | none, or derived from rows above | editing one row, evaluation, export, display | not modelled (section 5) |

### How they interact

```
 client --simulate/request/capture/decide/execute--> API --+
 client --request/decide/complete--> remediation API ------+--> plan and approval rows <-- reconciler (timer)
                                      |                    |     ^                           |
                                      +-- job, id = key    |     |                           +--> DescribeInstances
                                             v             |     |
                                         BullMQ queue --> worker-+--> DescribeInstances, CreateTags

 accounts --eligible?--> scan requests --job--> scan worker --> CloudResource --> rule engine --> findings
    ^                                              |                                ^    |            |
    +------------- VALIDATION_SUCCEEDED -----------+            evaluation route ---+    |        reviewers,
                                                                                         v        plans
 monitoring requests --job--> monitoring worker --reads findings, scans, accounts--> alerts <--> users
```

Components never call each other: they meet in rows, and a handler or job reads, waits
and writes. Some writes are compare-and-sets (`updateMany` with the judged columns in
`where`), some are by id, and that difference is what most hazards are about.

### What is hard, and what makes each component correct

- **Governed change API.** Two requests for one plan interleave between the awaits, and
  `simulate` is legal in every state. Correct: what is executed is the content and key a
  second person approved; one approval binds a plan for good; a captured state is never
  replaced; "the queue did not accept the job" is true whenever it is recorded.
- **Remediation workflow.** It writes by id what a stale selection justified, on rows
  the governed workflow also uses. Correct: it cannot bind, unbind or forge an approval.
- **Worker.** Jobs are delivered at least once; a stalled run may still be alive; the
  process may die between CreateTags and the record of it. Correct: one call at most,
  always on record before it is made, only reported as refused when the try that was
  answered applied nothing (the SDK may have sent the call before; see section 3).
- **Reconciler.** Races the run it doubts, dies in the middle, has a bounded number of
  attempts. Correct: an open outcome is settled, a settled one is never overwritten.
- **Inventory scans.** Check-then-create, three attempts of a job, two scans over one
  inventory, rows revived or overwritten after the start-up pass. Correct: what exists is
  never called stale, an undisturbed region is stored as it is, no scan stays active.
- **Monitoring.** A `QUEUED` to `RUNNING` step that is a read and a write, alerts written
  by id from stale reads. Correct: alerts follow the conditions and acknowledgements stand.
- **Findings.** Two engines and several reviewers on rows without a unique key. Correct:
  the action matrix holds at the commit, decisions stand against evaluations that saw them.
- **Accounts.** Whether an account may be used is judged once, when it is read; validations
  and scans write its status later, by id. Correct: nothing new begins on a blocked
  account, and a success that a check wrote is about the number that was checked.
- **Membership.** Counts and checks in one statement, writes in a later one; sessions
  stored after the check. Correct: the last owner stays, who joins was invited, who was
  removed or reset has no earlier session.
- **Shutdown.** Anything may hang or throw, signals come twice. Correct: jobs keep the
  clients they use, exit code 0 is earned, the process ends.
- **Assessment.** A long handler of some twenty statements that may throw or die between any
  two, several at once. Correct: `COMPLETED` means whole, a later run finds the drafts of an
  earlier one, AWS is called only after it was announced, the status is never behind the events.
- **Compliance.** Two catalogs judge the same findings, with code of their own each: the stored
  controls when they are evaluated, the registry's when it is listed. Correct: a `FAIL` that was
  stored undisturbed fails in the registry, what the registry shows of rules that current
  controls cover one of them carries, and the evidence beside a status says the same.
- **Dashboards.** One answer from many statements. Correct: it fits its schema, a source that
  is called fresh is fresh, demo data earns no score, a full score hides no risk.
- **Lists and pages of the browser.** Answers overtake one another, rows move between two
  pages of a list, another tab changes the session. Correct: a list that has settled has every
  row down to its last, a page that has settled shows what it has reported as done, and no
  CSRF token outlives the request it was made for.

`PROJECT.json` lists each hazard at its line, with the properties that cover it. Two have
none. `S:256`: a crash of the API between the claim of a plan and the add of its job leaves
the plan `QUEUED` for good; that is what the code does, and why crashes of the API are outside
the run that checks `QueuedIsPickedUp`. `ME:161`: a stored snapshot does not have the shape
the next evaluation expects (section 3, "Behaviours"); the shape is below the model's
abstraction, and the evaluation it fails is one that throws, which the model has.

## 2. The modules

| module | models | proofs | TLC instance |
| --- | --- | --- | --- |
| `GovernedPlan` | constants, rows and messages, `TypeOK`, hash, expiry, unique key | `GovernedProofs` | `MCGovernedChange` |
| `GovernedApi`, `RemediationApi` | one action per await of each handler | same | same |
| `GovernedWorker`, `MutationReconciliation` | the run with its queue; the reconciler | same | same |
| `GovernedChange` | the composition: environment, fairness, properties, refinement mapping | same | same |
| `ProviderPromise` | the abstract promise: authorized once, called at most once, only after | same | same |
| `StartupReconciliation` | select and compare-and-set of the start-up pass, as operators | used by both below | |
| `InventoryScan` | scans of one account | `InventoryProofs` | `MCInventoryScan` |
| `SecurityMonitoring` | monitoring of one organization | `MonitoringProofs` | `MCSecurityMonitoring` |
| `FindingWorkflow` | findings of one resource and rule | `FindingWorkflowProofs` | `MCFindingWorkflow` |
| `AwsAccounts` | the registry and its users | `AwsAccountsProofs` | `MCAwsAccounts` |
| `Membership` | one organization | `MembershipProofs` | `MCMembership` |
| `WorkerShutdown` | the end of one process | `WorkerShutdownProofs` | itself |
| `Assessment`, `Compliance` | assessments of one organization; its controls, evidence and evaluations | `ViewsProofs` | `MCViews` |
| `CommandCenter`, `ExecutiveSummary` | one request of each dashboard between the writes of the rest | `ViewsProofs` | same |
| `PagedLists`, `ActionPages` | one list, one page of the browser, with the routes behind | `ViewsProofs` | same |
| `Views` | these six side by side | `ViewsProofs` | same |

In all of them one action is what happens between two awaits whose results matter: a
read and the pure checks on it, or one statement, or one transaction (Prisma
transactions are one step). Where awaits are merged, the comment at the action says why.
`Views` composes six parts that share no state: a behaviour is one of one part, for one
choice of its constants, and the variable `part` says which; a variable that two parts
declare belongs to the one that was chosen. One run and one module of proofs so serve
all six, and `PROJECT.json` has one property for each group of a part's properties. A
variable such as `request`, `run`, `eval` or `work` holds a handler or job between two
of its awaits, with the locals it carries over. Audit writes, texts, evidence and
counters are left out. Operators marked `Mutant` stand beside the originals they replace
when a property's sensitivity is checked (section 3).

### Governed changes

| model | code |
| --- | --- |
| `plan[p]` | the `RemediationPlan` row: lifecycle, approval status, approver, bound approval, key, mutation outcome, reconciliation status and attempt count, failure code |
| `plan[p].content` | everything one simulation writes and the payload hash covers, as a generation number; two simulations never agree on `approvalExpiresAt`, so never on their content |
| `plan[p].readers` | `updatedAt`: the requests whose copy of the row is still current |
| `approvals[p][a]` | the a-th `ApprovalRequest` row, in order of creation |
| `<<content, key>>` | `approvalPayloadHash` (it hashes both) |
| a control-tag state | the resource-state fingerprint |
| `lapsed[p]` | which approval windows are over |
| `jobs[k]` | the BullMQ job with id `k`: state, owner, stall count |
| `req[h]`, `run[r]`, `rec[c]` | a handler, job run or reconciliation between two awaits |
| `cloud[p]` | the instance: which content's tags it carries, its control tags |
| `decisions[p]`, `sent[p]` | history: decisions as the audit trail has them, CreateTags calls |

`Faults` is the set of what may go wrong in an instance, `ApiOps` the operations clients
issue: every run says in its configuration what its environment does. Faults: `lapse`
(an approval window ends), `drift` and `retag` (tags changed from outside),
`enqueue_fails`, `api_crash`, `capture_fails`, `gate_closed`, `wrong_token`, `stall` (a
live run loses its lock), `worker_crash`, `db_error`, `slow_worker` (an attempt becomes
old enough for the reconciler while its run is alive), `provider_error`,
`reconciler_crash`, `job_forgotten` (the queue drops a finished job's id). `stall` with
two live runs needs a second worker process or one frozen past its lock.

### The other components

| module | variable | code |
| --- | --- | --- |
| `InventoryScan` | `scan[s]` with `stamp`, `old` | the `ScanRun` row, its `queuedAt` or `startedAt` as a number, whether that is past the cutoff |
| | `request[s]`, `job[s]` | its planning request, its BullMQ job (3 attempts, one stall) |
| | `work[w]`, `up`, `sweep[w]` | `executeEc2Scan` in a worker process, whether it lives, its start-up pass |
| | `cloud`, `stored` | what exists, the `CloudResource` rows; `missed` is history |
| `SecurityMonitoring` | `run`, `request`, `job`, `eval`, `sweep` | as above, for monitoring runs (one attempt) |
| | `facts`, `snapshot`, `alert[k]` | what the rules read, the latest `MonitoringSnapshot`, the alert of dedupe key `k` |
| `FindingWorkflow` | `exposed`, `finding[r]` | whether the rule applies to the stored resource, the finding rows (no unique key) |
| | `request[u]`, `eval[e]` | a reviewer's request between check and transaction, an evaluation between its statements |
| `AwsAccounts` | `mode`, `account[a]` | `AWS_CONNECTOR_MODE`, the row: number, archived, connection status, production, configured |
| | `work[w]` | an edit, a validation, a scan or a change that has read an account, up to its write |
| | `pending`, `proved` | history: what was under way when an account was blocked; whose status a check of its present number wrote |
| `Membership` | `member`, `invitation`, `home`, `password`, `token`, `live` | the rows of that name; a session carries the password that opened it |
| | `request[q]` | a handler between its check and its write; `fresh` until somebody else writes what it has read |
| `Assessment` | `setting` | connector mode, scanner, readiness; what may go wrong in this behaviour |
| | `row[r]`, `log[r]`, `product[r]` | the `AutomationAssessment` row of a run, its events, report, summary and audit event |
| | `handler[r]`, `drafts[f]`, `queue` | its request handler (a place in the script of statements), the plans of a finding, the jobs |
| `Compliance` | `finding`, `captured`, `late`, `others` | what evidence is made of; which findings have a snapshot; whether the short acceptances have run out; other rows of evidence |
| | `control`, `evidence`, `request[e]` | the stored rows, an evaluation between its statements; `alone`, `basis` are history |
| `CommandCenter`, `ExecutiveSummary` | `account`, `scans`, `finding`, `control`, `inventory`; `source`, `acceptances`, `snapshots`, `connected` | the rows that are read |
| | `request`, `clock` | what the request has read so far and what is still to be read; hours or days |
| | `stamp`; `won`, `synced` | the last `startedAt` that was given; history: the successes of an account that stand, and when it was synchronized |
| `PagedLists` | `stored`, `now`, `shown`, `calls` | the rows behind a list, the component's state, its calls under way; `base`, `clean`, `fresh` are history |
| `ActionPages` | `row`, `session`, `token`, `acts`, `loads`, `tab` | the row on the server, the cookie, the cached token, actions and loads under way, what is shown |
| `WorkerShutdown` | `at`, `item`, `timer`, `result`, `handler`, `exit` | the position in the ordered close, each resource, the deadline, the promise, `process.once`, the exit code |

`calm`, `fresh`, `raced` and `missed` are history too: they say whether somebody else
wrote in between, and only properties read them. `touched` of a reviewer's request is
the compare-and-set on `updatedAt`.

## 3. What TLC checks

`accounts` checks deadlock; the other runs do not: once every plan, job or request has ended
and before a client acts, the system may rest, a process that has exited stays so, and a tab
that has left for the login page is gone.

### Runs that pass

| run | instance | distinct states | shows |
| --- | --- | --- | --- |
| `worker` | one plan, 2 job runs, 1 reconciler with 2 attempts, every API operation of both workflows, 12 faults | 1,107,332 | one call at most, always on record, a refusal is the provider's and its try applied nothing, exclusive execution, outcomes only move forward, `ProviderPromise` is implemented |
| `approvals` | 2 interleaved requests, 2 simulations, 2 approval rows, windows, failing enqueues, drift | 1,632,294 | a run claims what was approved under its key; the call carries what was approved and captured; an enqueue failure means no execution |
| `keys` | both modes, 2 plans, 2 keys, 2 requests at a time, 2 simulations each, wrong tokens, the queue forgets jobs | 1,630,440 | no key executes two plans that are both current |
| `liveness` | 2 runs, 2 reconcilers, 7 faults, fairness | 52,311 | open outcomes are settled; a queued plan leaves the queue or its job is given up |
| `inventory` | 2 requests, 2 workers, 2 regions, 1 resource, six settings | 146,478 | nothing that exists is called stale; an undisturbed region is stored as it is; the start-up pass fails only abandoned rows; with restarts no scan stays active |
| `monitoring` | 2 runs, 2 workers, one condition and two transitions, six settings | 70,690 | alerts follow the conditions, acknowledgements stand, restarts free stuck runs |
| `findings` | 2 engines, 2 reviewers, 2 rows, five settings | 265,982 | the matrix holds at the commit; decisions stand; findings follow the exposure |
| `accounts` | 2 accounts, 2 numbers, 2 things under way, 3 connector modes with redeployments | 1,334,630 | nothing begins on a blocked account, it comes back only through what was under way on it, a success that was checked is about the number |
| `access` | 2 founders, 1 invitee, 2 requests at a time, 1 reset, 2 sessions | 274,621 | only overlapping changes cost the last owner; membership as invited; no earlier session survives |
| `shutdown` | 4 workers, 5 queues and the database as in `W`, one close of each kind may throw | 9,554 | jobs keep their clients, exit code 0 is earned, the process ends |
| `views` | see below | 1,933,266 | the properties of the six parts |

The parts of `views`, each with its property: assessment (2 runs, 2 findings, one plan a run;
every connector mode, and one of skipped enqueues, throws, crashes and triage each;
`AssessmentsAreWhole`), compliance (two controls that the registry has as one; one over the
limit beside one of cost findings; one of two findings under 2 evaluations, and one of one
finding under 2 that may fail; `PosturesAgree`), command center (for `ScoresAddUp` one account
with two findings and no scan, and one finding beside a scan while time passes; for
`FreshnessIsTrue` a scan beside one edit of the account, a scan whose add throws and whose job
comes twice, two scans of which the planner may block some, two scans of which one is read,
and 2 accounts while time passes), executive summary (two findings of two severities, and one
finding with 2 acceptances, one of which may expire; `SummariesAreEarned`), lists (evidence:
5 rows, so 3 pages; acceptances: 2 rows, 2 calls under way and 2 filters; `ListsAreWhole`),
pages (overlapping loads; 2 sessions and a foreign write; `PagesAreHonest`).

A *setting* (inventory, monitoring, findings) is a set of faults, actors and rows that a
behaviour meets. It bounds the product of what may go wrong: faults and actors that act on
the same rows at the same time are together in one setting, and the settings stand in the
`MC` modules. The proofs of section 4 have no such bound.

Bounds. One plan is enough except for keys: plans share nothing else, and the unique
index is the only place where one plan reads another. Two simulations give a stale content
and a fresh one, two approval rows a bound one and a newer one, two requests any
read-write race (each handler carries one stale copy), two runs a redelivery
(`maxStalledCount` is 1, so a job runs twice at most), two reconciliation attempts a first
and a last. Two scans or two monitoring runs show every overlap, because what they share
is one inventory or one board of alerts and each writes rows by id. One resource is enough
for the inventory: a pass treats each by itself; two regions show the failure of one
beside the success of the other. Two finding rows are one more than the code means to
have. Two accounts are one more than a step touches (the second is there for the unique
number). In `access` two requests at a time are one race; the third person is needed so
that two owners can act on each other while somebody joins. `shutdown` is not bounded at
all but for the items that may throw. Symmetry is used in safety runs only.

Each property of these runs is also checked to be sensitive: `PROJECT.json` gives, for
each, a plausible bug (a check dropped, a compare-and-set loosened, a status forgotten)
that makes TLC find it violated. `KeySpentOnce` is protected by three layers (the unique
index, the lookup in the API, the lookup in the worker), so its mutant changes what a
simulation renews, not one of the lookups.

The type invariants of `InventoryScan`, `SecurityMonitoring`, `FindingWorkflow` and
`WorkerShutdown` are proved for every value of the constants and take no run of their own;
so do `BindingIsWriteOnce`, `ClaimWasApproved`, `BlockedIsLeftAlone` and, of
`SecurityMonitoring`, `SweepOnlyAbandoned`, whose pass is the one of `inventory`.

### The run that ends in a counterexample

`stale_decision`: the older workflow writes its approver over an approval that has been bound
since (`M:352`), so the person who asked may be the one who approved;
docs/SECURITY_MODEL.md:76 promises an exact maker-checker approval. What does hold, and is
proved, is `MutationWasApproved`: at the time of the governed decision somebody else made it.

### Fairness

All weak. `LiveSpec` of `GovernedChange`: a request that was accepted runs to its end; the
queue delivers a waiting job when a run is free and notices a dead run (BullMQ's stall
check); a run and a reconciliation go on unless they crash; the reconciler's timer keeps
firing. `FairSpec` of `InventoryScan` and `SecurityMonitoring`: a live worker goes on with
its scan, evaluation or start-up pass; a dead process is started again (the container's
restart policy); waiting jobs are delivered, the lock of a job whose worker is gone runs
out, rows get old. `FairSpec` of `WorkerShutdown`: the deadline passes and a settled
promise resumes its handlers; nothing is assumed of jobs, batches and closes. Clients,
users, reviewers, AWS and the environment owe nothing. `FindingWorkflow` assumes nothing:
its liveness properties say what follows *if* evaluations keep ending, and those of the
monitoring run *if* evaluations keep completing; `RestartsRepair` holds *if* some process's
start-up pass ends again and again.

### Behaviours worth knowing that no run states

Where a document or message of the repository says otherwise, it is quoted.

- **Queued before added.** A plan is `QUEUED` (`S:256`) before its job is added (`S:290`);
  docs/WORKER_QUEUE_OPERATIONAL_RELIABILITY.md:27 has it the other way round.
- **Simulating again** erases `ATTEMPTED` or `OUTCOME_UNKNOWN` (`S:100`) and the record that
  a key was spent (`S:91`): nobody reviews the unknown outcome any more, and the key can be
  claimed again. It cannot lead to a second call (`AtMostOnce`).
- **A crash between claim and attempt** leaves the plan `EXECUTING`: the reconciler selects
  `NOT_ATTEMPTED` rows whose status is null, `PENDING` or `FAILED_RETRYABLE` (`R:39`), and
  simulation sets `NOT_REQUIRED`. **A reconciler that dies in its last attempt** leaves the
  outcome open: the claim counted the attempt, the selection wants less than the maximum
  (`R:50`).
- **A second delivery** that looked up its key before the first run's claim blocks the
  executing plan by id (`W:356`, `W:1389`).
- A plan whose approval window ends between the run's load and its claim stays `QUEUED`
  with its job finished (`W:430`), and so does one whose run hits a database error outside
  the processor's `try` blocks (`attempts` is 1). `QueuedIsPickedUp` states that exception.
- A late request-approval transaction puts a `BLOCKED` or `APPROVED` plan back to
  `PENDING_APPROVAL`; neither that nor an untimely one can lead to an unapproved call.
- A second add under a retained job id is a no-op of the queue: a plan that takes over a
  released key may be `QUEUED` over a finished job until the queue forgets it.
- A scan request for several accounts with an idempotency key plans the first of them and
  answers `CONFLICT` for the others: the lookup finds the first one's row by the key's
  prefix, and its dedupe key is another account's (`IO:100`). `InventoryScan` is about one
  account.
- **Accounts.** The legacy validation asks neither life cycle nor environment, although
  `CR:86` says "Archived or disabled AWS account records cannot be validated." Where the
  mode is not `readonly-validation` it records `DISABLED`, and no other route brings a
  disabled account back; where it is, it does, and an archived one reads
  `VALIDATION_SUCCEEDED`. `PATCH` may set the connection status, and another number, without
  validation. Neither the scan worker nor the gate of the change worker looks at the life
  cycle: what was queued before an account was archived still runs, although
  aws-account-lifecycle.policy.ts:5 says such records "cannot be used for operational
  workflows". `BlockedIsLeftAlone` and `BlockedStaysBlocked` state what does hold.
- **Membership.** `MB:405` says "You can now switch to the new workspace", and no route
  changes `user.organizationId`: who has a home elsewhere never acts here. A removed member
  whose home is here can be invited again but neither registers nor signs in
  (`RemovedStaysOut`). Two owners can remove each other (`OwnerKept` says only so).
- **Monitoring.** The snapshot stores `findingFingerprints` as a record, the next evaluation
  filters it as an array (`ME:161`) and fails once the number of HIGH findings has risen;
  docs/MONITORING_RULE_CATALOG.md:34 promises an alert. The page behind it takes the answers of
  overlapping loads in any order.
- **Assessment.** Two overlapping runs create the same draft twice (`AA:338`: a read and a
  later write, no unique key), where docs/AUTOMATED_ASSESSMENT_WORKFLOW.md:38 says "advisory
  `RemediationPlan` drafts when missing". A run that throws or dies stays in a middle status.
- **A refusal after the SDK has sent the call again.** The EC2 client keeps its default retries
  (`W:785`), so the send of `W:903` may be several tries; a try that was applied and whose answer
  was lost may be followed by one that is refused under a name `W:1275` calls definitive. The
  plan then reads `CONFIRMED_FAILED` with `mutationExecuted: false` and "The mutation was
  definitively rejected by the provider." (`W:1219`, `W:1236`), although the tag may be there.
  The model reaches it: a refused call whose `applied` is `"earlier"`.
  `RefusedTryAppliedNothing` says what does hold.
- **Compliance.** The findings of a control are read with `take: 50` and no order (`CE:409`), so
  an open one may be left out of a `PASS`; `PosturesAgree` says so (`Current`). A control of the
  registry whose findings have no snapshot is `UNKNOWN` where an evaluated one is `PASS`
  (`CE:216`). Cost findings are
  read without the filter on active accounts (`CE:411`), where
  control-evidence-policy-mapping-v2.test.ts:122 says "Findings from archived accounts do not
  affect active control posture".
- **Command center.** The organization's freshness is the age of the oldest account that ever
  succeeded (`DA:213`), a failed or blocked account leaves it `FRESH`; docs/INVENTORY_FRESHNESS_MODEL.md:28
  says "worst-case". An account with a partly successful run only is `NEVER_SYNCHRONIZED`
  (`DA:130`; :22 of that document: "zero `ScanRun` records"). Owned findings are counted in a
  later statement than those they are divided by (`DA:280`), so a write in between may fail the
  schema, where docs/POSTURE_SCORE_MODEL.md:5 says "0-100 scale"; `ScoresAddUp` is about
  undisturbed answers. Findings that were all resolved are not scored (`DA:353`; :20 says "a
  baseline of 100"). The action for a never validated account is raised for one that was never
  scanned (`DA:696`; docs/PRIORITY_ACTION_RULES.md:16 says "no validation audit event"); an
  account in `AUTH_FAILED` has none, although it is as unready as one in `VALIDATION_FAILED`.
- **Executive dashboard.** An expired acceptance deducts although its finding is resolved or
  was accepted again (`EX:154`; risk-acceptance.policy.ts:28 says "it's historical").
- **Lists.** From the second page on the filter "expired" loses its condition (the cursor's `OR`
  replaces it); an answer to an earlier filter is taken as it comes; "expiring soon" is thirty
  days in the filter and fourteen in the policy; the `nextCursor` of the platform activity
  skips one event at each page boundary.
- **Profile.** The page hands `JSON.stringify` of its body to a helper that does the same
  (profile/page.tsx:39, `CL:194`).
- **Findings.** Two engines may create two rows for one resource and rule; both are resolved
  with the exposure (`GoneExposureIsResolved`). A remediation plan reopens a decided finding.

## 4. What is proved

TLAPS checks these for every value of the constants, from the named assumptions in the
modules (nulls are nothing else, bounds are naturals, settings have the right shape).

**Types and the single call** (`GovernedProofs`). `TypeOK` is not inductive, because a null
has the type of every pointer and a step writes where its pointer says. `TypeInv` adds which
pointers are set while something is under way, that a reconciler about to claim saw an
attempt left, and that a job that exists has a plan. At most one call (`AtMostOnce`), a
write-once binding (`BindingIsWriteOnce`) and the refinement of `ProviderPromise`
(`Refinement`) rest on `OnceInv`. The barrier alone does not give the first: a second
simulation puts the outcome back to `NOT_ATTEMPTED`, which is what the barrier looks at.
What does is the binding: simulation leaves `approvedByRequestId`, a decision demands that
it be null, hence a plan that has been bound is never approved, queued or claimed again:

1. approved, queued and executing plans are bound;
2. once a run has passed the barrier, the plan is bound, neither approved nor queued, and
   cannot pass the barrier again;
3. one run at most is between the barrier and the call, and then no call has been made;
4. at most one call has been made.

The proof first classifies what each action does to a plan (`Effects`), then shows from
the classification alone that the four parts are inductive.

**Safety of governed changes** (`GovernedProofs`, second half): `MutationWasApproved`,
`ClaimWasApproved`, `ExclusiveExecution`, `CallMatchesCapture`, `RefusedTryAppliedNothing`,
`AttemptIsOnRecord`, `EnqueueFailureNeverExecutes`, `KeySpentOnce` and
`OutcomeMovesForward`. They hold together or not at all, in one invariant `SafeInv`: what a
run carries is warranted by the decision its plan is bound to (`RunsFit`), one run at most
works on a plan (`Alone`), so is every call (`CallsFit`), a row's outcome implies what
happened at EC2 (`RowsFit`), what pending requests will write is in order (`RequestsFit`,
`ClaimsKnown`), reconciliations are about open outcomes (`ReconcilersFit`), approved rows
have their decision in the trail (`AllEndorsed`), and no two plans have one key
(`KeysApart`), on top of `OnceInv`. The key notion is `Past`: a plan that is bound and
neither approved nor queued never becomes claimable again, so whoever works on it is alone.
Steps are classified into `Routine` ones and nine kinds (`Renews`, `Queues`, `Unqueues`,
`Binds`, `Loads`, `Claims`, `Attempted`, `Sends`, `Settles`); preservation is shown per kind.

**Inventory** (`InventoryProofs`): `PresentNeverStale`, `AccurateWhenAlone`,
`SweepOnlyAbandoned`. The invariant says of every listing that it holds all that was never out
of the cloud, of one that nobody has disturbed that it holds exactly what exists and that what
has been saved of it is stored as fresh, and of a candidate of the start-up pass that it is
past its cutoff as long as its time stamp is the one that was read.

**Monitoring** (`MonitoringProofs`): `AccurateWhenAlone`, `AcknowledgementStands`,
`SweepOnlyAbandoned`; what an undisturbed evaluation has read is still so, and the alerts it
has been through agree with it.

**Findings** (`FindingWorkflowProofs`): `AccurateWhenAlone`, `ActionsFollowTheMatrix`,
`DecisionStands`. A request that is not touched holds a row whose status still allows its
action; an evaluation that is fresh looked up what is still there, has recorded it, and
lists at least what is open.

**Accounts** (`AwsAccountsProofs`): `BlockedIsLeftAlone`, `SucceededIsProved`,
`BlockedStaysBlocked`. The invariant adds that an answer of a legacy validation was given in
the present mode (a redeployment loses requests), and that an identity check that succeeded
and a scan that has listed a region are about the runtime's number. What each step does is
said once as `Effect` (who may arrive at a blocked account, who brings one back).

**Membership** (`MembershipProofs`): `SessionsAreCurrent`, `OwnerKept`, `JoinsAsInvited`,
`RemovedStaysOut`, from types, `RequestsAreGrounded` (what a fresh request has checked is
still so) and `SessionsAreCurrent` itself.

**Shutdown** (`WorkerShutdownProofs`): `JobsKeepTheirClients`, `CleanExit` and that the first
outcome is final, from types and `Settled`; for any number of workers and queues.

**What the organization is shown** (`ViewsProofs`): all seven properties of `Views`, each from
an invariant of its part. Their assumptions are those `Views` names: the sets whose
cardinality is shown or compared are finite, limits and thresholds are naturals, 0 names
neither a finding (`AssessmentAssumption`) nor a control (`ComplianceAssumption`), the
registry maps security findings only (`ComplianceAssumption`), and the sessions of a browser are at least one (`PageAssumption`). `PartStays` says that a behaviour
remains one of its part, so that the parts are proved one by one.

- *Assessments* (`AssessmentsAlwaysWhole`). `CompletedIsWhole` looks at the row, but what
  makes it true is where the handler stands: `AssessmentInv` says of each place of the script
  what has been written before it, and of a run that began after another had ended that it
  reads all of its plans (`Overlaps`). A retry then finds them whatever was thrown or killed.
- *Compliance* (`PosturesAlwaysAgree`). The two judgements are different code over different
  reads, under catalogs without a control in common. They agree because an evaluation nobody
  disturbed has seen exactly what a statement would read now (`AsRead`): an open finding among
  it is one of every registry control that maps its rule, and where current controls cover a
  registry control there is nothing else it could count. Snapshots only tell `PASSING` from
  `UNKNOWN`, so a snapshot in between disturbs nothing. `ComplianceInv` carries what was read,
  and the rows written so far (`Recorded`), from the read over the writes to the stored status,
  beside evaluations that overlap, fail or begin again.
- *Command center* (`ScoresAlwaysAddUp`, `FreshnessAlwaysTrue`). A run moves to the front with
  every delivery of its job, and its status is written by id over whatever the row holds, so the
  rows that were read need not be those that are stored. `CommandInv` says what survives that:
  starts are pairwise distinct, and of every success that still stands its account has that very
  row or one that started later (`Outdoes`), for rows are never deleted and never start earlier;
  so it is among the rows that were read, since what lies beyond the limit started before them.
  The counts of a response nobody wrote beside are those of one state, so owned risk is at most
  all risk, each share at most its whole, and each rounded score at most 100
  (`RoundedInScale`).
- *Executive summary* (`SummariesAlwaysEarned`). `ExecutiveInv`: a statement that has ended
  has read what is so, if nobody wrote; a finding that has a row or a snapshot is on a
  resource, and AWS keeps what it has.
- *Lists* (`ListsAlwaysWhole`). `ListInv` says of every call under way what its answer will
  bring and from which row on (`ListFits`), so that a page can be joined to what is shown
  however late it comes, and a call of an older filter or base is dropped. The rows are
  ordered by their ranks (`Ranks`), which replaces induction over sequences.
- *Pages* (`PagesAlwaysHonest`). `PageInv`: a token is only kept while an action that uses it
  is under way, and one that acts alone sends the token of its session; every load that still
  counts has read what was reported as done, or has not read yet.

**Only model-checked.** Liveness under fairness is out of the prover's reach: `OpenSettles`,
`QueuedIsPickedUp`, `RestartsRepair`, `LastingConditionIsAlerted`, `LastingExposureIsFound`
and `SignalEndsProcess` are checked on the instances of section 3 and nowhere else. Every
safety property, every action property and the refinement that a passing run checks is also
a theorem. Where an invariant says `Cardinality`, sums or ranks over finite sets are used
instead of induction over data, which the installed provers cannot do. No theorem says
anything of `MutationHadMakerChecker`: TLC refutes it.

## 5. Not modelled, and why

- **Contracts, response schemas, search, reports, the seed, most of the frontend**: half of the
  code. They map rows that the components above own to view models, schemas and markup; there
  is no state of theirs, and no order of steps, to check. That is also why the modules stand
  for a small share of the repository's lines. Of the frontend the token, the acting pages and
  the paged lists are modelled, of the platform pages nothing.
- **Teams**: one write of one row a request, no step that depends on another actor's.
- **Role permissions**: a static table. The membership model uses the two roles that manage.
- **Posture rules**: predicates over one stored resource; their result is the variable
  `exposed`. The backend's own copy of the rule engine, and `AwsInventorySyncService`, are
  imported by tests only.
- Inside modelled components: the content of tags, evidence and audit events; relationships
  between resources; texts, counters and phases of scans; rate limits and cookies;
  users disabled by hand; roles other than owner, admin and one that does not manage
  (`hasPermission` reads ADMIN as OWNER); several reset tokens of one person (a new one
  and an old one end alike, in a reset).
- **Row locks**: a transaction is one step. The older decision locks plan, then approval, the
  governed one approval, then plan; PostgreSQL aborts one of two that cross, which is a
  request that ends without a write.
- **Times**: windows and ages are events, back-off is "may be due". The shutdown's timer is
  unref'd (`SD:74`): where nothing else keeps the event loop alive the process ends by itself,
  which is not told apart from its exit.
- In `CommandCenter`: the age of what the start-up pass fails (any active row may be failed,
  queued rows of `startScan`, which have no `queuedAt` and are never swept, included), the way a
  job of an account that was deleted ends (accounts never are), two rows with one `startedAt`.
- The preflight's reads of AWS identity, region and allow-lists are one refusal
  (`gate_closed`, `provider_error`); which environments a change may touch is left out of
  `AwsAccounts`.
- Other organizations: every query is scoped to one.
- `MUTATION_OUTCOME_TRANSITIONS` of `packages/utils`: only tests call it. It has no step from
  `ATTEMPTED` to `MANUAL_REVIEW_REQUIRED`, which the reconciler takes; `OutcomeMovesForward`
  allows it, because it is forward.
- A rise of HIGH findings within one evaluation is in the snapshot without having been
  reported (`MO:367`); no document excludes it, and a rise between two evaluations fails the
  second anyway (`ME:161`).
- The arithmetic of assessments (costs, scores), recommendations, activity lists and texts of
  the dashboards.

## 6. What could follow

1. Liveness of `AwsAccounts` and `Membership` is about clients only, and there is nothing to
   state; the next safety question is the composition of `AwsAccounts` with `InventoryScan`
   (which scans run on an account that was archived under them) and with `GovernedChange`.
2. The refinement of a common abstract job queue (deliver, stall, give up) by the three
   queues of the models, and its proof.
3. Proofs that what a `Swept` row loses is written again only by a run that was alive.
