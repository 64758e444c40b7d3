---------------------------- MODULE InventoryScan ---------------------------
(***************************************************************************)
(* Inventory scans of one AWS account: planning requests, the scan queue,  *)
(* the workers that scan region by region, the start-up reconciliation and *)
(* the inventory the scans keep.                                           *)
(*                                                                         *)
(* Each scan row belongs to one planning request.  Between two steps of a  *)
(* request or of a worker anybody else may act.  The cloud is the truth    *)
(* the inventory is about: its resources appear and vanish at any time.    *)
(***************************************************************************)
EXTENDS Naturals, FiniteSets, StartupReconciliation

CONSTANTS
    Scans,        \* the rows, each with the request that creates it
    Workers,      \* worker processes, each with a concurrency of one
    Resources, Regions,
    Home,         \* the region of a resource
    MaxJobAttempts, MaxStalled,  \* attempts 3, maxStalledCount 1
    Settings,     \* what may happen, see the variable setting
    None

Fault == {"blocked", "enqueue_error", "api_crash", "slow_worker", "aws_error",
          "db_error", "drift"}

ASSUME InventoryConstants ==
    /\ Settings \subseteq [faults : SUBSET Fault, scans : SUBSET Scans,
                          scopes : SUBSET SUBSET Regions, mortal : SUBSET Workers]
    /\ Home \in [Resources -> Regions]
    /\ MaxJobAttempts \in Nat \ {0} /\ MaxStalled \in Nat
    /\ None \notin Workers \cup Scans \cup Regions

VARIABLES
    setting,  \* fixed in a behaviour: the faults it may meet, the scans and
              \* sets of regions that are requested, the processes that may die
    scan,     \* the ScanRun rows
    request,  \* where the planning request of each row is
    job,      \* the job of each row in the queue
    up,       \* which worker processes live
    work,     \* what each worker process is doing
    sweep,    \* the start-up reconciliation of each process
    cloud,    \* the resources that exist
    stored,   \* the CloudResource rows
    missed    \* history: the resources that were out of the cloud at some time

table == <<scan, request, job>>
inventory == <<cloud, stored, missed>>
vars == <<setting, table, up, work, sweep, inventory>>

Active == {"QUEUED", "RUNNING"}

ScanRow == [status : {"ABSENT", "SUCCEEDED", "PARTIALLY_SUCCEEDED", "FAILED", "BLOCKED"}
                     \cup Active,
            regions : SUBSET Regions, stamp : Nat, old : BOOLEAN, swept : BOOLEAN]
Job == [state : {"none", "waiting", "active", "ended"}, failures : 0..MaxJobAttempts,
        stalls : 0..MaxStalled, holder : Workers \cup {None}]
Run == [pc : {"idle", "start", "identity", "region", "save", "mark", "aggregate",
              "finish", "rules"},
        scan : Scans \cup {None}, todo : SUBSET Regions, region : Regions \cup {None},
        done : SUBSET Regions, failed : SUBSET Regions,
        seen : SUBSET Resources, unsaved : SUBSET Resources, calm : BOOLEAN]
Read == [status : Active, stamp : Nat]
IsSweep(p) == /\ DOMAIN p = {"pc", "found"} /\ p.pc \in {"idle", "read", "write"}
              /\ DOMAIN p.found \subseteq Scans /\ p.found \in [DOMAIN p.found -> Read]

Idle == [pc |-> "idle", scan |-> None, todo |-> {}, region |-> None, done |-> {},
         failed |-> {}, seen |-> {}, unsaved |-> {}, calm |-> FALSE]
NoSweep == [pc |-> "idle", found |-> [s \in {} |-> None]]

\* Earlier scans may have left any inventory behind.
Init ==
    /\ setting \in Settings
    /\ scan = [s \in Scans |-> [status |-> "ABSENT", regions |-> {}, stamp |-> 0,
                                old |-> FALSE, swept |-> FALSE]]
    /\ request = [s \in Scans |-> IF s \in setting.scans THEN "check" ELSE "ended"]
    /\ job = [s \in Scans |-> [state |-> "none", failures |-> 0, stalls |-> 0, holder |-> None]]
    /\ up = [w \in Workers |-> TRUE]
    /\ work = [w \in Workers |-> Idle]
    /\ sweep = [w \in Workers |-> NoSweep]
    /\ cloud \in SUBSET Resources
    /\ stored \in IF "drift" \in setting.faults
                  THEN [Resources -> {"absent", "fresh", "stale"}]
                  ELSE {[x \in Resources |-> "absent"]}
    /\ missed = {x \in Resources : x \notin cloud \/ stored[x] = "stale"}

InRegion(r) == {x \in Resources : Home[x] = r}
-----------------------------------------------------------------------------
(* Planning requests.                                                       *)

Goto(s, pc) == request' = [request EXCEPT ![s] = pc]
SetStatus(s, status) == scan' = [scan EXCEPT ![s].status = status]

\* Refused before anything is written: another scanner type, an idempotency
\* key used before, a dry run.
Refuse(s) ==
    /\ request[s] = "check"
    /\ Goto(s, "ended")
    /\ UNCHANGED <<scan, job, up, work, sweep, inventory>>

\* An active scan of the same regions is looked up ...
Check(s, scope) ==
    /\ request[s] = "check"
    /\ IF \E t \in Scans : scan[t].status \in Active /\ scan[t].regions = scope
       THEN Goto(s, "ended") /\ UNCHANGED scan
       ELSE Goto(s, "create") /\ scan' = [scan EXCEPT ![s].regions = scope]
    /\ UNCHANGED <<job, up, work, sweep, inventory>>

\* ... and in a later statement the row is created, QUEUED or BLOCKED when the
\* account, a region or the runtime mode forbids the scan.
Create(s) ==
    /\ request[s] = "create"
    /\ \/ SetStatus(s, "QUEUED") /\ Goto(s, "add")
       \/ "blocked" \in setting.faults /\ SetStatus(s, "BLOCKED") /\ Goto(s, "ended")
    /\ UNCHANGED <<job, up, work, sweep, inventory>>

\* The job is added under the row's id.  The call may throw although the queue
\* accepted the job.
Add(s) ==
    /\ request[s] = "add"
    /\ \/ job' = [job EXCEPT ![s].state = "waiting"] /\ Goto(s, "confirm")
       \/ "enqueue_error" \in setting.faults /\ UNCHANGED job /\ Goto(s, "compensate")
       \/ "enqueue_error" \in setting.faults /\ job' = [job EXCEPT ![s].state = "waiting"]
          /\ Goto(s, "compensate")
    /\ UNCHANGED <<scan, up, work, sweep, inventory>>

\* After a throw the row is failed by its id, whatever a worker has made of it
\* by then; an error of this write is dropped.
Compensate(s) ==
    /\ request[s] = "compensate"
    /\ SetStatus(s, "FAILED") \/ ("db_error" \in setting.faults /\ UNCHANGED scan)
    /\ Goto(s, "ended")
    /\ UNCHANGED <<job, up, work, sweep, inventory>>

\* The job id is stored in the row; nothing else changes, not even on an error.
Confirm(s) ==
    /\ request[s] = "confirm"
    /\ Goto(s, "ended")
    /\ UNCHANGED <<scan, job, up, work, sweep, inventory>>

\* The API process dies: the request goes no further.
ApiDies(s) ==
    /\ "api_crash" \in setting.faults
    /\ request[s] \in {"create", "add", "compensate"}
    /\ Goto(s, "ended")
    /\ UNCHANGED <<scan, job, up, work, sweep, inventory>>

Plan(s) ==
    \/ Refuse(s)
    \/ \E scope \in setting.scopes : Check(s, scope)
    \/ Create(s) \/ Add(s) \/ Compensate(s) \/ Confirm(s) \/ ApiDies(s)
-----------------------------------------------------------------------------
(* The queue and the worker processes.                                      *)

Deliver(w, s) ==
    /\ up[w] /\ work[w].pc = "idle" /\ job[s].state = "waiting"
    /\ job' = [job EXCEPT ![s].state = "active", ![s].holder = w]
    /\ work' = [work EXCEPT ![w] = [Idle EXCEPT !.pc = "start", !.scan = s]]
    /\ UNCHANGED <<scan, request, up, sweep, inventory>>

\* A stalled job is delivered again, until it has stalled too often.
Stalled(j) ==
    IF j.stalls < MaxStalled
    THEN [j EXCEPT !.state = "waiting", !.stalls = j.stalls + 1, !.holder = None]
    ELSE [j EXCEPT !.state = "ended", !.holder = None]

\* The lock of an active job runs out, because its process died or, slow,
\* failed to renew it.
Stall(s) ==
    /\ job[s].state = "active"
    /\ "slow_worker" \in setting.faults \/ work[job[s].holder].scan # s
    /\ job' = [job EXCEPT ![s] = Stalled(@)]
    /\ UNCHANGED <<scan, request, up, work, sweep, inventory>>

\* A run ends.  Only the holder of the job's lock can move the job: to ended
\* or, after an error with attempts left, back to waiting.
Return(w) ==
    /\ work' = [work EXCEPT ![w] = Idle]
    /\ LET s == work[w].scan
       IN job' = IF job[s].holder = w
                 THEN [job EXCEPT ![s].state = "ended", ![s].holder = None] ELSE job

\* attempts: 3 of the planning request's add.
AttemptsLeft(s) == job[s].failures + 1 < MaxJobAttempts

Throw(w) ==
    /\ work' = [work EXCEPT ![w] = Idle]
    /\ LET s == work[w].scan
       IN job' = IF job[s].holder = w
                 THEN [job EXCEPT ![s].failures = job[s].failures + 1, ![s].holder = None,
                                  ![s].state = IF AttemptsLeft(s) THEN "waiting" ELSE "ended"]
                 ELSE job

Crash(w) ==
    /\ w \in setting.mortal /\ up[w]
    /\ up' = [up EXCEPT ![w] = FALSE]
    /\ work' = [work EXCEPT ![w] = Idle]
    /\ sweep' = [sweep EXCEPT ![w] = NoSweep]
    /\ UNCHANGED <<table, inventory>>

\* Start-up does not wait for its reconciliation.
Boot(w) ==
    /\ ~up[w]
    /\ up' = [up EXCEPT ![w] = TRUE]
    /\ sweep' = [sweep EXCEPT ![w].pc = "read"]
    /\ UNCHANGED <<table, work, inventory>>
-----------------------------------------------------------------------------
(* One scan (executeEc2Scan).                                               *)

Step(w, pc) == work' = [work EXCEPT ![w].pc = pc]

\* The run does not look at the row's status.  It is refused, BLOCKED when a
\* mode, the account or a region forbids it and FAILED when the account is
\* gone, or it makes the row RUNNING with a new start time.
Start(w) ==
    LET s == work[w].scan
    IN /\ work[w].pc = "start"
       /\ \/ /\ "blocked" \in setting.faults
             /\ \E status \in {"BLOCKED", "FAILED"} : SetStatus(s, status)
             /\ Return(w)
          \/ /\ scan' = [scan EXCEPT ![s].status = "RUNNING", ![s].stamp = scan[s].stamp + 1,
                                      ![s].old = FALSE]
             /\ work' = [work EXCEPT ![w].pc = "identity", ![w].todo = scan[s].regions]
             /\ UNCHANGED job
       /\ UNCHANGED <<request, up, sweep, inventory>>

\* The scanner role is assumed and the account it answers for is compared.
Identity(w) ==
    /\ work[w].pc = "identity"
    /\ \/ Step(w, "region") /\ UNCHANGED <<scan, job>>
       \/ "aws_error" \in setting.faults /\ SetStatus(work[w].scan, "FAILED") /\ Return(w)
    /\ UNCHANGED <<request, up, sweep, inventory>>

\* What the region holds is listed completely, page by page ...
Observe(w, r) ==
    /\ work[w].pc = "region" /\ r \in work[w].todo
    /\ LET seen == cloud \cap InRegion(r)
       IN work' = [work EXCEPT ![w] = [@ EXCEPT !.pc = "save", !.region = r,
                                                !.todo = work[w].todo \ {r},
                                                !.seen = seen, !.unsaved = seen, !.calm = TRUE]]
    /\ UNCHANGED <<table, up, sweep, inventory>>

\* Mutant: a resource that is already stored keeps its staleness.
AfterSaveNew(x) == [stored EXCEPT ![x] = IF @ = "absent" THEN "fresh" ELSE @]

\* ... every resource seen is written as fresh ...
AfterSave(x) == [stored EXCEPT ![x] = "fresh"]

\* Others that touch the inventory end the calm of a run in the same region.
Disturb(w, r) == [v \in Workers |-> IF v # w /\ work[v].region = r
                                   THEN [work[v] EXCEPT !.calm = FALSE] ELSE work[v]]

Save(w, x) ==
    /\ work[w].pc = "save" /\ x \in work[w].unsaved
    /\ stored' = AfterSave(x)
    /\ work' = [Disturb(w, Home[x]) EXCEPT ![w].unsaved = @ \ {x}]
    /\ UNCHANGED <<table, up, sweep, cloud, missed>>

\* Mutant: the statement forgets which region it is about.
MissingAnywhere(w) == {x \in Resources : stored[x] # "absent" /\ x \notin work[w].seen}

\* ... and in one statement every other stored resource of the region becomes
\* stale; then its relationships, which may fail.
MissingOf(w) ==
    {x \in InRegion(work[w].region) : stored[x] # "absent" /\ x \notin work[w].seen}

MarkStale(w) == stored' = [x \in Resources |-> IF x \in MissingOf(w) THEN "stale" ELSE stored[x]]

RegionDone(w, ws) ==
    [ws EXCEPT ![w] = [work[w] EXCEPT !.pc = "aggregate",
                                      !.done = work[w].done \cup {work[w].region}]]
RegionFailed(w, r, ws) ==
    [ws EXCEPT ![w] = [work[w] EXCEPT !.pc = "aggregate", !.region = r,
                                      !.todo = work[w].todo \ {r},
                                      !.failed = work[w].failed \cup {r}, !.calm = FALSE]]

Mark(w) ==
    /\ work[w].pc = "save" /\ work[w].unsaved = {}
    /\ MarkStale(w)
    /\ LET r == work[w].region
           ws == Disturb(w, r)
       IN \/ work' = RegionDone(w, ws)
          \/ "aws_error" \in setting.faults /\ work' = RegionFailed(w, r, ws)
    /\ UNCHANGED <<table, up, sweep, cloud, missed>>

\* A listing that fails or is cut off, or a write that fails, fails the region
\* before anything is marked; the scan goes on with the next one.
FailRegion(w, r) ==
    /\ "aws_error" \in setting.faults
    /\ \/ work[w].pc = "region" /\ r \in work[w].todo
       \/ work[w].pc = "save" /\ r = work[w].region
    /\ work' = RegionFailed(w, r, work)
    /\ UNCHANGED <<table, up, sweep, inventory>>

\* The lists of regions are stored after each of them.
Aggregate(w) ==
    /\ work[w].pc = "aggregate"
    /\ work' = [work EXCEPT ![w] = [@ EXCEPT !.pc = IF work[w].todo = {} THEN "finish" ELSE "region",
                                             !.region = None, !.seen = {}, !.unsaved = {},
                                             !.calm = FALSE]]
    /\ UNCHANGED <<table, up, sweep, inventory>>

FinalStatus(w) ==
    IF work[w].done = {} THEN "FAILED"
    ELSE IF work[w].failed = {} THEN "SUCCEEDED" ELSE "PARTIALLY_SUCCEEDED"

\* The final status is written by id, over whatever the row holds.
Finish(w) ==
    /\ work[w].pc = "finish"
    /\ SetStatus(work[w].scan, FinalStatus(w))
    /\ IF work[w].done = {} THEN Return(w) ELSE Step(w, "rules") /\ UNCHANGED job
    /\ UNCHANGED <<request, up, sweep, inventory>>

\* The security rules are evaluated over the new inventory.
Rules(w) ==
    /\ work[w].pc = "rules"
    /\ Return(w)
    /\ UNCHANGED <<scan, request, up, sweep, inventory>>

\* An error outside the handled ones fails the attempt.
AttemptFails(w) ==
    /\ "db_error" \in setting.faults
    /\ work[w].pc \in {"start", "identity", "aggregate", "finish", "rules"}
    /\ Throw(w)
    /\ UNCHANGED <<scan, request, up, sweep, inventory>>

Scan(w) ==
    \/ Start(w) \/ Identity(w) \/ Mark(w) \/ Aggregate(w) \/ Finish(w) \/ Rules(w)
    \/ \E r \in Regions : Observe(w, r) \/ FailRegion(w, r)
    \/ \E x \in Resources : Save(w, x)
    \/ AttemptFails(w)
-----------------------------------------------------------------------------
(* The start-up reconciliation of the scan table, time and the cloud.       *)

SweepRead(w) ==
    /\ sweep[w].pc = "read"
    /\ sweep' = [sweep EXCEPT ![w] = [pc |-> "write", found |-> Candidates(scan)]]
    /\ UNCHANGED <<table, up, work, inventory>>

SweepWrite(w, s) ==
    /\ sweep[w].pc = "write" /\ s \in DOMAIN sweep[w].found
    /\ scan' = [scan EXCEPT ![s] = Swept(@, sweep[w].found[s])]
    /\ sweep' = [sweep EXCEPT ![w].found = Without(@, s)]
    /\ UNCHANGED <<request, job, up, work, inventory>>

SweepEnd(w) ==
    /\ sweep[w].pc = "write" /\ DOMAIN sweep[w].found = {}
    /\ sweep' = [sweep EXCEPT ![w] = NoSweep]
    /\ UNCHANGED <<table, up, work, inventory>>

\* A database error ends the pass without a trace.
SweepFails(w) ==
    /\ "db_error" \in setting.faults
    /\ sweep[w].pc # "idle"
    /\ sweep' = [sweep EXCEPT ![w] = NoSweep]
    /\ UNCHANGED <<table, up, work, inventory>>

SweepStep(w) == SweepRead(w) \/ (\E s \in Scans : SweepWrite(w, s)) \/ SweepEnd(w)

\* The cutoff of an active row passes.
Age(s) ==
    /\ scan[s].status \in Active /\ ~scan[s].old
    /\ scan' = [scan EXCEPT ![s].old = TRUE]
    /\ UNCHANGED <<request, job, up, work, sweep, inventory>>

\* Somebody creates or deletes a resource.
CloudChanges(x) ==
    /\ "drift" \in setting.faults
    /\ cloud' = IF x \in cloud THEN cloud \ {x} ELSE cloud \cup {x}
    /\ missed' = missed \cup (Resources \ cloud')
    /\ work' = [w \in Workers |-> IF work[w].region = Home[x]
                                  THEN [work[w] EXCEPT !.calm = FALSE] ELSE work[w]]
    /\ UNCHANGED <<table, up, sweep, stored>>

Next ==
    /\ \/ \E s \in Scans : Plan(s) \/ Stall(s) \/ Age(s)
       \/ \E w \in Workers, s \in Scans : Deliver(w, s)
       \/ \E w \in Workers : Scan(w) \/ Crash(w) \/ Boot(w) \/ SweepStep(w) \/ SweepFails(w)
       \/ \E x \in Resources : CloudChanges(x)
    /\ UNCHANGED setting

Spec == Init /\ [][Next]_vars

\* A process that lives goes on with its scan and its pass, a dead one is
\* started again, jobs are delivered, locks of dead holders run out and time
\* passes.  A request may stop anywhere: nothing is assumed of it.
Fairness ==
    /\ \A w \in Workers : /\ WF_vars(Scan(w) /\ UNCHANGED setting)
                          /\ WF_vars(SweepStep(w) /\ UNCHANGED setting)
                          /\ WF_vars(Boot(w) /\ UNCHANGED setting)
    /\ \A s \in Scans :
         /\ WF_vars((\E w \in Workers : Deliver(w, s)) /\ UNCHANGED setting)
         /\ WF_vars(Stall(s) /\ work[job[s].holder].scan # s /\ UNCHANGED setting)
         /\ WF_vars(Age(s) /\ UNCHANGED setting)

FairSpec == Spec /\ Fairness
-----------------------------------------------------------------------------
(* Properties.                                                              *)

\* Types: rows, jobs, runs and passes are well formed; a run that has begun
\* knows its scan, and the region it is in (executeEc2Scan, the queue, the
\* reconciliation).
TypeOK ==
    /\ setting \in Settings
    /\ scan \in [Scans -> ScanRow]
    /\ request \in [Scans -> {"check", "create", "add", "confirm", "compensate", "ended"}]
    /\ job \in [Scans -> Job]
    /\ \A s \in Scans : job[s].state = "active" <=> job[s].holder # None
    /\ up \in [Workers -> BOOLEAN]
    /\ work \in [Workers -> Run]
    /\ \A w \in Workers : /\ work[w].scan = None <=> work[w].pc = "idle"
                          /\ work[w].pc \in {"save", "aggregate"} => work[w].region # None
    /\ DOMAIN sweep = Workers /\ \A w \in Workers : IsSweep(sweep[w])
    /\ cloud \subseteq Resources /\ missed \subseteq Resources
    /\ stored \in [Resources -> {"absent", "fresh", "stale"}]

\* A resource that has existed all along is never reported stale, however
\* scans fail, overlap, stall and are run again: nothing is marked on the
\* strength of a listing that failed, or outside its region
\* (markMissingResourcesStale).
PresentNeverStale == \A x \in Resources \ missed : stored[x] # "stale"

\* A region that was scanned alone and undisturbed is stored as it is: fresh
\* if and only if it exists, also when it was stale before (saveResource,
\* markMissingResourcesStale).
AccurateWhenAlone ==
    \A w \in Workers :
        (work[w].pc = "aggregate" /\ work[w].calm)
            => \A x \in InRegion(work[w].region) : stored[x] = "fresh" <=> x \in cloud

\* The start-up reconciliation only fails a row that is active and past its
\* cutoff at that moment, also when a retry has started the row afresh since
\* it was selected (reconcileStaleInventoryScans).
SweepOnlyAbandoned ==
    [][\A s \in Scans : (scan'[s].swept /\ ~scan[s].swept)
            => (scan[s].status \in Active /\ scan[s].old)]_vars

\* As long as workers are started again and again and their reconciliation
\* gets through, no scan stays active: not one whose request died before the
\* job was added, nor one whose job was lost half-way.
RestartsRepair ==
    (\E w \in Workers : []<><<SweepEnd(w)>>_vars)
        => \A s \in Scans : scan[s].status \in Active ~> scan[s].status \notin Active
=============================================================================
