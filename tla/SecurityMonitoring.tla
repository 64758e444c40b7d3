-------------------------- MODULE SecurityMonitoring ------------------------
(***************************************************************************)
(* Security monitoring of one organization: evaluation requests, the       *)
(* monitoring queue, the workers that evaluate the rules and keep the      *)
(* alerts, the users who acknowledge and resolve alerts, and the start-up  *)
(* reconciliation of runs.                                                 *)
(*                                                                         *)
(* Rules are of two kinds.  A condition (a critical finding, an exposed    *)
(* resource, a failed scan, a stale or unreachable account) holds or does  *)
(* not when it is read.  A transition compares what is read with the last  *)
(* snapshot: the number of HIGH findings has risen, a control has gone     *)
(* from PASS to FAIL.                                                      *)
(***************************************************************************)
EXTENDS Naturals, FiniteSets, StartupReconciliation

CONSTANTS
    Runs,        \* rows of monitoring runs; a row nobody refers to is reused
    Workers,     \* worker processes, each with a concurrency of one
    Conditions,  \* dedupe keys of the condition rules
    MaxHigh,     \* bound of the number of HIGH findings
    MaxStalled,  \* maxStalledCount 1; attempts is 1
    Settings,    \* what may happen, see the variable setting
    None

Increase == "HIGH_SECURITY_FINDING_INCREASE"
Regression == "COMPLIANCE_CONTROL_REGRESSED"
Keys == Conditions \cup {Increase, Regression}

Fault == {"enqueue_error", "api_crash", "slow_worker", "db_error", "drift", "high", "user"}

ASSUME MonitoringConstants ==
    /\ MaxHigh \in Nat /\ MaxStalled \in Nat
    /\ Settings \subseteq [faults : SUBSET Fault, runs : SUBSET Runs, mortal : SUBSET Workers]
    /\ None \notin Workers \cup Runs \cup Keys
    /\ Conditions \cap {Increase, Regression} = {}

VARIABLES
    setting,   \* fixed in a behaviour: the faults it may meet, the rows in
               \* use, the processes that may die
    run,       \* the MonitoringRun rows
    request,   \* where the evaluation request of each row is
    job,       \* the job of each row in the queue
    up,        \* which worker processes live
    eval,      \* what each worker process is doing
    sweep,     \* the start-up reconciliation of each process
    facts,     \* what the rules are about, as it is now
    snapshot,  \* the latest MonitoringSnapshot
    alert      \* the SecurityAlert of each key

table == <<run, request, job>>
process == <<up, sweep>>
board == <<facts, snapshot, alert>>
vars == <<setting, table, process, eval, board>>

Active == {"QUEUED", "RUNNING"}
Standing == {"OPEN", "ACKNOWLEDGED"}

Facts == [holds : SUBSET Conditions, high : 0..MaxHigh, control : {"PASS", "FAIL"}]
Snapshot == [high : 0..MaxHigh, control : {"PASS", "FAIL"}]
Row == [status : {"ABSENT", "COMPLETED", "FAILED"} \cup Active, stamp : {0},
        old : BOOLEAN, swept : BOOLEAN]
Job == [state : {"none", "waiting", "active", "ended"}, stalls : 0..MaxStalled,
        holder : Workers \cup {None}]
Evaluation == [pc : {"idle", "begin", "claim", "read", "compare", "alerts", "write",
                     "resolve", "complete", "fail"},
               run : Runs \cup {None}, facts : Facts, keys : SUBSET Keys,
               todo : SUBSET Keys, key : Keys \cup {None},
               was : {"NONE", "RESOLVED"} \cup Standing, calm : BOOLEAN]
IsSweep(p) == /\ DOMAIN p = {"pc", "found"} /\ p.pc \in {"idle", "read", "write"}
              /\ DOMAIN p.found \subseteq Runs
              /\ p.found \in [DOMAIN p.found -> [status : Active, stamp : {0}]]

NoFacts == [holds |-> {}, high |-> 0, control |-> "PASS"]
Idle == [pc |-> "idle", run |-> None, facts |-> NoFacts, keys |-> {}, todo |-> {},
         key |-> None, was |-> "NONE", calm |-> FALSE]
NoSweep == [pc |-> "idle", found |-> [r \in {} |-> None]]
NoRow == [status |-> "ABSENT", stamp |-> 0, old |-> FALSE, swept |-> FALSE]
NoJob == [state |-> "none", stalls |-> 0, holder |-> None]

Init ==
    /\ setting \in Settings
    /\ run = [r \in Runs |-> NoRow]
    /\ request = [r \in Runs |-> IF r \in setting.runs THEN "check" ELSE "ended"]
    /\ job = [r \in Runs |-> NoJob]
    /\ up = [w \in Workers |-> TRUE]
    /\ eval = [w \in Workers |-> Idle]
    /\ sweep = [w \in Workers |-> NoSweep]
    /\ facts \in {f \in Facts : f.high = 0}
    /\ snapshot = None
    /\ alert = [k \in Keys |-> "NONE"]
-----------------------------------------------------------------------------
(* Evaluation requests (POST /security-monitoring/evaluate).                *)

Goto(r, pc) == request' = [request EXCEPT ![r] = pc]
SetStatus(r, status) == run' = [run EXCEPT ![r].status = status]

\* An active run of the same trigger answers the request ...
Check(r) ==
    /\ request[r] = "check"
    /\ Goto(r, IF \E q \in Runs : run[q].status \in Active THEN "ended" ELSE "create")
    /\ UNCHANGED <<run, job, process, eval, board>>

\* ... otherwise, in a later statement, a row is created ...
Create(r) ==
    /\ request[r] = "create"
    /\ SetStatus(r, "QUEUED") /\ Goto(r, "add")
    /\ UNCHANGED <<job, process, eval, board>>

\* ... and its job is added; the call may throw although the job was accepted.
Add(r) ==
    /\ request[r] = "add"
    /\ \/ job' = [job EXCEPT ![r].state = "waiting"] /\ Goto(r, "ended")
       \/ "enqueue_error" \in setting.faults /\ Goto(r, "compensate")
          /\ (UNCHANGED job \/ job' = [job EXCEPT ![r].state = "waiting"])
    /\ UNCHANGED <<run, process, eval, board>>

\* The row is failed by id, over whatever a worker has made of it.
Compensate(r) ==
    /\ request[r] = "compensate"
    /\ SetStatus(r, "FAILED") /\ Goto(r, "ended")
    /\ UNCHANGED <<job, process, eval, board>>

\* The process dies, or the compensating write fails.
ApiDies(r) ==
    /\ "api_crash" \in setting.faults
    /\ request[r] \in {"create", "add", "compensate"}
    /\ Goto(r, "ended")
    /\ UNCHANGED <<run, job, process, eval, board>>

\* A row nobody refers to any more stands for the next run.
Reuse(r) ==
    /\ r \in setting.runs /\ request[r] = "ended" /\ job[r].state \in {"none", "ended"}
    /\ run[r].status \notin Active
    /\ \A w \in Workers : eval[w].run # r /\ r \notin DOMAIN sweep[w].found
    /\ run' = [run EXCEPT ![r] = NoRow] /\ job' = [job EXCEPT ![r] = NoJob]
    /\ Goto(r, "check")
    /\ UNCHANGED <<process, eval, board>>

Request(r) == Check(r) \/ Create(r) \/ Add(r) \/ Compensate(r) \/ ApiDies(r) \/ Reuse(r)
-----------------------------------------------------------------------------
(* The queue and the worker processes.                                      *)

Deliver(w, r) ==
    /\ up[w] /\ eval[w].pc = "idle" /\ job[r].state = "waiting"
    /\ job' = [job EXCEPT ![r].state = "active", ![r].holder = w]
    /\ eval' = [eval EXCEPT ![w] = [Idle EXCEPT !.pc = "begin", !.run = r]]
    /\ UNCHANGED <<run, request, process, board>>

\* A stalled job is delivered again, until it has stalled too often.
Stalled(j) ==
    IF j.stalls < MaxStalled
    THEN [state |-> "waiting", stalls |-> j.stalls + 1, holder |-> None]
    ELSE [j EXCEPT !.state = "ended", !.holder = None]

Stall(r) ==
    /\ job[r].state = "active"
    /\ "slow_worker" \in setting.faults \/ eval[job[r].holder].run # r
    /\ job' = [job EXCEPT ![r] = Stalled(@)]
    /\ UNCHANGED <<run, request, process, eval, board>>

\* A run returns or throws: with one attempt the job ends either way, if the
\* worker still holds it.
End(w) ==
    /\ eval' = [eval EXCEPT ![w] = Idle]
    /\ LET r == eval[w].run
       IN job' = IF job[r].holder = w
                 THEN [job EXCEPT ![r].state = "ended", ![r].holder = None] ELSE job

Crash(w) ==
    /\ w \in setting.mortal /\ up[w]
    /\ up' = [up EXCEPT ![w] = FALSE]
    /\ eval' = [eval EXCEPT ![w] = Idle]
    /\ sweep' = [sweep EXCEPT ![w] = NoSweep]
    /\ UNCHANGED <<table, board>>

Boot(w) ==
    /\ ~up[w]
    /\ up' = [up EXCEPT ![w] = TRUE]
    /\ sweep' = [sweep EXCEPT ![w].pc = "read"]
    /\ UNCHANGED <<table, eval, board>>
-----------------------------------------------------------------------------
(* One evaluation (evaluateMonitoring).                                     *)

Step(w, pc) == eval' = [eval EXCEPT ![w].pc = pc]

\* Anybody who changes facts or alerts ends the calm of the others' runs.
Disturbed(ws) == [w \in Workers |-> IF w \in ws THEN [eval[w] EXCEPT !.calm = FALSE]
                                               ELSE eval[w]]
Others(w) == Disturbed(Workers \ {w})

\* The row must be QUEUED when it is read; otherwise the job is given up.
Begin(w) ==
    /\ eval[w].pc = "begin"
    /\ IF run[eval[w].run].status = "QUEUED" THEN Step(w, "claim") /\ UNCHANGED job ELSE End(w)
    /\ UNCHANGED <<run, request, process, board>>

\* It becomes RUNNING by id.
Claim(w) ==
    /\ eval[w].pc = "claim"
    /\ SetStatus(eval[w].run, "RUNNING") /\ Step(w, "read")
    /\ UNCHANGED <<request, job, process, board>>

Read(w) ==
    /\ eval[w].pc = "read"
    /\ eval' = [eval EXCEPT ![w] = [@ EXCEPT !.pc = "compare", !.facts = facts, !.calm = TRUE]]
    /\ UNCHANGED <<table, process, board>>

\* The engine's comparison of the HIGH count throws: the snapshot keeps its
\* findings as a record, the engine filters them as a list.
EngineThrows(read) == snapshot # None /\ read.high > snapshot.high

Reported(read) ==
    read.holds \cup {k \in {Regression} : snapshot # None /\ snapshot.control = "PASS"
                                                         /\ read.control = "FAIL"}

\* The latest snapshot is read and the rules are evaluated.
Compare(w) ==
    LET read == eval[w].facts
    IN /\ eval[w].pc = "compare"
       /\ IF EngineThrows(read)
          THEN Step(w, "fail")
          ELSE eval' = [eval EXCEPT ![w] = [@ EXCEPT !.pc = "alerts", !.keys = Reported(read),
                                                     !.todo = Reported(read)]]
       /\ UNCHANGED <<table, process, board>>

\* Each reported alert is looked up ...
Find(w, k) ==
    /\ eval[w].pc = "alerts" /\ k \in eval[w].todo
    /\ eval' = [eval EXCEPT ![w] = [@ EXCEPT !.pc = "write", !.key = k, !.was = alert[k],
                                             !.todo = eval[w].todo \ {k}]]
    /\ UNCHANGED <<table, process, board>>

\* Mutants: a resolved alert stays resolved; an observed one is open again.
LeftAsItWas(was) == IF was = "NONE" THEN "OPEN" ELSE was
AlwaysOpen(was) == "OPEN"

\* ... and written: created, reopened, or updated with the status that was
\* read.
ObservedStatus(was) == IF was \in {"NONE", "RESOLVED"} THEN "OPEN" ELSE was

\* Creating an alert that somebody else has created meanwhile throws.
Write(w) ==
    LET k == eval[w].key
    IN /\ eval[w].pc = "write"
       /\ IF eval[w].was = "NONE" /\ alert[k] # "NONE"
          THEN Step(w, "fail") /\ UNCHANGED alert
          ELSE /\ alert' = [alert EXCEPT ![k] = ObservedStatus(eval[w].was)]
               /\ eval' = [Others(w) EXCEPT ![w] = [@ EXCEPT !.pc = "alerts", !.key = None,
                                                            !.was = "NONE"]]
       /\ UNCHANGED <<table, process, facts, snapshot>>

\* Mutant: only alerts nobody has acknowledged are listed.
OpenOnly(w) == {k \in Keys : alert[k] = "OPEN" /\ k \notin eval[w].keys}

\* When all are written the standing alerts are listed, ...
Unreported(w) == {k \in Keys : alert[k] \in Standing /\ k \notin eval[w].keys}

List(w) ==
    /\ eval[w].pc = "alerts" /\ eval[w].todo = {}
    /\ eval' = [eval EXCEPT ![w] = [@ EXCEPT !.pc = "resolve", !.todo = Unreported(w)]]
    /\ UNCHANGED <<table, process, board>>

\* ... those not reported are resolved by id, one after the other ...
Resolve(w, k) ==
    /\ eval[w].pc = "resolve" /\ k \in eval[w].todo
    /\ alert' = [alert EXCEPT ![k] = "RESOLVED"]
    /\ eval' = [Others(w) EXCEPT ![w].todo = @ \ {k}]
    /\ UNCHANGED <<table, process, facts, snapshot>>

\* ... the findings are read again for a new snapshot, the controls are the
\* ones the rules saw ...
Photograph(w) ==
    /\ eval[w].pc = "resolve" /\ eval[w].todo = {}
    /\ snapshot' = [high |-> facts.high, control |-> eval[w].facts.control]
    /\ Step(w, "complete")
    /\ UNCHANGED <<table, process, facts, alert>>

\* ... and the run is completed by id.
Complete(w) ==
    /\ eval[w].pc = "complete"
    /\ SetStatus(eval[w].run, "COMPLETED") /\ End(w)
    /\ UNCHANGED <<request, process, board>>

\* An error is caught and the run failed by id; an error of that write, or of
\* the first two queries, leaves the row as it is.
Throws(w) ==
    /\ "db_error" \in setting.faults
    /\ eval[w].pc \in {"read", "compare", "alerts", "write", "resolve", "complete"}
    /\ Step(w, "fail")
    /\ UNCHANGED <<table, process, board>>

Fail(w) ==
    /\ eval[w].pc = "fail"
    /\ SetStatus(eval[w].run, "FAILED") /\ End(w)
    /\ UNCHANGED <<request, process, board>>

GiveUp(w) ==
    /\ "db_error" \in setting.faults
    /\ eval[w].pc \in {"begin", "claim", "fail"}
    /\ End(w)
    /\ UNCHANGED <<run, request, process, board>>

Evaluate(w) ==
    \/ Begin(w) \/ Claim(w) \/ Read(w) \/ Compare(w) \/ Write(w) \/ List(w)
    \/ \E k \in Keys : Find(w, k) \/ Resolve(w, k)
    \/ Photograph(w) \/ Complete(w) \/ Throws(w) \/ Fail(w) \/ GiveUp(w)
-----------------------------------------------------------------------------
(* Users, the organization, the reconciliation and time.                    *)

\* Both routes write the status by id, whatever it was.
UserSets(k, status) ==
    /\ "user" \in setting.faults /\ alert[k] # "NONE"
    /\ alert' = [alert EXCEPT ![k] = status]
    /\ eval' = Disturbed(Workers)
    /\ UNCHANGED <<table, process, facts, snapshot>>

Acknowledge(k) == UserSets(k, "ACKNOWLEDGED")
Dismiss(k) == UserSets(k, "RESOLVED")

\* Findings, scans, accounts and controls change.
FactsChange ==
    /\ facts' \in Facts \ {facts}
    /\ \/ "drift" \in setting.faults /\ facts'.high = facts.high
       \/ "high" \in setting.faults /\ facts'.holds = facts.holds /\ facts'.control = facts.control
    /\ eval' = Disturbed(Workers)
    /\ UNCHANGED <<table, process, snapshot, alert>>

SweepRead(w) ==
    /\ sweep[w].pc = "read"
    /\ sweep' = [sweep EXCEPT ![w] = [pc |-> "write", found |-> Candidates(run)]]
    /\ UNCHANGED <<table, up, eval, board>>

SweepWrite(w, r) ==
    /\ sweep[w].pc = "write" /\ r \in DOMAIN sweep[w].found
    /\ run' = [run EXCEPT ![r] = Swept(@, sweep[w].found[r])]
    /\ sweep' = [sweep EXCEPT ![w].found = Without(@, r)]
    /\ UNCHANGED <<request, job, up, eval, board>>

SweepEnd(w) ==
    /\ sweep[w].pc = "write" /\ DOMAIN sweep[w].found = {}
    /\ sweep' = [sweep EXCEPT ![w] = NoSweep]
    /\ UNCHANGED <<table, up, eval, board>>

SweepFails(w) ==
    /\ "db_error" \in setting.faults /\ sweep[w].pc # "idle"
    /\ sweep' = [sweep EXCEPT ![w] = NoSweep]
    /\ UNCHANGED <<table, up, eval, board>>

SweepStep(w) == SweepRead(w) \/ (\E r \in Runs : SweepWrite(w, r)) \/ SweepEnd(w)

\* The cutoff of an active row passes.  It is measured from the creation of
\* the row, also when the row has only just become RUNNING.
Age(r) ==
    /\ run[r].status \in Active /\ ~run[r].old
    /\ run' = [run EXCEPT ![r].old = TRUE]
    /\ UNCHANGED <<request, job, process, eval, board>>

Next ==
    /\ \/ \E r \in Runs : Request(r) \/ Stall(r) \/ Age(r)
       \/ \E w \in Workers, r \in Runs : Deliver(w, r)
       \/ \E w \in Workers : Evaluate(w) \/ Crash(w) \/ Boot(w) \/ SweepStep(w) \/ SweepFails(w)
       \/ \E k \in Keys : Acknowledge(k) \/ Dismiss(k)
       \/ FactsChange
    /\ UNCHANGED setting

Spec == Init /\ [][Next]_vars

\* As for scans: live processes go on, dead ones are started, jobs are
\* delivered, locks of dead holders run out and time passes.
Fairness ==
    /\ \A w \in Workers : /\ WF_vars(Evaluate(w) /\ UNCHANGED setting)
                          /\ WF_vars(SweepStep(w) /\ UNCHANGED setting)
                          /\ WF_vars(Boot(w) /\ UNCHANGED setting)
    /\ \A r \in Runs :
         /\ WF_vars((\E w \in Workers : Deliver(w, r)) /\ UNCHANGED setting)
         /\ WF_vars(Stall(r) /\ eval[job[r].holder].run # r /\ UNCHANGED setting)
         /\ WF_vars(Age(r) /\ UNCHANGED setting)

FairSpec == Spec /\ Fairness
-----------------------------------------------------------------------------
(* Properties.                                                              *)

\* Types: rows, jobs, evaluations, passes and alerts are well formed; what an
\* evaluation holds fits where it is (evaluateMonitoring, the queue).
TypeOK ==
    /\ setting \in Settings
    /\ run \in [Runs -> Row]
    /\ request \in [Runs -> {"check", "create", "add", "compensate", "ended"}]
    /\ job \in [Runs -> Job]
    /\ \A r \in Runs : job[r].state = "active" <=> job[r].holder # None
    /\ up \in [Workers -> BOOLEAN]
    /\ eval \in [Workers -> Evaluation]
    /\ \A w \in Workers : /\ eval[w].run = None <=> eval[w].pc = "idle"
                          /\ eval[w].pc = "write" => eval[w].key \in eval[w].keys
    /\ DOMAIN sweep = Workers /\ \A w \in Workers : IsSweep(sweep[w])
    /\ facts \in Facts /\ snapshot \in Snapshot \cup {None}
    /\ alert \in [Keys -> {"NONE", "RESOLVED"} \cup Standing]

\* An evaluation that comes to its end with nothing changed by others since it
\* read its facts leaves exactly the alerts of the conditions that hold
\* (the alert loop and the auto-resolution of evaluateMonitoring).
AccurateWhenAlone ==
    \A w \in Workers :
        (eval[w].pc = "complete" /\ eval[w].calm)
            => \A k \in Conditions : alert[k] \in Standing <=> k \in facts.holds

\* An acknowledged alert is opened only by an evaluation that had read it
\* before it was acknowledged: observing a known problem again does not bring
\* it back to its operator (the update of an existing alert).
AcknowledgementStands ==
    [][\A k \in Keys : (alert[k] = "ACKNOWLEDGED" /\ alert'[k] = "OPEN")
            => \E w \in Workers : eval[w].key = k /\ eval[w].was # "ACKNOWLEDGED"]_vars

\* The start-up reconciliation only fails a run that is active and past its
\* cutoff at that moment (reconcileStaleMonitoringRuns).
SweepOnlyAbandoned ==
    [][\A r \in Runs : (run'[r].swept /\ ~run[r].swept)
            => (run[r].status \in Active /\ run[r].old)]_vars

Completes == \E w \in Workers : Complete(w)

\* While evaluations keep completing, a condition that lasts keeps being
\* alerted, although users resolve the alert again and again
\* (docs/SECURITY_ALERT_LIFECYCLE.md:16-25, the alert transaction).
LastingConditionIsAlerted ==
    \A k \in Conditions :
        ([]<><<Completes>>_vars /\ <>[](k \in facts.holds)) => []<>(alert[k] \in Standing)

\* As long as workers are started again and again and their reconciliation
\* gets through, no run stays active and answers new requests in vain.
RestartsRepair ==
    (\E w \in Workers : []<><<SweepEnd(w)>>_vars)
        => \A r \in Runs : run[r].status \in Active ~> run[r].status \notin Active

=============================================================================
