------------------------------ MODULE Assessment -----------------------------
(***************************************************************************)
(* The automated assessment of one organization: the request handler that  *)
(* reads the records once, notes every step of its work, creates advisory  *)
(* remediation plans, a report and a summary, and then queues a job for a  *)
(* worker that does nothing with it.  Several requests may run at once, in *)
(* one process or more; a statement may throw and a process may die, and   *)
(* nothing resumes what they leave.                                        *)
(***************************************************************************)
EXTENDS Naturals, FiniteSets, Sequences

CONSTANTS
    Runs,       \* rows of AutomationAssessment, in use one after the other
    Findings,   \* the security findings of the organization
    Urgencies,  \* scores of a finding
    MaxDrafts,  \* findings that get a plan in one run (5 in the code)
    Settings    \* connector and scanner configuration, and what may go wrong

Fault == {"throw", "crash", "skipped", "triage"}

VARIABLES
    setting,  \* fixed in a behaviour
    finding,  \* the findings as triage leaves them
    row,      \* the AutomationAssessment rows
    log,      \* the AutomationEvent rows of each run
    product,  \* what each run has stored besides
    drafts,   \* of each finding, the runs that created an advisory plan
    handler,  \* the request handler of each run
    queue     \* jobs of the assessment queue

stored == <<row, log, product, drafts>>
vars == <<setting, finding, stored, handler, queue>>

Note(type, status) == [task |-> "note", type |-> type, status |-> status]
Do(task) == [task |-> task, type |-> "", status |-> ""]

Mode(c) ==
    IF c.scanner THEN "AWS_READONLY_SCAN"
    ELSE IF c.connector # "disabled" THEN "AWS_STS_ONLY"
    ELSE "EVALUATION"

Validates(c) == Mode(c) = "AWS_STS_ONLY" /\ c.ready

\* The steps after the validation, whatever came of it.
Rest(c) ==
    <<Note(IF c.scanner /\ c.ready THEN "INVENTORY_RUNNING" ELSE "INVENTORY_BLOCKED", "blocked"),
      Note("ANALYZING_SECURITY", "completed"), Note("ANALYZING_COST", "completed"),
      Note("MAPPING_COMPLIANCE", "completed"),
      Note("GENERATING_REMEDIATION_PLANS", "running"), Do("draft"),
      Note("GENERATING_REMEDIATION_PLANS", "completed"),
      Note("GENERATING_REPORT", "running"), Do("report"), Do("summary"),
      Note("GENERATING_REPORT", "completed"), Do("audit"), Do("complete"), Do("enqueue")>>

\* Mutant: AWS is called before the event that announces it.
CalledFirst(c) ==
    <<Note("CHECKING_CREDENTIALS", "completed"), Do("load")>>
    \o (IF Validates(c)
        THEN <<Do("call"), Note("VALIDATING_IDENTITY", "running"), Note("VALIDATING_IDENTITY", "completed")>>
        ELSE <<Note("VALIDATING_IDENTITY", "blocked")>>)
    \o Rest(c)

\* What the handler does, from the first step on.
Tasks(c) ==
    <<Note("CHECKING_CREDENTIALS", "completed"), Do("load")>>
    \o (IF Validates(c)
        THEN <<Note("VALIDATING_IDENTITY", "running"), Do("call"), Note("VALIDATING_IDENTITY", "completed")>>
        ELSE <<Note("VALIDATING_IDENTITY", "blocked")>>)
    \o Rest(c)

Script == Tasks(setting)

Row == [status : {"NONE", "CREATED", "COMPLETED"} \cup {"CHECKING_CREDENTIALS", "VALIDATING_IDENTITY",
                  "INVENTORY_RUNNING", "INVENTORY_BLOCKED", "ANALYZING_SECURITY", "ANALYZING_COST",
                  "MAPPING_COMPLIANCE", "GENERATING_REMEDIATION_PLANS", "GENERATING_REPORT"},
        called : BOOLEAN, after : SUBSET Runs]

\* at: the next task of the script, 0 when no handler works on the run; half: the
\* status of a step is written and its event is not; called: STS was called;
\* top: the findings to get a plan; left: those not looked at; current: the one that
\* has none yet.
Handler == [at : 0..20, half : BOOLEAN, called : BOOLEAN, top : SUBSET Findings,
            left : SUBSET Findings, current : Findings \cup {0}]

Idle == [at |-> 0, half |-> FALSE, called |-> FALSE, top |-> {}, left |-> {}, current |-> 0]

Init ==
    /\ setting \in Settings
    /\ finding \in [Findings -> [archived : {FALSE}, score : Urgencies]]
    /\ row = [r \in Runs |-> [status |-> "NONE", called |-> FALSE, after |-> {}]]
    /\ log = [r \in Runs |-> <<>>]
    /\ product = [r \in Runs |-> {}]
    /\ drafts = [f \in Findings |-> {}]
    /\ handler = [r \in Runs |-> Idle]
    /\ queue = {}

Next_(h) == [h EXCEPT !.at = @ + 1, !.half = FALSE]
Go(r) == handler' = [handler EXCEPT ![r] = Next_(@)]

\* A row is created by a request; what ended before is remembered with it.
Start(r) ==
    /\ row[r].status = "NONE" /\ \A s \in Runs : s < r => row[s].status # "NONE"
    /\ row' = [row EXCEPT ![r] = [status |-> "CREATED", called |-> FALSE,
                                  after |-> {s \in Runs : row[s].status # "NONE" /\ handler[s].at = 0}]]
    /\ handler' = [handler EXCEPT ![r].at = 1]
    /\ UNCHANGED <<setting, finding, log, product, drafts, queue>>

\* A step is noted by two statements: the status of the row, then an event.
NoteStatus(r, t) ==
    /\ t.task = "note" /\ ~handler[r].half
    /\ row' = [row EXCEPT ![r].status = t.type]
    /\ handler' = [handler EXCEPT ![r].half = TRUE]
    /\ UNCHANGED <<setting, finding, log, product, drafts, queue>>

NoteEvent(r, t) ==
    /\ t.task = "note" /\ handler[r].half
    /\ log' = [log EXCEPT ![r] = Append(@, <<t.type, t.status>>)]
    /\ Go(r)
    /\ UNCHANGED <<setting, finding, row, product, drafts, queue>>

\* The most urgent findings of what is read; equal scores keep the order of the read.
Prioritized(T) ==
    LET read == {f \in Findings : ~finding[f].archived}
    IN /\ T \subseteq read
       /\ Cardinality(T) = IF Cardinality(read) < MaxDrafts THEN Cardinality(read) ELSE MaxDrafts
       /\ \A f \in T, g \in read \ T : finding[f].score >= finding[g].score

Load(r, t) ==
    /\ t.task = "load"
    /\ \E T \in SUBSET Findings :
          /\ Prioritized(T)
          /\ handler' = [handler EXCEPT ![r] = [Next_(@) EXCEPT !.top = T, !.left = T]]
    /\ UNCHANGED <<setting, finding, stored, queue>>

\* GetCallerIdentity; a failure is an answer too.  The connector makes no call in
\* sts-validation mode, which has a route of its own, and none without external id.
CallIdentity(r, t) ==
    /\ t.task = "call"
    /\ \E called \in {FALSE, setting.connector = "readonly-validation"} :
          handler' = [handler EXCEPT ![r] = [Next_(@) EXCEPT !.called = called]]
    /\ UNCHANGED <<setting, finding, stored, queue>>

\* Plan by plan: is there one for this finding, and if not, create it.
FindDraft(r, t) ==
    /\ t.task = "draft" /\ handler[r].current = 0
    /\ \E f \in handler[r].left :
          handler' = [handler EXCEPT ![r].left = @ \ {f}, ![r].current = IF drafts[f] = {} THEN f ELSE 0]
    /\ UNCHANGED <<setting, finding, stored, queue>>

CreateDraft(r, t) ==
    /\ t.task = "draft" /\ handler[r].current # 0
    /\ drafts' = [drafts EXCEPT ![handler[r].current] = @ \cup {r}]
    /\ handler' = [handler EXCEPT ![r].current = 0]
    /\ UNCHANGED <<setting, finding, row, log, product, queue>>

EndDrafts(r, t) ==
    /\ t.task = "draft" /\ handler[r].current = 0 /\ handler[r].left = {}
    /\ Go(r)
    /\ UNCHANGED <<setting, finding, stored, queue>>

\* The ReportExport, the IntelligenceSummary and the AuditEvent of the run.
Store(r, t) ==
    /\ \E item \in {"report", "summary", "audit"} :
          /\ t.task = item
          /\ product' = [product EXCEPT ![r] = @ \cup {item}]
    /\ Go(r)
    /\ UNCHANGED <<setting, finding, row, log, drafts, queue>>

Complete(r, t) ==
    /\ t.task = "complete"
    /\ row' = [row EXCEPT ![r].status = "COMPLETED", ![r].called = handler[r].called]
    /\ Go(r)
    /\ UNCHANGED <<setting, finding, log, product, drafts, queue>>

\* The request is answered, queued or not.
Enqueue(r, t) ==
    /\ t.task = "enqueue"
    /\ \/ queue' = queue \cup {r}
       \/ "skipped" \in setting.faults /\ UNCHANGED queue
    /\ handler' = [handler EXCEPT ![r].at = 0]
    /\ UNCHANGED <<setting, finding, stored>>

\* The worker takes the job, does nothing and reports it accepted.
Hook(r) ==
    /\ r \in queue
    /\ queue' = queue \ {r}
    /\ UNCHANGED <<setting, finding, stored, handler>>

\* A statement of the handler throws: the request fails and the row stays.
Throw(r) ==
    /\ "throw" \in setting.faults /\ handler[r].at > 0
    /\ handler' = [handler EXCEPT ![r].at = 0]
    /\ UNCHANGED <<setting, finding, stored, queue>>

Crash ==
    /\ "crash" \in setting.faults /\ \E r \in Runs : handler[r].at > 0
    /\ handler' = [r \in Runs |-> [handler[r] EXCEPT !.at = 0]]
    /\ UNCHANGED <<setting, finding, stored, queue>>

\* Meanwhile findings are archived, and scored anew.
Triage ==
    /\ "triage" \in setting.faults
    /\ \E f \in Findings, s \in Urgencies, a \in BOOLEAN :
          /\ finding[f].archived => a
          /\ finding' = [finding EXCEPT ![f] = [archived |-> a, score |-> s]]
    /\ UNCHANGED <<setting, stored, handler, queue>>

\* The handler of a run is at its task t.
Step(r) ==
    /\ handler[r].at > 0
    /\ LET t == Script[handler[r].at]
       IN \/ NoteStatus(r, t) \/ NoteEvent(r, t) \/ Load(r, t) \/ CallIdentity(r, t)
          \/ FindDraft(r, t) \/ CreateDraft(r, t) \/ EndDrafts(r, t)
          \/ Store(r, t) \/ Complete(r, t) \/ Enqueue(r, t)

Next ==
    \/ \E r \in Runs : Start(r) \/ Step(r) \/ Hook(r) \/ Throw(r)
    \/ Crash \/ Triage

Spec == Init /\ [][Next]_vars

-----------------------------------------------------------------------------
(* Properties.                                                              *)

\* Types: a handler works inside the script.
TypeOK ==
    /\ row \in [Runs -> Row] /\ handler \in [Runs -> Handler]
    /\ drafts \in [Findings -> SUBSET Runs] /\ queue \subseteq Runs
    /\ LET n == Len(Script) IN \A r \in Runs : handler[r].at <= n

\* The steps, as their places in the script, and the number of a step.
Steps == LET s == Script IN {i \in DOMAIN s : s[i].task = "note"}
Number(steps, i) == Cardinality({j \in steps : j <= i})

\* A run that says COMPLETED is whole, whatever went wrong in it or beside it:
\* every step is on record in order, the report, the summary and the audit event
\* are stored, each of its findings has a plan, and the row tells whether AWS was
\* called (runAssessment).
CompletedIsWhole ==
    LET s == Script
        steps == Steps
    IN \A r \in Runs : row[r].status = "COMPLETED" =>
        /\ Len(log[r]) = Cardinality(steps)
        /\ \A i \in steps : log[r][Number(steps, i)] = <<s[i].type, s[i].status>>
        /\ product[r] = {"report", "summary", "audit"}
        /\ \A f \in handler[r].top : drafts[f] # {}
        /\ row[r].called = handler[r].called

\* Two runs that create a plan for the same finding have overlapped: a run that
\* starts after another has ended, even in a crash, finds what it created
\* (createAdvisoryRemediationPlans).
RetryFindsDrafts ==
    \A f \in Findings : \A r, s \in drafts[f] : r \notin row[s].after

\* AWS is called only after an event has announced it, and never when the
\* configuration asks for no validation (the STS branch of runAssessment).
CallIsAnnounced ==
    \A r \in Runs : handler[r].called =>
        /\ setting.connector = "readonly-validation" /\ ~setting.scanner /\ setting.ready
        /\ \E i \in DOMAIN log[r] : log[r][i] = <<"VALIDATING_IDENTITY", "running">>

\* The status a reader sees is never behind the events he sees: it names the step
\* of the last event, the step begun after it, or the end (recordStep).
StatusLeads ==
    LET s == Script
        steps == Steps
    IN \A r \in Runs : log[r] # <<>> =>
        \/ row[r].status \in {log[r][Len(log[r])][1], "COMPLETED"}
        \/ \E i \in steps : row[r].status = s[i].type /\ Number(steps, i) = Len(log[r]) + 1

=============================================================================
