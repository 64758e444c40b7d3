--------------------------- MODULE ExecutiveSummary ---------------------------
(***************************************************************************)
(* The executive dashboard: a first round of counts decides whether        *)
(* findings are read as AWS data only, a second round of statements side   *)
(* by side reads findings, acceptances, evidence snapshots and the         *)
(* controls registry, and a score is derived.  Between and beside the two  *)
(* rounds demo data is seeded, scans replace it, findings are evaluated,   *)
(* accepted and resolved, and acceptances expire.                          *)
(***************************************************************************)
EXTENDS Integers, FiniteSets

CONSTANTS
    Findings,     \* security findings, each on a resource of its own
    Severity,     \* of each finding
    MaxClock,     \* bound on the clock
    Acceptances   \* bound on RiskAcceptance rows

VARIABLES
    finding,      \* SecurityFinding rows: "none" until a rule has found something
    source,       \* where the resource of each finding comes from
    acceptances,  \* RiskAcceptance rows, newest last
    snapshots,    \* evidence snapshots: the finding and its source at the time
    connected,    \* an account has passed its validation
    clock,
    request

vars == <<finding, source, acceptances, snapshots, connected, clock, request>>

\* OPEN stands for the five unresolved states.
Status == {"none", "OPEN", "RISK_ACCEPTED", "RESOLVED"}
Source == {"none", "SAMPLE", "AWS_SYNC"}

Nothing == [at |-> "idle", now |-> 0, todo |-> {}, connected |-> FALSE, synced |-> 0, sample |-> 0,
            findings |-> [f \in {} |-> 0], acceptances |-> {}, snapshots |-> 0, backed |-> {},
            failing |-> 0, calm |-> FALSE]

Init ==
    /\ finding = [f \in Findings |-> "none"]
    /\ source = [f \in Findings |-> "none"]
    /\ acceptances = {}
    /\ snapshots = {}
    /\ connected \in BOOLEAN
    /\ clock = 0
    /\ request = Nothing

Rows == {f \in Findings : finding[f] # "none"}
From(s) == {f \in Findings : source[f] = s}
-----------------------------------------------------------------------------
(* What the response says, from what the request r has read.               *)

\* executiveResourceSource is AWS_SYNC.
AwsOnly(r) == r.synced > 0

Counted(r) == {f \in DOMAIN r.findings : AwsOnly(r) => r.findings[f].source = "AWS_SYNC"}
Unresolved(r) == {f \in Counted(r) : r.findings[f].status = "OPEN"}
Registry(r) == {x \in r.acceptances : AwsOnly(r) => x.of \in Counted(r)}
Expired(r) == {x \in Registry(r) : x.until < r.now}

Clamp(n) == IF n < 0 THEN 0 ELSE IF n > 100 THEN 100 ELSE n

OfSeverity(r, s) == Cardinality({f \in Unresolved(r) : Severity[f] = s})

\* SECURITY_FINDING_PENALTIES: INFO deducts nothing; expired acceptances deduct 10
\* each, failing controls 8.
Score(r) ==
    Clamp(100 - 15 * OfSeverity(r, "CRITICAL") - 7 * OfSeverity(r, "HIGH")
              - 3 * OfSeverity(r, "MEDIUM") - OfSeverity(r, "LOW")
              - 10 * Cardinality(Expired(r)) - 8 * r.failing)

\* Mutant: only the counts of the first round say what is demo data.
CountedSample(r) == r.synced = 0 /\ r.sample > 0

SampleOnly(r) ==
    /\ r.synced = 0
    /\ r.sample > 0 \/ \E f \in DOMAIN r.findings : r.findings[f].source = "SAMPLE"

ScoreStatus(r) ==
    IF ~r.connected THEN "NOT_CONNECTED"
    ELSE IF SampleOnly(r) THEN "SAMPLE_ONLY"
    ELSE IF r.snapshots = 0 /\ DOMAIN r.findings = {} THEN "NOT_EVALUATED" ELSE "SCORED"

Round(n, d) == (2 * n + d) \div (2 * d)

Coverage(r) ==
    IF Counted(r) = {} THEN 0 ELSE Round(100 * Cardinality(r.backed), Cardinality(Counted(r)))
-----------------------------------------------------------------------------
Stored == UNCHANGED <<finding, source, acceptances, snapshots, connected, clock>>

\* The first round: the counts of resources and accounts.
Begin ==
    /\ request.at = "idle"
    /\ request' = [Nothing EXCEPT !.at = "second", !.now = clock, !.calm = TRUE,
          !.todo = {"findings", "governance", "evidence"},
          !.connected = connected,
          !.synced = Cardinality(From("AWS_SYNC")), !.sample = Cardinality(From("SAMPLE"))]
    /\ Stored

InScope(r) == {x \in snapshots : AwsOnly(r) => x.source = "AWS_SYNC"}

\* The latest acceptance of a finding decides whether it still stands.
Lapsed(f) ==
    /\ finding[f] = "RISK_ACCEPTED"
    /\ \A x \in acceptances : x.of = f => x.until <= clock

\* listComplianceControls: one control whose rules match every finding.
Failing(r) ==
    {f \in Rows : (AwsOnly(r) => source[f] = "AWS_SYNC") /\ (finding[f] = "OPEN" \/ Lapsed(f))}

ReadFindings(r) ==
    [r EXCEPT !.findings = [f \in Rows |-> [status |-> finding[f], source |-> source[f]]]]
ReadGovernance(r) ==
    [r EXCEPT !.acceptances = acceptances, !.failing = IF Failing(r) # {} THEN 1 ELSE 0]
ReadEvidence(r) ==
    [r EXCEPT !.snapshots = Cardinality(InScope(r)), !.backed = {x.of : x \in InScope(r)}]

\* Statements whose order nothing tells apart are read as one.
Read(r, q) ==
    CASE q = "findings" -> ReadFindings(r)
      [] q = "governance" -> ReadGovernance(r)
      [] q = "evidence" -> ReadEvidence(r)

\* The statements of the second round end in any order.
Query ==
    /\ \E q \in request.todo : request' = [Read(request, q) EXCEPT !.todo = @ \ {q}]
    /\ Stored

Done == request.at = "second" /\ request.todo = {}

Answer == Done /\ request' = Nothing /\ Stored
-----------------------------------------------------------------------------
(* What goes on meanwhile.                                                 *)

Meanwhile == request' = [request EXCEPT !.calm = FALSE]

\* Seeding only adds; a scan takes a resource over.
Store(f, s) ==
    /\ source[f] # s /\ source[f] # "AWS_SYNC"
    /\ source' = [source EXCEPT ![f] = s]
    /\ Meanwhile /\ UNCHANGED <<finding, acceptances, snapshots, connected, clock>>

\* A rule finds something, or finds it again, and takes a snapshot.
Observe(f) ==
    /\ source[f] # "none"
    /\ finding' = [finding EXCEPT ![f] = IF @ = "RISK_ACCEPTED" THEN @ ELSE "OPEN"]
    /\ snapshots' = snapshots \cup {[of |-> f, source |-> source[f]]}
    /\ Meanwhile /\ UNCHANGED <<source, acceptances, connected, clock>>

Accept(f) ==
    /\ finding[f] \in {"OPEN", "RISK_ACCEPTED"} /\ Cardinality(acceptances) < Acceptances
    /\ finding' = [finding EXCEPT ![f] = "RISK_ACCEPTED"]
    /\ \E until \in (clock + 1)..(MaxClock + 1) :
          acceptances' = acceptances \cup
              {[of |-> f, until |-> until, n |-> Cardinality(acceptances)]}
    /\ Meanwhile /\ UNCHANGED <<source, snapshots, connected, clock>>

Resolve(f) ==
    /\ finding[f] \in {"OPEN", "RISK_ACCEPTED"}
    /\ finding' = [finding EXCEPT ![f] = "RESOLVED"]
    /\ Meanwhile /\ UNCHANGED <<source, acceptances, snapshots, connected, clock>>

Connect ==
    /\ connected' = ~connected
    /\ Meanwhile /\ UNCHANGED <<finding, source, acceptances, snapshots, clock>>

Tick ==
    /\ clock < MaxClock /\ clock' = clock + 1 /\ request.at = "idle"
    /\ UNCHANGED <<finding, source, acceptances, snapshots, connected, request>>

Next ==
    \/ Begin \/ Query \/ Answer
    \/ \E f \in Findings :
          \/ Store(f, "SAMPLE") \/ Store(f, "AWS_SYNC")
          \/ Observe(f) \/ Accept(f) \/ Resolve(f)
    \/ Connect \/ Tick

Spec == Init /\ [][Next]_vars
-----------------------------------------------------------------------------
(* Properties.                                                             *)

\* Types: findings are on resources, and a source once synchronized stays so.
TypeOK ==
    /\ finding \in [Findings -> Status] /\ source \in [Findings -> Source]
    /\ \A f \in Findings : finding[f] # "none" => source[f] # "none"
    /\ \A x \in snapshots : x.source = "AWS_SYNC" => source[x.of] = "AWS_SYNC"
    /\ request.at \in {"idle", "second"}

\* A score is never earned on demo data: where there is a number, every finding
\* behind it is on a synchronized resource, whatever was seeded or synchronized
\* between the two rounds (isSampleOnly).
DemoNeverScores ==
    Done /\ ScoreStatus(request) = "SCORED" =>
        \A f \in Counted(request) : request.findings[f].source = "AWS_SYNC"

\* The whole score is only given when nothing is hidden: in a response nobody wrote
\* beside, no finding of the sources that count is open or past its acceptance
\* (executivePosture).
PerfectIsEarned ==
    Done /\ request.calm /\ ScoreStatus(request) = "SCORED" /\ Score(request) = 100 =>
        \A f \in Rows : (AwsOnly(request) => source[f] = "AWS_SYNC")
            => finding[f] # "OPEN" /\ ~Lapsed(f)

\* A response nobody wrote beside has no more findings with evidence than findings
\* (evidenceCoveragePercent and its schema).
CoverageInScale == Done /\ request.calm => Coverage(request) \in 0..100

=============================================================================
