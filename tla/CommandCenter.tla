----------------------------- MODULE CommandCenter ----------------------------
(***************************************************************************)
(* The command center: one request reads some thirty tables with one       *)
(* statement after the other, or side by side, and no transaction, while   *)
(* scans, reviewers and administrators write them.  From what it has read  *)
(* it derives the health of each account, the freshness of the inventory,  *)
(* a score between 0 and 100 and the actions that need a human, and the    *)
(* response must fit its schema or the request fails.                      *)
(*                                                                         *)
(* A scan writes its row by id, whatever the row holds: a job that is      *)
(* delivered again starts it anew, with a later startedAt, and a run that  *)
(* was swept as stale may still end.                                       *)
(***************************************************************************)
EXTENDS Integers, Sequences, FiniteSets

CONSTANTS
    Accounts,    \* AWS accounts of the organization
    Findings,    \* security findings
    On,          \* the account of each finding
    Severity,    \* CRITICAL or HIGH for each finding
    Controls,    \* compliance controls of the catalog
    FreshMax,    \* FRESH_MAX_HOURS, in ticks of the clock
    AgingMax,    \* AGING_MAX_HOURS
    ScanLimit,   \* scan runs a request reads (1000 in the code)
    Ways,        \* the ways in which scan runs come into being
    MaxScans,    \* bound on scan runs
    MaxTries,    \* bound on the deliveries of a scan's job
    MaxClock,    \* bound on the clock
    Changes      \* bound on what administrators, reviewers and evaluations do

VARIABLES
    account,    \* AwsAccount rows
    scans,      \* ScanRun rows, in the order in which they were created
    stamp,      \* the last startedAt that was given
    won,        \* history: starts of each account's runs that succeeded and still say so
    synced,     \* history: when each account's runs have succeeded
    finding,    \* SecurityFinding rows; all have been evaluated
    control,    \* ComplianceControl rows
    inventory,  \* the resources of each account: none, demo data or a scan's
    clock,
    request,    \* the request and what it has read
    changes     \* counts the bound

history == <<won, synced>>
vars == <<account, scans, stamp, history, finding, control, inventory, clock, request, changes>>

\* READY_FOR_VALIDATION stands for every other value: no rule tells them apart.
Unusable == {"DISABLED", "NOT_CONFIGURED", "VALIDATION_FAILED", "AUTH_FAILED"}
Connection == Unusable \cup {"VALIDATION_SUCCEEDED", "READY_FOR_VALIDATION"}
Account == [connection : Connection, archived : BOOLEAN]

\* "queue": the worker has a job; "doubt": it has, but the add threw; "none": the
\* planner has blocked the run.
Way == {"queue", "doubt", "none"}

\* start: startedAt; ended: completedAt of a success; tries: deliveries of its job;
\* runs: how many are at work; owed: how many have yet to connect the account.
Scan == [of : Accounts, by : Way,
         status : {"QUEUED", "RUNNING", "SUCCEEDED", "PARTIALLY_SUCCEEDED", "FAILED", "BLOCKED"},
         start : Nat, ended : Nat, tries : Nat, runs : Nat, owed : Nat]
Finding == [open : BOOLEAN, owned : BOOLEAN]

\* "evidence": evaluated with evidence, but not PASS.
Control == {"none", "default", "evidence", "PASS"}

\* The counts of the two Promise.all a score depends on; what is divided by what is
\* read apart, the rest, whose order nothing tells apart, as one.
Summary == {{"total", "resources", "open", "critical", "high"}, {"connected"}}
Governance == {{"controls"}, {"withEvidence", "passed", "realEvidence", "synced", "sample"}}

Nothing == [at |-> "idle", now |-> 0, todo |-> {}, n |-> [q \in {} |-> 0], scans |-> <<>>,
            accounts |-> [a \in {} |-> 0], critical |-> {}, calm |-> FALSE,
            won |-> [a \in Accounts |-> {}]]

Init ==
    /\ account \in [Accounts -> [connection : {"VALIDATION_SUCCEEDED"}, archived : {FALSE}]]
    /\ scans = <<>> /\ stamp = 0
    /\ won = [a \in Accounts |-> {}] /\ synced = [a \in Accounts |-> {}]
    /\ finding \in [Findings -> Finding]
    /\ control = [c \in Controls |-> "PASS"]
    /\ inventory \in [Accounts -> {"none", "sample"}]
    /\ clock = 0
    /\ request = Nothing
    /\ changes = 0
-----------------------------------------------------------------------------
(* What the response says, from what the request r has read.               *)

Least(S) == CHOOSE n \in S : \A m \in S : n <= m

Runs(r, a) == {i \in DOMAIN r.scans : r.scans[i].of = a}

\* Mutant: the runs are taken in the order in which they were planned.
LastPlanned(r, S) == {i \in S : \A j \in S : j <= i}

\* The first of the runs S by startedAt, latest first.
Newest(r, S) == {i \in S : \A j \in S : r.scans[j].start <= r.scans[i].start}

LastSuccess(r, a) == Newest(r, {i \in Runs(r, a) : r.scans[i].status = "SUCCEEDED"})
HasSuccess(r, a) == LastSuccess(r, a) # {}
Ended(r, a) == r.scans[CHOOSE i \in LastSuccess(r, a) : TRUE].ended

\* latestAttempt has this status; it has started after the latest success then.
LatestIs(r, a, status) == \E i \in Newest(r, Runs(r, a)) : r.scans[i].status = status

Age(age) == IF age >= AgingMax THEN "STALE" ELSE IF age >= FreshMax THEN "AGING" ELSE "FRESH"

Freshness(r, a) ==
    IF r.accounts[a].connection \in Unusable THEN "CONNECTOR_DISABLED"
    ELSE IF LatestIs(r, a, "BLOCKED") THEN "BLOCKED"
    ELSE IF LatestIs(r, a, "FAILED") THEN "FAILED"
    ELSE IF HasSuccess(r, a) THEN Age(r.now - Ended(r, a)) ELSE "NEVER_SYNCHRONIZED"

Readiness(r, a) ==
    CASE r.accounts[a].connection \in {"VALIDATION_FAILED", "AUTH_FAILED"} -> "VALIDATION_FAILED"
      [] Freshness(r, a) = "CONNECTOR_DISABLED" -> "CONNECTOR_DISABLED"
      [] Freshness(r, a) = "BLOCKED" -> "SYNC_BLOCKED"
      [] Freshness(r, a) = "FAILED" -> "SYNC_FAILED"
      [] Freshness(r, a) = "STALE" -> "STALE_INVENTORY"
      [] Freshness(r, a) = "NEVER_SYNCHRONIZED" -> "NEVER_VALIDATED"
      [] OTHER -> IF a \in r.critical THEN "ATTENTION_REQUIRED" ELSE "HEALTHY"

\* priorityActions about accounts: AUTH_FAILED has none, although it is as unready as
\* VALIDATION_FAILED.
Actions(r) ==
    {[rule |-> Readiness(r, a), about |-> a] : a \in {b \in DOMAIN r.accounts :
        \/ r.accounts[b].connection = "VALIDATION_FAILED"
        \/ Readiness(r, b) \in {"STALE_INVENTORY", "NEVER_VALIDATED", "SYNC_BLOCKED", "SYNC_FAILED"}}}

Synced(r) == {a \in DOMAIN r.accounts : HasSuccess(r, a)}

\* inventoryFreshness goes by the oldest of the accounts' latest successes.
Overall(r) ==
    IF DOMAIN r.accounts = {} THEN "CONNECTOR_DISABLED"
    ELSE IF Synced(r) = {} THEN "NEVER_SYNCHRONIZED"
    ELSE Age(r.now - Least({Ended(r, a) : a \in Synced(r)}))

Round(n, d) == (2 * n + d) \div (2 * d)
Percent(part, whole) == IF whole > 0 THEN Round(100 * part, whole) ELSE 0

HighRisk(r) == r.n["critical"] + r.n["high"]
Unowned(r) == HighRisk(r) - r.n["owned"]

\* 50 for controls with evidence, 25 for owned risk, 15 for recommendations (there
\* are none to review), 10 for an audit trail (there is one).
GovernanceScore(r) ==
    LET d == IF r.n["controls"] > 0 THEN r.n["controls"] ELSE 1
        h == IF HighRisk(r) > 0 THEN HighRisk(r) ELSE 1
        data == IF r.n["total"] > 0 \/ r.n["resources"] > 0 THEN 1 ELSE 0
        owned == IF HighRisk(r) > 0 THEN r.n["owned"] ELSE data
    IN Round(50 * r.n["withEvidence"] * h + 25 * owned * d + (15 * data + 10) * d * h, d * h)

SecurityScore(r) ==
    LET score == 100 - 5 * r.n["critical"] - 2 * r.n["high"] IN IF score > 0 THEN score ELSE 0

RealInventory(r) == r.n["synced"] > 0 /\ \E i \in DOMAIN r.scans : r.scans[i].status = "SUCCEEDED"

Keys == {"SECURITY", "COMPLIANCE", "FRESHNESS", "READINESS", "GOVERNANCE"}

\* The score and its weight, for each component that is SCORED or STALE.
Components(r) ==
    [key \in {k \in Keys :
        CASE k = "SECURITY" -> r.n["open"] > 0 /\ ~(r.n["synced"] = 0 /\ r.n["sample"] > 0)
          [] k \in {"COMPLIANCE", "GOVERNANCE"} -> r.n["realEvidence"] > 0
          [] k = "FRESHNESS" -> RealInventory(r)
          [] k = "READINESS" -> r.n["total"] > 0 /\ r.n["connected"] > 0} |->
     CASE key = "SECURITY" -> [score |-> SecurityScore(r), weight |-> 30]
       [] key = "COMPLIANCE" -> [score |-> Percent(r.n["passed"], r.n["controls"]), weight |-> 20]
       [] key = "FRESHNESS" -> [score |-> IF Overall(r) = "STALE" THEN 0
                                          ELSE IF Overall(r) = "AGING" THEN 50 ELSE 100, weight |-> 15]
       [] key = "READINESS" -> [score |-> Percent(r.n["connected"], r.n["total"]), weight |-> 15]
       [] key = "GOVERNANCE" -> [score |-> GovernanceScore(r), weight |-> 20]]

Scored(r) == DOMAIN Components(r) = Keys

Total(r) ==
    LET Part(k) == Components(r)[k].score * Components(r)[k].weight
    IN Round(Part("SECURITY") + Part("COMPLIANCE") + Part("FRESHNESS") + Part("READINESS")
                + Part("GOVERNANCE"), 100)

InScale(n) == n \in 0..100

\* CommandCenterResponseSchema.parse.
Parses(r) ==
    /\ \A k \in DOMAIN Components(r) : InScale(Components(r)[k].score)
    /\ Scored(r) => InScale(Total(r))
-----------------------------------------------------------------------------
(* What the statements of the request return.                              *)

Live == {a \in Accounts : ~account[a].archived /\ account[a].connection # "DISABLED"}
OpenOf(S) == {f \in Findings : finding[f].open /\ Severity[f] \in S /\ On[f] \in Live}

\* Mutant: what is owned is counted over all findings, open or not.
OwnedAtAll == {f \in Findings : finding[f].owned /\ On[f] \in Live}

Owned == {f \in OpenOf({"CRITICAL", "HIGH"}) : finding[f].owned}

HasEvidence == {c \in Controls : control[c] \in {"evidence", "PASS"}}

Count(q) ==
    Cardinality(CASE q = "total" -> Live
                  [] q = "resources" -> {a \in Live : inventory[a] # "none"}
                  [] q = "connected" -> {a \in Live : account[a].connection = "VALIDATION_SUCCEEDED"}
                  [] q = "open" -> OpenOf({"CRITICAL", "HIGH"})
                  [] q = "critical" -> OpenOf({"CRITICAL"})
                  [] q = "high" -> OpenOf({"HIGH"})
                  [] q = "controls" -> {c \in Controls : control[c] # "none"}
                  [] q = "withEvidence" -> HasEvidence
                  [] q = "synced" -> {a \in Live : inventory[a] = "real"}
                  [] q = "sample" -> {a \in Live : inventory[a] = "sample"}
                  [] q = "realEvidence" -> IF \E a \in Accounts : inventory[a] = "real"
                                           THEN HasEvidence ELSE {}
                  [] q = "passed" -> {c \in Controls : control[c] = "PASS"}
                  [] q = "owned" -> Owned)

Stored == UNCHANGED <<account, scans, stamp, history, finding, control, inventory, clock, changes>>

Begin ==
    /\ request.at = "idle"
    /\ request' = [Nothing EXCEPT !.at = "summary", !.now = clock, !.todo = Summary, !.calm = TRUE,
                                    !.won = won]
    /\ Stored

\* The counts n, and with them those of Q.
Counted(n, Q) == [q \in DOMAIN n \cup Q |-> IF q \in Q THEN Count(q) ELSE n[q]]

\* The statements of a Promise.all end in any order.
Query ==
    /\ \E Q \in request.todo :
          request' = [request EXCEPT !.todo = @ \ {Q}, !.n = Counted(@, Q)]
    /\ Stored

\* orderBy startedAt desc, take ScanLimit.
Recent ==
    {i \in DOMAIN scans : Cardinality({j \in DOMAIN scans : scans[j].start > scans[i].start}) < ScanLimit}

ReadScans ==
    /\ request.at = "summary" /\ request.todo = {}
    /\ request' = [request EXCEPT !.at = "accounts", !.scans = [i \in Recent |-> scans[i]]]
    /\ Stored

ReadAccounts ==
    /\ request.at = "accounts"
    /\ request' = [request EXCEPT !.at = "governance", !.todo = Governance,
          !.accounts = [a \in {b \in Accounts : ~account[b].archived} |-> account[a]],
          !.critical = {On[f] : f \in {g \in Findings : finding[g].open /\ Severity[g] = "CRITICAL"}}]
    /\ Stored

ReadOwned ==
    /\ request.at = "governance" /\ request.todo = {}
    /\ request' = [request EXCEPT !.at = "done", !.n = Counted(@, {"owned"})]
    /\ Stored

Answer ==
    /\ request.at = "done"
    /\ request' = Nothing
    /\ Stored
-----------------------------------------------------------------------------
(* What goes on meanwhile.                                                 *)

Meanwhile == request' = [request EXCEPT !.calm = FALSE]

\* A row is created, for an account that may be scanned: the planner blocks some at
\* once.  The add of a job may throw although it was accepted.
Plan(a, by) ==
    /\ Len(scans) < MaxScans /\ a \in Live
    /\ stamp' = stamp + 1
    /\ scans' = Append(scans, [of |-> a, by |-> by, status |-> IF by = "none" THEN "BLOCKED" ELSE "QUEUED",
                               start |-> stamp + 1, ended |-> 0, tries |-> 0, runs |-> 0, owed |-> 0])
    /\ Meanwhile /\ UNCHANGED <<account, history, finding, control, inventory, clock, changes>>

HasJob(i) == scans[i].by \in {"queue", "doubt"}

\* The row i is updated by its id: a success it held is taken back, unless the row
\* has a new start or says so again.
Write(i, x) ==
    LET a == scans[i].of
        lost == IF x.start = scans[i].start /\ x.status # "SUCCEEDED" THEN {x.start} ELSE {}
    IN /\ scans' = [scans EXCEPT ![i] = x]
       /\ won' = [won EXCEPT ![a] = (@ \ lost) \cup (IF x.status = "SUCCEEDED" THEN {x.start} ELSE {})]
       /\ request' = [request EXCEPT !.calm = FALSE, !.won[a] = @ \ lost]

\* A delivery of the job, the first or another: the row is RUNNING and starts now.
Start(i) ==
    /\ HasJob(i) /\ scans[i].tries < MaxTries
    /\ Write(i, [scans[i] EXCEPT !.status = "RUNNING", !.start = stamp + 1, !.tries = @ + 1, !.runs = @ + 1])
    /\ stamp' = stamp + 1
    /\ UNCHANGED <<account, synced, finding, control, inventory, clock, changes>>

\* Or it is blocked before it starts: the mode or an allowlist has changed.
Refuse(i) ==
    /\ HasJob(i) /\ scans[i].tries < MaxTries
    /\ Write(i, [scans[i] EXCEPT !.status = "BLOCKED", !.tries = @ + 1])
    /\ UNCHANGED <<account, stamp, synced, finding, control, inventory, clock, changes>>

\* A run that is at work stores resources.
Store(i) ==
    /\ scans[i].runs > 0 /\ inventory[scans[i].of] # "real"
    /\ inventory' = [inventory EXCEPT ![scans[i].of] = "real"]
    /\ Meanwhile /\ UNCHANGED <<account, scans, stamp, history, finding, control, clock, changes>>

\* A run ends, whatever has become of its row, and connects its account afterwards if
\* a region was scanned.
End(i, status) ==
    /\ scans[i].runs > 0
    /\ Write(i, [scans[i] EXCEPT !.status = status, !.runs = @ - 1,
                    !.ended = IF status = "SUCCEEDED" THEN clock ELSE @,
                    !.owed = IF status = "FAILED" THEN @ ELSE @ + 1])
    /\ synced' = IF status = "SUCCEEDED" THEN [synced EXCEPT ![scans[i].of] = @ \cup {clock}] ELSE synced
    /\ UNCHANGED <<account, stamp, finding, control, inventory, clock, changes>>

Connected(i) ==
    /\ scans[i].owed > 0
    /\ Write(i, [scans[i] EXCEPT !.owed = @ - 1])
    /\ account' = [account EXCEPT ![scans[i].of].connection = "VALIDATION_SUCCEEDED"]
    /\ UNCHANGED <<stamp, synced, finding, control, inventory, clock, changes>>

\* The start-up pass fails what has been queued or running for too long.
Sweep(i) ==
    /\ scans[i].status \in {"QUEUED", "RUNNING"}
    /\ Write(i, [scans[i] EXCEPT !.status = "FAILED"])
    /\ UNCHANGED <<account, stamp, synced, finding, control, inventory, clock, changes>>

\* The planner's answer to an add that threw.
Compensate(i) ==
    /\ scans[i].by = "doubt"
    /\ Write(i, [scans[i] EXCEPT !.status = "FAILED", !.by = "queue"])
    /\ UNCHANGED <<account, stamp, synced, finding, control, inventory, clock, changes>>

Bounded == changes < Changes /\ changes' = changes + 1

Connect(a) ==
    /\ \E c \in Connection \ {account[a].connection} : account' = [account EXCEPT ![a].connection = c]
    /\ Bounded /\ Meanwhile /\ UNCHANGED <<scans, stamp, history, finding, control, inventory, clock>>

Archive(a) ==
    /\ ~account[a].archived
    /\ account' = [account EXCEPT ![a] = [connection |-> "DISABLED", archived |-> TRUE]]
    /\ Bounded /\ Meanwhile /\ UNCHANGED <<scans, stamp, history, finding, control, inventory, clock>>

Review(f) ==
    /\ \/ finding' = [finding EXCEPT ![f].open = ~@]
       \/ finding' = [finding EXCEPT ![f].owned = ~@]
    /\ Bounded /\ Meanwhile /\ UNCHANGED <<account, scans, stamp, history, control, inventory, clock>>

Evaluate(c) ==
    /\ \E status \in Control \ {"none", control[c]} : control' = [control EXCEPT ![c] = status]
    /\ Bounded /\ Meanwhile /\ UNCHANGED <<account, scans, stamp, history, finding, inventory, clock>>

\* Time passes between requests: one takes far less than a tick.
Tick ==
    /\ clock < MaxClock /\ clock' = clock + 1 /\ request.at = "idle"
    /\ UNCHANGED <<account, scans, stamp, history, finding, control, inventory, request, changes>>

Next ==
    \/ Begin \/ Query \/ ReadScans \/ ReadAccounts \/ ReadOwned \/ Answer
    \/ \E a \in Accounts : Connect(a) \/ Archive(a) \/ \E by \in Ways : Plan(a, by)
    \/ \E i \in DOMAIN scans :
          \/ Start(i) \/ Refuse(i) \/ Store(i) \/ Connected(i) \/ Sweep(i) \/ Compensate(i)
          \/ End(i, "SUCCEEDED") \/ End(i, "PARTIALLY_SUCCEEDED") \/ End(i, "FAILED")
    \/ \E f \in Findings : Review(f)
    \/ \E c \in Controls : Evaluate(c)
    \/ Tick

Spec == Init /\ [][Next]_vars
-----------------------------------------------------------------------------
(* Properties.                                                             *)

\* Types: a request has read what its place in the handler says.
TypeOK ==
    /\ account \in [Accounts -> Account] /\ finding \in [Findings -> Finding]
    /\ scans \in Seq(Scan) /\ stamp \in Nat /\ control \in [Controls -> Control]
    /\ request.at \in {"idle", "summary", "accounts", "governance", "done"}
    /\ request.at \in {"accounts", "governance", "done"} => UNION Summary \subseteq DOMAIN request.n
    /\ request.at = "done" => (UNION Governance) \cup {"owned"} \subseteq DOMAIN request.n

Done == request.at = "done"

\* A response nobody wrote beside fits its schema, counts no more owned risk than
\* there is, and scores every part between 0 and 100 (getCommandCenterData).
CalmFits == Done /\ request.calm => Parses(request) /\ Unowned(request) >= 0

\* Who is called fresh has been synchronized within the threshold, whatever
\* happened during the request.
FreshIsEarned ==
    Done => \A a \in DOMAIN request.accounts :
        Freshness(request, a) = "FRESH" => \E t \in synced[a] : request.now - t < FreshMax

\* "A newer successful scan entirely supersedes any older failed or blocked scans":
\* who is called failed or blocked has such a run that started after every one that
\* had succeeded when the request began and is not taken back since.
NoAlarmAfterSuccess ==
    Done => \A a \in DOMAIN request.accounts :
        Freshness(request, a) \in {"FAILED", "BLOCKED"} =>
            \E i \in Runs(request, a) : /\ request.scans[i].status = Freshness(request, a)
                                       /\ \A w \in request.won[a] : w < request.scans[i].start

\* And the other way round: in a response nobody wrote beside, an account whose
\* connector is usable and whose latest run failed or was blocked has its action, if
\* that run is among those that are read.
LatestTroubleIsShown ==
    Done /\ request.calm => \A a \in DOMAIN request.accounts : \A i \in Recent :
        /\ account[a].connection \notin Unusable
        /\ scans[i].of = a /\ scans[i].status \in {"FAILED", "BLOCKED"}
        /\ \A j \in DOMAIN scans : scans[j].of = a => scans[j].start <= scans[i].start
        => \E act \in Actions(request) : act.about = a /\ act.rule \in {"SYNC_FAILED", "SYNC_BLOCKED"}

=============================================================================
