------------------------------ MODULE Compliance -----------------------------
(***************************************************************************)
(* Compliance posture, which the code derives twice, for two catalogs.  An *)
(* evaluation walks over the stored controls, reads findings, writes a row *)
(* of evidence for each of them and then the status of the control, one    *)
(* statement after the other; several evaluations may run at once, and any *)
(* may fail halfway.  The controls registry has a catalog of its own, each *)
(* control of which judges live, with code of its own, findings that       *)
(* several of the stored controls may be about.  Meanwhile reviewers       *)
(* decide findings, acceptances lapse, the rule engine captures evidence,  *)
(* and accounts and resources are archived.                                *)
(***************************************************************************)
EXTENDS Integers, FiniteSets

CONSTANTS
    Controls,    \* controls of the stored catalog, evaluated in this order
    Security,    \* security findings
    Cost,        \* cost findings
    Reads,       \* of each control, the findings its rules match
    Registry,    \* controls of the registry's catalog
    Maps,        \* of each of these, the security findings of the rules it maps
    Sample,      \* findings on resources that are sample data
    Limit,       \* findings of a kind that an evaluation reads (50 in the code)
    Others,      \* other evidence a control may find: acceptances, audit events, recommendations
    Evaluators,  \* evaluation requests under way at once
    Changes,     \* bound on what happens to findings meanwhile
    MayFail      \* whether a statement of an evaluation may throw

Findings == Security \cup Cost

VARIABLES
    finding,   \* security and cost findings, with the account and resource they hang on
    late,      \* the clock has passed the expiry of the short acceptances
    captured,  \* security findings with an evidence snapshot
    others,    \* rows of other evidence
    control,   \* the ComplianceControl rows
    evidence,  \* the ComplianceEvidence rows of each control about findings
    request,   \* evaluations under way
    alone,     \* history: the control was evaluated with nobody in between, and is as it was
    basis,     \* history: the findings the stored status of a control was derived from
    changes    \* counts the bound

vars == <<finding, late, captured, others, control, evidence, request, alone, basis, changes>>

Workflow == {"OPEN", "RISK_ACCEPTED", "RESOLVED"}  \* OPEN: any of the five active statuses
Acceptance == {"none", "short", "long"}            \* the latest RiskAcceptance row

\* active: neither the finding nor its resource or account is archived, stale or
\* disabled; of a cost finding it speaks of the account.
Finding == [workflow : Workflow, acceptance : Acceptance, active : BOOLEAN]

Posture == {"NOT_EVALUATED", "PASS", "FAIL", "NEEDS_REVIEW"}

\* default: the row is new and was never evaluated.
Control == [status : Posture \cup {"none", "default"}, findings : Nat, failed : Nat]

NoControl == [status |-> "none", findings |-> 0, failed |-> 0]

Idle == [at |-> "idle", todo |-> {}, on |-> 0, seen |-> [f \in {} |-> 0], unwritten |-> {},
         alone |-> FALSE]

Init ==
    /\ finding \in [Findings -> [workflow : {"OPEN", "RESOLVED"}, acceptance : {"none"}, active : {TRUE}]]
    /\ late = FALSE
    /\ captured \in SUBSET Security
    /\ others \in Others
    /\ control = [c \in Controls |-> NoControl]
    /\ evidence = [c \in Controls |-> [f \in Findings |-> "none"]]
    /\ request = [e \in Evaluators |-> Idle]
    /\ alone = [c \in Controls |-> FALSE]
    /\ basis = [c \in Controls |-> [f \in {} |-> 0]]
    /\ changes = 0

\* riskAcceptanceExpiryState is ACTIVE or EXPIRING_SOON.
Accepted(row) ==
    /\ row.workflow = "RISK_ACCEPTED"
    /\ \/ row.acceptance = "long"
       \/ (row.acceptance = "short" /\ ~late)

Open(row) == row.workflow = "OPEN" \/ (row.workflow = "RISK_ACCEPTED" /\ ~Accepted(row))

Derive(open, accepted, rows, sampleOnly) ==
    IF open > 0 THEN "FAIL"
    ELSE IF accepted > 0 THEN "NEEDS_REVIEW"
    ELSE IF rows = 0 THEN "NOT_EVALUATED"
    ELSE IF sampleOnly THEN "NEEDS_REVIEW" ELSE "PASS"

DeriveProjection(open, accepted, rows, sampleOnly) ==
    IF open > 0 THEN "FAILING"
    ELSE IF accepted > 0 THEN "ACCEPTED_RISK"
    ELSE IF rows > 0 /\ ~sampleOnly THEN "PASSING" ELSE "UNKNOWN"

\* Mutant: what failed is what is active, a lapsed acceptance is not.
DeriveFailed(seen, n) ==
    LET failed == {f \in DOMAIN seen : seen[f].workflow = "OPEN"}
    IN Derive(Cardinality(failed), 0, Cardinality(DOMAIN seen) + n, DOMAIN seen \subseteq Sample)

\* The status of a control from the findings that were read; each of them and
\* each of the n other rows is a row of evidence.
StatusOf(seen, n) ==
    LET open == {f \in DOMAIN seen : Open(seen[f])}
        accepted == {f \in DOMAIN seen : Accepted(seen[f])}
    IN Derive(Cardinality(open), Cardinality(accepted), Cardinality(DOMAIN seen) + n,
              DOMAIN seen \subseteq Sample)

\* The registry: every finding of the mapped rules that is active.  What counts as
\* evidence are its snapshots, of which a finding may have none.
Projected(p) == {f \in Maps[p] : finding[f].active}

Projection(p) ==
    DeriveProjection(Cardinality({f \in Projected(p) : Open(finding[f])}),
                     Cardinality({f \in Projected(p) : Accepted(finding[f])}),
                     Cardinality(Projected(p) \cap captured), Projected(p) \subseteq Sample)

\* Somebody else has written what an evaluation reads or writes.
Disturbed(r) == [r EXCEPT !.alone = FALSE]
-----------------------------------------------------------------------------
\* Every route of the evidence center stores the catalog first, those that only
\* read it too; POST /compliance/evaluate then evaluates each control.
Begin(e) ==
    /\ request[e].at = "idle"
    /\ request' = [request EXCEPT ![e] = [Idle EXCEPT !.at = "catalog", !.todo = Controls]]
    /\ UNCHANGED <<finding, late, captured, others, control, evidence, alone, basis, changes>>

\* The upsert of a definition leaves what was evaluated.
Upserted(row) == IF row.status = "none" THEN [row EXCEPT !.status = "default"] ELSE row

Ensure(e) ==
    /\ request[e].at = "catalog" /\ request[e].todo # {}
    /\ \E c \in request[e].todo :
          /\ \A d \in request[e].todo : c <= d
          /\ control' = [control EXCEPT ![c] = Upserted(@)]
          /\ request' = [request EXCEPT ![e].todo = @ \ {c}]
    /\ UNCHANGED <<finding, late, captured, others, evidence, alone, basis, changes>>

Ensured(e) ==
    /\ request[e].at = "catalog" /\ request[e].todo = {}
    /\ \E next \in {Idle, [Idle EXCEPT !.at = "read", !.todo = Controls]} :
          request' = [request EXCEPT ![e] = next]
    /\ UNCHANGED <<finding, late, captured, others, control, evidence, alone, basis, changes>>

\* Security findings are read while they, their resource and their account are
\* active; cost findings are read as they are.
Readable(c, kind) == {f \in Reads[c] \cap kind : f \in Security => finding[f].active}

\* Up to Limit rows, in no order.
Taken(S, T) ==
    /\ T \subseteq S
    /\ Cardinality(T) = IF Cardinality(S) < Limit THEN Cardinality(S) ELSE Limit

Read(e) ==
    /\ request[e].at = "read" /\ request[e].todo # {}
    /\ \E c \in request[e].todo, S \in SUBSET Security, T \in SUBSET Cost :
          /\ \A d \in request[e].todo : c <= d
          /\ Taken(Readable(c, Security), S) /\ Taken(Readable(c, Cost), T)
          /\ request' = [request EXCEPT ![e] = [Idle EXCEPT !.at = "write", !.on = c,
                !.todo = request[e].todo \ {c}, !.seen = [f \in S \cup T |-> finding[f]],
                !.unwritten = S \cup T, !.alone = TRUE]]
    /\ UNCHANGED <<finding, late, captured, others, control, evidence, alone, basis, changes>>

EvidenceOf(f, row) ==
    IF row.workflow = "RESOLVED" THEN "PASS" ELSE IF f \in Cost THEN "WARNING" ELSE "FAIL"

Upsert(e, f) ==
    evidence' = [evidence EXCEPT ![request[e].on][f] = EvidenceOf(f, request[e].seen[f])]

\* The rows are written side by side, in any order.
Write(e) ==
    /\ request[e].at = "write"
    /\ \E f \in request[e].unwritten :
          /\ Upsert(e, f)
          /\ request' = [d \in Evaluators |->
                IF d = e THEN [request[e] EXCEPT !.unwritten = @ \ {f}]
                ELSE IF request[d].on = request[e].on THEN Disturbed(request[d]) ELSE request[d]]
    /\ alone' = [alone EXCEPT ![request[e].on] = FALSE]
    /\ UNCHANGED <<finding, late, captured, others, control, basis, changes>>

Failed(r) == {f \in DOMAIN r.seen : r.seen[f].workflow = "OPEN"}

Update(e) ==
    LET r == request[e]
    IN /\ r.at = "write" /\ r.unwritten = {}
       /\ control' = [control EXCEPT ![r.on] =
            [status |-> StatusOf(r.seen, others), findings |-> Cardinality(DOMAIN r.seen),
             failed |-> Cardinality(Failed(r))]]
       /\ request' = [d \in Evaluators |->
            IF d = e THEN [Idle EXCEPT !.at = "read", !.todo = r.todo]
            ELSE IF request[d].on = r.on THEN Disturbed(request[d]) ELSE request[d]]
       /\ alone' = [alone EXCEPT ![r.on] = r.alone]
       /\ basis' = [basis EXCEPT ![r.on] = r.seen]
       /\ UNCHANGED <<finding, late, captured, others, evidence, changes>>

Finish(e) ==
    /\ request[e].at = "read" /\ request[e].todo = {}
    /\ request' = [request EXCEPT ![e] = Idle]
    /\ UNCHANGED <<finding, late, captured, others, control, evidence, alone, basis, changes>>

\* A statement throws, the unique index of two upserts that both create a
\* control included; of the rows that were being written side by side, some are.
Fail(e) ==
    /\ MayFail /\ request[e].at # "idle"
    /\ LET r == request[e]
       IN \E W \in SUBSET r.unwritten :
            /\ evidence' = [c \in Controls |-> [f \in Findings |->
                  IF c = r.on /\ f \in W THEN EvidenceOf(f, r.seen[f]) ELSE evidence[c][f]]]
            /\ request' = [d \in Evaluators |->
                  IF d = e THEN Idle
                  ELSE IF r.on # 0 /\ request[d].on = r.on THEN Disturbed(request[d]) ELSE request[d]]
            /\ alone' = [c \in Controls |-> alone[c] /\ c # r.on]
    /\ UNCHANGED <<finding, late, captured, others, control, basis, changes>>
-----------------------------------------------------------------------------
\* What happens to findings meanwhile.
Changed ==
    /\ request' = [e \in Evaluators |-> Disturbed(request[e])]
    /\ alone' = [c \in Controls |-> FALSE]
    /\ UNCHANGED <<captured, others, control, evidence, basis>>

Bounded == changes < Changes /\ changes' = changes + 1

\* An acceptance may be decided again; the latest is the one that runs longest.
Accept(f) ==
    /\ f \in Security /\ finding[f].workflow # "RESOLVED"
    /\ \E a \in IF late THEN {"long"} ELSE {"short", "long"} :
          finding' = [finding EXCEPT ![f].workflow = "RISK_ACCEPTED",
                                     ![f].acceptance = IF @ = "long" THEN @ ELSE a]
    /\ Bounded /\ Changed /\ UNCHANGED late

Decide(f) ==
    /\ \E w \in {"OPEN", "RESOLVED"} \ {finding[f].workflow} :
          finding' = [finding EXCEPT ![f].workflow = w]
    /\ Bounded /\ Changed /\ UNCHANGED late

Archive(f) ==
    /\ finding' = [finding EXCEPT ![f].active = ~@]
    /\ Bounded /\ Changed /\ UNCHANGED late

\* The engine appends a snapshot to what it has found (or found again).
Capture(f) ==
    /\ captured' = captured \cup {f}
    /\ UNCHANGED <<finding, late, others, control, evidence, request, alone, basis, changes>>

Lapse ==
    /\ ~late /\ late' = TRUE
    /\ Changed /\ UNCHANGED <<finding, changes>>

Step(e) ==
    \/ Begin(e) \/ Ensure(e) \/ Ensured(e) \/ Read(e) \/ Write(e) \/ Update(e) \/ Finish(e)
    \/ Fail(e)

Next ==
    \/ \E e \in Evaluators : Step(e)
    \/ \E f \in Findings : Accept(f) \/ Decide(f) \/ Archive(f)
    \/ \E f \in Security : Capture(f)
    \/ Lapse

Spec == Init /\ [][Next]_vars
-----------------------------------------------------------------------------
(* Properties.                                                              *)

\* Types: what is evaluated is a stored control, and evidence is about what its
\* rules match.
TypeOK ==
    /\ finding \in [Findings -> Finding] /\ control \in [Controls -> Control]
    /\ \A e \in Evaluators :
          /\ request[e].at \in {"idle", "catalog", "read", "write"}
          /\ request[e].at = "write" =>
                /\ control[request[e].on].status # "none"
                /\ DOMAIN request[e].seen \subseteq Reads[request[e].on]
    /\ \A c \in Controls, f \in Findings : evidence[c][f] # "none" => f \in Reads[c]

\* The stored controls that are about nothing but what p maps.
Parts(p) == {c \in Controls : Reads[c] \subseteq Maps[p]}

\* Undisturbed, and no finding was left out.
Current(c) == alone[c] /\ Cardinality(Readable(c, Security)) <= Limit

\* The two catalogs do not contradict each other.  Where an undisturbed evaluation
\* stored FAIL and nothing has changed since, the registry shows FAILING.  And when
\* current controls cover all that a control of the registry maps, one of them
\* carries what it shows (evaluateControl and complianceProjectionCounts).
RegistryAgrees ==
    \A p \in Registry :
        LET stored == {control[c].status : c \in Parts(p)}
        IN /\ \A c \in Parts(p) :
                alone[c] /\ control[c].status = "FAIL" => Projection(p) = "FAILING"
           /\ (\A c \in Parts(p) : Current(c)) /\ Maps[p] = UNION {Reads[c] : c \in Parts(p)} =>
                /\ Projection(p) = "FAILING" => "FAIL" \in stored
                /\ Projection(p) = "ACCEPTED_RISK" => "NEEDS_REVIEW" \in stored
                /\ Projection(p) = "PASSING" => "PASS" \in stored

\* While a control is as an undisturbed evaluation left it, its evidence carries
\* its status: PASS only rests on PASS, and FAIL has a row that fails (writeEvidence).
EvidenceCarriesStatus ==
    \A c \in Controls : alone[c] =>
        /\ control[c].status = "PASS" => \A f \in DOMAIN basis[c] : evidence[c][f] = "PASS"
        /\ control[c].status = "FAIL" => \E f \in DOMAIN basis[c] : evidence[c][f] # "PASS"

=============================================================================
