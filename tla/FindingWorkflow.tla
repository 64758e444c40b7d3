--------------------------- MODULE FindingWorkflow --------------------------
(***************************************************************************)
(* The findings of one resource under one rule: the rule engine that       *)
(* records, reopens and resolves them, run by a scan's worker and by the   *)
(* evaluation route at the same time, and the reviewers who take them      *)
(* through the risk workflow.                                              *)
(*                                                                         *)
(* A finding is a row.  Nothing in the table keeps two rows of the same    *)
(* resource and rule apart, so there may be several.                       *)
(***************************************************************************)
EXTENDS Naturals, FiniteSets

CONSTANTS
    Rows,      \* ids of finding rows: the bound of how many are ever created
    Users,     \* reviewers, each with one request at a time
    Engines,   \* processes that run the rule engine
    Settings,  \* what may happen, see the variable setting
    None

Actions == {"acknowledge", "assign", "plan-remediation", "accept-risk",
            "false-positive", "resolve", "archive", "reopen"}
Fault == {"evidence_error", "plan", "drift"}

ASSUME FindingConstants ==
    /\ Settings \subseteq [faults : SUBSET Fault, actions : SUBSET Actions,
                           users : SUBSET Users, engines : SUBSET Engines,
                           rows : SUBSET Rows]
    /\ None \notin Rows

VARIABLES
    setting,  \* fixed in a behaviour: who takes part, which actions they use,
              \* which rows may come into being, which faults they may meet
    exposed,  \* whether the rule applies to the stored resource
    finding,  \* the rows
    request,  \* the request of each reviewer, with what it read
    eval      \* the evaluation of each engine, with what it read

vars == <<setting, exposed, finding, request, eval>>

Open == {"OPEN", "ACKNOWLEDGED", "ASSIGNED", "REMEDIATION_PLANNED", "REOPENED"}
Decided == {"RISK_ACCEPTED", "FALSE_POSITIVE", "ARCHIVED"}
Status == Open \cup Decided \cup {"RESOLVED"}

Row == [status : Status \cup {"ABSENT"}, archived : BOOLEAN, owned : BOOLEAN,
        acceptance : {"none", "owner", "Unassigned"}]
Request == [pc : {"idle", "commit"}, row : Rows \cup {None}, action : Actions \cup {None},
            touched : BOOLEAN]
Evaluation == [pc : {"idle", "lookup", "write", "list", "resolve", "done"},
               exposed : BOOLEAN, row : Rows \cup {None},
               was : Status \cup {None}, todo : SUBSET Rows, fresh : BOOLEAN]

NoRow == [status |-> "ABSENT", archived |-> FALSE, owned |-> FALSE, acceptance |-> "none"]
NoRequest == [pc |-> "idle", row |-> None, action |-> None, touched |-> FALSE]
Idle == [pc |-> "idle", exposed |-> FALSE, row |-> None, was |-> None, todo |-> {},
         fresh |-> FALSE]

Init ==
    /\ setting \in Settings
    /\ exposed = TRUE
    /\ finding = [r \in Rows |-> NoRow]
    /\ request = [u \in Users |-> NoRequest]
    /\ eval = [e \in Engines |-> Idle]
-----------------------------------------------------------------------------
(* Every write to a row renews its time stamp: requests that have read the  *)
(* row before are touched, evaluations no longer see it fresh.              *)

Touch(r) == [u \in Users |-> IF request[u].row = r THEN [request[u] EXCEPT !.touched = TRUE]
                                                 ELSE request[u]]
Outdated(es) == [e \in Engines |-> IF e \in es THEN [eval[e] EXCEPT !.fresh = FALSE]
                                               ELSE eval[e]]
Others(e) == Outdated(Engines \ {e})
-----------------------------------------------------------------------------
(* The risk workflow.                                                       *)

\* The actions open to a finding in a status.
Available(status) ==
    LET anywhere == {"assign", "resolve", "archive"}
    IN CASE status \in {"OPEN", "REOPENED"} -> anywhere \cup {"acknowledge", "false-positive"}
         [] status \in {"ACKNOWLEDGED", "ASSIGNED"} ->
                anywhere \cup {"plan-remediation", "accept-risk", "false-positive"}
         [] status = "REMEDIATION_PLANNED" -> anywhere \cup {"plan-remediation", "accept-risk"}
         [] status \in {"RISK_ACCEPTED", "FALSE_POSITIVE", "RESOLVED"} -> {"reopen", "archive"}
         [] status = "ARCHIVED" -> {"reopen"}

Target(action) ==
    CASE action = "acknowledge" -> "ACKNOWLEDGED"
      [] action = "assign" -> "ASSIGNED"
      [] action = "plan-remediation" -> "REMEDIATION_PLANNED"
      [] action = "accept-risk" -> "RISK_ACCEPTED"
      [] action = "false-positive" -> "FALSE_POSITIVE"
      [] action = "resolve" -> "RESOLVED"
      [] action = "archive" -> "ARCHIVED"
      [] action = "reopen" -> "REOPENED"

\* A risk is accepted by its owner only.
OwnerPresent(action, row) == action = "accept-risk" => row.owned

\* The row is read and the action checked.  (The account and the resource of
\* the finding may refuse it too: the request is then not made.)
Read(u, r, action) ==
    /\ u \in setting.users /\ action \in setting.actions
    /\ request[u].pc = "idle" /\ finding[r].status # "ABSENT"
    /\ action \in Available(finding[r].status)
    /\ OwnerPresent(action, finding[r])
    /\ request' = [request EXCEPT ![u] = [pc |-> "commit", row |-> r, action |-> action,
                                          touched |-> FALSE]]
    /\ UNCHANGED <<exposed, finding, eval>>

\* Mutant: the update does not compare.
AlwaysApplies(u) == TRUE

\* The transaction updates the row if it is as it was read.
StillAsRead(u) == ~request[u].touched

\* What the update makes of the row.
Decide(row, action) ==
    [status |-> Target(action),
     archived |-> CASE action = "archive" -> TRUE [] action = "reopen" -> FALSE
                    [] OTHER -> row.archived,
     owned |-> row.owned \/ action = "assign",
     acceptance |-> IF action # "accept-risk" THEN row.acceptance
                    ELSE IF row.owned THEN "owner" ELSE "Unassigned"]

Commit(u) ==
    LET r == request[u].row
    IN /\ request[u].pc = "commit" /\ StillAsRead(u)
       /\ finding' = [finding EXCEPT ![r] = Decide(@, request[u].action)]
       /\ request' = [Touch(r) EXCEPT ![u] = NoRequest]
       /\ eval' = Outdated(Engines)
       /\ UNCHANGED exposed

\* A conflict, an unknown team or assignee, an error: nothing is changed.
Refuse(u) ==
    /\ request[u].pc = "commit"
    /\ request' = [request EXCEPT ![u] = NoRequest]
    /\ UNCHANGED <<exposed, finding, eval>>

\* Creating a governed remediation plan writes the finding by id, whatever its
\* status is.
PlanCreated(r) ==
    /\ "plan" \in setting.faults /\ finding[r].status # "ABSENT"
    /\ finding' = [finding EXCEPT ![r].status = "REMEDIATION_PLANNED"]
    /\ request' = Touch(r) /\ eval' = Outdated(Engines)
    /\ UNCHANGED exposed

Review(u) == (\E r \in Rows, a \in Actions : Read(u, r, a)) \/ Commit(u) \/ Refuse(u)
-----------------------------------------------------------------------------
(* The rule engine (evaluateSecurityRules), seen from one resource and rule.*)

Step(e, pc) == eval' = [eval EXCEPT ![e].pc = pc]

\* The resource is read and the rule evaluated.
Begin(e) ==
    /\ e \in setting.engines /\ eval[e].pc = "idle"
    /\ eval' = [eval EXCEPT ![e] = [Idle EXCEPT !.pc = IF exposed THEN "lookup" ELSE "list",
                                                !.exposed = exposed]]
    /\ UNCHANGED <<exposed, finding, request>>

\* Rows an observation of the rule may belong to.
Matching == {r \in Rows : /\ finding[r].status \notin {"ABSENT", "FALSE_POSITIVE", "ARCHIVED"}
                          /\ ~finding[r].archived}

\* Any one of them is taken, or none if there is none.
Lookup(e) ==
    /\ eval[e].pc = "lookup"
    /\ \E r \in IF Matching = {} THEN {None} ELSE Matching :
          eval' = [eval EXCEPT ![e] = [@ EXCEPT !.pc = "write", !.row = r, !.fresh = TRUE,
                        !.was = IF r = None THEN None ELSE finding[r].status]]
    /\ UNCHANGED <<exposed, finding, request>>

\* Mutants: an accepted risk is opened again; a resolved finding is not.
Reopens(was) == was \in {"RESOLVED", "RISK_ACCEPTED"}
NeverReopens(was) == FALSE

\* Observed again, only a resolved finding is opened.
ObservedAgain(was) == was = "RESOLVED"

Written(e) == [Others(e) EXCEPT ![e] = [@ EXCEPT !.pc = "list", !.row = None, !.was = None]]

Update(e, r) ==
    /\ eval[e].pc = "write" /\ r = eval[e].row
    /\ finding' = [finding EXCEPT ![r].status = IF ObservedAgain(eval[e].was) THEN "REOPENED" ELSE @]
    /\ request' = Touch(r)
    /\ eval' = Written(e)
    /\ UNCHANGED exposed

\* The owner of a new row is the owner of the resource, if it has one.
Create(e, r) ==
    /\ eval[e].pc = "write" /\ eval[e].row = None
    /\ r \in setting.rows /\ finding[r].status = "ABSENT"
    /\ \E owned \in BOOLEAN : finding' = [finding EXCEPT ![r] = [NoRow EXCEPT !.status = "OPEN",
                                                                          !.owned = owned]]
    /\ eval' = Written(e)
    /\ UNCHANGED <<exposed, request>>

\* An evidence snapshot that is refused rolls the write back and ends the
\* whole evaluation.
Abort(e) ==
    /\ "evidence_error" \in setting.faults
    /\ eval[e].pc = "write"
    /\ eval' = [eval EXCEPT ![e] = Idle]
    /\ UNCHANGED <<exposed, finding, request>>

\* Mutant: a reopened finding is forgotten.
NeverReopened == {r \in Rows : finding[r].status \in Open \ {"REOPENED"} /\ ~finding[r].archived}

\* Rows that are resolved when the rule has not applied.
Resolvable == {r \in Rows : finding[r].status \in Open /\ ~finding[r].archived}

List(e) ==
    /\ eval[e].pc = "list"
    /\ eval' = [eval EXCEPT ![e] = [@ EXCEPT !.pc = "resolve",
                   !.todo = IF eval[e].exposed THEN {} ELSE Resolvable,
                   !.fresh = ~eval[e].exposed \/ eval[e].fresh]]
    /\ UNCHANGED <<exposed, finding, request>>

\* Each is resolved by id.
Resolve(e, r) ==
    /\ eval[e].pc = "resolve" /\ r \in eval[e].todo
    /\ finding' = [finding EXCEPT ![r].status = "RESOLVED"]
    /\ request' = Touch(r)
    /\ eval' = [Others(e) EXCEPT ![e].todo = @ \ {r}]
    /\ UNCHANGED exposed

Finish(e) ==
    /\ eval[e].pc = "resolve" /\ eval[e].todo = {}
    /\ Step(e, "done")
    /\ UNCHANGED <<exposed, finding, request>>

Return(e) ==
    /\ eval[e].pc = "done"
    /\ eval' = [eval EXCEPT ![e] = Idle]
    /\ UNCHANGED <<exposed, finding, request>>

Evaluate(e) ==
    \/ Begin(e) \/ Lookup(e) \/ Abort(e) \/ List(e) \/ Finish(e) \/ Return(e)
    \/ \E r \in Rows : Update(e, r) \/ Create(e, r) \/ Resolve(e, r)

\* A scan stores the resource with other metadata.
ResourceChanges ==
    /\ "drift" \in setting.faults
    /\ exposed' = ~exposed
    /\ UNCHANGED <<finding, request, eval>>

Next ==
    /\ \/ \E u \in Users : Review(u)
       \/ \E r \in Rows : PlanCreated(r)
       \/ \E e \in Engines : Evaluate(e)
       \/ ResourceChanges
    /\ UNCHANGED setting

Spec == Init /\ [][Next]_vars
-----------------------------------------------------------------------------
(* Properties.                                                              *)

\* Types: an evaluation and a request hold a row exactly while they need one;
\* a row that is ARCHIVED is out of the engine's sight (the archived flag), and
\* an accepted risk has an acceptance that names an owner (acceptRisk).
TypeOK ==
    /\ setting \in Settings /\ exposed \in BOOLEAN
    /\ finding \in [Rows -> Row]
    /\ request \in [Users -> Request]
    /\ \A u \in Users : request[u].pc = "commit" <=> request[u].row # None
    /\ eval \in [Engines -> Evaluation]
    /\ \A r \in Rows : /\ finding[r].status = "ARCHIVED" => finding[r].archived
                       /\ finding[r].status = "RISK_ACCEPTED" => finding[r].acceptance = "owner"

\* A reviewer's action is only ever applied to a finding in a status that
\* allows it when it is applied, whatever engines, plans and other reviewers
\* did since it was checked (the compare-and-set of updateWorkflow).
ActionsFollowTheMatrix ==
    [][\A u \in Users : \A r \in Rows :
        (request[u].row = r /\ request'[u].row = None /\ finding'[r] # finding[r])
            => request[u].action \in Available(finding[r].status)]_vars

\* What a reviewer has decided (accepted, false positive, archived) is undone
\* by a reviewer, by a remediation plan, or by an evaluation that had read the
\* findings before something was written: observing the exposure again, or no
\* longer, does not undo it (the statuses the engine looks up and resolves).
DecisionStands ==
    [][\A r \in Rows :
        (finding[r].status \in Decided /\ finding'[r].status \notin Decided)
            => \/ \E u \in Users : request[u].action = "reopen" /\ request'[u] = NoRequest
               \/ finding'[r].status = "REMEDIATION_PLANNED"
               \/ \E e \in Engines : ~eval[e].fresh /\ eval'[e] # eval[e]]_vars

StillOpen(r) == finding[r].status \in Open /\ ~finding[r].archived
OnRecord(r) == StillOpen(r) \/ finding[r].status = "RISK_ACCEPTED"

\* An evaluation that ends with nothing written by others since it looked the
\* findings up has left none open if the rule did not apply, and one that is
\* open or accepted if it did.
AccurateWhenAlone ==
    \A e \in Engines :
        (eval[e].pc = "done" /\ eval[e].fresh)
            => IF eval[e].exposed THEN \E r \in Rows : OnRecord(r)
                                  ELSE \A r \in Rows : ~StillOpen(r)

\* While evaluations keep ending, an exposure that lasts keeps being on record
\* although reviewers resolve and archive its finding again and again (the
\* lookup and the creation in evaluateSecurityRules).
LastingExposureIsFound ==
    (\E e \in Engines : []<><<Finish(e)>>_vars) /\ <>[]exposed
        => []<>(\E r \in Rows : OnRecord(r))

=============================================================================
