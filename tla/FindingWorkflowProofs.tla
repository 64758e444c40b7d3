------------------------ MODULE FindingWorkflowProofs ------------------------
(***************************************************************************)
(* What FindingWorkflow promises, for every number of findings, reviewers  *)
(* and engines, and for every combination of faults.                       *)
(***************************************************************************)
EXTENDS FindingWorkflow, TLAPS

\* A request whose row nobody has written since is still allowed.
RequestsAreChecked ==
    \A u \in Users : (request[u].pc = "commit" /\ ~request[u].touched)
        => LET row == finding[request[u].row]
           IN /\ row.status # "ABSENT"
              /\ request[u].action \in Available(row.status)
              /\ OwnerPresent(request[u].action, row)

\* What an undisturbed evaluation has looked up, recorded and listed.
LookedUp ==
    \A e \in Engines : (eval[e].pc = "write" /\ eval[e].fresh /\ eval[e].row # None)
        => eval[e].row \in Matching /\ eval[e].was = finding[eval[e].row].status

Recorded ==
    \A e \in Engines : (eval[e].pc \in {"list", "resolve", "done"} /\ eval[e].fresh /\ eval[e].exposed)
        => \E r \in Rows : OnRecord(r)

Listed ==
    \A e \in Engines :
        /\ eval[e].exposed => eval[e].todo = {}
        /\ (eval[e].pc \in {"resolve", "done"} /\ eval[e].fresh /\ ~eval[e].exposed)
            => \A r \in Rows : r \in eval[e].todo <=> StillOpen(r)
        /\ eval[e].pc = "done" => eval[e].todo = {}

IInv == TypeOK /\ RequestsAreChecked /\ LookedUp /\ Recorded /\ Listed

\* A request as an action of another touches or leaves it.
LEMMA TouchedRequests ==
    ASSUME request \in [Users -> Request], NEW r \in Rows
    PROVE  /\ Touch(r) \in [Users -> Request]
           /\ \A u \in Users : /\ Touch(r)[u].pc = request[u].pc
                               /\ Touch(r)[u].row = request[u].row
                               /\ Touch(r)[u].action = request[u].action
                               /\ ~Touch(r)[u].touched => request[u].row # r /\ Touch(r)[u] = request[u]
  BY DEF Touch, Request

\* An evaluation that somebody else's write outdates keeps all else.
LEMMA OutdatedEvaluations ==
    ASSUME eval \in [Engines -> Evaluation], NEW es \in SUBSET Engines
    PROVE  /\ Outdated(es) \in [Engines -> Evaluation]
           /\ \A e \in Engines : /\ Outdated(es)[e].pc = eval[e].pc
                                 /\ Outdated(es)[e].exposed = eval[e].exposed
                                 /\ Outdated(es)[e].row = eval[e].row
                                 /\ Outdated(es)[e].was = eval[e].was
                                 /\ Outdated(es)[e].todo = eval[e].todo
                                 /\ e \in es => ~Outdated(es)[e].fresh
                                 /\ e \notin es => Outdated(es)[e] = eval[e]
  BY DEF Outdated, Evaluation

LEMMA InitHolds == Init => IInv
<1> SUFFICES ASSUME Init PROVE IInv
  OBVIOUS
<1>1. TypeOK
  BY FindingConstants DEF Init, TypeOK, NoRow, NoRequest, Idle, Row, Request, Evaluation, Status, Open, Decided
<1>2. RequestsAreChecked /\ LookedUp /\ Recorded /\ Listed
  BY DEF Init, RequestsAreChecked, LookedUp, Recorded, Listed, NoRequest, Idle
<1> QED
  BY <1>1, <1>2 DEF IInv
-----------------------------------------------------------------------------
(* The steps of reviewers.                                                  *)

LEMMA ReadKeeps ==
    ASSUME IInv, UNCHANGED setting, NEW u \in Users, NEW r \in Rows, NEW a \in Actions, Read(u, r, a)
    PROVE  IInv'
<1>0. TypeOK /\ RequestsAreChecked /\ LookedUp /\ Recorded /\ Listed
  BY DEF IInv
<1>1. /\ UNCHANGED <<setting, exposed, finding, eval>>
      /\ request' \in [Users -> Request]
      /\ request'[u] = [pc |-> "commit", row |-> r, action |-> a, touched |-> FALSE]
      /\ \A v \in Users : v # u => request'[v] = request[v]
  BY <1>0 DEF Read, TypeOK, Request
<1>2. TypeOK'
  BY <1>0, <1>1, FindingConstants DEF TypeOK
<1>3. RequestsAreChecked'
  BY <1>0, <1>1 DEF RequestsAreChecked, Read, OwnerPresent, Available
<1>4. LookedUp' /\ Recorded' /\ Listed'
  BY <1>0, <1>1 DEF LookedUp, Recorded, Listed, Matching, OnRecord, StillOpen
<1> QED
  BY <1>2, <1>3, <1>4 DEF IInv

\* When every evaluation is outdated, only what the requests and the rows hold
\* is left to show.
LEMMA OutdatedAll ==
    ASSUME IInv, eval' = Outdated(Engines)
    PROVE  /\ eval' \in [Engines -> Evaluation]
           /\ LookedUp' /\ Recorded' /\ Listed'
  BY OutdatedEvaluations DEF IInv, TypeOK, LookedUp, Recorded, Listed

\* What a row that is decided on becomes.
LEMMA DecidedRow ==
    ASSUME NEW row \in Row, NEW a \in Actions, OwnerPresent(a, row), row.status # "ABSENT",
           row.status = "ARCHIVED" => row.archived
    PROVE  /\ Decide(row, a) \in Row
           /\ Decide(row, a).status = Target(a) /\ Target(a) \in Status
           /\ Decide(row, a).status = "ARCHIVED" => Decide(row, a).archived
           /\ Decide(row, a).status = "RISK_ACCEPTED" => Decide(row, a).acceptance = "owner"
  BY ZenonT(60) DEF Decide, Target, Row, Actions, Status, Open, Decided, OwnerPresent

LEMMA CommitKeeps ==
    ASSUME IInv, UNCHANGED setting, NEW u \in Users, Commit(u)
    PROVE  IInv'
<1> DEFINE r == request[u].row
           a == request[u].action
<1>0. TypeOK /\ RequestsAreChecked
  BY DEF IInv
<1>1. /\ r \in Rows /\ ~request[u].touched /\ request[u].pc = "commit"
      /\ finding[r].status # "ABSENT" /\ a \in Available(finding[r].status)
      /\ OwnerPresent(a, finding[r]) /\ finding[r] \in Row
  BY <1>0 DEF Commit, StillAsRead, RequestsAreChecked, TypeOK, Request
<1>2. a \in Actions
  BY <1>1 DEF Available, Row, Status, Open, Decided, Actions
<1>3. /\ finding' = [finding EXCEPT ![r] = Decide(finding[r], a)]
      /\ request' = [Touch(r) EXCEPT ![u] = NoRequest]
      /\ eval' = Outdated(Engines) /\ UNCHANGED <<setting, exposed>>
  BY DEF Commit
<1>4. /\ Decide(finding[r], a) \in Row
      /\ Decide(finding[r], a).status = "ARCHIVED" => Decide(finding[r], a).archived
      /\ Decide(finding[r], a).status = "RISK_ACCEPTED" => Decide(finding[r], a).acceptance = "owner"
  BY <1>0, <1>1, <1>2, DecidedRow DEF TypeOK
<1>5. NoRequest \in Request /\ NoRequest.pc = "idle" /\ NoRequest.row = None
  BY DEF NoRequest, Request
<1>6. /\ request' \in [Users -> Request] /\ request'[u] = NoRequest
      /\ \A v \in Users \ {u} : request'[v] = Touch(r)[v]
  BY <1>0, <1>1, <1>3, <1>5, TouchedRequests DEF TypeOK
<1>7. TypeOK'
  <2>1. \A v \in Users : request'[v].pc = "commit" <=> request'[v].row # None
    BY <1>0, <1>1, <1>5, <1>6, TouchedRequests DEF TypeOK
  <2>2. /\ finding' \in [Rows -> Row]
        /\ \A x \in Rows : /\ finding'[x].status = "ARCHIVED" => finding'[x].archived
                           /\ finding'[x].status = "RISK_ACCEPTED" => finding'[x].acceptance = "owner"
    BY <1>0, <1>1, <1>3, <1>4 DEF TypeOK
  <2> QED
    BY <1>0, <1>3, <1>6, <2>1, <2>2, OutdatedAll DEF TypeOK
<1>8. RequestsAreChecked'
  <2> SUFFICES ASSUME NEW v \in Users, request'[v].pc = "commit", ~request'[v].touched
               PROVE  LET row == finding'[request'[v].row]
                      IN /\ row.status # "ABSENT"
                         /\ request'[v].action \in Available(row.status)
                         /\ OwnerPresent(request'[v].action, row)
    BY DEF RequestsAreChecked
  <2>1. v # u /\ request'[v] = request[v] /\ request[v].row # r
    BY <1>0, <1>1, <1>5, <1>6, TouchedRequests DEF TypeOK
  <2>2. request[v].row \in Rows /\ finding'[request[v].row] = finding[request[v].row]
    BY <2>1, <1>0, <1>3 DEF TypeOK, Request
  <2> QED
    BY <2>1, <2>2, <1>0 DEF RequestsAreChecked
<1> QED
  BY <1>3, <1>7, <1>8, OutdatedAll DEF IInv

LEMMA RefuseKeeps ==
    ASSUME IInv, UNCHANGED setting, NEW u \in Users, Refuse(u)
    PROVE  IInv'
<1>0. TypeOK /\ RequestsAreChecked /\ LookedUp /\ Recorded /\ Listed
  BY DEF IInv
<1>1. /\ UNCHANGED <<setting, exposed, finding, eval>>
      /\ request' \in [Users -> Request]
      /\ request'[u].pc = "idle" /\ request'[u].row = None
      /\ \A v \in Users : v # u => request'[v] = request[v]
  BY <1>0 DEF Refuse, TypeOK, Request, NoRequest
<1>2. TypeOK'
  BY <1>0, <1>1 DEF TypeOK
<1>3. RequestsAreChecked'
  BY <1>0, <1>1 DEF RequestsAreChecked
<1>4. LookedUp' /\ Recorded' /\ Listed'
  BY <1>0, <1>1 DEF LookedUp, Recorded, Listed, Matching, OnRecord, StillOpen
<1> QED
  BY <1>2, <1>3, <1>4 DEF IInv

\* A write that leaves the row open to the requests that had checked it, or
\* touches them, keeps the requests checked.
LEMMA TouchKeepsChecked ==
    ASSUME IInv, NEW r \in Rows, request' = Touch(r),
           \A x \in Rows \ {r} : finding'[x] = finding[x]
    PROVE  /\ request' \in [Users -> Request]
           /\ \A u \in Users : request'[u].pc = "commit" <=> request'[u].row # None
           /\ RequestsAreChecked'
<1>0. TypeOK /\ RequestsAreChecked
  BY DEF IInv
<1>1. /\ request' \in [Users -> Request]
      /\ \A u \in Users : /\ request'[u].pc = request[u].pc /\ request'[u].row = request[u].row
                          /\ ~request'[u].touched => request[u].row # r /\ request'[u] = request[u]
  BY <1>0, TouchedRequests DEF TypeOK
<1>2. \A u \in Users : request'[u].pc = "commit" <=> request'[u].row # None
  BY <1>0, <1>1 DEF TypeOK
<1>3. RequestsAreChecked'
  <2> SUFFICES ASSUME NEW u \in Users, request'[u].pc = "commit", ~request'[u].touched
               PROVE  LET row == finding'[request'[u].row]
                      IN /\ row.status # "ABSENT"
                         /\ request'[u].action \in Available(row.status)
                         /\ OwnerPresent(request'[u].action, row)
    BY DEF RequestsAreChecked
  <2>1. request'[u] = request[u] /\ request[u].row \in Rows \ {r}
    BY <1>0, <1>1 DEF TypeOK, Request
  <2> QED
    BY <2>1, <1>0 DEF RequestsAreChecked
<1> QED
  BY <1>1, <1>2, <1>3

LEMMA PlanCreatedKeeps ==
    ASSUME IInv, UNCHANGED setting, NEW r \in Rows, PlanCreated(r)
    PROVE  IInv'
<1>0. TypeOK
  BY DEF IInv
<1>1. /\ finding' = [finding EXCEPT ![r].status = "REMEDIATION_PLANNED"]
      /\ request' = Touch(r) /\ eval' = Outdated(Engines) /\ UNCHANGED <<setting, exposed>>
  BY DEF PlanCreated
<1>2. /\ finding' \in [Rows -> Row] /\ finding'[r].status = "REMEDIATION_PLANNED"
      /\ \A x \in Rows \ {r} : finding'[x] = finding[x]
  BY <1>0, <1>1 DEF TypeOK, Row, Status, Open
<1>3. TypeOK'
  BY <1>0, <1>1, <1>2, TouchKeepsChecked, OutdatedAll DEF TypeOK
<1> QED
  BY <1>1, <1>2, <1>3, TouchKeepsChecked, OutdatedAll DEF IInv
-----------------------------------------------------------------------------
(* The steps of evaluations.                                                *)

\* A step that changes nothing but one evaluation has only that one to answer
\* for.
LEMMA OneEvaluation ==
    ASSUME IInv, NEW e \in Engines, NEW x \in Evaluation, eval' = [eval EXCEPT ![e] = x],
           UNCHANGED <<setting, exposed, finding, request>>,
           (x.pc = "write" /\ x.fresh /\ x.row # None)
               => x.row \in Matching /\ x.was = finding[x.row].status,
           (x.pc \in {"list", "resolve", "done"} /\ x.fresh /\ x.exposed)
               => \E r \in Rows : OnRecord(r),
           x.exposed => x.todo = {},
           (x.pc \in {"resolve", "done"} /\ x.fresh /\ ~x.exposed)
               => \A r \in Rows : r \in x.todo <=> StillOpen(r),
           x.pc = "done" => x.todo = {}
    PROVE  IInv'
<1>0. TypeOK /\ RequestsAreChecked /\ LookedUp /\ Recorded /\ Listed
  BY DEF IInv
<1>1. /\ eval' \in [Engines -> Evaluation] /\ eval'[e] = x
      /\ \A f \in Engines \ {e} : eval'[f] = eval[f]
  BY <1>0 DEF TypeOK
<1>2. TypeOK' /\ RequestsAreChecked'
  BY <1>0, <1>1 DEF TypeOK, RequestsAreChecked
<1>3. LookedUp'
  BY <1>0, <1>1 DEF LookedUp, Matching
<1>4. Recorded'
  BY <1>0, <1>1 DEF Recorded, OnRecord, StillOpen
<1>5. Listed'
  BY <1>0, <1>1 DEF Listed, StillOpen
<1> QED
  BY <1>2, <1>3, <1>4, <1>5 DEF IInv

LEMMA QuietStepsKeep ==
    ASSUME IInv, UNCHANGED setting, NEW e \in Engines,
           Begin(e) \/ Lookup(e) \/ Abort(e) \/ List(e) \/ Finish(e) \/ Return(e)
    PROVE  IInv'
<1>0. TypeOK /\ LookedUp /\ Recorded /\ Listed
  BY DEF IInv
<1>1. eval[e] \in Evaluation /\ exposed \in BOOLEAN
  BY <1>0 DEF TypeOK
<1>2. Idle \in Evaluation /\ Idle.pc = "idle" /\ Idle.todo = {}
  BY DEF Idle, Evaluation
<1>3. CASE Begin(e)
  <2> DEFINE x == [Idle EXCEPT !.pc = IF exposed THEN "lookup" ELSE "list", !.exposed = exposed]
  <2>1. /\ x \in Evaluation /\ x.pc \in {"lookup", "list"} /\ ~x.fresh /\ x.todo = {}
    BY <1>1 DEF Idle, Evaluation
  <2>2. eval' = [eval EXCEPT ![e] = x] /\ UNCHANGED <<setting, exposed, finding, request>>
    BY <1>3 DEF Begin
  <2> HIDE DEF x
  <2> QED
    BY <2>1, <2>2, OneEvaluation
<1>4. CASE Lookup(e)
  <2>1. PICK r \in IF Matching = {} THEN {None} ELSE Matching :
          eval' = [eval EXCEPT ![e] = [eval[e] EXCEPT !.pc = "write", !.row = r, !.fresh = TRUE,
                        !.was = IF r = None THEN None ELSE finding[r].status]]
    BY <1>4 DEF Lookup
  <2> DEFINE x == [eval[e] EXCEPT !.pc = "write", !.row = r, !.fresh = TRUE,
                        !.was = IF r = None THEN None ELSE finding[r].status]
  <2>2. r # None => r \in Matching /\ r \in Rows /\ finding[r].status \in Status
    BY <2>1, <1>0 DEF Matching, TypeOK, Row
  <2>3. /\ x \in Evaluation /\ x.pc = "write" /\ x.row = r /\ x.exposed = eval[e].exposed
        /\ x.todo = eval[e].todo /\ (r # None => x.was = finding[r].status)
    BY <1>1, <2>2 DEF Evaluation
  <2>4. eval' = [eval EXCEPT ![e] = x] /\ UNCHANGED <<setting, exposed, finding, request>>
    BY <1>4, <2>1 DEF Lookup
  <2>5. eval[e].exposed => eval[e].todo = {}
    BY <1>0 DEF Listed
  <2> HIDE DEF x
  <2> QED
    BY <2>2, <2>3, <2>4, <2>5, OneEvaluation
<1>5. CASE Abort(e) \/ Return(e)
  <2>1. eval' = [eval EXCEPT ![e] = Idle] /\ UNCHANGED <<setting, exposed, finding, request>>
    BY <1>5 DEF Abort, Return
  <2> QED
    BY <2>1, <1>2, OneEvaluation
<1>6. CASE List(e)
  <2> DEFINE x == [eval[e] EXCEPT !.pc = "resolve",
                        !.todo = IF eval[e].exposed THEN {} ELSE Resolvable,
                        !.fresh = ~eval[e].exposed \/ eval[e].fresh]
  <2>1. Resolvable \subseteq Rows /\ \A r \in Rows : r \in Resolvable <=> StillOpen(r)
    BY DEF Resolvable, StillOpen
  <2>2. /\ x \in Evaluation /\ x.pc = "resolve" /\ x.exposed = eval[e].exposed
        /\ x.todo = (IF eval[e].exposed THEN {} ELSE Resolvable)
        /\ x.exposed => x.fresh = eval[e].fresh
    BY <1>1, <2>1 DEF Evaluation
  <2>3. /\ eval' = [eval EXCEPT ![e] = x] /\ UNCHANGED <<setting, exposed, finding, request>>
        /\ eval[e].pc = "list"
    BY <1>6 DEF List
  <2>4. (eval[e].fresh /\ eval[e].exposed) => \E r \in Rows : OnRecord(r)
    BY <2>3, <1>0 DEF Recorded
  <2> HIDE DEF x
  <2> QED
    BY <2>1, <2>2, <2>3, <2>4, OneEvaluation
<1>7. CASE Finish(e)
  <2> DEFINE x == [eval[e] EXCEPT !.pc = "done"]
  <2>1. /\ x \in Evaluation /\ x.pc = "done" /\ x.exposed = eval[e].exposed
        /\ x.todo = eval[e].todo /\ x.fresh = eval[e].fresh
    BY <1>1 DEF Evaluation
  <2>2. /\ eval' = [eval EXCEPT ![e] = x] /\ UNCHANGED <<setting, exposed, finding, request>>
        /\ eval[e].pc = "resolve" /\ eval[e].todo = {}
    BY <1>7 DEF Finish, Step
  <2>3. /\ (eval[e].fresh /\ eval[e].exposed) => \E r \in Rows : OnRecord(r)
        /\ (eval[e].fresh /\ ~eval[e].exposed) => \A r \in Rows : r \in eval[e].todo <=> StillOpen(r)
    BY <2>2, <1>0 DEF Recorded, Listed
  <2> HIDE DEF x
  <2> QED
    BY <2>1, <2>2, <2>3, OneEvaluation
<1> QED
  BY <1>3, <1>4, <1>5, <1>6, <1>7

\* After a write of one evaluation the others are outdated, so that again only
\* that one has to answer.
LEMMA WritingEvaluation ==
    ASSUME IInv, NEW e \in Engines, NEW x \in Evaluation,
           eval' = [Others(e) EXCEPT ![e] = x],
           x.pc \in {"list", "resolve"},
           (x.fresh /\ x.exposed) => \E r \in Rows : OnRecord(r)',
           x.exposed => x.todo = {},
           (x.pc = "resolve" /\ x.fresh /\ ~x.exposed)
               => \A r \in Rows : r \in x.todo <=> StillOpen(r)'
    PROVE  eval' \in [Engines -> Evaluation] /\ LookedUp' /\ Recorded' /\ Listed'
<1>0. TypeOK /\ Listed
  BY DEF IInv
<1>1. /\ eval' \in [Engines -> Evaluation] /\ eval'[e] = x
      /\ \A f \in Engines \ {e} : /\ eval'[f].pc = eval[f].pc /\ eval'[f].todo = eval[f].todo
                                  /\ eval'[f].exposed = eval[f].exposed /\ ~eval'[f].fresh
  BY <1>0, OutdatedEvaluations DEF Others, TypeOK
<1>2. LookedUp' /\ Recorded'
  BY <1>1 DEF LookedUp, Recorded
<1>3. Listed'
  BY <1>0, <1>1 DEF Listed
<1> QED
  BY <1>1, <1>2, <1>3

\* What follows the write of an observed finding.
LEMMA AfterWriting ==
    ASSUME IInv, NEW e \in Engines, eval[e].pc = "write", eval' = Written(e),
           eval[e].fresh => \E r \in Rows : OnRecord(r)'
    PROVE  eval' \in [Engines -> Evaluation] /\ LookedUp' /\ Recorded' /\ Listed'
<1> DEFINE x == [eval[e] EXCEPT !.pc = "list", !.row = None, !.was = None]
<1>1. eval \in [Engines -> Evaluation] /\ eval[e] \in Evaluation
  BY DEF IInv, TypeOK
<1>2. /\ x \in Evaluation /\ x.pc = "list" /\ x.exposed = eval[e].exposed
      /\ x.todo = eval[e].todo /\ x.fresh = eval[e].fresh
  BY <1>1 DEF Evaluation
<1>3. Others(e) \in [Engines -> Evaluation] /\ Others(e)[e] = eval[e]
  BY <1>1, OutdatedEvaluations DEF Others
<1>4. eval' = [Others(e) EXCEPT ![e] = x]
  BY <1>3 DEF Written
<1>5. eval[e].exposed => eval[e].todo = {}
  BY DEF IInv, Listed
<1> HIDE DEF x
<1> QED
  BY <1>2, <1>4, <1>5, WritingEvaluation

LEMMA UpdateKeeps ==
    ASSUME IInv, UNCHANGED setting, NEW e \in Engines, NEW r \in Rows, Update(e, r)
    PROVE  IInv'
<1> DEFINE status == IF ObservedAgain(eval[e].was) THEN "REOPENED" ELSE finding[r].status
<1>0. TypeOK /\ LookedUp
  BY DEF IInv
<1>1. /\ finding' = [finding EXCEPT ![r].status = status]
      /\ request' = Touch(r) /\ eval' = Written(e) /\ UNCHANGED <<setting, exposed>>
      /\ eval[e].pc = "write" /\ eval[e].row = r
  BY DEF Update
<1>2. finding[r] \in Row /\ r # None
  BY <1>0, FindingConstants DEF TypeOK
<1>3. /\ finding' \in [Rows -> Row] /\ finding'[r].status = status
      /\ finding'[r].archived = finding[r].archived /\ finding'[r].acceptance = finding[r].acceptance
      /\ \A x \in Rows \ {r} : finding'[x] = finding[x]
  BY <1>0, <1>1, <1>2 DEF TypeOK, Row, Status, Open
<1>4. eval[e].fresh => OnRecord(r)'
  <2> SUFFICES ASSUME eval[e].fresh PROVE OnRecord(r)'
    OBVIOUS
  <2>1. r \in Matching /\ eval[e].was = finding[r].status
    BY <1>0, <1>1, <1>2 DEF LookedUp
  <2>2. /\ status \in Open \cup {"RISK_ACCEPTED"} /\ ~finding[r].archived
    BY <2>1, <1>2 DEF Matching, ObservedAgain, Row, Status, Decided, Open
  <2> QED
    BY <2>2, <1>3 DEF OnRecord, StillOpen
<1>5. TypeOK'
  BY <1>0, <1>1, <1>3, <1>4, TouchKeepsChecked, AfterWriting DEF TypeOK
<1> QED
  BY <1>1, <1>3, <1>4, <1>5, TouchKeepsChecked, AfterWriting DEF IInv

LEMMA CreateKeeps ==
    ASSUME IInv, UNCHANGED setting, NEW e \in Engines, NEW r \in Rows, Create(e, r)
    PROVE  IInv'
<1>0. TypeOK /\ RequestsAreChecked
  BY DEF IInv
<1>1. PICK owned \in BOOLEAN :
         finding' = [finding EXCEPT ![r] = [NoRow EXCEPT !.status = "OPEN", !.owned = owned]]
  BY DEF Create
<1>2. /\ eval' = Written(e) /\ UNCHANGED <<setting, exposed, request>>
      /\ eval[e].pc = "write" /\ finding[r].status = "ABSENT"
  BY DEF Create
<1>3. /\ finding' \in [Rows -> Row] /\ finding'[r].status = "OPEN" /\ ~finding'[r].archived
      /\ \A x \in Rows \ {r} : finding'[x] = finding[x]
  BY <1>0, <1>1 DEF TypeOK, Row, NoRow, Status, Open
<1>4. OnRecord(r)'
  BY <1>3 DEF OnRecord, StillOpen, Open
<1>5. TypeOK'
  BY <1>0, <1>2, <1>3, <1>4, AfterWriting DEF TypeOK
<1>6. RequestsAreChecked'
  <2> SUFFICES ASSUME NEW u \in Users, request[u].pc = "commit", ~request[u].touched
               PROVE  LET row == finding'[request[u].row]
                      IN /\ row.status # "ABSENT"
                         /\ request[u].action \in Available(row.status)
                         /\ OwnerPresent(request[u].action, row)
    BY <1>2 DEF RequestsAreChecked
  <2>1. request[u].row \in Rows \ {r}
    BY <1>0, <1>2 DEF RequestsAreChecked, TypeOK, Request
  <2> QED
    BY <2>1, <1>0, <1>3 DEF RequestsAreChecked
<1> QED
  BY <1>2, <1>4, <1>5, <1>6, AfterWriting DEF IInv

LEMMA ResolveKeeps ==
    ASSUME IInv, UNCHANGED setting, NEW e \in Engines, NEW r \in Rows, Resolve(e, r)
    PROVE  IInv'
<1> DEFINE x == [eval[e] EXCEPT !.todo = eval[e].todo \ {r}]
<1>0. TypeOK /\ Listed
  BY DEF IInv
<1>1. /\ finding' = [finding EXCEPT ![r].status = "RESOLVED"]
      /\ request' = Touch(r) /\ UNCHANGED <<setting, exposed>>
      /\ eval' = [Others(e) EXCEPT ![e].todo = Others(e)[e].todo \ {r}]
      /\ eval[e].pc = "resolve" /\ r \in eval[e].todo
  BY DEF Resolve
<1>2. eval \in [Engines -> Evaluation] /\ eval[e] \in Evaluation
  BY <1>0 DEF TypeOK
<1>3. /\ x \in Evaluation /\ x.pc = "resolve" /\ x.exposed = eval[e].exposed
      /\ x.todo = eval[e].todo \ {r} /\ x.fresh = eval[e].fresh
  BY <1>1, <1>2 DEF Evaluation
<1>4. Others(e) \in [Engines -> Evaluation] /\ Others(e)[e] = eval[e]
  BY <1>2, OutdatedEvaluations DEF Others
<1>5. eval' = [Others(e) EXCEPT ![e] = x]
  BY <1>1, <1>4
<1>6. /\ finding' \in [Rows -> Row] /\ finding'[r].status = "RESOLVED"
      /\ \A y \in Rows \ {r} : finding'[y] = finding[y]
  BY <1>0, <1>1 DEF TypeOK, Row, Status
<1>7. ~eval[e].exposed
  BY <1>0, <1>1 DEF Listed
<1>8. eval[e].fresh => \A y \in Rows : y \in x.todo <=> StillOpen(y)'
  BY <1>0, <1>1, <1>3, <1>6, <1>7 DEF Listed, StillOpen, Open
<1> HIDE DEF x
<1>9. eval' \in [Engines -> Evaluation] /\ LookedUp' /\ Recorded' /\ Listed'
  BY <1>3, <1>5, <1>7, <1>8, WritingEvaluation
<1>10. TypeOK'
  BY <1>0, <1>1, <1>6, <1>9, TouchKeepsChecked DEF TypeOK
<1> QED
  BY <1>1, <1>6, <1>9, <1>10, TouchKeepsChecked DEF IInv

LEMMA NextKeeps == IInv /\ [Next]_vars => IInv'
<1> SUFFICES ASSUME IInv, [Next]_vars PROVE IInv'
  OBVIOUS
<1>1. ASSUME NEW u \in Users, Review(u), UNCHANGED setting PROVE IInv'
  BY <1>1, ReadKeeps, CommitKeeps, RefuseKeeps DEF Review
<1>2. ASSUME NEW r \in Rows, PlanCreated(r), UNCHANGED setting PROVE IInv'
  BY <1>2, PlanCreatedKeeps
<1>3. ASSUME NEW e \in Engines, Evaluate(e), UNCHANGED setting PROVE IInv'
  BY <1>3, QuietStepsKeep, UpdateKeeps, CreateKeeps, ResolveKeeps DEF Evaluate
<1>4. CASE ResourceChanges /\ UNCHANGED setting
  BY <1>4 DEF ResourceChanges, IInv, TypeOK, RequestsAreChecked, LookedUp, Matching, Recorded,
              OnRecord, Listed, StillOpen
<1>5. CASE UNCHANGED vars
  BY <1>5 DEF vars, IInv, TypeOK, RequestsAreChecked, LookedUp, Matching, Recorded,
              OnRecord, Listed, StillOpen
<1> QED
  BY <1>1, <1>2, <1>3, <1>4, <1>5 DEF Next

THEOREM FindingInvariant == Spec => []IInv
  BY InitHolds, NextKeeps, PTL DEF Spec

\* The rows, requests and evaluations are well formed; an archived finding is
\* out of the engine's sight, an accepted risk has an owner (updateWorkflow).
THEOREM FindingTypes == Spec => []TypeOK
  BY FindingInvariant, PTL DEF IInv

\* An evaluation that nobody disturbed leaves the findings as the exposure is,
\* for any number of rows (evaluateSecurityRules).
THEOREM AccurateWhenAloneAlways == Spec => []AccurateWhenAlone
<1>1. IInv => AccurateWhenAlone
  BY DEF IInv, TypeOK, Recorded, Listed, AccurateWhenAlone, Evaluation
<1> QED
  BY <1>1, FindingInvariant, PTL
-----------------------------------------------------------------------------
(* What no step may do.                                                     *)

\* The statuses between which a reviewer's action leads.
LEMMA OnlyReopeningUndoes ==
    ASSUME NEW status \in Decided, NEW a \in Available(status), Target(a) \notin Decided
    PROVE  a = "reopen"
  BY DEF Available, Target, Decided

LEMMA StepsFollowTheMatrix ==
    ASSUME IInv, [Next]_vars, NEW u \in Users, NEW r \in Rows,
           request[u].row = r, request'[u].row = None, finding'[r] # finding[r]
    PROVE  request[u].action \in Available(finding[r].status)
<1>0. TypeOK /\ RequestsAreChecked /\ r # None
  BY FindingConstants DEF IInv, TypeOK
<1>1. ASSUME NEW v \in Users, Review(v) PROVE request[u].action \in Available(finding[r].status)
  <2>1. Commit(v)
    BY <1>1 DEF Review, Read, Refuse
  <2>2. CASE v = u
    BY <2>1, <2>2, <1>0 DEF Commit, StillAsRead, RequestsAreChecked
  <2>3. CASE v # u
    <3>1. request'[u] = Touch(request[v].row)[u] /\ request[v].row \in Rows
      BY <2>1, <2>3, <1>0 DEF Commit, TypeOK, Request, Touch
    <3>2. request'[u].row = request[u].row
      BY <3>1, <1>0, TouchedRequests DEF TypeOK
    <3> QED
      BY <3>2, <1>0
  <2> QED
    BY <2>2, <2>3
<1>2. ASSUME NEW x \in Rows, request' = Touch(x) PROVE FALSE
  <2>1. request'[u].row = request[u].row
    BY <1>0, <1>2, TouchedRequests DEF TypeOK
  <2> QED
    BY <2>1, <1>0
<1>3. ASSUME NEW x \in Rows, PlanCreated(x) PROVE FALSE
  BY <1>3, <1>2 DEF PlanCreated
<1>4. ASSUME NEW e \in Engines, Evaluate(e) PROVE FALSE
  BY <1>4, <1>0, <1>2 DEF Evaluate, Begin, Lookup, Abort, List, Finish, Return, Update, Create, Resolve
<1>5. CASE ResourceChanges \/ UNCHANGED vars
  BY <1>5 DEF ResourceChanges, vars
<1> QED
  BY <1>1, <1>3, <1>4, <1>5 DEF Next

\* A reviewer's action is applied where the matrix allows it when it is
\* applied, whoever else writes findings (the compare-and-set of
\* updateWorkflow).
THEOREM ActionsFollowTheMatrixAlways == Spec => ActionsFollowTheMatrix
<1>1. IInv /\ [Next]_vars
        => \A u \in Users : \A r \in Rows :
             (request[u].row = r /\ request'[u].row = None /\ finding'[r] # finding[r])
                => request[u].action \in Available(finding[r].status)
  BY StepsFollowTheMatrix
<1> QED
  BY <1>1, FindingInvariant, PTL DEF Spec, ActionsFollowTheMatrix

LEMMA DecisionsStand ==
    ASSUME IInv, [Next]_vars, NEW r \in Rows,
           finding[r].status \in Decided, finding'[r].status \notin Decided
    PROVE  \/ \E u \in Users : request[u].action = "reopen" /\ request'[u] = NoRequest
           \/ finding'[r].status = "REMEDIATION_PLANNED"
           \/ \E e \in Engines : ~eval[e].fresh /\ eval'[e] # eval[e]
<1> DEFINE Goal == \/ \E u \in Users : request[u].action = "reopen" /\ request'[u] = NoRequest
                   \/ finding'[r].status = "REMEDIATION_PLANNED"
                   \/ \E e \in Engines : ~eval[e].fresh /\ eval'[e] # eval[e]
<1>0. TypeOK /\ RequestsAreChecked /\ LookedUp /\ Listed /\ finding[r] \in Row /\ r # None
  BY FindingConstants DEF IInv, TypeOK
<1>1. finding'[r] # finding[r]
  OBVIOUS
<1>2. ASSUME NEW u \in Users, Review(u) PROVE Goal
  <2>1. Commit(u)
    BY <1>1, <1>2 DEF Review, Read, Refuse
  <2>2. /\ request[u].row \in Rows
        /\ finding' = [finding EXCEPT ![request[u].row] =
                         Decide(finding[request[u].row], request[u].action)]
    BY <2>1, <1>0 DEF Commit, TypeOK, Request
  <2>3. request[u].row = r
    BY <2>2, <1>0, <1>1 DEF TypeOK
  <2>4. request[u].action \in Available(finding[r].status)
    BY <2>1, <2>3, <1>0 DEF Commit, StillAsRead, RequestsAreChecked
  <2>5. finding'[r].status = Target(request[u].action)
    BY <2>2, <2>3, <1>0 DEF TypeOK, Decide
  <2>6. request[u].action = "reopen"
    BY <2>4, <2>5, OnlyReopeningUndoes
  <2>7. request'[u] = NoRequest
    <3>1. Touch(r) \in [Users -> Request]
      BY <1>0, TouchedRequests DEF TypeOK
    <3> QED
      BY <2>1, <2>3, <3>1 DEF Commit
  <2> QED
    BY <2>6, <2>7
<1>3. ASSUME NEW x \in Rows, PlanCreated(x) PROVE Goal
  BY <1>0, <1>1, <1>3 DEF PlanCreated, TypeOK, Row
<1>4. ASSUME NEW e \in Engines, NEW x \in Rows, Update(e, x) PROVE Goal
  <2>1. /\ x = r /\ eval[e].row = r /\ eval[e].pc = "write" /\ ObservedAgain(eval[e].was)
        /\ eval' = Written(e)
    BY <1>0, <1>1, <1>4 DEF Update, TypeOK, Row
  <2>2. ~eval[e].fresh
    BY <2>1, <1>0 DEF LookedUp, ObservedAgain, Decided
  <2>3. Others(e) \in [Engines -> Evaluation] /\ Others(e)[e] = eval[e]
    BY <1>0, OutdatedEvaluations DEF Others, TypeOK
  <2>4. eval'[e].pc = "list"
    BY <2>1, <2>3 DEF Written, Evaluation
  <2> QED
    BY <2>1, <2>2, <2>4
<1>5. ASSUME NEW e \in Engines, NEW x \in Rows, Create(e, x) PROVE FALSE
  <2>1. PICK owned \in BOOLEAN :
           finding' = [finding EXCEPT ![x] = [NoRow EXCEPT !.status = "OPEN", !.owned = owned]]
    BY <1>5 DEF Create
  <2>2. x = r
    BY <2>1, <1>0, <1>1 DEF TypeOK
  <2> QED
    BY <2>2, <1>5 DEF Create, Decided
<1>6. ASSUME NEW e \in Engines, NEW x \in Rows, Resolve(e, x) PROVE Goal
  <2>1. /\ x = r /\ r \in eval[e].todo /\ eval[e].pc = "resolve"
        /\ eval' = [Others(e) EXCEPT ![e].todo = Others(e)[e].todo \ {r}]
    BY <1>0, <1>1, <1>6 DEF Resolve, TypeOK, Row
  <2>2. ~eval[e].fresh
    BY <2>1, <1>0 DEF Listed, StillOpen, Open, Decided
  <2>3. Others(e) \in [Engines -> Evaluation] /\ Others(e)[e] = eval[e]
    BY <1>0, OutdatedEvaluations DEF Others, TypeOK
  <2>4. r \notin eval'[e].todo
    BY <2>1, <2>3 DEF Evaluation
  <2> QED
    BY <2>1, <2>2, <2>4
<1>7. ASSUME NEW e \in Engines, Evaluate(e) PROVE Goal
  BY <1>1, <1>4, <1>5, <1>6, <1>7 DEF Evaluate, Begin, Lookup, Abort, List, Finish, Return
<1>8. CASE ResourceChanges \/ UNCHANGED vars
  BY <1>1, <1>8 DEF ResourceChanges, vars
<1> QED
  BY <1>2, <1>3, <1>7, <1>8 DEF Next

\* No evaluation undoes a reviewer's decision that it has seen (the statuses
\* evaluateSecurityRules looks up and resolves).
THEOREM DecisionStandsAlways == Spec => DecisionStands
<1>1. IInv /\ [Next]_vars
        => \A r \in Rows :
             (finding[r].status \in Decided /\ finding'[r].status \notin Decided)
                => \/ \E u \in Users : request[u].action = "reopen" /\ request'[u] = NoRequest
                   \/ finding'[r].status = "REMEDIATION_PLANNED"
                   \/ \E e \in Engines : ~eval[e].fresh /\ eval'[e] # eval[e]
  BY DecisionsStand
<1> QED
  BY <1>1, FindingInvariant, PTL DEF Spec, DecisionStands
=============================================================================
