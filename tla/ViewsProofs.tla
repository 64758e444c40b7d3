------------------------------ MODULE ViewsProofs -----------------------------
(***************************************************************************)
(* What Views checks on small instances, for every choice of the           *)
(* constants.  Each part has an inductive invariant of its own.            *)
(***************************************************************************)
EXTENDS Views, Sequences, FiniteSetTheorems, TLAPS

\* A behaviour is one of the part it has begun with.
LEMMA PartStays == ASSUME [Next]_vars PROVE part' = part
BY DEF Next, vars, AssessmentNext, ComplianceNext, CommandNext, ExecutiveNext, ListNext, PageNext

LEMMA PartBegins ==
  ASSUME Init
  PROVE  /\ \A c \in AssessmentConfigs : part = <<"assessment", c>> => A(c)!Init
         /\ \A c \in ComplianceConfigs : part = <<"compliance", c>> => C(c)!Init
         /\ \A c \in CommandConfigs : part = <<"command", c>> => D(c)!Init
         /\ \A c \in ExecutiveConfigs : part = <<"executive", c>> => E(c)!Init
         /\ \A c \in ListConfigs : part = <<"list", c>> => L(c)!Init
         /\ \A c \in PageConfigs : part = <<"page", c>> => P(c)!Init
BY DEF Init, AssessmentInit, ComplianceInit, CommandInit, ExecutiveInit, ListInit, PageInit

LEMMA PartGoesOn ==
  ASSUME Next
  PROVE  /\ \A c \in AssessmentConfigs : part = <<"assessment", c>> => A(c)!Next
         /\ \A c \in ComplianceConfigs : part = <<"compliance", c>> => C(c)!Next
         /\ \A c \in CommandConfigs : part = <<"command", c>> => D(c)!Next
         /\ \A c \in ExecutiveConfigs : part = <<"executive", c>> => E(c)!Next
         /\ \A c \in ListConfigs : part = <<"list", c>> => L(c)!Next
         /\ \A c \in PageConfigs : part = <<"page", c>> => P(c)!Next
BY DEF Next, AssessmentNext, ComplianceNext, CommandNext, ExecutiveNext, ListNext, PageNext

(***************************************************************************)
(* The executive summary.                                                  *)
(***************************************************************************)
Groups == {"findings", "governance", "evidence"}
Demo == {"SAMPLE", "AWS_SYNC"}
Acceptance(c) == [of : c.Findings, until : Nat, n : Nat]

ExecutiveRequest(c) ==
    [at : {"idle", "second"}, now : Nat, todo : SUBSET Groups, connected : BOOLEAN,
     synced : Nat, sample : Nat,
     findings : UNION {[F -> [status : E(c)!Status, source : Demo]] : F \in SUBSET c.Findings},
     acceptances : SUBSET Acceptance(c), snapshots : Nat, backed : SUBSET c.Findings,
     failing : {0, 1}, calm : BOOLEAN]

ExecutiveTypes(c) ==
    /\ finding \in [c.Findings -> E(c)!Status] /\ source \in [c.Findings -> E(c)!Source]
    /\ clock \in Nat /\ connected \in BOOLEAN
    /\ acceptances \subseteq Acceptance(c) /\ IsFiniteSet(acceptances)
    /\ snapshots \subseteq [of : c.Findings, source : Demo] /\ IsFiniteSet(snapshots)
    /\ request \in ExecutiveRequest(c) /\ IsFiniteSet(request.acceptances)

\* A finding that has a row or a snapshot is on a resource; AWS keeps what it has.
ExecutiveRows(c) ==
    /\ \A f \in c.Findings : finding[f] # "none" => source[f] # "none"
    /\ \A x \in snapshots : /\ finding[x.of] # "none"
                            /\ x.source = "AWS_SYNC" => source[x.of] = "AWS_SYNC"

\* What has been read is as it was read, if nobody wrote.
ExecutiveReads(c) ==
    request.at = "second" =>
        /\ request.now = clock
        /\ request.calm =>
            /\ "findings" \notin request.todo =>
                  request.findings =
                      [f \in E(c)!Rows |-> [status |-> finding[f], source |-> source[f]]]
            /\ "governance" \notin request.todo =>
                  request.failing = IF E(c)!Failing(request) # {} THEN 1 ELSE 0
            /\ "evidence" \notin request.todo =>
                  request.backed = {x.of : x \in E(c)!InScope(request)}

ExecutiveInv(c) == ExecutiveTypes(c) /\ ExecutiveRows(c) /\ ExecutiveReads(c)

\* A request that begins has read nothing, and one that ends is forgotten.
LEMMA ExecutiveNothing ==
  ASSUME NEW c \in ExecutiveConfigs
  PROVE  E(c)!Nothing \in ExecutiveRequest(c) /\ IsFiniteSet(E(c)!Nothing.acceptances)
<1>1. [f \in {} |-> 0] \in [{} -> [status : E(c)!Status, source : Demo]]
  OBVIOUS
<1>2. {} \in SUBSET c.Findings
  OBVIOUS
<1>3. [f \in {} |-> 0] \in UNION {[F -> [status : E(c)!Status, source : Demo]] : F \in SUBSET c.Findings}
  BY <1>1, <1>2
<1> QED
  BY <1>3, FS_EmptySet DEF E!Nothing, ExecutiveRequest, Groups

LEMMA ExecutiveStarts ==
  ASSUME NEW c \in ExecutiveConfigs, E(c)!Init
  PROVE  ExecutiveInv(c)
<1>1. ExecutiveTypes(c)
  <2> QED
    BY ExecutiveNothing, FS_EmptySet DEF E!Init, ExecutiveTypes, E!Status, E!Source
<1>2. ExecutiveRows(c) /\ ExecutiveReads(c)
  BY DEF E!Init, E!Nothing, ExecutiveRows, ExecutiveReads
<1> QED
  BY <1>1, <1>2 DEF ExecutiveInv

\* An instance has a Cardinality of its own.
LEMMA ExecutiveCardinality ==
  ASSUME NEW c, NEW S PROVE E(c)!Cardinality(S) = Cardinality(S)
BY DEF E!Cardinality, Cardinality

\* A response only depends on what has been read into it.
LEMMA ExecutiveScope ==
  ASSUME NEW c \in ExecutiveConfigs, NEW r, NEW q, q.synced = r.synced
  PROVE  E(c)!Failing(q) = E(c)!Failing(r) /\ E(c)!InScope(q) = E(c)!InScope(r)
BY DEF E!Failing, E!InScope, E!AwsOnly

\* A statement leaves what the others have read, and notes what it reads.
LEMMA ExecutiveQuery ==
  ASSUME NEW c \in ExecutiveConfigs, ExecutiveInv(c), E(c)!Query
  PROVE  ExecutiveInv(c)'
<1> DEFINE rows == [f \in E(c)!Rows |-> [status |-> finding[f], source |-> source[f]]]
<1>1. PICK q \in request.todo : request' = [E(c)!Read(request, q) EXCEPT !.todo = @ \ {q}]
  BY DEF E!Query
<1>2. UNCHANGED <<finding, source, acceptances, snapshots, connected, clock>>
  BY DEF E!Query, E!Stored
<1>3. request \in ExecutiveRequest(c) /\ q \in Groups
  BY DEF ExecutiveInv, ExecutiveTypes, ExecutiveRequest
<1>4. rows \in UNION {[F -> [status : E(c)!Status, source : Demo]] : F \in SUBSET c.Findings}
  <2>1. E(c)!Rows \in SUBSET c.Findings
    BY DEF E!Rows
  <2>2. rows \in [E(c)!Rows -> [status : E(c)!Status, source : Demo]]
    BY DEF ExecutiveInv, ExecutiveTypes, ExecutiveRows, E!Rows, E!Source, Demo
  <2> QED
    BY <2>1, <2>2
<1>5. Cardinality(E(c)!InScope(request)) \in Nat /\ {x.of : x \in E(c)!InScope(request)} \in SUBSET c.Findings
  <2>1. IsFiniteSet(E(c)!InScope(request))
    BY FS_Subset DEF ExecutiveInv, ExecutiveTypes, E!InScope
  <2> QED
    BY <2>1, FS_CardinalityType DEF ExecutiveInv, ExecutiveTypes, E!InScope
<1>6. /\ request' \in ExecutiveRequest(c) /\ IsFiniteSet(request'.acceptances)
      /\ request'.at = request.at /\ request'.now = request.now /\ request'.calm = request.calm
      /\ request'.synced = request.synced /\ request'.todo = request.todo \ {q}
      /\ request'.findings = IF q = "findings" THEN rows ELSE request.findings
      /\ request'.failing = IF q = "governance"
                            THEN IF E(c)!Failing(request) # {} THEN 1 ELSE 0
                            ELSE request.failing
      /\ request'.backed = IF q = "evidence" THEN {x.of : x \in E(c)!InScope(request)}
                           ELSE request.backed
  <2> HIDE DEF rows
  <2>1. CASE q = "findings"
    <3>1. request' = [request EXCEPT !.findings = rows, !.todo = @ \ {q}]
      BY <1>1, <1>3, <2>1 DEF E!Read, E!ReadFindings, rows, ExecutiveRequest
    <3> QED
      BY <3>1, <1>3, <1>4, <2>1 DEF ExecutiveRequest, ExecutiveInv, ExecutiveTypes
  <2>2. CASE q = "governance"
    <3>1. request' = [request EXCEPT !.acceptances = acceptances,
                          !.failing = IF E(c)!Failing(request) # {} THEN 1 ELSE 0, !.todo = @ \ {q}]
      BY <1>1, <1>3, <2>2 DEF E!Read, E!ReadGovernance, ExecutiveRequest
    <3> QED
      BY <3>1, <1>3, <2>2 DEF ExecutiveRequest, ExecutiveInv, ExecutiveTypes
  <2>3. CASE q = "evidence"
    <3>1. request' = [request EXCEPT !.snapshots = Cardinality(E(c)!InScope(request)),
                          !.backed = {x.of : x \in E(c)!InScope(request)}, !.todo = @ \ {q}]
      <4>1. E(c)!Read(request, q) = E(c)!ReadEvidence(request)
        BY <2>3 DEF E!Read
      <4> DEFINE n == Cardinality(E(c)!InScope(request))
                 backed == {x.of : x \in E(c)!InScope(request)}
      <4>2. E(c)!ReadEvidence(request) = [request EXCEPT !.snapshots = n, !.backed = backed]
        BY ExecutiveCardinality DEF E!ReadEvidence
      <4> HIDE DEF n, backed
      <4>3. request' = [request EXCEPT !.snapshots = n, !.backed = backed, !.todo = @ \ {q}]
        BY <1>1, <1>3, <4>1, <4>2 DEF ExecutiveRequest
      <4> QED
        BY <4>3 DEF n, backed
    <3> QED
      BY <3>1, <1>3, <1>5, <2>3 DEF ExecutiveRequest, ExecutiveInv, ExecutiveTypes
  <2> QED
    BY <1>3, <2>1, <2>2, <2>3 DEF Groups
<1>7. ExecutiveTypes(c)'
  BY <1>2, <1>6 DEF ExecutiveInv, ExecutiveTypes, ExecutiveRequest, Acceptance, E!Status, E!Source
<1>8. ExecutiveRows(c)'
  BY <1>2 DEF ExecutiveInv, ExecutiveRows
<1>9. ExecutiveReads(c)'
  <2>1. /\ (E(c)!Rows)' = E(c)!Rows /\ E(c)!Failing(request)' = E(c)!Failing(request)
        /\ E(c)!InScope(request)' = E(c)!InScope(request)
    BY <1>2, <1>6 DEF E!Rows, E!Failing, E!InScope, E!Lapsed, E!AwsOnly
  <2> QED
    BY <1>2, <1>3, <1>6, <2>1 DEF ExecutiveInv, ExecutiveReads, Groups
<1> QED
  BY <1>7, <1>8, <1>9 DEF ExecutiveInv

LEMMA ExecutiveBegin ==
  ASSUME NEW c \in ExecutiveConfigs, ExecutiveInv(c), E(c)!Begin \/ E(c)!Answer
  PROVE  ExecutiveInv(c)'
<1>1. UNCHANGED <<finding, source, acceptances, snapshots, connected, clock>>
  BY DEF E!Begin, E!Answer, E!Stored
<1>2. /\ request' \in ExecutiveRequest(c) /\ IsFiniteSet(request'.acceptances)
      /\ request'.at = "second" => request'.now = clock /\ request'.todo = Groups
  <2>1. CASE E(c)!Begin
    <3> DEFINE synced1 == Cardinality(E(c)!From("AWS_SYNC"))
               sample == Cardinality(E(c)!From("SAMPLE"))
    <3>1. synced1 \in Nat /\ sample \in Nat
      BY ExecutiveAssumption, FS_Subset, FS_CardinalityType DEF E!From
    <3>2. request' = [E(c)!Nothing EXCEPT !.at = "second", !.now = clock, !.calm = TRUE,
                          !.todo = {"findings", "governance", "evidence"},
                          !.connected = connected, !.synced = synced1, !.sample = sample]
      BY <2>1, ExecutiveCardinality DEF E!Begin
    <3> HIDE DEF synced1, sample
    <3> QED
      BY <3>1, <3>2, ExecutiveNothing DEF ExecutiveInv, ExecutiveTypes, ExecutiveRequest, Groups
  <2>2. CASE E(c)!Answer
    BY <2>2, ExecutiveNothing DEF E!Answer, E!Nothing
  <2> QED
    BY <2>1, <2>2
<1>3. ExecutiveTypes(c)'
  BY <1>1, <1>2 DEF ExecutiveInv, ExecutiveTypes, ExecutiveRequest, Acceptance, E!Status, E!Source
<1>4. ExecutiveRows(c)'
  BY <1>1 DEF ExecutiveInv, ExecutiveRows
<1>5. ExecutiveReads(c)'
  BY <1>1, <1>2 DEF ExecutiveReads, Groups
<1> QED
  BY <1>3, <1>4, <1>5 DEF ExecutiveInv

\* Whatever is written meanwhile, the request only forgets that it is alone.
LEMMA ExecutiveMeanwhile ==
  ASSUME NEW c \in ExecutiveConfigs, ExecutiveInv(c), NEW f,
         \/ E(c)!Connect
         \/ /\ f \in c.Findings
            /\ \/ E(c)!Store(f, "SAMPLE") \/ E(c)!Store(f, "AWS_SYNC")
               \/ E(c)!Observe(f) \/ E(c)!Accept(f) \/ E(c)!Resolve(f)
  PROVE  ExecutiveInv(c)'
<1> USE DEF ExecutiveInv
<1>1. request' = [request EXCEPT !.calm = FALSE] /\ clock' = clock
  BY DEF E!Store, E!Observe, E!Accept, E!Resolve, E!Connect, E!Meanwhile
<1>2. /\ request' \in ExecutiveRequest(c) /\ IsFiniteSet(request'.acceptances)
      /\ request'.now = request.now /\ request'.at = request.at /\ ~request'.calm
  BY <1>1 DEF ExecutiveTypes, ExecutiveRequest
<1>3. ExecutiveReads(c)'
  BY <1>1, <1>2 DEF ExecutiveReads
<1>4. ExecutiveTypes(c)' /\ ExecutiveRows(c)'
  <2>1. ASSUME NEW s \in Demo, f \in c.Findings, E(c)!Store(f, s)
        PROVE  ExecutiveTypes(c)' /\ ExecutiveRows(c)'
    <3>1. source' \in [c.Findings -> E(c)!Source] /\ UNCHANGED <<finding, acceptances, snapshots, connected>>
      BY <2>1 DEF E!Store, ExecutiveTypes, Demo, E!Source
    <3>2. ExecutiveTypes(c)'
      BY <1>1, <1>2, <3>1 DEF ExecutiveTypes, ExecutiveRequest, Acceptance, E!Status, E!Source
    <3>3. \A g \in c.Findings : source'[g] = IF g = f THEN s ELSE source[g]
      BY <2>1 DEF E!Store, ExecutiveTypes
    <3>4. ExecutiveRows(c)'
      BY <2>1, <3>1, <3>3 DEF E!Store, ExecutiveTypes, ExecutiveRows, Demo
    <3> QED
      BY <3>2, <3>4
  <2>2. CASE f \in c.Findings /\ E(c)!Observe(f)
    <3> DEFINE x == [of |-> f, source |-> source[f]]
    <3>1. x \in [of : c.Findings, source : Demo] /\ x.of = f /\ x.source = source[f]
      BY <2>2 DEF E!Observe, ExecutiveTypes, E!Source, Demo
    <3>2. snapshots' = snapshots \cup {x} /\ UNCHANGED <<source, acceptances, connected>>
      BY <2>2 DEF E!Observe
    <3> HIDE DEF x
    <3>3. /\ finding' \in [c.Findings -> E(c)!Status]
          /\ \A g \in c.Findings : finding[g] # "none" => finding'[g] # "none"
          /\ finding'[f] # "none" /\ source[f] # "none"
          /\ \A g \in c.Findings : g # f => finding'[g] = finding[g]
      BY <2>2 DEF E!Observe, ExecutiveTypes, E!Status
    <3>4. ExecutiveTypes(c)'
      BY <1>1, <1>2, <3>1, <3>2, <3>3, FS_AddElement
         DEF ExecutiveTypes, ExecutiveRequest, Acceptance, E!Status, E!Source
    <3>5. ExecutiveRows(c)'
      BY <3>1, <3>2, <3>3 DEF ExecutiveTypes, ExecutiveRows
    <3> QED
      BY <3>4, <3>5
  <2>3. CASE f \in c.Findings /\ E(c)!Accept(f)
    <3>1. PICK until \in (clock + 1)..(c.MaxClock + 1) : acceptances' = acceptances \cup
              {[of |-> f, until |-> until, n |-> Cardinality(acceptances)]}
      BY <2>3, ExecutiveCardinality DEF E!Accept
    <3>2. until \in Nat /\ Cardinality(acceptances) \in Nat
      BY ExecutiveAssumption, FS_CardinalityType DEF ExecutiveTypes
    <3>3. acceptances' \subseteq Acceptance(c) /\ IsFiniteSet(acceptances')
      <4> DEFINE x == [of |-> f, until |-> until, n |-> Cardinality(acceptances)]
      <4>1. x \in Acceptance(c)
        BY <2>3, <3>2 DEF E!Accept, Acceptance
      <4> HIDE DEF x
      <4>2. acceptances' = acceptances \cup {x}
        BY <3>1 DEF x
      <4> QED
        BY <4>1, <4>2, FS_AddElement DEF ExecutiveTypes
    <3> QED
      BY <1>1, <1>2, <2>3, <3>3 DEF E!Accept, ExecutiveTypes, ExecutiveRows, ExecutiveRequest, Demo, E!Status, E!Source
  <2>4. CASE f \in c.Findings /\ E(c)!Resolve(f)
    BY <1>2, <2>4 DEF E!Resolve, ExecutiveTypes, ExecutiveRows, ExecutiveRequest, Demo, Acceptance, E!Status, E!Source
  <2>5. CASE E(c)!Connect
    BY <1>2, <2>5 DEF E!Connect, ExecutiveTypes, ExecutiveRows, ExecutiveRequest, Demo, Acceptance, E!Status, E!Source
  <2> QED
    BY <2>1, <2>2, <2>3, <2>4, <2>5 DEF Demo
<1> QED
  BY <1>3, <1>4

LEMMA ExecutiveStep ==
  ASSUME NEW c \in ExecutiveConfigs, ExecutiveInv(c), E(c)!Next
  PROVE  ExecutiveInv(c)'
<1>1. CASE E(c)!Tick
  <2>1. clock' \in Nat
    BY <1>1 DEF E!Tick, ExecutiveInv, ExecutiveTypes
  <2> QED
    BY <1>1, <2>1 DEF E!Tick, ExecutiveInv, ExecutiveTypes, ExecutiveRows, ExecutiveReads,
        ExecutiveRequest, Acceptance, Demo, E!Status, E!Source
<1>2. CASE E(c)!Connect
  BY <1>2, ExecutiveMeanwhile
<1> QED
  BY <1>1, <1>2, ExecutiveQuery, ExecutiveBegin, ExecutiveMeanwhile DEF E!Next

\* A full score means that no control fails.
LEMMA ExecutiveScore ==
  ASSUME NEW c \in ExecutiveConfigs, ExecutiveInv(c), E(c)!Score(request) = 100
  PROVE  request.failing = 0
<1>1. /\ request.failing \in {0, 1} /\ DOMAIN request.findings \subseteq c.Findings
      /\ IsFiniteSet(request.acceptances)
  BY DEF ExecutiveInv, ExecutiveTypes, ExecutiveRequest
<1>2. \A s : E(c)!OfSeverity(request, s) \in Nat
  <2> TAKE s
  <2>1. IsFiniteSet({f \in E(c)!Unresolved(request) : c.Severity[f] = s})
    BY <1>1, ExecutiveAssumption, FS_Subset DEF E!Unresolved, E!Counted
  <2> QED
    BY <2>1, FS_CardinalityType, ExecutiveCardinality DEF E!OfSeverity
<1>3. E(c)!Cardinality(E(c)!Expired(request)) \in Nat
  <2>1. IsFiniteSet(E(c)!Expired(request))
    BY <1>1, FS_Subset DEF E!Expired, E!Registry
  <2> QED
    BY <2>1, FS_CardinalityType, ExecutiveCardinality
<1> DEFINE n == 15 * E(c)!OfSeverity(request, "CRITICAL") + 7 * E(c)!OfSeverity(request, "HIGH")
                  + 3 * E(c)!OfSeverity(request, "MEDIUM") + E(c)!OfSeverity(request, "LOW")
                  + 10 * E(c)!Cardinality(E(c)!Expired(request))
<1>4. n \in Nat /\ E(c)!Score(request) = E(c)!Clamp(100 - n - 8 * request.failing)
  BY <1>1, <1>2, <1>3 DEF E!Score
<1> HIDE DEF n
<1> QED
  BY <1>1, <1>4 DEF E!Clamp

\* At most a hundred times the whole is rounded to at most a hundred.
LEMMA RoundedInScale ==
  ASSUME NEW x \in Nat, NEW w \in Nat \ {0}, x <= 100 * w
  PROVE  (2 * x + w) \div (2 * w) \in 0..100
<1> DEFINE d == 2 * w
           m == 2 * x + w
<1>1. m \in Nat /\ d \in Nat \ {0} /\ m < 101 * d
  OBVIOUS
<1> HIDE DEF d, m
<1>2. m = d * (m \div d) + (m % d) /\ m % d \in 0..(d - 1) /\ m \div d \in Int
  BY <1>1
<1>3. m \div d >= 0
  BY <1>1
<1>4. m \div d <= 100
  <2>1. SUFFICES ASSUME m \div d >= 101 PROVE FALSE
    BY <1>2
  <2>2. d * (m \div d) >= d * 101
    BY <2>1, <1>1, <1>2
  <2> QED
    BY <2>2, <1>1, <1>2
<1> QED
  BY <1>2, <1>3, <1>4 DEF d, m

\* A share of a whole, in per cent, is no more than a hundred.
LEMMA ShareInScale ==
  ASSUME NEW k \in Nat, NEW n \in Nat, k <= n, n > 0
  PROVE  (2 * (100 * k) + n) \div (2 * n) \in 0..100
<1>1. 100 * k \in Nat /\ n \in Nat \ {0} /\ 100 * k <= 100 * n
  OBVIOUS
<1> DEFINE x == 100 * k
<1>2. x \in Nat /\ n \in Nat \ {0} /\ x <= 100 * n
  BY <1>1
<1> HIDE DEF x
<1>3. (2 * x + n) \div (2 * n) \in 0..100
  BY <1>2, RoundedInScale
<1> QED
  BY <1>3 DEF x

LEMMA ExecutiveSafe ==
  ASSUME NEW c \in ExecutiveConfigs, ExecutiveInv(c)
  PROVE  E(c)!TypeOK /\ E(c)!DemoNeverScores /\ E(c)!PerfectIsEarned /\ E(c)!CoverageInScale
<1>1. E(c)!TypeOK
  BY DEF ExecutiveInv, ExecutiveTypes, ExecutiveRows, ExecutiveRequest, E!TypeOK
<1>2. E(c)!DemoNeverScores
  <2> SUFFICES ASSUME E(c)!ScoreStatus(request) = "SCORED", NEW f \in E(c)!Counted(request)
               PROVE  request.findings[f].source = "AWS_SYNC"
    BY DEF E!DemoNeverScores
  <2>1. request.synced \in Nat /\ f \in DOMAIN request.findings /\ request.findings[f].source \in Demo
    BY DEF ExecutiveInv, ExecutiveTypes, ExecutiveRequest, E!Counted
  <2>2. ~E(c)!SampleOnly(request)
    BY DEF E!ScoreStatus
  <2> QED
    BY <2>1, <2>2 DEF E!SampleOnly, E!Counted, E!AwsOnly, Demo
<1>3. E(c)!PerfectIsEarned
  <2> SUFFICES ASSUME E(c)!Done, request.calm, E(c)!Score(request) = 100
               PROVE  \A f \in E(c)!Rows : (E(c)!AwsOnly(request) => source[f] = "AWS_SYNC")
                          => finding[f] # "OPEN" /\ ~E(c)!Lapsed(f)
    BY DEF E!PerfectIsEarned
  <2>1. E(c)!Failing(request) = {}
    BY ExecutiveScore DEF ExecutiveInv, ExecutiveReads, E!Done
  <2> QED
    BY <2>1 DEF E!Failing
<1>4. E(c)!CoverageInScale
  <2> SUFFICES ASSUME E(c)!Done, request.calm PROVE E(c)!Coverage(request) \in 0..100
    BY DEF E!CoverageInScale
  <2>1. CASE E(c)!Counted(request) = {}
    BY <2>1 DEF E!Coverage
  <2>2. CASE E(c)!Counted(request) # {}
    <3> DEFINE k == Cardinality(request.backed)
               n == Cardinality(E(c)!Counted(request))
    <3>1. /\ request.findings = [f \in E(c)!Rows |-> [status |-> finding[f], source |-> source[f]]]
          /\ request.backed = {x.of : x \in E(c)!InScope(request)}
      BY DEF ExecutiveInv, ExecutiveReads, E!Done
    <3>2. E(c)!Counted(request) = {f \in E(c)!Rows : E(c)!AwsOnly(request) => source[f] = "AWS_SYNC"}
      BY <3>1 DEF E!Counted
    <3>3. request.backed \subseteq E(c)!Counted(request)
      BY <3>1, <3>2 DEF ExecutiveInv, ExecutiveTypes, ExecutiveRows, E!InScope, E!Rows, E!Source
    <3>4. IsFiniteSet(E(c)!Counted(request))
      BY <3>2, ExecutiveAssumption, FS_Subset DEF E!Rows
    <3>5. k \in Nat /\ n \in Nat /\ k <= n /\ n > 0
      BY <2>2, <3>3, <3>4, FS_Subset, FS_CardinalityType, FS_EmptySet
    <3>6. E(c)!Coverage(request) = (2 * (100 * k) + n) \div (2 * n)
      BY <2>2, ExecutiveCardinality DEF E!Coverage, E!Round
    <3> HIDE DEF k, n
    <3> QED
      BY <3>5, <3>6, ShareInScale
  <2> QED
    BY <2>1, <2>2
<1> QED
  BY <1>1, <1>2, <1>3, <1>4
LEMMA ExecutiveStutter ==
  ASSUME NEW c \in ExecutiveConfigs, ExecutiveInv(c), UNCHANGED vars
  PROVE  ExecutiveInv(c)'
BY DEF vars, executiveVars, ExecutiveInv, ExecutiveTypes, ExecutiveRows, ExecutiveReads, E!Rows,
    E!Failing, E!Lapsed, E!InScope, E!AwsOnly, E!Status, E!Source, ExecutiveRequest, Acceptance

\* For every number of findings, whatever their severities, and every number of
\* acceptances: demo data makes no score, a full score hides no open or lapsed risk,
\* and the coverage is a percentage.
THEOREM SummariesAlwaysEarned == Spec => []SummariesAreEarned
<1> DEFINE Inv == \A c \in ExecutiveConfigs : part = <<"executive", c>> => ExecutiveInv(c)
<1>1. Init => Inv
  BY PartBegins, ExecutiveStarts
<1>2. Inv /\ [Next]_vars => Inv'
  <2> SUFFICES ASSUME Inv, [Next]_vars, NEW c \in ExecutiveConfigs, part = <<"executive", c>>
               PROVE  ExecutiveInv(c)'
    BY PartStays
  <2> QED
    BY PartGoesOn, ExecutiveStep, ExecutiveStutter
<1>3. Inv => SummariesAreEarned
  BY ExecutiveSafe DEF SummariesAreEarned
<1> QED
  BY <1>1, <1>2, <1>3, PTL DEF Spec
(***************************************************************************)
(* The action pages.                                                       *)
(***************************************************************************)
Token(c) == {{}} \cup {{x} : x \in 0..c.MaxSessions}
Stages == {"asking", "asked", "sent", "answered", "confirming", "excusing"}
Act(c) ==
    [id : Nat, target : P(c)!Targets, at : Stages, token : Token(c), cookie : 0..c.MaxSessions,
     v : Nat, answer : {"none", "ok", "conflict", "forbidden", "unauthenticated"},
     alone : BOOLEAN, steady : BOOLEAN]
Shown(c) == P(c)!Row \cup {P(c)!NoRow}
IsLoad(c, l) ==
    l \in [n : {l.n}, by : Nat, read : BOOLEAN, row : Shown(c), active : BOOLEAN, alone : BOOLEAN]

PageTypes(c) ==
    /\ page \in {"account", "finding", "alert", "monitoring"}
    /\ row \in P(c)!Row
    /\ session \in [cookie : 0..c.MaxSessions, live : SUBSET Nat, last : 1..c.MaxSessions]
    /\ token \in Token(c)
    /\ tab \in [shown : Shown(c), loading : BOOLEAN, readError : BOOLEAN, told : Nat, begun : Nat,
                writes : Nat, gone : BOOLEAN, calm : BOOLEAN, wronged : BOOLEAN]
    /\ acts \subseteq Act(c)
    /\ \A l \in loads : IsLoad(c, l)

\* An action is known by its number, and one that waits has its load.
PageLinks ==
    /\ \A a \in acts : a.id > 0 /\ a.id <= tab.begun /\ a.v <= row.v
    /\ \A a, b \in acts : a.id = b.id => a = b
    /\ page # "monitoring" => \A a, b \in acts : a = b
    /\ \A l \in loads : l.by <= tab.begun
    /\ \A l \in loads, a \in acts : l.by = a.id => a.at \in {"confirming", "excusing"}
    /\ \A a \in acts : a.at \in {"confirming", "excusing"} => \E l \in loads : l.by = a.id

\* A cached token is in use; who was alone has asked for his own.
PageTokens ==
    /\ token # {} => \E a \in acts : a.at \in {"sent", "answered"}
    /\ \A a \in acts : a.at = "asked" /\ a.steady => a.token = {session.cookie}
    /\ \A a \in acts : a.at = "sent" /\ a.alone /\ a.steady => a.token = {a.cookie}
    /\ ~tab.wronged

\* A load that counts has read what has been told, or has not read yet.
AccountShows ==
    /\ \A l \in loads : l.by = 0 /\ (l.active /\ l.read => l.row.v >= tab.told)
    /\ (\A l \in loads : ~l.active) /\ ~tab.readError => tab.shown.v >= tab.told

DetailShows(c) ==
    /\ \A l, m \in loads : l = m
    /\ \A l \in loads :
          /\ l.active
          /\ l.by = 0 => tab.shown = P(c)!NoRow /\ acts = {}
          /\ l.by # 0 => \E a \in acts : a.id = l.by
          /\ l.read => l.row.v >= tab.told
    /\ loads = {} /\ ~tab.readError => tab.shown.v >= tab.told

MonitoringShows ==
    /\ \A l \in loads : l.alone => loads = {l} /\ (l.read => l.row.v >= tab.told)
    /\ tab.calm => tab.shown.v >= tab.told

PageShows(c) ==
    /\ tab.told <= row.v
    /\ \A l \in loads, a \in acts : l.read /\ a.id = l.by => l.row.v >= a.v
    /\ page = "account" => AccountShows
    /\ page \in {"finding", "alert"} => DetailShows(c)
    /\ page = "monitoring" => MonitoringShows

PageInv(c) == PageTypes(c) /\ PageLinks /\ PageTokens /\ PageShows(c)

LEMMA PageCardinality ==
  ASSUME NEW c, NEW S PROVE P(c)!Cardinality(S) = Cardinality(S)
BY DEF P!Cardinality, Cardinality

LEMMA PageFew ==
  ASSUME NEW c, NEW S, S = {} \/ \E x : S = {x} PROVE P(c)!Cardinality(S) <= 1
<1>1. CASE S = {}
  BY <1>1, PageCardinality, FS_EmptySet
<1>2. ASSUME NEW x, S = {x} PROVE P(c)!Cardinality(S) <= 1
  <2>1. Cardinality({x}) = 1
    BY FS_Singleton
  <2> QED
    BY <1>2, <2>1, PageCardinality
<1> QED
  BY <1>1, <1>2

LEMMA PageStarts ==
  ASSUME NEW c \in PageConfigs, P(c)!Init
  PROVE  PageInv(c)
<1> USE PageAssumption
<1>1. PageTypes(c)
  BY DEF P!Init, P!Load, P!Row, P!NoRow, P!Targets, PageTypes, Token, Shown, IsLoad
<1>2. PageLinks /\ PageTokens
  BY DEF P!Init, P!Load, PageLinks, PageTokens
<1>3. PageShows(c)
  BY DEF P!Init, P!Load, P!NoRow, PageShows, AccountShows, DetailShows, MonitoringShows
<1> QED
  BY <1>1, <1>2, <1>3 DEF PageInv

\* A load that has read has read what is there.
LEMMA PageReads ==
  ASSUME NEW c \in PageConfigs, PageInv(c), NEW l \in loads, P(c)!ReadRow(l)
  PROVE  PageInv(c)'
<1> DEFINE m == [l EXCEPT !.read = TRUE, !.row = row]
<1> USE DEF PageInv
<1>1. /\ IsLoad(c, l) /\ m.by = l.by /\ m.active = l.active /\ m.alone = l.alone
      /\ m.read = TRUE /\ m.row = row /\ IsLoad(c, m)
  BY DEF PageTypes, IsLoad, Shown
<1>2. loads' = (loads \ {l}) \cup {m} /\ UNCHANGED <<page, row, session, token, acts, tab>>
  BY DEF P!ReadRow
<1>3. l.alone => loads = {l} \/ page # "monitoring"
  BY DEF PageShows, MonitoringShows, PageTypes
<1> HIDE DEF m
<1>4. PageTypes(c)'
  BY <1>1, <1>2 DEF PageTypes, Act, Token, Shown, IsLoad, P!Row, P!NoRow, P!Targets
<1>5. PageLinks'
  BY <1>1, <1>2 DEF PageLinks
<1>6. PageTokens'
  BY <1>2 DEF PageTokens
<1>7. PageShows(c)'
  <2>1. tab.told <= row.v /\ \A a \in acts : a.v <= row.v
    BY DEF PageShows, PageLinks
  <2>2. page = "account" => AccountShows'
    BY <1>1, <1>2, <2>1 DEF PageShows, AccountShows
  <2>3. page \in {"finding", "alert"} => DetailShows(c)'
    BY <1>1, <1>2, <2>1 DEF PageShows, DetailShows, P!NoRow
  <2>4. page = "monitoring" => MonitoringShows'
    BY <1>1, <1>2, <1>3, <2>1 DEF PageShows, MonitoringShows
  <2> QED
    BY <1>1, <1>2, <2>1, <2>2, <2>3, <2>4 DEF PageShows
<1> QED
  BY <1>4, <1>5, <1>6, <1>7

\* Who is sent to the login leaves nothing behind.
LEMMA PageLeaves ==
  ASSUME NEW c \in PageConfigs, PageInv(c), P(c)!Leave
  PROVE  PageInv(c)'
<1> USE DEF PageInv
<1>1. /\ acts' = {} /\ loads' = {} /\ token' = {} /\ UNCHANGED <<page, row, session>>
      /\ tab' = [tab EXCEPT !.gone = TRUE, !.shown = P(c)!NoRow, !.told = 0]
  BY DEF P!Leave
<1>2. PageTypes(c)'
  BY <1>1 DEF PageTypes, Token, Shown
<1>3. PageLinks' /\ PageTokens'
  BY <1>1 DEF PageLinks, PageTokens, PageTypes
<1>4. PageShows(c)'
  BY <1>1 DEF PageShows, PageTypes, AccountShows, DetailShows, MonitoringShows, P!NoRow, P!Row
<1> QED
  BY <1>2, <1>3, <1>4
\* What a new load makes of those under way.
LEMMA PageLoads ==
  ASSUME NEW c \in PageConfigs, PageInv(c), NEW by \in Nat
  PROVE  /\ \A m \in P(c)!Loading(by) :
               /\ IsLoad(c, m)
               /\ \/ /\ ~m.alone /\ (m.active <=> page # "account")
                     /\ \E l \in loads : m.by = l.by /\ m.read = l.read /\ m.row = l.row
                  \/ m.by = by /\ ~m.read /\ m.active /\ (m.alone <=> loads = {})
         /\ \E m \in P(c)!Loading(by) : m.by = by /\ m.active
         /\ \A l \in loads : \E m \in P(c)!Loading(by) : m.by = l.by
         /\ loads = {} => \A m, n \in P(c)!Loading(by) : m = n
<1> DEFINE Old(l) == [l EXCEPT !.active = page # "account", !.alone = FALSE]
           free == (1..c.MaxLoads) \ {l.n : l \in loads}
           least == CHOOSE n \in free : \A m \in free : n <= m
           none == loads = {}
           new == [P(c)!Load(least, by) EXCEPT !.alone = none]
<1>1. P(c)!Loading(by) = {Old(l) : l \in loads} \cup {new}
  BY DEF P!Loading, P!Superseded
<1>2. ASSUME NEW l \in loads
      PROVE  /\ IsLoad(c, Old(l)) /\ Old(l).by = l.by /\ Old(l).read = l.read /\ Old(l).row = l.row
             /\ Old(l).active = (page # "account") /\ ~Old(l).alone
  <2>1. IsLoad(c, l)
    BY DEF PageInv, PageTypes
  <2> QED
    BY <2>1 DEF IsLoad
<1>3. IsLoad(c, new) /\ new.by = by /\ ~new.read /\ new.active /\ new.alone = none
  <2>1. none \in BOOLEAN
    OBVIOUS
  <2> HIDE DEF least, none
  <2> QED
    BY <2>1 DEF P!Load, IsLoad, Shown
<1>4. new.alone <=> loads = {}
  BY <1>3
<1> HIDE DEF new, none
<1>5. ASSUME NEW m \in P(c)!Loading(by)
      PROVE  m = new \/ \E l \in loads : m = Old(l)
  BY <1>1
<1>6. new \in P(c)!Loading(by) /\ \A l \in loads : Old(l) \in P(c)!Loading(by)
  BY <1>1
<1> HIDE DEF Old
<1>7. ASSUME NEW m \in P(c)!Loading(by)
      PROVE  /\ IsLoad(c, m)
             /\ \/ /\ ~m.alone /\ (m.active <=> page # "account")
                   /\ \E l \in loads : m.by = l.by /\ m.read = l.read /\ m.row = l.row
                \/ m.by = by /\ ~m.read /\ m.active /\ (m.alone <=> loads = {})
  BY <1>2, <1>3, <1>4, <1>5
<1>8. loads = {} => \A m, n \in P(c)!Loading(by) : m = n
  BY <1>5
<1>9. /\ \E m \in P(c)!Loading(by) : m.by = by /\ m.active
      /\ \A l \in loads : \E m \in P(c)!Loading(by) : m.by = l.by
  BY <1>2, <1>3, <1>6
<1> QED
  BY <1>7, <1>8, <1>9

LEMMA PageReloads ==
  ASSUME NEW c \in PageConfigs, PageInv(c), P(c)!Reload
  PROVE  PageInv(c)'
<1> USE DEF PageInv
<1>1. /\ loads' = P(c)!Loading(0) /\ UNCHANGED <<page, row, session, token, acts>>
      /\ tab' = P(c)!Started(tab) /\ page # "account"
      /\ page \in {"finding", "alert"} => tab.shown = P(c)!NoRow /\ acts = {} /\ loads = {}
  BY DEF P!Reload
<1>2. /\ tab' \in [shown : Shown(c), loading : BOOLEAN, readError : BOOLEAN, told : Nat, begun : Nat,
                   writes : Nat, gone : BOOLEAN, calm : BOOLEAN, wronged : BOOLEAN]
      /\ tab'.shown = tab.shown /\ tab'.told = tab.told /\ tab'.begun = tab.begun
      /\ tab'.calm = tab.calm /\ tab'.wronged = tab.wronged
  BY <1>1 DEF PageTypes, P!Started
<1>3. /\ \A m \in loads' :
               /\ IsLoad(c, m)
               /\ \/ /\ ~m.alone /\ m.active
                     /\ \E l \in loads : m.by = l.by /\ m.read = l.read /\ m.row = l.row
                  \/ m.by = 0 /\ ~m.read /\ m.active /\ (m.alone <=> loads = {})
      /\ \A l \in loads : \E m \in loads' : m.by = l.by
      /\ loads = {} => \A m, n \in loads' : m = n
      /\ loads' # {}
  <2>1. loads' = P(c)!Loading(0) /\ page # "account" /\ 0 \in Nat
    BY <1>1
  <2> HIDE DEF PageInv
  <2> QED
    BY <2>1, PageLoads
<1>4. PageTypes(c)'
  BY <1>1, <1>2, <1>3 DEF PageTypes, Act, Token, Shown, IsLoad, P!Row, P!NoRow, P!Targets
<1>5. PageLinks'
  BY <1>1, <1>2, <1>3 DEF PageLinks, PageTypes
<1>6. PageTokens'
  BY <1>1, <1>2 DEF PageTokens
<1>7. PageShows(c)'
  <2>1. page \in {"finding", "alert"} => DetailShows(c)'
    BY <1>1, <1>2, <1>3 DEF PageShows, DetailShows, P!NoRow
  <2>2. page = "monitoring" => MonitoringShows'
    BY <1>1, <1>2, <1>3 DEF PageShows, MonitoringShows
  <2> QED
    BY <1>1, <1>2, <1>3, <2>1, <2>2 DEF PageShows, PageTypes
<1> QED
  BY <1>4, <1>5, <1>6, <1>7

\* An action begins alone with a token of its own, or with the one in use.
LEMMA PageActs ==
  ASSUME NEW c \in PageConfigs, PageInv(c), NEW target \in P(c)!Targets, P(c)!Begin(target)
  PROVE  PageInv(c)'
<1> DEFINE first == acts = {}
           at == IF token = {} THEN "asking" ELSE "sent"
           a == [id |-> tab.begun + 1, target |-> target, at |-> at, token |-> token,
                 cookie |-> session.cookie, v |-> 0, answer |-> "none",
                 alone |-> first, steady |-> TRUE]
<1> USE DEF PageInv
<1>1. /\ acts' = acts \cup {a} /\ UNCHANGED <<page, row, session, token, loads>>
      /\ tab' = [tab EXCEPT !.begun = @ + 1]
      /\ tab.shown # P(c)!NoRow /\ (page # "monitoring" => acts = {})
  BY DEF P!Begin, P!Offered
<1>2. /\ a \in Act(c) /\ a.id = tab.begun + 1 /\ a.at \in {"asking", "sent"} /\ a.v = 0
      /\ (a.at = "sent") <=> (token # {})
      /\ a.alone <=> (acts = {})
  <2>1. first \in BOOLEAN /\ at \in Stages /\ at \in {"asking", "sent"}
        /\ ((at = "sent") <=> (token # {})) /\ (first <=> acts = {})
    BY DEF Stages
  <2> HIDE DEF first, at
  <2>2. a \in Act(c)
    BY <2>1 DEF PageTypes, Act
  <2> QED
    BY <2>1, <2>2
<1>3. /\ tab' \in [shown : Shown(c), loading : BOOLEAN, readError : BOOLEAN, told : Nat, begun : Nat,
                   writes : Nat, gone : BOOLEAN, calm : BOOLEAN, wronged : BOOLEAN]
      /\ tab'.begun = tab.begun + 1 /\ tab.begun \in Nat
      /\ tab'.shown = tab.shown /\ tab'.told = tab.told /\ tab'.readError = tab.readError
      /\ tab'.calm = tab.calm /\ tab'.wronged = tab.wronged
  BY <1>1 DEF PageTypes
<1> HIDE DEF a
<1>4. PageTypes(c)'
  BY <1>1, <1>2, <1>3 DEF PageTypes, Act, Token, Shown, IsLoad, P!Row, P!NoRow, P!Targets
<1>5. \A b \in acts : b \in Act(c) /\ b.id <= tab.begun
  BY DEF PageTypes, PageLinks
<1>6. \A l \in loads : l.by <= tab.begun /\ l.by \in Nat
  BY DEF PageTypes, PageLinks, IsLoad
<1>7. row.v \in Nat
  BY DEF PageTypes, P!Row
<1>8. PageLinks'
  <2>1. \A b \in acts' : b.id > 0 /\ b.id <= tab'.begun /\ b.v <= row'.v
    BY <1>1, <1>2, <1>3, <1>5, <1>7 DEF PageLinks, Act
  <2>2. \A b, d \in acts' : b.id = d.id => b = d
    BY <1>1, <1>2, <1>3, <1>5 DEF PageLinks, Act
  <2>3. page' # "monitoring" => \A b, d \in acts' : b = d
    BY <1>1
  <2>4. \A l \in loads' : l.by <= tab'.begun
    BY <1>1, <1>3, <1>6
  <2>5. \A l \in loads', b \in acts' : l.by = b.id => b.at \in {"confirming", "excusing"}
    BY <1>1, <1>2, <1>3, <1>6 DEF PageLinks
  <2>6. \A b \in acts' : b.at \in {"confirming", "excusing"} => \E l \in loads' : l.by = b.id
    BY <1>1, <1>2 DEF PageLinks
  <2> QED
    BY <2>1, <2>2, <2>3, <2>4, <2>5, <2>6 DEF PageLinks
<1>9. PageTokens'
  BY <1>1, <1>2, <1>3 DEF PageTokens
<1>10. PageShows(c)'
  <2>1. \A l \in loads, b \in acts' : l.read /\ b.id = l.by => l.row.v >= b.v
    BY <1>1, <1>2, <1>3, <1>6 DEF PageShows
  <2>2. page \in {"finding", "alert"} => DetailShows(c)'
    BY <1>1, <1>3 DEF PageShows, DetailShows
  <2> QED
    BY <1>1, <1>3, <2>1, <2>2 DEF PageShows, AccountShows, MonitoringShows
<1> QED
  BY <1>4, <1>8, <1>9, <1>10

\* One action goes on and keeps its number, its place among the actions and what it
\* has written; nothing else of the page moves.
LEMMA PageBecomes ==
  ASSUME NEW c \in PageConfigs, PageInv(c), NEW a \in acts, NEW b \in Act(c),
         b.id = a.id, a.at \notin {"confirming", "excusing"}, b.at \notin {"confirming", "excusing"},
         P(c)!Becomes(a, b), UNCHANGED <<page, session, loads>>,
         row' \in P(c)!Row, row'.v >= row.v, b.v <= row'.v,
         token' \in Token(c), token' # {} => \E d \in (acts \ {a}) \cup {b} : d.at \in {"sent", "answered"},
         b.at = "asked" /\ b.steady => b.token = {session.cookie},
         b.at = "sent" /\ b.alone /\ b.steady => b.token = {b.cookie},
         tab' = tab \/ tab' = [tab EXCEPT !.wronged = FALSE]
  PROVE  PageInv(c)'
<1> USE DEF PageInv
<1>1. acts' = (acts \ {a}) \cup {b}
  BY DEF P!Becomes
<1>2. /\ tab' \in [shown : Shown(c), loading : BOOLEAN, readError : BOOLEAN, told : Nat, begun : Nat,
                   writes : Nat, gone : BOOLEAN, calm : BOOLEAN, wronged : BOOLEAN]
      /\ tab'.begun = tab.begun /\ ~tab'.wronged /\ tab'.readError = tab.readError
      /\ tab'.shown = tab.shown /\ tab'.told = tab.told /\ tab'.calm = tab.calm
  BY DEF PageTypes, PageTokens
<1>3. PageTypes(c)'
  BY <1>1, <1>2 DEF PageTypes, Act, Token, Shown, IsLoad, P!Row, P!NoRow, P!Targets
<1>4. row.v \in Nat /\ row'.v \in Nat /\ \A d \in acts : d \in Act(c)
  BY DEF PageTypes, P!Row
<1>5. PageLinks'
  <2>1. \A d \in acts' : d.id > 0 /\ d.id <= tab'.begun /\ d.v <= row'.v
    BY <1>1, <1>2, <1>4 DEF PageLinks, Act
  <2>2. \A d, e \in acts' : d.id = e.id => d = e
    BY <1>1 DEF PageLinks
  <2>3. page' # "monitoring" => \A d, e \in acts' : d = e
    BY <1>1 DEF PageLinks
  <2>4. \A l \in loads', d \in acts' : l.by = d.id => d.at \in {"confirming", "excusing"}
    BY <1>1 DEF PageLinks
  <2>5. \A d \in acts' : d.at \in {"confirming", "excusing"} => \E l \in loads' : l.by = d.id
    BY <1>1 DEF PageLinks
  <2> QED
    BY <1>2, <2>1, <2>2, <2>3, <2>4, <2>5 DEF PageLinks
<1>6. PageTokens'
  BY <1>1, <1>2 DEF PageTokens
<1>7. PageShows(c)'
  <2>1. \A l \in loads, d \in acts' : l.read /\ d.id = l.by => l.row.v >= d.v
    BY <1>1 DEF PageShows, PageLinks
  <2>2. tab'.told <= row'.v
    BY <1>2, <1>4 DEF PageShows
  <2>3. page \in {"finding", "alert"} => DetailShows(c)'
    BY <1>1, <1>2 DEF PageShows, DetailShows
  <2> QED
    BY <1>2, <2>1, <2>2, <2>3 DEF PageShows, AccountShows, MonitoringShows
<1> QED
  BY <1>3, <1>5, <1>6, <1>7

LEMMA PageCalls ==
  ASSUME NEW c \in PageConfigs, PageInv(c), NEW a \in acts,
         P(c)!AskToken(a) \/ P(c)!TakeToken(a) \/ P(c)!Serve(a)
  PROVE  PageInv(c)'
<1>1. /\ a \in Act(c) /\ row \in P(c)!Row /\ row.v \in Nat /\ a.v <= row.v
      /\ token \in Token(c) /\ a.token \in Token(c) /\ session.cookie \in 0..c.MaxSessions
  BY DEF PageInv, PageTypes, PageLinks, Act, P!Row
<1>2. CASE P(c)!AskToken(a)
  <2> DEFINE b == [a EXCEPT !.at = "asked", !.token = {session.cookie}]
  <2>1. P(c)!Becomes(a, b) /\ UNCHANGED <<page, row, session, token, loads, tab>> /\ a.at = "asking"
    BY <1>2 DEF P!AskToken
  <2>2. /\ b \in Act(c) /\ b.id = a.id /\ b.at = "asked" /\ b.v <= row.v
        /\ b.token = {session.cookie}
    BY <1>1, <2>1 DEF Act, Token, Stages
  <2>3. token # {} => \E d \in acts \ {a} : d.at \in {"sent", "answered"}
    BY <2>1 DEF PageInv, PageTokens
  <2> HIDE DEF b
  <2> QED
    BY <1>1, <2>1, <2>2, <2>3, PageBecomes
<1>3. CASE P(c)!TakeToken(a)
  <2> DEFINE b == [a EXCEPT !.at = "sent", !.cookie = session.cookie]
  <2>1. /\ P(c)!Becomes(a, b) /\ UNCHANGED <<page, row, session, loads, tab>> /\ a.at = "asked"
        /\ token' = a.token
    BY <1>3 DEF P!TakeToken
  <2>2. /\ b \in Act(c) /\ b.id = a.id /\ b.at = "sent" /\ b.v <= row.v
        /\ b.steady => b.token = {b.cookie}
    BY <1>1, <2>1 DEF Act, Stages, PageInv, PageTokens
  <2> HIDE DEF b
  <2> QED
    BY <1>1, <2>1, <2>2, PageBecomes
<1>4. CASE P(c)!Serve(a)
  <2> DEFINE answer == P(c)!AnswerTo(a)
             b == [a EXCEPT !.at = "answered", !.answer = answer, !.v = row'.v]
  <2>1. /\ P(c)!Becomes(a, b) /\ UNCHANGED <<page, session, token, loads>> /\ a.at = "sent"
        /\ row' = IF answer = "ok" THEN [v |-> row.v + 1, status |-> a.target] ELSE row
        /\ tab' = [tab EXCEPT !.wronged = @ \/ (answer = "forbidden" /\ a.alone /\ a.steady)]
    BY <1>4 DEF P!Serve
  <2>2. /\ answer \in {"ok", "conflict", "forbidden", "unauthenticated"}
        /\ answer = "forbidden" => a.token # {a.cookie}
    BY DEF P!AnswerTo
  <2> HIDE DEF answer
  <2>3. row' \in P(c)!Row /\ row'.v >= row.v /\ row'.v \in Nat
    BY <1>1, <2>1 DEF Act, P!Row
  <2>4. b \in Act(c) /\ b.id = a.id /\ b.at = "answered" /\ b.v <= row'.v
    <3> DEFINE v == row'.v
    <3>1. v \in Nat
      BY <2>3
    <3> HIDE DEF v
    <3>2. [a EXCEPT !.at = "answered", !.answer = answer, !.v = v] \in Act(c)
      BY <1>1, <2>2, <3>1 DEF Act, Stages
    <3>3. b = [a EXCEPT !.at = "answered", !.answer = answer, !.v = v]
      BY DEF v
    <3> HIDE DEF b
    <3> QED
      BY <1>1, <3>1, <3>2, <3>3 DEF Act, v
  <2>5. tab' = [tab EXCEPT !.wronged = FALSE]
    <3>1. ~(answer = "forbidden" /\ a.alone /\ a.steady) /\ ~tab.wronged
      BY <2>1, <2>2 DEF PageInv, PageTokens
    <3> QED
      BY <2>1, <3>1
  <2> HIDE DEF b
  <2>6. token' # {} => \E d \in (acts \ {a}) \cup {b} : d.at \in {"sent", "answered"}
    BY <2>4
  <2> QED
    BY <1>1, <2>1, <2>3, <2>4, <2>5, <2>6, PageBecomes
<1> QED
  BY <1>2, <1>3, <1>4

\* An action is given up, or over without a load.
LEMMA PageLoses ==
  ASSUME NEW c \in PageConfigs, PageInv(c), NEW a \in acts,
         a.at \notin {"confirming", "excusing"}, token' = {}, acts' = acts \ {a},
         UNCHANGED <<page, row, session, loads, tab>>
  PROVE  PageInv(c)'
<1> USE DEF PageInv
<1>1. PageTypes(c)'
  BY DEF PageTypes, Act, Token, Shown, IsLoad, P!Row, P!NoRow, P!Targets
<1>2. PageLinks' /\ PageTokens'
  BY DEF PageLinks, PageTokens
<1>3. PageShows(c)'
  <2>1. page \in {"finding", "alert"} => DetailShows(c)'
    BY DEF PageShows, DetailShows, PageLinks
  <2> QED
    BY <2>1 DEF PageShows, AccountShows, MonitoringShows
<1> QED
  BY <1>1, <1>2, <1>3

\* What others do.
LEMMA PageOthers ==
  ASSUME NEW c \in PageConfigs, PageInv(c),
         P(c)!Write \/ P(c)!SignIn \/ P(c)!SignOut \/ P(c)!Revoke
  PROVE  PageInv(c)'
<1> USE DEF PageInv
<1>1. CASE P(c)!Write
  <2>1. /\ row' \in P(c)!Row /\ row'.v = row.v + 1 /\ row.v \in Nat
        /\ tab' = [tab EXCEPT !.writes = @ + 1]
        /\ UNCHANGED <<page, session, token, acts, loads>>
    BY <1>1 DEF P!Write, P!Row, PageTypes, P!Targets
  <2>2. PageTypes(c)'
    BY <2>1 DEF PageTypes, Act, Token, Shown, IsLoad, P!Row, P!NoRow, P!Targets
  <2>3. \A a \in acts : a.v \in Nat
    BY DEF PageTypes, Act
  <2>4. /\ tab'.told = tab.told /\ tab'.shown = tab.shown /\ tab'.readError = tab.readError
        /\ tab'.calm = tab.calm /\ tab'.begun = tab.begun /\ tab'.wronged = tab.wronged
        /\ tab.told \in Nat
    BY <2>1 DEF PageTypes
  <2>5. PageLinks' /\ PageTokens'
    BY <2>1, <2>3, <2>4 DEF PageLinks, PageTokens
  <2>6. PageShows(c)'
    BY <2>1, <2>4 DEF PageShows, AccountShows, DetailShows, MonitoringShows, P!NoRow
  <2> QED
    BY <2>2, <2>5, <2>6
<1>2. CASE P(c)!SignIn \/ P(c)!SignOut
  <2> DEFINE U(a) == [a EXCEPT !.steady = FALSE]
  <2>1. acts' = {U(a) : a \in acts} /\ UNCHANGED <<page, row, token, loads, tab>>
    BY <1>2 DEF P!SignIn, P!SignOut, P!Unsteady
  <2>2. session' \in [cookie : 0..c.MaxSessions, live : SUBSET Nat, last : 1..c.MaxSessions]
    <3>1. CASE P(c)!SignIn
      <4>1. session.last + 1 \in 1..c.MaxSessions /\ session.live \cup {session.last + 1} \in SUBSET Nat
        BY <3>1, PageAssumption DEF P!SignIn, PageTypes
      <4>2. session' = [cookie |-> session.last + 1, live |-> session.live \cup {session.last + 1},
                        last |-> session.last + 1]
        BY <3>1 DEF P!SignIn
      <4> QED
        BY <4>1, <4>2, PageAssumption
    <3>2. CASE P(c)!SignOut
      <4>1. session.live \ {session.cookie} \in SUBSET Nat /\ 0 \in 0..c.MaxSessions
        BY PageAssumption DEF PageTypes
      <4>2. session' = [session EXCEPT !.cookie = 0, !.live = session.live \ {session.cookie}]
        BY <3>2 DEF P!SignOut
      <4> QED
        BY <4>1, <4>2 DEF PageTypes
    <3> QED
      BY <1>2, <3>1, <3>2
  <2>3. ASSUME NEW a \in acts
        PROVE  /\ U(a) \in Act(c) /\ U(a).id = a.id /\ U(a).at = a.at /\ U(a).v = a.v
               /\ ~U(a).steady
    BY ZenonT(60) DEF PageTypes, Act
  <2> HIDE DEF U
  <2>4. \A b \in acts' : \E a \in acts : b = U(a)
    BY <2>1
  <2>5. \A a \in acts : U(a) \in acts'
    BY <2>1
  <2>6. PageTypes(c)'
    BY <2>1, <2>2, <2>3, <2>4 DEF PageTypes, Act, Token, Shown, IsLoad, P!Row, P!NoRow, P!Targets
  <2>7. PageLinks'
    BY <2>1, <2>3, <2>4, <2>5 DEF PageLinks
  <2>8. PageTokens'
    BY <2>1, <2>3, <2>4, <2>5 DEF PageTokens
  <2>9. PageShows(c)'
    <3>1. page \in {"finding", "alert"} => DetailShows(c)'
      BY <2>1, <2>3, <2>4, <2>5 DEF PageShows, DetailShows, P!NoRow
    <3> QED
      BY <2>1, <2>3, <2>4, <3>1 DEF PageShows, AccountShows, MonitoringShows
  <2> QED
    BY <2>6, <2>7, <2>8, <2>9
<1>3. CASE P(c)!Revoke
  <2>1. /\ UNCHANGED <<page, row, token, acts, loads, tab>> /\ session'.cookie = session.cookie
        /\ session' \in [cookie : 0..c.MaxSessions, live : SUBSET Nat, last : 1..c.MaxSessions]
    BY <1>3 DEF P!Revoke, PageTypes
  <2>2. PageTypes(c)'
    BY <2>1 DEF PageTypes, Act, Token, Shown, IsLoad, P!Row, P!NoRow, P!Targets
  <2> QED
    BY <2>1, <2>2 DEF PageLinks, PageTokens, PageShows, AccountShows, DetailShows,
        MonitoringShows, P!NoRow
<1> QED
  BY <1>1, <1>2, <1>3

\* A load ends, and with it the action that has waited for it.
LEMMA PageLoadEnds ==
  ASSUME NEW c \in PageConfigs, PageInv(c), NEW l \in loads, loads' = loads \ {l},
         acts' = {a \in acts : a.id # l.by}, UNCHANGED <<page, row, session, token>>,
         tab' \in [shown : Shown(c), loading : BOOLEAN, readError : BOOLEAN, told : Nat, begun : Nat,
                   writes : Nat, gone : BOOLEAN, calm : BOOLEAN, wronged : BOOLEAN],
         tab'.begun = tab.begun, tab'.wronged = tab.wronged
  PROVE  PageTypes(c)' /\ PageLinks' /\ PageTokens'
<1> USE DEF PageInv
<1>1. PageTypes(c)'
  BY DEF PageTypes, Act, Token, Shown, IsLoad, P!Row, P!NoRow, P!Targets
<1>2. PageLinks'
  BY DEF PageLinks
<1>3. PageTokens'
  BY DEF PageTokens, PageLinks
<1> QED
  BY <1>1, <1>2, <1>3

LEMMA PageDelivers ==
  ASSUME NEW c \in PageConfigs, PageInv(c), NEW l \in loads, P(c)!Deliver(l)
  PROVE  PageInv(c)'
<1> DEFINE Tab == [shown : Shown(c), loading : BOOLEAN, readError : BOOLEAN, told : Nat, begun : Nat,
                   writes : Nat, gone : BOOLEAN, calm : BOOLEAN, wronged : BOOLEAN]
           t == [tab EXCEPT !.shown = l.row, !.loading = FALSE, !.readError = FALSE,
                            !.calm = l.alone]
<1>1. /\ l.read /\ loads' = loads \ {l} /\ acts' = {a \in acts : a.id # l.by}
      /\ UNCHANGED <<page, row, session, token>>
      /\ tab' = IF ~l.active THEN tab ELSE P(c)!Told(t, l)
  BY DEF P!Deliver, P!Listens
<1>2. /\ IsLoad(c, l) /\ tab \in Tab /\ t \in Tab /\ t.shown = l.row /\ ~t.readError
      /\ t.calm = l.alone /\ t.told = tab.told /\ t.begun = tab.begun /\ t.wronged = tab.wronged
      /\ t.gone = tab.gone /\ l.row.v \in Nat
  <2>1. IsLoad(c, l) /\ tab \in Tab
    BY DEF PageInv, PageTypes
  <2>2. l.row \in Shown(c) /\ l.alone \in BOOLEAN
    BY <2>1 DEF IsLoad
  <2>3. l.row.v \in Nat
    BY <2>2 DEF Shown, P!Row, P!NoRow
  <2> QED
    BY <2>1, <2>2, <2>3
<1> HIDE DEF t
\* What is told is no news to the row that is shown.
<1>3. CASE l.active
  <2> DEFINE told == tab'.told
  <2>1. /\ tab' \in Tab /\ tab'.begun = tab.begun /\ tab'.wronged = tab.wronged
        /\ tab'.shown = l.row /\ ~tab'.readError /\ tab'.calm = l.alone
        /\ tab'.told = tab.told \/ \E a \in acts : a.id = l.by /\ tab'.told = a.v
    <3>1. CASE \E a \in acts : a.id = l.by /\ P(c)!Confirms(a, l.row) /\ a.v > t.told
      <4>1. PICK a \in acts : a.id = l.by
        BY <3>1
      <4>2. (CHOOSE b \in acts : b.id = l.by) = a
        BY <4>1 DEF PageInv, PageLinks
      <4>3. tab' = [t EXCEPT !.told = a.v]
        BY <1>1, <1>3, <3>1, <4>2 DEF P!Told
      <4>4. a.v \in Nat
        BY DEF PageInv, PageTypes, Act
      <4> QED
        BY <1>2, <4>1, <4>3, <4>4
    <3>2. CASE ~ \E a \in acts : a.id = l.by /\ P(c)!Confirms(a, l.row) /\ a.v > t.told
      <4>1. tab' = t
        BY <1>1, <1>3, <3>2 DEF P!Told
      <4> QED
        BY <1>2, <4>1
    <3> QED
      BY <3>1, <3>2
  <2>2. \A a \in acts : a.id = l.by => l.row.v >= a.v /\ a.v <= row.v
    BY <1>1 DEF PageInv, PageShows, PageLinks
  <2>3. PageTypes(c)' /\ PageLinks' /\ PageTokens'
    BY <1>1, <2>1, PageLoadEnds
  <2>4. tab'.told <= row'.v
    BY <1>1, <2>1, <2>2 DEF PageInv, PageShows
  <2>5. page = "account" => AccountShows'
    <3>1. page = "account" => \A a \in acts : a.id # l.by
      BY DEF PageInv, PageShows, AccountShows, PageLinks
    <3> QED
      BY <1>1, <1>3, <2>1, <3>1 DEF PageInv, PageShows, AccountShows
  <2>6. page \in {"finding", "alert"} => DetailShows(c)'
    BY <1>1, <2>1, <2>2 DEF PageInv, PageShows, DetailShows
  <2>7. page = "monitoring" => MonitoringShows'
    BY <1>1, <2>1, <2>2 DEF PageInv, PageShows, MonitoringShows
  <2>8. \A m \in loads', a \in acts' : m.read /\ a.id = m.by => m.row.v >= a.v
    BY <1>1 DEF PageInv, PageShows
  <2> QED
    BY <1>1, <2>3, <2>4, <2>5, <2>6, <2>7, <2>8 DEF PageInv, PageShows
<1>4. CASE ~l.active
  <2>1. tab' = tab /\ page \notin {"finding", "alert"}
    BY <1>1, <1>4 DEF PageInv, PageShows, DetailShows
  <2>2. PageTypes(c)' /\ PageLinks' /\ PageTokens'
    BY <1>1, <1>2, <2>1, PageLoadEnds
  <2>3. PageShows(c)'
    BY <1>1, <1>4, <2>1 DEF PageInv, PageShows, AccountShows, MonitoringShows
  <2> QED
    BY <2>2, <2>3 DEF PageInv
<1> QED
  BY <1>3, <1>4

LEMMA PageFails ==
  ASSUME NEW c \in PageConfigs, PageInv(c), NEW l \in loads, P(c)!LoadFails(l)
  PROVE  PageInv(c)'
<1>1. /\ loads' = loads \ {l} /\ acts' = {a \in acts : a.id # l.by}
      /\ UNCHANGED <<page, row, session, token>>
      /\ tab' = IF ~l.active THEN tab
                ELSE [tab EXCEPT !.readError = TRUE, !.loading = FALSE,
                                 !.shown = IF page \in {"finding", "alert"} THEN P(c)!NoRow ELSE @]
  BY DEF P!LoadFails, P!Listens
<1>2. /\ tab' \in [shown : Shown(c), loading : BOOLEAN, readError : BOOLEAN, told : Nat, begun : Nat,
                   writes : Nat, gone : BOOLEAN, calm : BOOLEAN, wronged : BOOLEAN]
      /\ tab'.begun = tab.begun /\ tab'.wronged = tab.wronged /\ tab'.told = tab.told
      /\ tab'.calm = tab.calm /\ (l.active => tab'.readError) /\ (~l.active => tab' = tab)
      /\ tab'.shown = IF l.active /\ page \in {"finding", "alert"} THEN P(c)!NoRow ELSE tab.shown
  BY <1>1 DEF PageInv, PageTypes, Shown
<1>3. PageTypes(c)' /\ PageLinks' /\ PageTokens'
  BY <1>1, <1>2, PageLoadEnds
<1>4. PageShows(c)'
  <2>1. page \in {"finding", "alert"} => DetailShows(c)'
    BY <1>1, <1>2 DEF PageInv, PageShows, DetailShows
  <2>2. page = "account" => AccountShows'
    BY <1>1, <1>2 DEF PageInv, PageShows, AccountShows
  <2>3. page = "monitoring" => MonitoringShows'
    BY <1>1, <1>2 DEF PageInv, PageShows, MonitoringShows
  <2> QED
    BY <1>1, <1>2, <2>1, <2>2, <2>3 DEF PageInv, PageShows
<1> QED
  BY <1>3, <1>4 DEF PageInv

\* An answer either ends the action, or is followed by a load.
LEMMA PageAnswers ==
  ASSUME NEW c \in PageConfigs, PageInv(c), NEW a \in acts, P(c)!Answer(a)
  PROVE  PageInv(c)'
<1> DEFINE Tab == [shown : Shown(c), loading : BOOLEAN, readError : BOOLEAN, told : Nat, begun : Nat,
                   writes : Nat, gone : BOOLEAN, calm : BOOLEAN, wronged : BOOLEAN]
<1>1. a.at = "answered" /\ token' = {} /\ UNCHANGED <<page, row, session>>
  BY DEF P!Answer, P!TokenAfter
<1>2. /\ a \in Act(c) /\ a.id \in Nat /\ a.id > 0 /\ a.v \in Nat /\ a.v <= row.v /\ a.id <= tab.begun
      /\ \A l \in loads : l.by # a.id
  BY <1>1 DEF PageInv, PageTypes, PageLinks, Act
<1>3. CASE acts' = acts \ {a} /\ UNCHANGED <<loads, tab>>
  BY <1>1, <1>3, PageLoses
<1>4. CASE page = "account" /\ acts' = acts \ {a} /\ loads' = P(c)!Loading(0)
           /\ tab' = [P(c)!Started(tab) EXCEPT !.told = a.v]
  <2>1. /\ tab' \in Tab /\ tab'.begun = tab.begun /\ tab'.wronged = tab.wronged /\ tab'.told = a.v
    BY <1>2, <1>4 DEF PageInv, PageTypes, P!Started
  <2>2. /\ \A m \in loads' :
               /\ IsLoad(c, m)
               /\ \/ ~m.active /\ \E l \in loads : m.by = l.by /\ m.read = l.read /\ m.row = l.row
                  \/ m.by = 0 /\ ~m.read
        /\ \E m \in loads' : m.active
        /\ \A l \in loads : \E m \in loads' : m.by = l.by
    <3>1. 0 \in Nat
      OBVIOUS
    <3> QED
      BY <1>4, <3>1, PageLoads
  <2>3. PageTypes(c)'
    BY <1>1, <1>4, <2>1, <2>2
       DEF PageInv, PageTypes, Act, Token, Shown, IsLoad, P!Row, P!NoRow, P!Targets
  <2>4. PageLinks'
    BY <1>1, <1>4, <2>1, <2>2 DEF PageInv, PageTypes, PageLinks
  <2>5. PageTokens'
    BY <1>1, <1>4, <2>1 DEF PageInv, PageTokens
  <2>6. PageShows(c)'
    BY <1>1, <1>2, <1>4, <2>1, <2>2 DEF PageInv, PageShows, AccountShows
  <2> QED
    BY <2>3, <2>4, <2>5, <2>6 DEF PageInv
<1>5. ASSUME NEW at \in {"confirming", "excusing"}, page # "account",
             P(c)!Becomes(a, [a EXCEPT !.at = at]), loads' = P(c)!Loading(a.id),
             tab' = P(c)!Started(tab)
      PROVE  PageInv(c)'
  <2> DEFINE b == [a EXCEPT !.at = at]
  <2>1. /\ tab' \in Tab /\ tab'.begun = tab.begun /\ tab'.wronged = tab.wronged
        /\ tab'.told = tab.told /\ tab'.shown = tab.shown /\ tab'.calm = tab.calm
    BY <1>5 DEF PageInv, PageTypes, P!Started
  <2>2. /\ \A m \in loads' :
               /\ IsLoad(c, m) /\ m.active
               /\ \/ /\ ~m.alone
                     /\ \E l \in loads : m.by = l.by /\ m.read = l.read /\ m.row = l.row
                  \/ m.by = a.id /\ ~m.read /\ (m.alone <=> loads = {})
        /\ \E m \in loads' : m.by = a.id
        /\ \A l \in loads : \E m \in loads' : m.by = l.by
        /\ loads = {} => \A m, n \in loads' : m = n
    BY <1>2, <1>5, PageLoads
  <2>3. acts' = (acts \ {a}) \cup {b} /\ b \in Act(c) /\ b.id = a.id /\ b.at = at /\ b.v = a.v
    BY <1>2, <1>5 DEF P!Becomes, Act, Stages
  <2> HIDE DEF b
  <2>4. PageTypes(c)'
    BY <1>1, <2>1, <2>2, <2>3
       DEF PageInv, PageTypes, Act, Token, Shown, IsLoad, P!Row, P!NoRow, P!Targets
  <2>5. PageLinks'
    <3>1. \A d \in acts' : d.id > 0 /\ d.id <= tab'.begun /\ d.v <= row'.v
      BY <1>1, <1>2, <2>1, <2>3 DEF PageInv, PageLinks
    <3>2. \A d, e \in acts' : d.id = e.id => d = e
      BY <2>3 DEF PageInv, PageLinks
    <3>3. page' # "monitoring" => \A d, e \in acts' : d = e
      BY <1>1, <2>3 DEF PageInv, PageLinks
    <3>4. \A l \in loads' : l.by <= tab'.begun
      BY <1>2, <2>1, <2>2 DEF PageInv, PageLinks
    <3>5. \A l \in loads', d \in acts' : l.by = d.id => d.at \in {"confirming", "excusing"}
      BY <2>2, <2>3 DEF PageInv, PageLinks
    <3>6. \A d \in acts' : d.at \in {"confirming", "excusing"} => \E l \in loads' : l.by = d.id
      BY <2>2, <2>3 DEF PageInv, PageLinks
    <3> QED
      BY <3>1, <3>2, <3>3, <3>4, <3>5, <3>6 DEF PageLinks
  <2>6. PageTokens'
    BY <1>1, <2>1, <2>3 DEF PageInv, PageTokens
  <2>7. PageShows(c)'
    <3>1. \A m \in loads', d \in acts' : m.read /\ d.id = m.by => m.row.v >= d.v
      BY <1>2, <2>2, <2>3 DEF PageInv, PageShows
    <3>2. page \in {"finding", "alert"} => DetailShows(c)'
      <4>1. page \in {"finding", "alert"} => loads = {}
        BY <1>1, <1>2 DEF PageInv, PageShows, DetailShows, PageLinks
      <4> QED
        BY <1>2, <2>1, <2>2, <2>3, <4>1 DEF DetailShows
    <3>3. page = "monitoring" => MonitoringShows'
      BY <2>1, <2>2 DEF PageInv, PageShows, MonitoringShows
    <3> QED
      BY <1>1, <1>5, <2>1, <3>1, <3>2, <3>3 DEF PageInv, PageShows
  <2> QED
    BY <2>4, <2>5, <2>6, <2>7 DEF PageInv
<1> QED
  BY <1>3, <1>4, <1>5 DEF P!Answer

LEMMA PageStep ==
  ASSUME NEW c \in PageConfigs, PageInv(c), P(c)!Next
  PROVE  PageInv(c)'
<1>1. ASSUME NEW l \in loads, P(c)!ReadRow(l) \/ P(c)!LoadRefused(l) \/ P(c)!Deliver(l) \/ P(c)!LoadFails(l)
      PROVE  PageInv(c)'
  BY <1>1, PageReads, PageLeaves, PageDelivers, PageFails DEF P!LoadRefused
<1>2. ASSUME NEW a \in acts, P(c)!SentAway(a) \/ P(c)!Lose(a)
      PROVE  PageInv(c)'
  <2>1. CASE P(c)!Lose(a)
    BY <2>1, PageLoses DEF P!Lose, P!TokenAfter
  <2> QED
    BY <1>2, <2>1, PageLeaves DEF P!SentAway
<1> QED
  BY <1>1, <1>2, PageReloads, PageActs, PageCalls, PageAnswers, PageOthers DEF P!Next

LEMMA PageSafe ==
  ASSUME NEW c \in PageConfigs, PageInv(c)
  PROVE  P(c)!TypeOK /\ P(c)!TokensAreFresh /\ P(c)!ShowsWhatItTold
<1> USE DEF PageInv
<1>1. P(c)!TypeOK
  <2>1. token \in SUBSET (0..c.MaxSessions) /\ P(c)!Cardinality(token) <= 1
    <3>1. token = {} \/ \E x \in 0..c.MaxSessions : token = {x}
      BY DEF PageTypes, Token
    <3> QED
      BY <3>1, PageFew
  <2>2. page # "monitoring" => P(c)!Cardinality(acts) <= 1
    <3>1. page # "monitoring" => acts = {} \/ \E a : acts = {a}
      BY ZenonT(60) DEF PageLinks
    <3> QED
      BY <3>1, PageFew
  <2> QED
    BY <2>1, <2>2 DEF PageTypes, PageLinks, Shown, P!TypeOK
<1>2. P(c)!TokensAreFresh
  BY DEF PageTokens, P!TokensAreFresh
<1>3. P(c)!ShowsWhatItTold
  BY DEF PageTypes, PageShows, AccountShows, DetailShows, MonitoringShows, P!ShowsWhatItTold
<1> QED
  BY <1>1, <1>2, <1>3

LEMMA PageStutter ==
  ASSUME NEW c \in PageConfigs, PageInv(c), UNCHANGED vars
  PROVE  PageInv(c)'
BY DEF vars, pageVars, PageInv, PageTypes, PageLinks, PageTokens, PageShows, AccountShows,
    DetailShows, MonitoringShows, Act, Token, Shown, IsLoad, P!Row, P!NoRow, P!Targets

\* However many actions, loads, sessions and writes of others there are: no token
\* outlives its request, nobody is refused for a token he asked for alone, and a page
\* that has settled shows what it has reported as done.
THEOREM PagesAlwaysHonest == Spec => []PagesAreHonest
<1> DEFINE Inv == \A c \in PageConfigs : part = <<"page", c>> => PageInv(c)
<1>1. Init => Inv
  BY PartBegins, PageStarts
<1>2. Inv /\ [Next]_vars => Inv'
  <2> SUFFICES ASSUME Inv, [Next]_vars, NEW c \in PageConfigs, part = <<"page", c>>
               PROVE  PageInv(c)'
    BY PartStays
  <2> QED
    BY PartGoesOn, PageStep, PageStutter
<1>3. Inv => PagesAreHonest
  BY PageSafe DEF PagesAreHonest
<1> QED
  BY <1>1, <1>2, <1>3, PTL DEF Spec

(***************************************************************************)
(* The paged lists.                                                        *)
(***************************************************************************)
Named(c) == {"all"} \cup c.Filters

ListCall(c) ==
    [filter : Named(c), more : BOOLEAN, cursor : c.Rows \cup {0}, fresh : BOOLEAN, read : BOOLEAN,
     items : Seq(c.Rows), next : c.Rows \cup {0}, base : SUBSET c.Rows]

ListShown(c) ==
    [items : Seq(c.Rows), cursor : c.Rows \cup {0}, filter : Named(c),
     loading : BOOLEAN, loadingMore : BOOLEAN, error : {"none", "list", "more"},
     base : SUBSET c.Rows, clean : BOOLEAN]

ListTypes(c) ==
    /\ list \in {"alertEvidence", "findingEvidence", "acceptances"}
    /\ DOMAIN stored \subseteq c.Rows /\ IsFiniteSet(DOMAIN stored)
    /\ stored \in [DOMAIN stored -> L(c)!Row]
    /\ now \in 0..c.MaxTime
    /\ shown \in ListShown(c)
    /\ calls \subseteq ListCall(c)

\* What is shown or has been read is stored.
ListStored ==
    /\ \A i \in DOMAIN shown.items : shown.items[i] \in DOMAIN stored
    /\ shown.cursor \in DOMAIN stored \cup {0} /\ shown.base \subseteq DOMAIN stored
    /\ \A d \in calls :
          /\ \A i \in DOMAIN d.items : d.items[i] \in DOMAIN stored
          /\ d.cursor \in DOMAIN stored \cup {0} /\ d.next \in DOMAIN stored \cup {0}
          /\ d.base \subseteq DOMAIN stored

\* One call at a time for evidence, and nothing is overtaken.
ListAlone ==
    list # "acceptances" =>
        /\ \A d, e \in calls : d = e
        /\ \A d \in calls : /\ d.fresh
                            /\ IF d.more THEN shown.loadingMore /\ shown.error = "none"
                               ELSE shown.loading
        /\ shown.items # <<>> => shown.clean

Sorted(c, s) == \A i, j \in DOMAIN s : i < j => L(c)!Before(s[i], s[j])
EndsIn(s, next) == next # 0 => s # <<>> /\ next = s[Len(s)]
\* Down to its end s has every row of B.
Whole(c, s, next, B) ==
    \A r \in B : \/ \E i \in DOMAIN s : s[i] = r
                 \/ next # 0 /\ s # <<>> /\ L(c)!Before(s[Len(s)], r)
Matching(c, B, f) == \A r \in B : L(c)!Matches(stored[r], f)

\* What a call carries fits what it was made for and, if it is fresh, what is shown.
CallFits(c, d) ==
    /\ d.more <=> d.cursor # 0
    /\ Matching(c, d.base, d.filter) /\ (d.more => d.base = {})
    /\ d.read => Sorted(c, d.items) /\ EndsIn(d.items, d.next)
    /\ d.read /\ ~d.more => Whole(c, d.items, d.next, d.base)
    /\ d.read /\ d.more => \A i \in DOMAIN d.items : L(c)!Before(d.cursor, d.items[i])
    /\ d.fresh => d.filter = shown.filter
    /\ d.fresh /\ d.more =>
          /\ shown.clean /\ d.cursor = shown.cursor /\ Matching(c, shown.base, shown.filter)
          /\ d.read => Whole(c, d.items, d.next, {r \in shown.base : L(c)!Before(d.cursor, r)})

ListFits(c) ==
    /\ \A d \in calls : CallFits(c, d)
    /\ EndsIn(shown.items, shown.cursor)
    /\ shown.clean => /\ Sorted(c, shown.items)
                      /\ Whole(c, shown.items, shown.cursor, shown.base)
    /\ shown.clean /\ ~shown.loading /\ shown.error # "list" =>
          Matching(c, shown.base, shown.filter)

ListInv(c) == ListTypes(c) /\ ListStored /\ ListAlone /\ ListFits(c)

LEMMA ListCardinality ==
  ASSUME NEW c, NEW S PROVE L(c)!Cardinality(S) = Cardinality(S)
BY DEF L!Cardinality, Cardinality

\* The ranks of a finite set under a strict total order R are 1 up to its cardinality.
Rank(S, R, r) == Cardinality({x \in S : x = r \/ <<x, r>> \in R})

LEMMA Ranks ==
  ASSUME NEW S, IsFiniteSet(S), NEW R,
         \A a \in S : <<a, a>> \notin R,
         \A a, b, d \in S : <<a, b>> \in R /\ <<b, d>> \in R => <<a, d>> \in R,
         \A a, b \in S : a = b \/ <<a, b>> \in R \/ <<b, a>> \in R
  PROVE  /\ Cardinality(S) \in Nat
         /\ \A a \in S : Rank(S, R, a) \in 1..Cardinality(S)
         /\ \A a, b \in S : <<a, b>> \in R <=> Rank(S, R, a) < Rank(S, R, b)
         /\ \A i \in 1..Cardinality(S) : \E a \in S : Rank(S, R, a) = i
<1> DEFINE n == Cardinality(S)
           To(r) == {x \in S : x = r \/ <<x, r>> \in R}
<1>1. n \in Nat
  BY FS_CardinalityType
<1>2. \A a \in S : IsFiniteSet(To(a)) /\ Cardinality(To(a)) \in 1..n
  <2> TAKE a \in S
  <2>1. IsFiniteSet(To(a)) /\ Cardinality(To(a)) <= n
    BY FS_Subset
  <2>2. Cardinality(To(a)) \in Nat
    BY <2>1, FS_CardinalityType
  <2>3. Cardinality(To(a)) # 0
    <3>1. a \in To(a)
      OBVIOUS
    <3> HIDE DEF To
    <3> QED
      BY <2>1, <3>1, FS_EmptySet
  <2> QED
    BY <1>1, <2>1, <2>2, <2>3
<1>3. \A a, b \in S : <<a, b>> \in R => Cardinality(To(a)) < Cardinality(To(b))
  <2> SUFFICES ASSUME NEW a \in S, NEW b \in S, <<a, b>> \in R
               PROVE  Cardinality(To(a)) < Cardinality(To(b))
    OBVIOUS
  <2>1. To(a) \subseteq To(b) /\ b \in To(b) /\ b \notin To(a)
    OBVIOUS
  <2>2. Cardinality(To(a)) <= Cardinality(To(b))
        /\ (Cardinality(To(b)) = Cardinality(To(a)) => To(b) = To(a))
    <3> HIDE DEF To
    <3> QED
      BY <1>2, <2>1, FS_Subset
  <2> HIDE DEF To
  <2> QED
    BY <1>1, <1>2, <2>1, <2>2
<1> HIDE DEF To, n
<1>4. \A a, b \in S : <<a, b>> \in R <=> Cardinality(To(a)) < Cardinality(To(b))
  <2> TAKE a, b \in S
  <2>1. Cardinality(To(a)) \in Nat /\ Cardinality(To(b)) \in Nat
    BY <1>1, <1>2
  <2>2. <<a, b>> \in R => Cardinality(To(a)) < Cardinality(To(b))
    BY <1>3
  <2>3. <<b, a>> \in R => Cardinality(To(b)) < Cardinality(To(a))
    BY <1>3
  <2>4. a = b \/ <<a, b>> \in R \/ <<b, a>> \in R
    OBVIOUS
  <2>5. a = b => Cardinality(To(a)) = Cardinality(To(b))
    OBVIOUS
  <2> QED
    BY <2>1, <2>2, <2>3, <2>4, <2>5
<1> DEFINE f == [a \in S |-> Cardinality(To(a))]
<1>5. f \in [S -> 1..n] /\ \A a, b \in S : f[a] = f[b] => a = b
  <2>1. \A a \in S : f[a] = Cardinality(To(a))
    OBVIOUS
  <2>2. f \in [S -> 1..n]
    BY <1>2
  <2>3. \A a, b \in S : f[a] = f[b] => a = b
    <3> HIDE DEF f
    <3> TAKE a, b \in S
    <3> HAVE f[a] = f[b]
    <3>1. Cardinality(To(a)) = Cardinality(To(b)) /\ Cardinality(To(a)) \in Nat
      BY <1>1, <1>2, <2>1
    <3>2. ~(<<a, b>> \in R) /\ ~(<<b, a>> \in R)
      BY <1>4, <3>1
    <3> QED
      BY <3>2
  <2> QED
    BY <2>2, <2>3
<1> HIDE DEF f
<1>6. \A i \in 1..n : \E a \in S : f[a] = i
  <2>1. f \in Injection(S, 1..n)
    BY <1>5 DEF Injection, IsInjective
  <2>2. IsFiniteSet(1..n) /\ Cardinality(1..n) = n
    BY <1>1, FS_Interval
  <2>3. Cardinality(S) = Cardinality(1..n)
    BY <2>2 DEF n
  <2>4. f \in Surjection(S, 1..n)
    BY <2>1, <2>2, <2>3, FS_Injection
  <2> QED
    BY <2>4 DEF Surjection
<1> QED
  BY <1>1, <1>2, <1>4, <1>6 DEF Rank, To, n, f

\* The rows are in a strict order, which says nothing but where and when they are.
LEMMA ListOrder ==
  ASSUME NEW c \in ListConfigs, ListTypes(c)
  PROVE  /\ \A a, b \in DOMAIN stored : stored[a].at \in Nat /\ a \in Nat
         /\ \A a \in DOMAIN stored : ~L(c)!Before(a, a)
         /\ \A a, b, d \in DOMAIN stored :
               L(c)!Before(a, b) /\ L(c)!Before(b, d) => L(c)!Before(a, d)
         /\ \A a, b \in DOMAIN stored : a = b \/ L(c)!Before(a, b) \/ L(c)!Before(b, a)
<1>1. \A a \in DOMAIN stored : stored[a].at \in Nat /\ a \in Nat
  <2> TAKE a \in DOMAIN stored
  <2>1. stored[a] \in L(c)!Row
    BY DEF ListTypes
  <2>2. stored[a].at \in 0..c.MaxTime /\ c.MaxTime \in Nat
    BY <2>1, ListAssumption DEF L!Row
  <2>3. a \in Nat
    BY ListAssumption DEF ListTypes
  <2> QED
    BY <2>2, <2>3
<1> QED
  BY <1>1 DEF L!Before

\* A page is in order and without gaps; there is more just when a cursor says so, and
\* the cursor is its last row.
LEMMA ListPlace ==
  ASSUME NEW c \in ListConfigs, ListTypes(c), NEW S \in SUBSET DOMAIN stored
  PROVE  /\ L(c)!Cardinality(S) \in Nat
         /\ \A a \in S : L(c)!Place(S, a) \in 1..L(c)!Cardinality(S)
         /\ \A a, b \in S : L(c)!Before(a, b) <=> L(c)!Place(S, a) < L(c)!Place(S, b)
         /\ \A i \in 1..L(c)!Cardinality(S) :
               L(c)!At(S, i) \in S /\ L(c)!Place(S, L(c)!At(S, i)) = i
<1> DEFINE R == {p \in S \X S : L(c)!Before(p[1], p[2])}
<1>1. IsFiniteSet(S)
  BY FS_Subset DEF ListTypes
<1>2. \A a, b \in S : <<a, b>> \in R <=> L(c)!Before(a, b)
  OBVIOUS
<1>3. \A a \in S : L(c)!Place(S, a) = Rank(S, R, a)
  <2> TAKE a \in S
  <2>1. {x \in S : x = a \/ L(c)!Before(x, a)} = {x \in S : x = a \/ <<x, a>> \in R}
    BY <1>2
  <2> QED
    BY <2>1, ListCardinality DEF L!Place, Rank
<1> HIDE DEF R
<1>4. /\ \A a \in S : <<a, a>> \notin R
      /\ \A a, b, d \in S : <<a, b>> \in R /\ <<b, d>> \in R => <<a, d>> \in R
      /\ \A a, b \in S : a = b \/ <<a, b>> \in R \/ <<b, a>> \in R
  BY <1>2, ListOrder
<1>5. /\ Cardinality(S) \in Nat
      /\ \A a \in S : Rank(S, R, a) \in 1..Cardinality(S)
      /\ \A a, b \in S : <<a, b>> \in R <=> Rank(S, R, a) < Rank(S, R, b)
      /\ \A i \in 1..Cardinality(S) : \E a \in S : Rank(S, R, a) = i
  BY <1>1, <1>4, Ranks
<1>6. \A i \in 1..Cardinality(S) : L(c)!At(S, i) \in S /\ L(c)!Place(S, L(c)!At(S, i)) = i
  <2> TAKE i \in 1..Cardinality(S)
  <2>1. \E a \in S : L(c)!Place(S, a) = i
    BY <1>3, <1>5
  <2> QED
    BY <2>1 DEF L!At
<1> QED
  BY <1>2, <1>3, <1>5, <1>6, ListCardinality

LEMMA ListPage ==
  ASSUME NEW c \in ListConfigs, ListTypes(c), NEW S \in SUBSET DOMAIN stored
  PROVE  /\ L(c)!Page(S) \in Seq(c.Rows) /\ \A i \in DOMAIN L(c)!Page(S) : L(c)!Page(S)[i] \in S
         /\ L(c)!CursorOf(S) \in S \cup {0}
         /\ Sorted(c, L(c)!Page(S)) /\ EndsIn(L(c)!Page(S), L(c)!CursorOf(S))
         /\ Whole(c, L(c)!Page(S), L(c)!CursorOf(S), S)
<1> DEFINE n == L(c)!Cardinality(S)
           m == IF n > c.Limit THEN c.Limit ELSE n
           s == L(c)!Page(S)
           next == L(c)!CursorOf(S)
<1>1. /\ n \in Nat
      /\ \A a \in S : L(c)!Place(S, a) \in 1..n
      /\ \A a, b \in S : L(c)!Before(a, b) <=> L(c)!Place(S, a) < L(c)!Place(S, b)
      /\ \A i \in 1..n : L(c)!At(S, i) \in S /\ L(c)!Place(S, L(c)!At(S, i)) = i
  BY ListPlace
<1>2. s = [i \in 1..m |-> L(c)!At(S, i)]
  BY DEF L!Page
<1>3. next = IF n > c.Limit THEN L(c)!At(S, c.Limit) ELSE 0
  BY DEF L!CursorOf
<1>4. S \subseteq c.Rows /\ 0 \notin S
  BY ListAssumption DEF ListTypes
<1> HIDE DEF n, s, next
<1>5. /\ m \in 0..n /\ c.Limit \in Nat \ {0}
      /\ n > c.Limit => m = c.Limit
      /\ ~(n > c.Limit) => m = n
  BY <1>1, ListAssumption
<1> HIDE DEF m
<1>6. DOMAIN s = 1..m /\ \A i \in 1..m : s[i] = L(c)!At(S, i) /\ s[i] \in S /\ L(c)!Place(S, s[i]) = i
  BY <1>1, <1>2, <1>5
<1>7. s \in Seq(c.Rows) /\ Len(s) = m
  <2>1. s \in [1..m -> c.Rows]
    BY <1>2, <1>4, <1>6
  <2> QED
    BY <1>5, <1>6, <2>1
<1>8. Sorted(c, s)
  BY <1>1, <1>6 DEF Sorted
<1>9. n > c.Limit => m \in 1..m /\ next = s[m] /\ next \in S /\ next # 0
  BY <1>1, <1>3, <1>4, <1>5, <1>6
<1>10. EndsIn(s, next) /\ next \in S \cup {0}
  BY <1>3, <1>5, <1>6, <1>7, <1>9 DEF EndsIn
<1>11. Whole(c, s, next, S)
  <2> SUFFICES ASSUME NEW r \in S
               PROVE  \/ \E i \in DOMAIN s : s[i] = r
                      \/ next # 0 /\ s # <<>> /\ L(c)!Before(s[Len(s)], r)
    BY DEF Whole
  <2> DEFINE k == L(c)!Place(S, r)
  <2>1. k \in 1..n
    BY <1>1
  <2>2. CASE k <= m
    <3>1. k \in DOMAIN s /\ s[k] \in S /\ L(c)!Place(S, s[k]) = k
      BY <1>6, <2>1, <2>2
    <3>2. ~L(c)!Before(s[k], r) /\ ~L(c)!Before(r, s[k])
      BY <1>1, <2>1, <3>1
    <3>3. s[k] = r
      BY <1>4, <3>1, <3>2, ListOrder
    <3> QED
      BY <3>1, <3>3
  <2>3. CASE ~(k <= m)
    <3>1. n > c.Limit
      BY <1>1, <1>5, <2>1, <2>3
    <3>2. s[m] \in S /\ L(c)!Place(S, s[m]) = m /\ m \in Nat
      BY <1>5, <1>6, <1>9, <3>1
    <3>3. L(c)!Before(s[m], r)
      BY <1>1, <1>5, <2>1, <2>3, <3>2
    <3>4. s # <<>>
      BY <1>5, <1>6, <1>7, <1>9, <3>1
    <3> QED
      BY <1>7, <1>9, <3>1, <3>3, <3>4
  <2> QED
    BY <2>2, <2>3
<1> QED
  BY <1>4, <1>6, <1>7, <1>8, <1>10, <1>11 DEF s, next

LEMMA ListStarts ==
  ASSUME NEW c \in ListConfigs, L(c)!Init
  PROVE  ListInv(c)
<1> USE ListAssumption
<1>1. /\ list \in c.Lists /\ stored = <<>> /\ now = 0
      /\ calls = {[filter |-> "all", more |-> FALSE, cursor |-> 0, fresh |-> TRUE,
                   read |-> FALSE, items |-> <<>>, next |-> 0, base |-> {}]}
      /\ shown = [items |-> <<>>, cursor |-> 0, filter |-> "all", loading |-> TRUE,
                  loadingMore |-> FALSE, error |-> "none", base |-> {}, clean |-> FALSE]
  BY DEF L!Init, L!Call
<1>2. DOMAIN stored = {} /\ IsFiniteSet(DOMAIN stored) /\ <<>> \in Seq(c.Rows)
  BY <1>1, FS_EmptySet
<1>3. ListTypes(c)
  BY <1>1, <1>2 DEF ListTypes, ListCall, ListShown, Named
<1>4. ListStored /\ ListAlone
  BY <1>1 DEF ListStored, ListAlone
<1>5. ListFits(c)
  BY <1>1 DEF ListFits, CallFits, EndsIn, Matching
<1> QED
  BY <1>3, <1>4, <1>5 DEF ListInv

\* What is said of a call is said of the rows and of what is shown.
LEMMA ListSame ==
  ASSUME NEW c \in ListConfigs, UNCHANGED <<stored, shown>>, NEW d, CallFits(c, d)
  PROVE  CallFits(c, d)'
BY DEF CallFits, Matching, Sorted, EndsIn, Whole, L!Before, L!Matches

LEMMA ListServes ==
  ASSUME NEW c \in ListConfigs, ListInv(c), NEW d \in calls, L(c)!Serve(d)
  PROVE  ListInv(c)'
<1> DEFINE S == L(c)!Selected(d)
           base == IF d.more THEN {} ELSE S
           e == [d EXCEPT !.read = TRUE, !.items = L(c)!Page(S), !.next = L(c)!CursorOf(S),
                          !.base = base]
<1> USE DEF ListInv
<1>1. ~d.read /\ calls' = (calls \ {d}) \cup {e} /\ UNCHANGED <<list, stored, now, shown>>
  BY DEF L!Serve
<1>2. S \subseteq DOMAIN stored
  BY DEF L!Selected, L!There
<1>3. /\ L(c)!Page(S) \in Seq(c.Rows) /\ \A i \in DOMAIN L(c)!Page(S) : L(c)!Page(S)[i] \in S
      /\ L(c)!CursorOf(S) \in S \cup {0}
      /\ Sorted(c, L(c)!Page(S)) /\ EndsIn(L(c)!Page(S), L(c)!CursorOf(S))
      /\ Whole(c, L(c)!Page(S), L(c)!CursorOf(S), S)
  BY <1>2, ListPage
<1>4. d \in ListCall(c) /\ DOMAIN stored \subseteq c.Rows
  BY DEF ListTypes
<1>5. base \subseteq S
  OBVIOUS
<1>6. /\ e.read /\ e.items = L(c)!Page(S) /\ e.next = L(c)!CursorOf(S) /\ e.base = base
      /\ e.filter = d.filter /\ e.more = d.more /\ e.cursor = d.cursor /\ e.fresh = d.fresh
      /\ e \in ListCall(c)
  <2> HIDE DEF S, base
  <2> QED
    BY <1>2, <1>3, <1>4, <1>5 DEF ListCall
<1> HIDE DEF e
<1>7. CallFits(c, e)
  <2>1. CallFits(c, d)
    BY DEF ListFits
  <2>2. /\ e.more <=> e.cursor # 0
        /\ Matching(c, e.base, e.filter) /\ (e.more => e.base = {})
    BY <1>6, <2>1 DEF CallFits, Matching, L!Selected
  <2>3. e.read => Sorted(c, e.items) /\ EndsIn(e.items, e.next)
    BY <1>3, <1>6
  <2>4. e.read /\ ~e.more => Whole(c, e.items, e.next, e.base)
    BY <1>3, <1>6
  <2>5. e.read /\ e.more => \A i \in DOMAIN e.items : L(c)!Before(e.cursor, e.items[i])
    BY <1>3, <1>6, <2>1 DEF CallFits, L!Selected
  <2>6. e.fresh => e.filter = shown.filter
    BY <1>6, <2>1 DEF CallFits
  <2>7. e.fresh /\ e.more =>
          /\ shown.clean /\ e.cursor = shown.cursor /\ Matching(c, shown.base, shown.filter)
          /\ e.read => Whole(c, e.items, e.next, {r \in shown.base : L(c)!Before(e.cursor, r)})
    <3> HAVE e.fresh /\ e.more
    <3>1. /\ shown.clean /\ e.cursor = shown.cursor /\ Matching(c, shown.base, shown.filter)
          /\ d.cursor # 0 /\ d.filter = shown.filter
      BY <1>6, <2>1 DEF CallFits
    <3>2. {r \in shown.base : L(c)!Before(e.cursor, r)} \subseteq S
      BY <1>6, <3>1 DEF Matching, L!Selected, L!There, ListStored
    <3> QED
      BY <1>3, <1>6, <3>1, <3>2 DEF Whole
  <2> QED
    BY <2>2, <2>3, <2>4, <2>5, <2>6, <2>7 DEF CallFits
<1>8. ListTypes(c)'
  BY <1>1, <1>6 DEF ListTypes, ListCall, ListShown, L!Row, Named
<1>9. ListStored'
  BY <1>1, <1>2, <1>3, <1>5, <1>6 DEF ListStored
<1>10. ListAlone'
  BY <1>1, <1>6 DEF ListAlone
<1>11. ListFits(c)'
  <2>1. \A x \in calls' : CallFits(c, x)'
    BY <1>1, <1>7, ListSame DEF ListFits
  <2> QED
    BY <1>1, <2>1 DEF ListFits, Matching, Sorted, EndsIn, Whole, L!Before, L!Matches
<1> QED
  BY <1>8, <1>9, <1>10, <1>11

\* A load overtakes the calls under way and shows nothing that was not shown.
LEMMA ListLoads ==
  ASSUME NEW c \in ListConfigs, ListInv(c), NEW f \in Named(c), L(c)!Load(f),
         list # "acceptances" => calls = {} /\ f = shown.filter
  PROVE  ListInv(c)'
<1> DEFINE new == L(c)!Call(f, FALSE, 0)
           s == IF list = "alertEvidence"
                THEN [shown EXCEPT !.items = <<>>, !.cursor = 0, !.loading = TRUE,
                                   !.loadingMore = FALSE, !.error = "none", !.clean = FALSE]
                ELSE [shown EXCEPT !.filter = f, !.loading = TRUE, !.error = "none"]
<1> USE DEF ListInv
<1>1. /\ calls' = L(c)!Overtaken(calls) \cup {new} /\ UNCHANGED <<list, stored, now>>
      /\ shown' = s
  BY DEF L!Load
<1>2. /\ shown'.filter = f /\ shown'.loading
      /\ shown'.base = shown.base
      /\ IF list = "alertEvidence" THEN shown'.items = <<>> /\ shown'.cursor = 0 /\ ~shown'.clean
         ELSE shown'.items = shown.items /\ shown'.cursor = shown.cursor /\ shown'.clean = shown.clean
      /\ shown' \in ListShown(c)
  <2>1. shown \in ListShown(c)
    BY DEF ListTypes
  <2>2. CASE list = "alertEvidence"
    <3>1. <<>> \in Seq(c.Rows)
      OBVIOUS
    <3> QED
      BY <1>1, <2>1, <2>2, <3>1 DEF ListShown
  <2>3. CASE list # "alertEvidence"
    BY <1>1, <2>1, <2>3 DEF ListShown
  <2> QED
    BY <2>2, <2>3
<1>3. /\ new \in ListCall(c) /\ new.filter = f /\ ~new.more /\ new.cursor = 0 /\ new.fresh /\ ~new.read
      /\ new.items = <<>> /\ new.next = 0 /\ new.base = {}
  BY DEF L!Call, ListCall
<1>4. \A x \in L(c)!Overtaken(calls) : \E d \in calls :
         /\ x \in ListCall(c) /\ ~x.fresh /\ x.filter = d.filter /\ x.more = d.more
         /\ x.cursor = d.cursor /\ x.read = d.read /\ x.items = d.items /\ x.next = d.next
         /\ x.base = d.base
  <2> TAKE x \in L(c)!Overtaken(calls)
  <2>1. PICK d \in calls : x = [d EXCEPT !.fresh = FALSE]
    BY DEF L!Overtaken
  <2>2. d \in ListCall(c)
    BY DEF ListTypes
  <2> WITNESS d \in calls
  <2> QED
    BY <2>1, <2>2 DEF ListCall
<1> HIDE DEF new, s
<1>5. ListTypes(c)'
  BY <1>1, <1>2, <1>3, <1>4 DEF ListTypes, ListCall, ListShown, L!Row, Named
<1>6. ListStored'
  BY <1>1, <1>2, <1>3, <1>4 DEF ListStored
<1>7. ListAlone'
  <2>1. list # "acceptances" => calls' = {new}
    BY <1>1 DEF L!Overtaken
  <2> QED
    BY <1>1, <1>2, <1>3, <2>1 DEF ListAlone
<1>8. ListFits(c)'
  <2>1. CallFits(c, new)'
    BY <1>1, <1>2, <1>3 DEF CallFits, Matching
  <2>2. ASSUME NEW x \in L(c)!Overtaken(calls) PROVE CallFits(c, x)'
    <3>1. PICK d \in calls :
             /\ x \in ListCall(c) /\ ~x.fresh /\ x.filter = d.filter /\ x.more = d.more
             /\ x.cursor = d.cursor /\ x.read = d.read /\ x.items = d.items /\ x.next = d.next
             /\ x.base = d.base
      BY <1>4
    <3>2. CallFits(c, d)
      BY DEF ListFits
    <3> QED
      BY <1>1, <3>1, <3>2 DEF CallFits, Matching, Sorted, EndsIn, Whole, L!Before, L!Matches
  <2>3. EndsIn(shown'.items, shown'.cursor)
    BY <1>2 DEF EndsIn, ListFits
  <2>4. shown'.clean => Sorted(c, shown.items)' /\ Whole(c, shown.items, shown.cursor, shown.base)'
    <3>1. shown'.clean => shown'.items = shown.items /\ shown'.cursor = shown.cursor /\ shown.clean
      BY <1>2
    <3> QED
      BY <1>1, <1>2, <3>1 DEF ListFits, Sorted, Whole, L!Before
  <2> QED
    BY <1>1, <1>2, <2>1, <2>2, <2>3, <2>4 DEF ListFits, Sorted, Whole, EndsIn, L!Before
<1> QED
  BY <1>5, <1>6, <1>7, <1>8

LEMMA ListRetries ==
  ASSUME NEW c \in ListConfigs, ListInv(c),
         L(c)!Retry \/ \E f \in c.Filters : L(c)!ChooseFilter(f)
  PROVE  ListInv(c)'
<1>1. CASE L(c)!Retry
  <2>1. shown.error = "list" /\ ~shown.loading /\ L(c)!Load(shown.filter)
    BY <1>1 DEF L!Retry
  <2>2. list # "acceptances" => calls = {}
    BY <2>1 DEF ListInv, ListAlone
  <2>3. shown.filter \in Named(c)
    BY DEF ListInv, ListTypes, ListShown
  <2> QED
    BY <2>1, <2>2, <2>3, ListLoads
<1>2. ASSUME NEW f \in c.Filters, L(c)!ChooseFilter(f) PROVE ListInv(c)'
  BY <1>2, ListLoads DEF L!ChooseFilter, Named
<1> QED
  BY <1>1, <1>2

LEMMA ListLoadsMore ==
  ASSUME NEW c \in ListConfigs, ListInv(c), L(c)!LoadMore
  PROVE  ListInv(c)'
<1> DEFINE new == [L(c)!Call(shown.filter, TRUE, shown.cursor) EXCEPT !.fresh = shown.clean]
<1> USE DEF ListInv
<1>1. /\ ~shown.loading /\ ~shown.loadingMore /\ shown.error # "list"
      /\ shown.items # <<>> /\ shown.cursor # 0
      /\ calls' = calls \cup {new} /\ UNCHANGED <<list, stored, now>>
      /\ shown' = [shown EXCEPT !.loadingMore = TRUE, !.error = "none"]
  BY DEF L!LoadMore
<1>2. /\ shown'.filter = shown.filter /\ shown'.loading = shown.loading /\ shown'.base = shown.base
      /\ shown'.items = shown.items /\ shown'.cursor = shown.cursor /\ shown'.clean = shown.clean
      /\ shown'.loadingMore /\ shown'.error = "none"
      /\ shown' \in ListShown(c)
  BY <1>1 DEF ListTypes, ListShown
<1>3. /\ new \in ListCall(c) /\ new.filter = shown.filter /\ new.more /\ new.cursor = shown.cursor
      /\ new.fresh = shown.clean /\ ~new.read
      /\ new.items = <<>> /\ new.next = 0 /\ new.base = {}
  <2>1. shown.filter \in Named(c) /\ shown.cursor \in c.Rows \cup {0} /\ shown.clean \in BOOLEAN
    BY DEF ListTypes, ListShown
  <2>2. new = [filter |-> shown.filter, more |-> TRUE, cursor |-> shown.cursor, fresh |-> shown.clean,
               read |-> FALSE, items |-> <<>>, next |-> 0, base |-> {}]
    <3> DEFINE old == [filter |-> shown.filter, more |-> TRUE, cursor |-> shown.cursor, fresh |-> TRUE,
                       read |-> FALSE, items |-> <<>>, next |-> 0, base |-> {}]
    <3>1. new = [old EXCEPT !.fresh = shown.clean]
      BY DEF L!Call
    <3> HIDE DEF new
    <3> QED
      BY <3>1
  <2>3. <<>> \in Seq(c.Rows)
    OBVIOUS
  <2> HIDE DEF new
  <2> QED
    BY <1>1, <2>1, <2>2, <2>3 DEF ListCall
<1> HIDE DEF new
<1>4. ListTypes(c)'
  BY <1>1, <1>2, <1>3 DEF ListTypes, ListCall, ListShown, L!Row, Named
<1>5. ListStored'
  BY <1>1, <1>2, <1>3 DEF ListStored
<1>6. ListAlone'
  <2>1. list # "acceptances" => calls = {} /\ shown.clean
    BY <1>1 DEF ListAlone
  <2> QED
    BY <1>1, <1>2, <1>3, <2>1 DEF ListAlone
<1>7. ListFits(c)'
  <2>1. ASSUME NEW d, d = new PROVE CallFits(c, d)'
    <3>1. /\ ~d.read /\ d.base = {} /\ d.more /\ d.cursor # 0 /\ d.cursor = shown.cursor
          /\ d.fresh = shown.clean /\ d.filter = shown.filter
      BY <1>1, <1>3, <2>1
    <3>2. Matching(c, d.base, d.filter)'
      BY <3>1 DEF Matching
    <3>3. d.fresh =>
             /\ shown'.clean /\ d.cursor = shown'.cursor /\ d.filter = shown'.filter
             /\ Matching(c, shown.base, shown.filter)'
      BY <1>1, <1>2, <3>1 DEF ListFits, Matching, L!Matches
    <3> QED
      BY <3>1, <3>2, <3>3 DEF CallFits
  <2>2. ASSUME NEW d \in calls PROVE CallFits(c, d)'
    <3>1. CallFits(c, d)
      BY DEF ListFits
    <3> QED
      BY <1>1, <1>2, <3>1 DEF CallFits, Matching, Sorted, EndsIn, Whole, L!Before, L!Matches
  <2>3. shown'.clean /\ ~shown'.loading => Matching(c, shown.base, shown.filter)'
    BY <1>1, <1>2 DEF ListFits, Matching, L!Matches
  <2> QED
    BY <1>1, <1>2, <2>1, <2>2, <2>3 DEF ListFits, Sorted, Whole, EndsIn, L!Before
<1> QED
  BY <1>4, <1>5, <1>6, <1>7

\* The flags that the end of a call clears, and nothing else.
LEMMA ListSettles ==
  ASSUME NEW c, NEW d, NEW s \in ListShown(c)
  PROVE  LET t == L(c)!Settle(d, s)
         IN  /\ t \in ListShown(c)
             /\ t.items = s.items /\ t.cursor = s.cursor /\ t.filter = s.filter /\ t.error = s.error
             /\ t.base = s.base /\ t.clean = s.clean
             /\ t.loading = IF list = "alertEvidence" /\ d.more THEN s.loading ELSE FALSE
<1>1. s.loading \in BOOLEAN /\ s.loadingMore \in BOOLEAN
  BY DEF ListShown
<1> DEFINE a == IF list = "alertEvidence" /\ d.more THEN s.loading ELSE FALSE
           b == IF list = "alertEvidence" /\ ~d.more THEN s.loadingMore ELSE FALSE
<1>2. a \in BOOLEAN /\ b \in BOOLEAN
  BY <1>1
<1>3. L(c)!Settle(d, s) = [s EXCEPT !.loading = a, !.loadingMore = b]
  BY DEF L!Settle
<1>4. a = IF list = "alertEvidence" /\ d.more THEN s.loading ELSE FALSE
  OBVIOUS
<1> HIDE DEF a, b
<1>5. [s EXCEPT !.loading = a, !.loadingMore = b] \in ListShown(c)
  BY <1>2 DEF ListShown
<1>6. LET t == [s EXCEPT !.loading = a, !.loadingMore = b]
      IN  /\ t.items = s.items /\ t.cursor = s.cursor /\ t.filter = s.filter /\ t.error = s.error
          /\ t.base = s.base /\ t.clean = s.clean /\ t.loading = a
  BY DEF ListShown
<1> QED
  BY <1>3, <1>4, <1>5, <1>6

LEMMA ListFails ==
  ASSUME NEW c \in ListConfigs, ListInv(c), NEW d \in calls, L(c)!Fail(d)
  PROVE  ListInv(c)'
<1> DEFINE s == [shown EXCEPT !.error = IF list = "alertEvidence" /\ d.more THEN "more" ELSE "list"]
<1> USE DEF ListInv
<1>1. calls' = calls \ {d} /\ UNCHANGED <<list, stored, now>> /\ shown' = L(c)!Settle(d, s)
  BY DEF L!Fail
<1>2. /\ s \in ListShown(c)
      /\ s.filter = shown.filter /\ s.loading = shown.loading /\ s.base = shown.base
      /\ s.items = shown.items /\ s.cursor = shown.cursor /\ s.clean = shown.clean
      /\ s.error = IF list = "alertEvidence" /\ d.more THEN "more" ELSE "list"
  <2> DEFINE error == IF list = "alertEvidence" /\ d.more THEN "more" ELSE "list"
  <2>1. error \in {"none", "list", "more"}
    OBVIOUS
  <2>2. s = [shown EXCEPT !.error = error] /\ shown \in ListShown(c)
    BY DEF ListTypes
  <2> HIDE DEF error, s
  <2>3. s.error = error /\ s \in ListShown(c)
    BY <2>1, <2>2 DEF ListShown
  <2>4. /\ s.filter = shown.filter /\ s.loading = shown.loading /\ s.base = shown.base
        /\ s.items = shown.items /\ s.cursor = shown.cursor /\ s.clean = shown.clean
    BY <2>2 DEF ListShown
  <2> QED
    BY <2>3, <2>4 DEF error
<1> HIDE DEF s
<1>3. /\ shown' \in ListShown(c)
      /\ shown'.filter = shown.filter /\ shown'.base = shown.base
      /\ shown'.items = shown.items /\ shown'.cursor = shown.cursor /\ shown'.clean = shown.clean
      /\ shown'.error = IF list = "alertEvidence" /\ d.more THEN "more" ELSE "list"
      /\ list = "alertEvidence" /\ d.more => shown'.loading = shown.loading
  <2> DEFINE t == L(c)!Settle(d, s)
  <2>1. /\ t \in ListShown(c)
        /\ t.items = s.items /\ t.cursor = s.cursor /\ t.filter = s.filter /\ t.error = s.error
        /\ t.base = s.base /\ t.clean = s.clean
        /\ t.loading = IF list = "alertEvidence" /\ d.more THEN s.loading ELSE FALSE
    BY <1>2, ListSettles
  <2> HIDE DEF t
  <2>2. shown' = t
    BY <1>1 DEF t
  <2> QED
    BY <1>2, <2>1, <2>2
<1>4. ListTypes(c)'
  BY <1>1, <1>3 DEF ListTypes, ListCall, ListShown, L!Row, Named
<1>5. ListStored'
  BY <1>1, <1>3 DEF ListStored
<1>6. ListAlone'
  <2>1. list # "acceptances" => calls' = {}
    BY <1>1 DEF ListAlone
  <2> QED
    BY <1>1, <1>3, <2>1 DEF ListAlone
<1>7. ListFits(c)'
  <2>1. ASSUME NEW x \in calls' PROVE CallFits(c, x)'
    <3>1. CallFits(c, x)
      BY <1>1 DEF ListFits
    <3> QED
      BY <1>1, <1>3, <3>1 DEF CallFits, Matching, Sorted, EndsIn, Whole, L!Before, L!Matches
  <2>2. shown'.clean /\ ~shown'.loading /\ shown'.error # "list" =>
          Matching(c, shown.base, shown.filter)'
    <3> HAVE shown'.clean /\ ~shown'.loading /\ shown'.error # "list"
    <3>1. list = "alertEvidence" /\ d.more /\ ~shown.loading /\ shown.clean
      BY <1>3
    <3>2. shown.error = "none"
      BY <3>1 DEF ListAlone
    <3> QED
      BY <1>1, <1>3, <3>1, <3>2 DEF ListFits, Matching, L!Matches
  <2> QED
    BY <1>1, <1>3, <2>1, <2>2 DEF ListFits, Sorted, Whole, EndsIn, L!Before
<1> QED
  BY <1>4, <1>5, <1>6, <1>7

LEMMA ListPicked ==
  ASSUME NEW c, NEW T, NEW s \in Seq(T)
  PROVE  L(c)!Picked(s, 1..Len(s)) = s
<1> DEFINE n == Len(s)
           To(i) == {j \in 1..n : j <= i}
           I(k) == CHOOSE i \in 1..n : L(c)!Cardinality(To(i)) = k
<1>1. n \in Nat /\ s = [k \in 1..n |-> s[k]]
  OBVIOUS
<1> HIDE DEF n
<1>2. \A i \in 1..n : L(c)!Cardinality(To(i)) = i
  <2> TAKE i \in 1..n
  <2>1. To(i) = 1..i
    BY <1>1
  <2>2. Cardinality(1..i) = i
    BY <1>1, FS_Interval
  <2> QED
    BY <2>1, <2>2, ListCardinality
<1> HIDE DEF To
<1>3. \A k \in 1..n : I(k) = k
  BY <1>2
<1>4. L(c)!Cardinality(1..n) = n
  <2>1. Cardinality(1..n) = n
    BY <1>1, FS_Interval
  <2> QED
    BY <2>1, ListCardinality
<1>5. L(c)!Picked(s, 1..n) = [k \in 1..n |-> s[I(k)]]
  BY <1>4 DEF L!Picked, I, To
<1> HIDE DEF I
<1>6. [k \in 1..n |-> s[I(k)]] = [k \in 1..n |-> s[k]]
  BY <1>3
<1> QED
  BY <1>1, <1>5, <1>6 DEF n

LEMMA Joined ==
  ASSUME NEW T, NEW s \in Seq(T), NEW t \in Seq(T)
  PROVE  /\ s \o t \in Seq(T)
         /\ \A i \in DOMAIN (s \o t) : \/ \E j \in DOMAIN s : (s \o t)[i] = s[j]
                                      \/ \E j \in DOMAIN t : (s \o t)[i] = t[j]
         /\ t # <<>> => s \o t # <<>> /\ (s \o t)[Len(s \o t)] = t[Len(t)]
<1>1. /\ s \o t \in Seq(T) /\ Len(s \o t) = Len(s) + Len(t) /\ Len(s) \in Nat /\ Len(t) \in Nat
      /\ \A i \in 1..Len(s) : (s \o t)[i] = s[i]
      /\ \A i \in 1..Len(t) : (s \o t)[Len(s) + i] = t[i]
  OBVIOUS
<1>2. \A i \in DOMAIN (s \o t) : \/ \E j \in DOMAIN s : (s \o t)[i] = s[j]
                               \/ \E j \in DOMAIN t : (s \o t)[i] = t[j]
  <2> TAKE i \in DOMAIN (s \o t)
  <2>1. CASE i <= Len(s)
    BY <1>1, <2>1
  <2>2. CASE i > Len(s)
    <3>1. i - Len(s) \in 1..Len(t) /\ Len(s) + (i - Len(s)) = i
      BY <1>1, <2>2
    <3> QED
      BY <1>1, <3>1
  <2> QED
    BY <1>1, <2>1, <2>2
<1>3. t # <<>> => Len(t) \in 1..Len(t)
  OBVIOUS
<1> QED
  BY <1>1, <1>2, <1>3

\* More rows that come in order after the ones shown are all appended.
LEMMA ListAppends ==
  ASSUME NEW c \in ListConfigs, ListInv(c), NEW d \in calls, d.read, d.more
  PROVE  L(c)!AddedTo(shown.items, d.items) = shown.items \o d.items
<1> USE DEF ListInv
<1>1. CASE list = "acceptances"
  BY <1>1 DEF L!AddedTo
<1>2. CASE list # "acceptances"
  <2>1. d.fresh /\ CallFits(c, d)
    BY <1>2 DEF ListAlone, ListFits
  <2>2. /\ shown.clean /\ shown.cursor # 0 /\ d.cursor = shown.cursor
        /\ Sorted(c, shown.items) /\ EndsIn(shown.items, shown.cursor)
        /\ \A i \in DOMAIN d.items : L(c)!Before(shown.cursor, d.items[i])
    BY <2>1 DEF CallFits, ListFits
  <2>3. /\ shown.items \in Seq(c.Rows) /\ d.items \in Seq(c.Rows)
    BY DEF ListTypes, ListShown, ListCall
  <2>4. /\ \A i \in DOMAIN shown.items : shown.items[i] \in DOMAIN stored
        /\ \A i \in DOMAIN d.items : d.items[i] \in DOMAIN stored
    BY DEF ListStored
  <2>5. ASSUME NEW i \in DOMAIN d.items, d.items[i] \in L(c)!Shown PROVE FALSE
    <3>1. PICK j \in DOMAIN shown.items : shown.items[j] = d.items[i]
      BY <2>5 DEF L!Shown
    <3> DEFINE n == Len(shown.items)
    <3>2. n \in DOMAIN shown.items /\ shown.items[n] = shown.cursor /\ j <= n /\ j \in Nat /\ n \in Nat
      BY <2>2, <2>3, <3>1 DEF EndsIn
    <3>3. L(c)!Before(shown.items[n], shown.items[j])
      BY <2>2, <3>1, <3>2
    <3>4. j # n => L(c)!Before(shown.items[j], shown.items[n])
      BY <2>2, <3>2 DEF Sorted
    <3>5. shown.items[n] \in DOMAIN stored /\ shown.items[j] \in DOMAIN stored
      BY <2>4, <3>2
    <3> HIDE DEF n
    <3> QED
      BY <3>3, <3>4, <3>5, ListOrder
  <2>6. {i \in DOMAIN d.items : d.items[i] \notin L(c)!Shown} = 1..Len(d.items)
    BY <2>3, <2>5
  <2> QED
    BY <1>2, <2>3, <2>6, ListPicked DEF L!AddedTo
<1> QED
  BY <1>1, <1>2

LEMMA ListJoins ==
  ASSUME NEW c \in ListConfigs, ListTypes(c), NEW s \in Seq(c.Rows), NEW more \in Seq(c.Rows),
         NEW cursor, NEW next, NEW B \in SUBSET DOMAIN stored, cursor # 0,
         \A i \in DOMAIN s : s[i] \in DOMAIN stored,
         \A i \in DOMAIN more : more[i] \in DOMAIN stored,
         EndsIn(s, cursor), EndsIn(more, next), Sorted(c, s), Sorted(c, more),
         \A i \in DOMAIN more : L(c)!Before(cursor, more[i]),
         Whole(c, s, cursor, B), Whole(c, more, next, {r \in B : L(c)!Before(cursor, r)})
  PROVE  Sorted(c, s \o more) /\ Whole(c, s \o more, next, B)
<1> DEFINE t == s \o more
           m == Len(s)
           n == Len(more)
<1>1. /\ m \in Nat /\ n \in Nat /\ DOMAIN s = 1..m /\ DOMAIN more = 1..n
      /\ Len(t) = m + n /\ DOMAIN t = 1..(m + n)
      /\ \A i \in 1..m : t[i] = s[i]
      /\ \A i \in (m + 1)..(m + n) : t[i] = more[i - m]
      /\ \A i \in 1..n : t[m + i] = more[i]
  OBVIOUS
<1>2. m \in 1..m /\ s[m] = cursor
  BY <1>1 DEF EndsIn
<1> HIDE DEF t, m, n
<1>3. \A i \in 1..m : s[i] \in DOMAIN stored
  BY <1>1
<1>4. \A i \in 1..n : more[i] \in DOMAIN stored
  BY <1>1
<1>5. \A i, j \in DOMAIN t : i < j => L(c)!Before(t[i], t[j])
  <2> SUFFICES ASSUME NEW i \in DOMAIN t, NEW j \in DOMAIN t, i < j
               PROVE  L(c)!Before(t[i], t[j])
    OBVIOUS
  <2>1. CASE j <= m
    BY <1>1, <2>1 DEF Sorted
  <2>2. CASE i > m
    <3>1. i - m \in DOMAIN more /\ j - m \in DOMAIN more /\ i - m < j - m
          /\ t[i] = more[i - m] /\ t[j] = more[j - m]
      BY <1>1, <2>2
    <3> QED
      BY <3>1 DEF Sorted
  <2>3. CASE i <= m /\ j > m
    <3>1. j - m \in DOMAIN more /\ t[i] = s[i] /\ t[j] = more[j - m]
      BY <1>1, <2>3
    <3>2. i = m \/ L(c)!Before(s[i], cursor)
      BY <1>1, <1>2, <2>3 DEF Sorted
    <3>3. L(c)!Before(cursor, t[j])
      BY <3>1
    <3>4. t[i] \in DOMAIN stored /\ t[j] \in DOMAIN stored /\ cursor \in DOMAIN stored
      BY <1>1, <1>2, <1>3, <1>4, <2>3, <3>1
    <3> QED
      BY <1>2, <3>1, <3>2, <3>3, <3>4, ListOrder
  <2> QED
    BY <1>1, <2>1, <2>2, <2>3
<1>6. ASSUME NEW r \in B
      PROVE  \/ \E i \in DOMAIN t : t[i] = r
             \/ next # 0 /\ t # <<>> /\ L(c)!Before(t[Len(t)], r)
  <2>1. CASE \E i \in DOMAIN s : s[i] = r
    BY <1>1, <2>1
  <2>2. CASE L(c)!Before(cursor, r)
    <3>1. CASE \E i \in DOMAIN more : more[i] = r
      <4>1. PICK i \in DOMAIN more : more[i] = r
        BY <3>1
      <4>2. m + i \in DOMAIN t /\ t[m + i] = r
        BY <1>1, <4>1
      <4> QED
        BY <4>2
    <3>2. CASE next # 0 /\ more # <<>> /\ L(c)!Before(more[Len(more)], r)
      <4>1. n \in 1..n /\ Len(more) = n
        BY <1>1, <3>2 DEF n
      <4>2. Len(t) \in DOMAIN t /\ t[Len(t)] = more[n]
        BY <1>1, <4>1
      <4>3. t # <<>>
        BY <4>2
      <4> QED
        BY <3>2, <4>1, <4>2, <4>3
    <3> QED
      BY <2>2, <3>1, <3>2 DEF Whole
  <2> QED
    BY <1>1, <1>2, <2>1, <2>2 DEF Whole, m
<1> QED
  BY <1>5, <1>6 DEF Sorted, Whole, t

\* What is shown once a response has been taken, before the flags are cleared.
Taken(c, d) ==
    [shown EXCEPT !.items = IF d.more THEN shown.items \o d.items ELSE d.items,
                  !.cursor = d.next,
                  !.base = IF d.more THEN shown.base ELSE d.base,
                  !.clean = d.fresh /\ (d.more => shown.clean)]

LEMMA ListTakes ==
  ASSUME NEW c \in ListConfigs, ListInv(c), NEW d \in calls, L(c)!Receive(d)
  PROVE  /\ d.read /\ shown' = L(c)!Settle(d, Taken(c, d))
         /\ calls' = {IF e.more THEN [e EXCEPT !.fresh = FALSE] ELSE e : e \in calls \ {d}}
         /\ UNCHANGED <<list, stored, now>>
         /\ Taken(c, d) \in ListShown(c)
         /\ Taken(c, d).items = IF d.more THEN shown.items \o d.items ELSE d.items
         /\ Taken(c, d).cursor = d.next
         /\ Taken(c, d).base = IF d.more THEN shown.base ELSE d.base
         /\ Taken(c, d).clean = (d.fresh /\ (d.more => shown.clean))
         /\ Taken(c, d).filter = shown.filter /\ Taken(c, d).error = shown.error
         /\ Taken(c, d).loading = shown.loading
<1> DEFINE items == IF d.more THEN shown.items \o d.items ELSE d.items
           base == IF d.more THEN shown.base ELSE d.base
           clean == d.fresh /\ (d.more => shown.clean)
<1>1. shown \in ListShown(c) /\ d \in ListCall(c)
  BY DEF ListInv, ListTypes
<1>2. items \in Seq(c.Rows) /\ base \in SUBSET c.Rows /\ clean \in BOOLEAN
      /\ d.next \in c.Rows \cup {0}
  <2>1. shown.items \in Seq(c.Rows) /\ d.items \in Seq(c.Rows)
    BY <1>1 DEF ListShown, ListCall
  <2>2. items \in Seq(c.Rows)
    BY <2>1, Joined
  <2>3. base \in SUBSET c.Rows /\ clean \in BOOLEAN /\ d.next \in c.Rows \cup {0}
    BY <1>1 DEF ListShown, ListCall
  <2> QED
    BY <2>2, <2>3
<1>3. /\ d.read
      /\ calls' = {IF e.more THEN [e EXCEPT !.fresh = FALSE] ELSE e : e \in calls \ {d}}
      /\ UNCHANGED <<list, stored, now>>
  BY DEF L!Receive
<1>4. Taken(c, d) = [shown EXCEPT !.items = items, !.cursor = d.next, !.base = base, !.clean = clean]
  BY DEF Taken
<1>5. shown' = L(c)!Settle(d, [shown EXCEPT
          !.items = IF d.more THEN L(c)!AddedTo(shown.items, d.items) ELSE d.items,
          !.cursor = d.next, !.base = base, !.clean = clean])
  BY <1>1 DEF L!Receive, ListShown
<1>6. (IF d.more THEN L(c)!AddedTo(shown.items, d.items) ELSE d.items) = items
  BY <1>3, ListAppends
<1>7. shown' = L(c)!Settle(d, Taken(c, d))
  BY <1>4, <1>5, <1>6
<1>8. /\ items = IF d.more THEN shown.items \o d.items ELSE d.items
      /\ base = IF d.more THEN shown.base ELSE d.base
      /\ clean = (d.fresh /\ (d.more => shown.clean))
  OBVIOUS
<1> HIDE DEF items, base, clean
<1>9. /\ Taken(c, d) \in ListShown(c) /\ Taken(c, d).items = items
      /\ Taken(c, d).cursor = d.next /\ Taken(c, d).base = base /\ Taken(c, d).clean = clean
      /\ Taken(c, d).filter = shown.filter /\ Taken(c, d).error = shown.error
      /\ Taken(c, d).loading = shown.loading
  BY <1>1, <1>2, <1>4 DEF ListShown
<1> QED
  BY <1>3, <1>7, <1>8, <1>9

LEMMA ListReceives ==
  ASSUME NEW c \in ListConfigs, ListInv(c), NEW d \in calls, L(c)!Receive(d)
  PROVE  ListInv(c)'
<1> USE DEF ListInv
<1>1. /\ d.read /\ UNCHANGED <<list, stored, now>>
      /\ calls' = {IF e.more THEN [e EXCEPT !.fresh = FALSE] ELSE e : e \in calls \ {d}}
  BY ListTakes
<1>2. /\ shown' \in ListShown(c)
      /\ shown'.items = IF d.more THEN shown.items \o d.items ELSE d.items
      /\ shown'.cursor = d.next
      /\ shown'.base = IF d.more THEN shown.base ELSE d.base
      /\ shown'.clean = (d.fresh /\ (d.more => shown.clean))
      /\ shown'.filter = shown.filter /\ shown'.error = shown.error
      /\ list = "alertEvidence" /\ d.more => shown'.loading = shown.loading
  <2> DEFINE t == Taken(c, d)
             u == L(c)!Settle(d, t)
  <2>1. /\ t \in ListShown(c) /\ shown' = u
        /\ t.items = IF d.more THEN shown.items \o d.items ELSE d.items
        /\ t.cursor = d.next
        /\ t.base = IF d.more THEN shown.base ELSE d.base
        /\ t.clean = (d.fresh /\ (d.more => shown.clean))
        /\ t.filter = shown.filter /\ t.error = shown.error /\ t.loading = shown.loading
    BY ListTakes
  <2> HIDE DEF t
  <2>2. /\ u \in ListShown(c)
        /\ u.items = t.items /\ u.cursor = t.cursor /\ u.filter = t.filter /\ u.error = t.error
        /\ u.base = t.base /\ u.clean = t.clean
        /\ u.loading = IF list = "alertEvidence" /\ d.more THEN t.loading ELSE FALSE
    BY <2>1, ListSettles, ZenonT(60)
  <2> HIDE DEF u
  <2> QED
    BY <2>1, <2>2
<1>3. \A x \in calls' : \E e \in calls :
         /\ e # d /\ x \in ListCall(c) /\ x.filter = e.filter /\ x.more = e.more
         /\ x.cursor = e.cursor /\ x.read = e.read /\ x.items = e.items /\ x.next = e.next
         /\ x.base = e.base /\ (x.fresh => e.fresh /\ ~x.more)
  <2> TAKE x \in calls'
  <2>1. PICK e \in calls \ {d} : x = IF e.more THEN [e EXCEPT !.fresh = FALSE] ELSE e
    BY <1>1
  <2>2. e \in ListCall(c)
    BY DEF ListTypes
  <2> WITNESS e \in calls
  <2>3. CASE e.more
    BY <2>1, <2>2, <2>3 DEF ListCall
  <2>4. CASE ~e.more
    BY <2>1, <2>2, <2>4
  <2> QED
    BY <2>3, <2>4
<1>4. /\ shown \in ListShown(c) /\ d \in ListCall(c) /\ CallFits(c, d)
      /\ shown.items \in Seq(c.Rows) /\ d.items \in Seq(c.Rows)
  BY DEF ListTypes, ListFits, ListShown, ListCall
<1>5. /\ \A i \in DOMAIN shown.items : shown.items[i] \in DOMAIN stored
      /\ \A i \in DOMAIN d.items : d.items[i] \in DOMAIN stored
      /\ shown.base \subseteq DOMAIN stored
  BY DEF ListStored
<1>6. ListTypes(c)'
  BY <1>1, <1>2, <1>3 DEF ListTypes, ListCall, ListShown, L!Row, Named
<1>7. ListStored'
  <2>1. \A i \in DOMAIN shown'.items : shown'.items[i] \in DOMAIN stored
    <3>1. CASE ~d.more
      BY <1>2, <1>5, <3>1
    <3>2. CASE d.more
      <4>1. shown'.items = shown.items \o d.items
        BY <1>2, <3>2
      <4>2. \A i \in DOMAIN (shown.items \o d.items) : (shown.items \o d.items)[i] \in DOMAIN stored
        <5> DEFINE s == shown.items \o d.items
        <5>1. \A i \in DOMAIN s : \/ \E j \in DOMAIN shown.items : s[i] = shown.items[j]
                                \/ \E j \in DOMAIN d.items : s[i] = d.items[j]
          <6>1. \A x, y \in Seq(c.Rows) : \A i \in DOMAIN (x \o y) :
                   \/ \E j \in DOMAIN x : (x \o y)[i] = x[j]
                   \/ \E j \in DOMAIN y : (x \o y)[i] = y[j]
            BY Joined
          <6> QED
            BY <1>4, <6>1, Zenon
        <5> HIDE DEF s
        <5>2. \A i \in DOMAIN s : s[i] \in DOMAIN stored
          BY <1>5, <5>1
        <5> QED
          BY <5>2 DEF s
      <4> QED
        BY <4>1, <4>2
    <3> QED
      BY <3>1, <3>2
  <2>2. shown'.cursor \in DOMAIN stored \cup {0} /\ shown'.base \subseteq DOMAIN stored
    BY <1>2 DEF ListStored
  <2> QED
    BY <1>1, <1>3, <2>1, <2>2 DEF ListStored
<1>8. ListAlone'
  <2>1. list # "acceptances" => calls' = {} /\ shown'.clean
    <3> HAVE list # "acceptances"
    <3>1. calls \ {d} = {} /\ d.fresh
      BY DEF ListAlone
    <3> QED
      BY <1>1, <1>2, <1>4, <3>1 DEF CallFits
  <2> QED
    BY <1>1, <2>1 DEF ListAlone
<1>9. ListFits(c)'
  <2>1. ASSUME NEW x \in calls' PROVE CallFits(c, x)'
    <3>1. PICK e \in calls :
             /\ e # d /\ x \in ListCall(c) /\ x.filter = e.filter /\ x.more = e.more
             /\ x.cursor = e.cursor /\ x.read = e.read /\ x.items = e.items /\ x.next = e.next
             /\ x.base = e.base /\ (x.fresh => e.fresh /\ ~x.more)
      BY <1>3
    <3>2. CallFits(c, e)
      BY DEF ListFits
    <3> QED
      BY <1>1, <1>2, <3>1, <3>2 DEF CallFits, Matching, Sorted, EndsIn, Whole, L!Before, L!Matches
  <2>2. /\ EndsIn(shown.items, shown.cursor)'
        /\ shown'.clean => Sorted(c, shown.items)' /\ Whole(c, shown.items, shown.cursor, shown.base)'
    <3>1. CASE ~d.more
      BY <1>1, <1>2, <1>4, <3>1 DEF CallFits, Matching, Sorted, EndsIn, Whole, L!Before
    <3>2. CASE d.more
      <4>1. EndsIn(shown.items, shown.cursor)'
        <5>1. d.next # 0 => d.items # <<>> /\ d.next = d.items[Len(d.items)]
          BY <1>1, <1>4 DEF CallFits, EndsIn
        <5>2. d.items # <<>> =>
                 /\ shown.items \o d.items # <<>>
                 /\ (shown.items \o d.items)[Len(shown.items \o d.items)] = d.items[Len(d.items)]
          BY <1>4, Joined
        <5> QED
          BY <1>2, <3>2, <5>1, <5>2 DEF EndsIn
      <4>2. ASSUME shown'.clean
            PROVE  Sorted(c, shown.items)' /\ Whole(c, shown.items, shown.cursor, shown.base)'
        <5>1. d.fresh /\ shown.clean
          BY <1>2, <3>2, <4>2
        <5>2. /\ EndsIn(d.items, d.next) /\ Sorted(c, d.items) /\ d.cursor # 0
              /\ d.cursor = shown.cursor
              /\ \A i \in DOMAIN d.items : L(c)!Before(shown.cursor, d.items[i])
              /\ Whole(c, d.items, d.next, {r \in shown.base : L(c)!Before(shown.cursor, r)})
          BY <1>1, <1>4, <3>2, <5>1 DEF CallFits
        <5>3. /\ EndsIn(shown.items, shown.cursor) /\ Sorted(c, shown.items)
              /\ Whole(c, shown.items, shown.cursor, shown.base)
          BY <5>1 DEF ListFits
        <5>4. /\ Sorted(c, shown.items \o d.items)
              /\ Whole(c, shown.items \o d.items, d.next, shown.base)
          BY <1>4, <1>5, <5>2, <5>3, ListJoins
        <5>5. shown'.items = shown.items \o d.items /\ shown'.cursor = d.next /\ shown'.base = shown.base
          BY <1>2, <3>2
        <5> DEFINE s == shown.items \o d.items
        <5>6. shown'.items = s /\ Sorted(c, s) /\ Whole(c, s, d.next, shown.base)
          BY <5>4, <5>5
        <5> HIDE DEF s
        <5>7. Sorted(c, shown.items)'
          BY <1>1, <5>6 DEF Sorted, L!Before
        <5>8. Whole(c, shown.items, shown.cursor, shown.base)'
          BY <1>1, <5>5, <5>6 DEF Whole, L!Before
        <5> QED
          BY <5>7, <5>8
      <4> QED
        BY <4>1, <4>2
    <3> QED
      BY <3>1, <3>2
  <2>3. shown'.clean /\ ~shown'.loading /\ shown'.error # "list" =>
          Matching(c, shown.base, shown.filter)'
    <3> HAVE shown'.clean
    <3>1. CASE d.more
      BY <1>1, <1>2, <1>4, <3>1 DEF CallFits, Matching, L!Matches
    <3>2. CASE ~d.more
      BY <1>1, <1>2, <1>4, <3>2 DEF CallFits, Matching, L!Matches
    <3> QED
      BY <3>1, <3>2
  <2> QED
    BY <2>1, <2>2, <2>3 DEF ListFits
<1> QED
  BY <1>6, <1>7, <1>8, <1>9

\* The rows keep their order whatever else becomes of them, and what no longer
\* matches is not missed any more.
LEMMA ListPrunes ==
  ASSUME NEW c \in ListConfigs, ListInv(c), NEW s, L(c)!Pruned(s), UNCHANGED now,
         DOMAIN stored \subseteq DOMAIN s, DOMAIN s \subseteq c.Rows, IsFiniteSet(DOMAIN s),
         s \in [DOMAIN s -> L(c)!Row], \A r \in DOMAIN stored : s[r].at = stored[r].at
  PROVE  ListInv(c)'
<1> DEFINE Keep(B, f) == {r \in B : L(c)!Matches(s[r], f)}
<1> USE DEF ListInv
<1>1. /\ stored' = s /\ UNCHANGED <<list, now>>
      /\ shown' = [shown EXCEPT !.base = Keep(shown.base, shown.filter)]
      /\ calls' = {[d EXCEPT !.base = Keep(d.base, d.filter)] : d \in calls}
  <2>1. shown \in ListShown(c) /\ \A d \in calls : d \in ListCall(c)
    BY DEF ListTypes
  <2> QED
    BY <2>1 DEF L!Pruned, ListShown, ListCall
<1>2. \A B, f : Keep(B, f) \subseteq B /\ \A r \in Keep(B, f) : L(c)!Matches(s[r], f)
  OBVIOUS
<1> HIDE DEF Keep
<1>3. /\ shown' \in ListShown(c) /\ shown'.base = Keep(shown.base, shown.filter)
      /\ shown'.base \subseteq shown.base
      /\ shown'.filter = shown.filter /\ shown'.loading = shown.loading
      /\ shown'.items = shown.items /\ shown'.cursor = shown.cursor /\ shown'.clean = shown.clean
      /\ shown'.loadingMore = shown.loadingMore /\ shown'.error = shown.error
  BY <1>1, <1>2 DEF ListTypes, ListShown
<1>4. \A x \in calls' : \E d \in calls :
         /\ x \in ListCall(c) /\ x.filter = d.filter /\ x.more = d.more
         /\ x.cursor = d.cursor /\ x.read = d.read /\ x.items = d.items /\ x.next = d.next
         /\ x.base = Keep(d.base, d.filter) /\ x.fresh = d.fresh
  <2> TAKE x \in calls'
  <2>1. PICK d \in calls : x = [d EXCEPT !.base = Keep(d.base, d.filter)]
    BY <1>1
  <2>2. d \in ListCall(c)
    BY DEF ListTypes
  <2> WITNESS d \in calls
  <2> QED
    BY <1>2, <2>1, <2>2 DEF ListCall
<1>5. /\ \A i \in DOMAIN shown.items : shown.items[i] \in DOMAIN stored
      /\ shown.base \subseteq DOMAIN stored
      /\ \A d \in calls : /\ \A i \in DOMAIN d.items : d.items[i] \in DOMAIN stored
                          /\ d.cursor \in DOMAIN stored \cup {0} /\ d.base \subseteq DOMAIN stored
      /\ \A d \in calls : d \in ListCall(c) /\ CallFits(c, d)
      /\ shown.items \in Seq(c.Rows)
  BY DEF ListStored, ListTypes, ListFits, ListShown
<1>6. \A a, b \in DOMAIN stored : L(c)!Before(a, b)' <=> L(c)!Before(a, b)
  BY <1>1 DEF L!Before
<1>7. ListTypes(c)'
  BY <1>1, <1>3, <1>4 DEF ListTypes, ListCall, ListShown, L!Row, Named
<1>8. ListStored'
  BY <1>1, <1>2, <1>3, <1>4 DEF ListStored
<1>9. ListAlone'
  <2>1. list # "acceptances" => \A x, y \in calls' : x = y
    BY <1>1 DEF ListAlone
  <2> QED
    BY <1>1, <1>3, <1>4, <2>1 DEF ListAlone
<1>10. \A t \in Seq(c.Rows) : (\A i \in DOMAIN t : t[i] \in DOMAIN stored) /\ Sorted(c, t) => Sorted(c, t)'
  BY <1>6 DEF Sorted
<1>11. ASSUME NEW t \in Seq(c.Rows), NEW n, NEW B, NEW H \in SUBSET DOMAIN stored, B \subseteq H,
              \A i \in DOMAIN t : t[i] \in DOMAIN stored, Whole(c, t, n, H)
       PROVE  Whole(c, t, n, B)'
  <2>1. t # <<>> => Len(t) \in DOMAIN t
    OBVIOUS
  <2> QED
    BY <1>6, <1>11, <2>1 DEF Whole
<1>12. Matching(c, shown.base, shown.filter)'
  BY <1>1, <1>2, <1>3 DEF Matching, L!Matches
<1>13. ASSUME NEW x \in calls' PROVE CallFits(c, x)'
  <2>1. PICK d \in calls :
           /\ x \in ListCall(c) /\ x.filter = d.filter /\ x.more = d.more
           /\ x.cursor = d.cursor /\ x.read = d.read /\ x.items = d.items /\ x.next = d.next
           /\ x.base = Keep(d.base, d.filter) /\ x.fresh = d.fresh
    BY <1>4
  <2>2. /\ CallFits(c, d) /\ x.items \in Seq(c.Rows) /\ x.base \subseteq d.base
        /\ d.base \in SUBSET DOMAIN stored
        /\ \A i \in DOMAIN x.items : x.items[i] \in DOMAIN stored
        /\ x.cursor \in DOMAIN stored \cup {0}
    BY <1>2, <1>5, <2>1 DEF ListCall
  <2>3. /\ x.more <=> x.cursor # 0
        /\ x.more => x.base = {}
        /\ x.fresh => x.filter = shown'.filter
    BY <1>3, <2>1, <2>2 DEF CallFits
  <2>4. Matching(c, x.base, x.filter)'
    BY <1>1, <1>2, <2>1 DEF Matching, L!Matches
  <2>5. x.read => Sorted(c, x.items)' /\ EndsIn(x.items, x.next)
    BY <1>10, <2>1, <2>2 DEF CallFits
  <2>6. x.read /\ ~x.more => Whole(c, x.items, x.next, x.base)'
    BY <1>11, <2>1, <2>2 DEF CallFits
  <2>7. x.read /\ x.more => \A i \in DOMAIN x.items : L(c)!Before(x.cursor, x.items[i])'
    BY <1>6, <2>1, <2>2, <2>3 DEF CallFits
  <2>8. ASSUME x.fresh, x.more
        PROVE  /\ shown'.clean /\ x.cursor = shown'.cursor
               /\ x.read => Whole(c, x.items, x.next, {r \in shown.base : L(c)!Before(x.cursor, r)})'
    <3>1. /\ shown.clean /\ x.cursor = shown.cursor /\ x.cursor \in DOMAIN stored
          /\ x.read => Whole(c, x.items, x.next, {r \in shown.base : L(c)!Before(x.cursor, r)})
      BY <2>1, <2>2, <2>3, <2>8 DEF CallFits
    <3> DEFINE H == {r \in shown.base : L(c)!Before(x.cursor, r)}
    <3>2. {r \in shown'.base : L(c)!Before(x.cursor, r)'} \subseteq H /\ H \in SUBSET DOMAIN stored
      BY <1>3, <1>5, <1>6, <3>1
    <3>3. x.read => Whole(c, x.items, x.next, {r \in shown.base : L(c)!Before(x.cursor, r)})'
      <4> DEFINE B == {r \in shown'.base : L(c)!Before(x.cursor, r)'}
      <4>1. x.read => \A b \in {B} : Whole(c, x.items, x.next, b)'
        <5> HAVE x.read
        <5> TAKE b \in {B}
        <5>1. b \subseteq H
          BY <3>2
        <5> HIDE DEF H, B
        <5> QED
          BY <1>11, <2>2, <3>1, <3>2, <5>1 DEF H
      <4> QED
        BY <4>1 DEF Whole
    <3> QED
      BY <1>3, <3>1, <3>3
  <2> QED
    BY <1>12, <2>3, <2>4, <2>5, <2>6, <2>7, <2>8 DEF CallFits, EndsIn
<1>14. ListFits(c)'
  <2>1. EndsIn(shown.items, shown.cursor)'
    BY <1>3 DEF ListFits, EndsIn
  <2>2. shown'.clean => Sorted(c, shown.items)' /\ Whole(c, shown.items, shown.cursor, shown.base)'
    <3> HAVE shown'.clean
    <3>1. Sorted(c, shown.items) /\ Whole(c, shown.items, shown.cursor, shown.base)
      BY <1>3 DEF ListFits
    <3>2. \A t : t = shown.items => Sorted(c, t)'
      BY <1>5, <1>10, <3>1
    <3>3. \A t, n, B : t = shown.items /\ n = shown.cursor /\ B = shown'.base => Whole(c, t, n, B)'
      BY <1>3, <1>5, <1>11, <3>1
    <3> QED
      BY <1>3, <3>2, <3>3 DEF Sorted, Whole
  <2> QED
    BY <1>12, <1>13, <2>1, <2>2 DEF ListFits
<1> QED
  BY <1>7, <1>8, <1>9, <1>14

LEMMA ListMeanwhile ==
  ASSUME NEW c \in ListConfigs, ListInv(c), NEW r \in c.Rows,
         L(c)!Insert(r) \/ L(c)!Age(r) \/ L(c)!Review(r)
  PROVE  ListInv(c)'
<1>1. /\ DOMAIN stored \subseteq c.Rows /\ IsFiniteSet(DOMAIN stored)
      /\ stored \in [DOMAIN stored -> L(c)!Row] /\ now \in 0..c.MaxTime
      /\ c.MaxTime \in Nat
  BY ListAssumption DEF ListInv, ListTypes
<1>2. CASE L(c)!Insert(r)
  <2>1. PICK at \in 0..now :
           L(c)!Pruned(L(c)!With(r, [at |-> at, accepted |-> TRUE, expires |-> "later"]))
    BY <1>2 DEF L!Insert
  <2> DEFINE new == [at |-> at, accepted |-> TRUE, expires |-> "later"]
             s == L(c)!With(r, new)
  <2>2. r \notin DOMAIN stored /\ UNCHANGED now /\ new \in L(c)!Row
    BY <1>1, <1>2 DEF L!Insert, L!There, L!Row
  <2>3. L(c)!Pruned(s)
    BY <2>1
  <2> HIDE DEF new
  <2>4. /\ DOMAIN s = DOMAIN stored \cup {r} /\ s \in [DOMAIN s -> L(c)!Row]
        /\ \A q \in DOMAIN stored : s[q] = stored[q]
    BY <1>1, <2>2 DEF L!With, L!There
  <2>5. IsFiniteSet(DOMAIN stored \cup {r})
    BY <1>1, FS_AddElement
  <2> HIDE DEF s
  <2> QED
    BY <1>1, <2>2, <2>3, <2>4, <2>5, ListPrunes
<1>3. CASE L(c)!Age(r)
  <2> DEFINE to == IF stored[r].expires = "later" THEN "soon" ELSE "over"
             s == [stored EXCEPT ![r].expires = to]
  <2>1. r \in DOMAIN stored /\ UNCHANGED now /\ L(c)!Pruned(s)
    BY <1>3 DEF L!Age, L!There
  <2>2. to \in {"later", "soon", "over"}
    OBVIOUS
  <2> HIDE DEF to
  <2>3. /\ DOMAIN s = DOMAIN stored /\ s \in [DOMAIN s -> L(c)!Row]
        /\ \A q \in DOMAIN stored : s[q].at = stored[q].at
    BY <1>1, <2>1, <2>2 DEF L!Row
  <2> HIDE DEF s
  <2> QED
    BY <1>1, <2>1, <2>3, ListPrunes
<1>4. CASE L(c)!Review(r)
  <2> DEFINE to == ~stored[r].accepted
             s == [stored EXCEPT ![r].accepted = to]
  <2>1. r \in DOMAIN stored /\ UNCHANGED now /\ L(c)!Pruned(s)
    BY <1>4 DEF L!Review, L!There
  <2>2. to \in BOOLEAN
    OBVIOUS
  <2> HIDE DEF to
  <2>3. /\ DOMAIN s = DOMAIN stored /\ s \in [DOMAIN s -> L(c)!Row]
        /\ \A q \in DOMAIN stored : s[q].at = stored[q].at
    BY <1>1, <2>1, <2>2 DEF L!Row
  <2> HIDE DEF s
  <2> QED
    BY <1>1, <2>1, <2>3, ListPrunes
<1> QED
  BY <1>2, <1>3, <1>4

LEMMA ListTicks ==
  ASSUME NEW c \in ListConfigs, ListInv(c), L(c)!Tick \/ UNCHANGED <<list, stored, now, shown, calls>>
  PROVE  ListInv(c)'
<1>1. UNCHANGED <<list, stored, shown, calls>> /\ now' \in 0..c.MaxTime
  BY ListAssumption DEF L!Tick, ListInv, ListTypes
<1>2. ListTypes(c)'
  BY <1>1 DEF ListInv, ListTypes, ListCall, ListShown, L!Row, Named
<1>3. ListStored' /\ ListAlone'
  BY <1>1 DEF ListInv, ListStored, ListAlone
<1>4. ListFits(c)'
  BY <1>1, ListSame DEF ListInv, ListFits, Matching, Sorted, EndsIn, Whole, L!Before, L!Matches
<1> QED
  BY <1>2, <1>3, <1>4 DEF ListInv

LEMMA ListStep ==
  ASSUME NEW c \in ListConfigs, ListInv(c), L(c)!Next
  PROVE  ListInv(c)'
<1>1. CASE \E d \in calls : L(c)!Serve(d) \/ L(c)!Receive(d) \/ L(c)!Fail(d)
  BY <1>1, ListServes, ListReceives, ListFails
<1>2. CASE L(c)!Retry \/ \E f \in c.Filters : L(c)!ChooseFilter(f)
  BY <1>2, ListRetries
<1>3. CASE \E r \in c.Rows : L(c)!Insert(r) \/ L(c)!Age(r) \/ L(c)!Review(r)
  BY <1>3, ListMeanwhile
<1> QED
  BY <1>1, <1>2, <1>3, ListLoadsMore, ListTicks DEF L!Next

LEMMA ListSafe ==
  ASSUME NEW c \in ListConfigs, ListInv(c)
  PROVE  L(c)!TypeOK /\ L(c)!ListIsWhole
<1> USE DEF ListInv
<1>1. L(c)!TypeOK
  <2>1. list # "acceptances" => L(c)!Cardinality(calls) <= 1
    <3> HAVE list # "acceptances"
    <3>1. calls = {} \/ \E d \in calls : calls = {d}
      BY DEF ListAlone
    <3>2. Cardinality({}) = 0 /\ \A d : Cardinality({d}) = 1
      BY FS_EmptySet, FS_Singleton
    <3>3. Cardinality(calls) \in {0, 1}
      BY <3>1, <3>2
    <3> QED
      BY <3>3, ListCardinality
  <2>2. L(c)!Shown \subseteq DOMAIN stored /\ shown.cursor \in DOMAIN stored \cup {0}
    BY DEF ListStored, L!Shown
  <2> QED
    BY <2>1, <2>2 DEF ListTypes, L!TypeOK, L!There
<1>2. L(c)!ListIsWhole
  <2> SUFFICES ASSUME calls = {}, shown.error = "none", shown.clean
               PROVE  /\ \A i \in 1..(Len(shown.items) - 1) :
                            L(c)!Before(shown.items[i], shown.items[i + 1])
                      /\ \A r \in shown.base \ L(c)!Shown :
                            shown.cursor # 0 /\ L(c)!Before(shown.items[Len(shown.items)], r)
    BY DEF L!ListIsWhole, L!Settled
  <2>1. Sorted(c, shown.items) /\ Whole(c, shown.items, shown.cursor, shown.base)
    BY DEF ListFits
  <2>2. shown.items \in Seq(c.Rows)
    BY DEF ListTypes, ListShown
  <2>3. \A i \in 1..(Len(shown.items) - 1) : i \in DOMAIN shown.items /\ i + 1 \in DOMAIN shown.items
    BY <2>2
  <2> QED
    BY <2>1, <2>2, <2>3 DEF Sorted, Whole, L!Shown
<1> QED
  BY <1>1, <1>2

\* A list that has settled is sorted and whole down to its last row, for every number
\* of rows, page length, filter and number of calls that overtake one another, and
\* whatever is inserted, ages or is reviewed between them (PagedLists).
THEOREM ListsAlwaysWhole == Spec => []ListsAreWhole
<1> DEFINE Inv == \A c \in ListConfigs : part = <<"list", c>> => ListInv(c)
<1>1. Init => Inv
  BY PartBegins, ListStarts
<1>2. Inv /\ [Next]_vars => Inv'
  <2> SUFFICES ASSUME Inv, [Next]_vars, NEW c \in ListConfigs, part = <<"list", c>>
               PROVE  ListInv(c)'
    BY PartStays
  <2> QED
    BY PartGoesOn, ListStep, ListTicks DEF vars, listVars
<1>3. Inv => ListsAreWhole
  BY ListSafe DEF ListsAreWhole
<1> QED
  BY <1>1, <1>2, <1>3, PTL DEF Spec

(***************************************************************************)
(* The assessment.                                                         *)
(***************************************************************************)
Items == {"report", "summary", "audit"}
NoteTypes == {"CHECKING_CREDENTIALS", "VALIDATING_IDENTITY", "INVENTORY_RUNNING", "INVENTORY_BLOCKED",
              "ANALYZING_SECURITY", "ANALYZING_COST", "MAPPING_COMPLIANCE",
              "GENERATING_REMEDIATION_PLANS", "GENERATING_REPORT"}
Outcomes == {"running", "completed", "blocked"}
Announced == <<"VALIDATING_IDENTITY", "running">>

Task == [task : {"note", "load", "call", "draft", "report", "summary", "audit", "complete", "enqueue"},
         type : NoteTypes \cup {""}, status : Outcomes \cup {""}]

\* The notes of a script, those before a place, and the number of one.
Notes(s) == {i \in DOMAIN s : s[i].task = "note"}
Noted(s, i) == {j \in Notes(s) : j < i}
Nth(s, i) == Cardinality({j \in Notes(s) : j <= i})

\* What the steps rely on: the order of the tasks.
IsScript(s) ==
    /\ s \in Seq(Task)
    /\ Len(s) \in 3..20
    /\ \A i \in 1..Len(s) : s[i].task = "enqueue" <=> i = Len(s)
    /\ \A i \in 1..Len(s) : s[i].task = "complete" <=> i = Len(s) - 1
    /\ \A x \in Items \cup {"draft"} : \E i \in 1..(Len(s) - 2) : s[i].task = x
    /\ \A i, j \in 1..Len(s) : s[i].task = "load" /\ s[j].task = "draft" => i < j
    /\ \A i \in 1..Len(s) : s[i].task = "note" => s[i].type \in NoteTypes /\ s[i].status \in Outcomes
    /\ \A i \in 1..Len(s) : s[i].task = "call" =>
          i > 1 /\ s[i - 1].task = "note" /\ <<s[i - 1].type, s[i - 1].status>> = Announced

\* The notes before place i are on record.
Logged(s, l, i) ==
    /\ Len(l) = Cardinality(Noted(s, i))
    /\ \A j \in Noted(s, i) : l[Nth(s, j)] = <<s[j].type, s[j].status>>

\* A handler at work has done every task before its place.
AtWork(s, w, l, p, h) ==
    /\ w.status # "NONE"
    /\ Logged(s, l, h.at)
    /\ \A j \in 1..(h.at - 1) : s[j].task \in Items => s[j].task \in p
    /\ (\E j \in 1..(h.at - 1) : s[j].task = "draft") => h.left = {} /\ h.current = 0
    /\ w.status = "COMPLETED" <=> h.at = Len(s)
    /\ h.half => s[h.at].task = "note" /\ w.status = s[h.at].type
    /\ ~h.half /\ h.at < Len(s) /\ l # <<>> => w.status = l[Len(l)][1]

IsWhole(s, w, l, p, h, F) ==
    /\ Len(l) = Cardinality(Notes(s))
    /\ \A i \in Notes(s) : l[Nth(s, i)] = <<s[i].type, s[i].status>>
    /\ p = Items /\ h.top \subseteq F /\ w.called = h.called

Leads(s, w, l) ==
    l # <<>> =>
        \/ w.status \in {l[Len(l)][1], "COMPLETED"}
        \/ \E i \in Notes(s) : w.status = s[i].type /\ Nth(s, i) = Len(l) + 1

IsAnnounced(u, l, h) ==
    h.called => /\ u.connector = "readonly-validation" /\ ~u.scanner /\ u.ready
                /\ \E i \in DOMAIN l : l[i] = Announced

\* A run: its script s, the setting u, its row w, log l, products p and handler h; F
\* are the findings that have a plan, unplanned says that none is of this run.
RunTypes(c, s, w, l, p, h) ==
    /\ w \in A(c)!Row /\ h \in A(c)!Handler
    /\ l \in Seq(NoteTypes \X Outcomes) /\ p \in SUBSET Items
    /\ h.at <= Len(s)

RunOK(c, s, u, w, l, p, h, F, unplanned) ==
    /\ RunTypes(c, s, w, l, p, h)
    /\ w.status = "NONE" => h = A(c)!Idle /\ l = <<>> /\ unplanned
    /\ h.at > 0 => AtWork(s, w, l, p, h)
    /\ \A f \in h.top : f \in F \/ f \in h.left \/ f = h.current
    /\ w.status = "COMPLETED" => IsWhole(s, w, l, p, h, F)
    /\ Leads(s, w, l)
    /\ IsAnnounced(u, l, h)

Planned(c) == {f \in c.Findings : drafts[f] # {}}
Unplanned(c, r) == \A f \in c.Findings : r \notin drafts[f]

AssessmentTypes(c) ==
    /\ row \in [c.Runs -> A(c)!Row] /\ handler \in [c.Runs -> A(c)!Handler]
    /\ log \in [c.Runs -> Seq(NoteTypes \X Outcomes)] /\ product \in [c.Runs -> SUBSET Items]
    /\ drafts \in [c.Findings -> SUBSET c.Runs] /\ queue \subseteq c.Runs

\* Who has ended before another began makes no more plans.
Overlaps(c) ==
    /\ \A q \in c.Runs : \A r \in row[q].after :
          /\ row[r].status # "NONE" /\ handler[r].at = 0
          /\ handler[q].current # 0 => r \notin drafts[handler[q].current]
    /\ \A f \in c.Findings : \A r, q \in drafts[f] : r \notin row[q].after

AssessmentInv(c) ==
    /\ AssessmentTypes(c) /\ Overlaps(c)
    /\ \A r \in c.Runs : RunOK(c, A(c)!Script, setting, row[r], log[r], product[r], handler[r],
                               Planned(c), Unplanned(c, r))
    /\ \A i \in DOMAIN A(c)!Script : A(c)!Script[i].task = "call" => ~setting.scanner /\ setting.ready
    /\ IsScript(A(c)!Script)

LEMMA AssessmentCardinality ==
  ASSUME NEW c, NEW S PROVE A(c)!Cardinality(S) = Cardinality(S)
BY DEF A!Cardinality, Cardinality

LEMMA Concatenated ==
  ASSUME NEW T, NEW s \in Seq(T), NEW t \in Seq(T), NEW u, u = s \o t
  PROVE  /\ u \in Seq(T) /\ Len(u) = Len(s) + Len(t)
         /\ \A i \in 1..Len(s) : u[i] = s[i]
         /\ \A i \in 1..Len(t) : u[Len(s) + i] = t[i]
OBVIOUS

\* Whether the identity is validated or not, the tasks are in this order.
LEMMA AssessmentScript ==
  ASSUME NEW c
  PROVE  /\ IsScript(A(c)!Script)
         /\ \A i \in DOMAIN A(c)!Script :
               A(c)!Script[i].task = "call" => ~setting.scanner /\ setting.ready
<1> DEFINE x == IF setting.scanner /\ setting.ready THEN "INVENTORY_RUNNING" ELSE "INVENTORY_BLOCKED"
           n1 == A(c)!Note("CHECKING_CREDENTIALS", "completed")
           load_ == A(c)!Do("load")
           n2 == A(c)!Note("VALIDATING_IDENTITY", "running")
           call_ == A(c)!Do("call")
           n3 == A(c)!Note("VALIDATING_IDENTITY", "completed")
           n4 == A(c)!Note(x, "blocked")
           n5 == A(c)!Note("ANALYZING_SECURITY", "completed")
           n6 == A(c)!Note("ANALYZING_COST", "completed")
           n7 == A(c)!Note("MAPPING_COMPLIANCE", "completed")
           n8 == A(c)!Note("GENERATING_REMEDIATION_PLANS", "running")
           draft_ == A(c)!Do("draft")
           n9 == A(c)!Note("GENERATING_REMEDIATION_PLANS", "completed")
           n10 == A(c)!Note("GENERATING_REPORT", "running")
           report_ == A(c)!Do("report")
           summary_ == A(c)!Do("summary")
           n11 == A(c)!Note("GENERATING_REPORT", "completed")
           audit_ == A(c)!Do("audit")
           complete_ == A(c)!Do("complete")
           enqueue_ == A(c)!Do("enqueue")
           n12 == A(c)!Note("VALIDATING_IDENTITY", "blocked")
<1>1. x \in NoteTypes
  BY DEF NoteTypes
<1> HIDE DEF x
<1>2. /\ n1 \in Task /\ load_ \in Task /\ n2 \in Task /\ call_ \in Task /\ n3 \in Task
      /\ n4 \in Task /\ n5 \in Task /\ n6 \in Task /\ n7 \in Task /\ n8 \in Task
      /\ draft_ \in Task /\ n9 \in Task /\ n10 \in Task /\ report_ \in Task /\ summary_ \in Task
      /\ n11 \in Task /\ audit_ \in Task /\ complete_ \in Task /\ enqueue_ \in Task /\ n12 \in Task
  BY <1>1 DEF A!Note, A!Do, Task, NoteTypes, Outcomes
<1>3. /\ n1.task = "note" /\ n1.type = "CHECKING_CREDENTIALS"
      /\ load_.task = "load"
      /\ n2.task = "note" /\ n2.type = "VALIDATING_IDENTITY"
      /\ call_.task = "call"
      /\ n3.task = "note" /\ n3.type = "VALIDATING_IDENTITY"
      /\ n4.task = "note" /\ n4.type = x
      /\ n5.task = "note" /\ n5.type = "ANALYZING_SECURITY"
      /\ n6.task = "note" /\ n6.type = "ANALYZING_COST"
      /\ n7.task = "note" /\ n7.type = "MAPPING_COMPLIANCE"
      /\ n8.task = "note" /\ n8.type = "GENERATING_REMEDIATION_PLANS"
      /\ draft_.task = "draft"
      /\ n9.task = "note" /\ n9.type = "GENERATING_REMEDIATION_PLANS"
      /\ n10.task = "note" /\ n10.type = "GENERATING_REPORT"
      /\ report_.task = "report"
      /\ summary_.task = "summary"
      /\ n11.task = "note" /\ n11.type = "GENERATING_REPORT"
      /\ audit_.task = "audit"
      /\ complete_.task = "complete"
      /\ enqueue_.task = "enqueue"
      /\ n12.task = "note" /\ n12.type = "VALIDATING_IDENTITY"
      /\ n2.status = "running"
  BY DEF A!Note, A!Do
<1>8. /\ n1.status \in Outcomes /\ n2.status \in Outcomes /\ n3.status \in Outcomes /\ n4.status \in Outcomes
      /\ n5.status \in Outcomes /\ n6.status \in Outcomes /\ n7.status \in Outcomes /\ n8.status \in Outcomes
      /\ n9.status \in Outcomes /\ n10.status \in Outcomes /\ n11.status \in Outcomes /\ n12.status \in Outcomes
  BY DEF A!Note, Outcomes
<1>4. A(c)!Rest(setting) = <<n4, n5, n6, n7, n8, draft_, n9, n10, report_, summary_, n11, audit_, complete_, enqueue_>>
  BY DEF A!Rest, x
<1>5. A(c)!Script = <<n1, load_>> \o (IF A(c)!Validates(setting) THEN <<n2, call_, n3>>
                                  ELSE <<n12>>) \o A(c)!Rest(setting)
  BY DEF A!Script, A!Tasks
<1> HIDE DEF n1, load_, n2, call_, n3, n4, n5, n6, n7, n8, draft_, n9, n10, report_, summary_, n11, audit_, complete_, enqueue_, n12
<1>6. CASE A(c)!Validates(setting)
  <2> DEFINE t == A(c)!Script
             first == <<n1, load_>>
             second == <<n2, call_, n3>>
             rest == <<n4, n5, n6, n7, n8, draft_, n9, n10, report_, summary_, n11, audit_, complete_, enqueue_>>
             both == first \o second
  <2>1. t = both \o rest
    BY <1>4, <1>5, <1>6, Zenon
  <2> HIDE DEF t
  <2>2. first \in Seq(Task) /\ second \in Seq(Task) /\ rest \in Seq(Task)
    BY <1>2
  <2>3. Len(first) = 2 /\ Len(second) = 3 /\ Len(rest) = 14
    OBVIOUS
  <2>4. /\ first[1] = n1 /\ first[2] = load_ /\ second[1] = n2 /\ second[2] = call_ /\ second[3] = n3
        /\ rest[1] = n4 /\ rest[2] = n5 /\ rest[3] = n6 /\ rest[4] = n7 /\ rest[5] = n8
        /\ rest[6] = draft_ /\ rest[7] = n9 /\ rest[8] = n10 /\ rest[9] = report_ /\ rest[10] = summary_
        /\ rest[11] = n11 /\ rest[12] = audit_ /\ rest[13] = complete_ /\ rest[14] = enqueue_
    OBVIOUS
  <2> HIDE DEF first, second, rest
  <2>11. /\ both \in Seq(Task) /\ Len(both) = 5
         /\ \A i \in 1..2 : both[i] = first[i]
         /\ \A i \in 1..3 : both[2 + i] = second[i]
    <3>1. /\ both \in Seq(Task) /\ Len(both) = Len(first) + Len(second)
          /\ \A i \in 1..Len(first) : both[i] = first[i]
          /\ \A i \in 1..Len(second) : both[Len(first) + i] = second[i]
      <4>1. both = first \o second
        OBVIOUS
      <4> HIDE DEF both
      <4> QED
        BY <2>2, <4>1, SMT
    <3> QED
      BY <2>3, <3>1
  <2> HIDE DEF both
  <2>12. /\ t \in Seq(Task) /\ Len(t) = 19
         /\ \A i \in 1..5 : t[i] = both[i]
         /\ \A i \in 1..14 : t[5 + i] = rest[i]
    <3>1. /\ t \in Seq(Task) /\ Len(t) = Len(both) + Len(rest)
          /\ \A i \in 1..Len(both) : t[i] = both[i]
          /\ \A i \in 1..Len(rest) : t[Len(both) + i] = rest[i]
      <4>1. both \in Seq(Task) /\ rest \in Seq(Task)
        BY <2>2, <2>11
      <4> QED
        BY <2>1, <4>1, SMT
    <3> QED
      BY <2>3, <2>11, <3>1
  <2>13. /\ t[1] = both[1] /\ t[2] = both[2] /\ t[3] = both[3] /\ t[4] = both[4] /\ t[5] = both[5]
         /\ t[6] = rest[1] /\ t[7] = rest[2] /\ t[8] = rest[3] /\ t[9] = rest[4] /\ t[10] = rest[5]
         /\ t[11] = rest[6] /\ t[12] = rest[7] /\ t[13] = rest[8] /\ t[14] = rest[9] /\ t[15] = rest[10]
         /\ t[16] = rest[11] /\ t[17] = rest[12] /\ t[18] = rest[13] /\ t[19] = rest[14] /\ both[1] = first[1]
         /\ both[2] = first[2] /\ both[3] = second[1] /\ both[4] = second[2] /\ both[5] = second[3]
    BY <2>11, <2>12
  <2>14. /\ t[1] = n1 /\ t[2] = load_ /\ t[3] = n2 /\ t[4] = call_ /\ t[5] = n3 /\ t[6] = n4
         /\ t[7] = n5 /\ t[8] = n6 /\ t[9] = n7 /\ t[10] = n8 /\ t[11] = draft_ /\ t[12] = n9
         /\ t[13] = n10 /\ t[14] = report_ /\ t[15] = summary_ /\ t[16] = n11 /\ t[17] = audit_ /\ t[18] = complete_
         /\ t[19] = enqueue_
    BY <2>4, <2>13
  <2>5. /\ t[1].task = "note" /\ t[1].type = "CHECKING_CREDENTIALS"
        /\ t[2].task = "load"
        /\ t[3].task = "note" /\ t[3].type = "VALIDATING_IDENTITY"
        /\ t[4].task = "call"
        /\ t[5].task = "note" /\ t[5].type = "VALIDATING_IDENTITY"
        /\ t[6].task = "note" /\ t[6].type = x
        /\ t[7].task = "note" /\ t[7].type = "ANALYZING_SECURITY"
        /\ t[8].task = "note" /\ t[8].type = "ANALYZING_COST"
        /\ t[9].task = "note" /\ t[9].type = "MAPPING_COMPLIANCE"
        /\ t[10].task = "note" /\ t[10].type = "GENERATING_REMEDIATION_PLANS"
        /\ t[11].task = "draft"
        /\ t[12].task = "note" /\ t[12].type = "GENERATING_REMEDIATION_PLANS"
        /\ t[13].task = "note" /\ t[13].type = "GENERATING_REPORT"
        /\ t[14].task = "report"
        /\ t[15].task = "summary"
        /\ t[16].task = "note" /\ t[16].type = "GENERATING_REPORT"
        /\ t[17].task = "audit"
        /\ t[18].task = "complete"
        /\ t[19].task = "enqueue"
    BY <1>3, <2>14
  <2>6. t[3].status = "running" /\ ~setting.scanner /\ setting.ready
    BY <1>3, <1>6, <2>14 DEF A!Validates, A!Mode
  <2>7. \A i \in 1..19 : i \in {1, 2, 3, 4, 5, 6, 7, 8, 9, 10, 11, 12, 13, 14, 15, 16, 17, 18, 19}
    OBVIOUS
  <2>8. /\ \A i \in 1..19 : t[i].task = "enqueue" <=> i = 19
        /\ \A i \in 1..19 : t[i].task = "complete" <=> i = 18
        /\ \A i \in 1..19 : t[i].task = "note" => t[i].type \in NoteTypes
        /\ \A i \in 1..19 : t[i].task = "note" => t[i].status \in Outcomes
    <3>1. /\ t[1].status \in Outcomes /\ t[3].status \in Outcomes /\ t[5].status \in Outcomes /\ t[6].status \in Outcomes
          /\ t[7].status \in Outcomes /\ t[8].status \in Outcomes /\ t[9].status \in Outcomes /\ t[10].status \in Outcomes
          /\ t[12].status \in Outcomes /\ t[13].status \in Outcomes /\ t[16].status \in Outcomes
      BY <1>8, <2>14
    <3> QED
      BY <1>1, <2>5, <2>7, <3>1 DEF NoteTypes
  <2>9. /\ \A y \in Items \cup {"draft"} : \E i \in 1..17 : t[i].task = y
        /\ \A i, j \in 1..19 : t[i].task = "load" /\ t[j].task = "draft" => i < j
    <3>1. \A i \in 1..19 : t[i].task = "load" => i = 2
      BY <2>5, <2>7
    <3>2. t[1].task # "draft" /\ t[2].task # "draft"
      BY <2>5
    <3>3. 11 \in 1..17 /\ 14 \in 1..17 /\ 15 \in 1..17 /\ 17 \in 1..17
      OBVIOUS
    <3> QED
      BY <2>5, <3>1, <3>2, <3>3 DEF Items
  <2>10. \A i \in 1..19 : t[i].task = "call" =>
           i > 1 /\ t[i - 1].task = "note" /\ <<t[i - 1].type, t[i - 1].status>> = Announced
    <3>1. \A i \in 1..19 : t[i].task = "call" => i = 4
      BY <2>5, <2>7
    <3> QED
      BY <2>5, <2>6, <3>1 DEF Announced
  <2> QED
    BY <2>6, <2>8, <2>9, <2>10, <2>12, SMTT(60) DEF IsScript, t
<1>7. CASE ~A(c)!Validates(setting)
  <2> DEFINE t == A(c)!Script
             first == <<n1, load_>>
             second == <<n12>>
             rest == <<n4, n5, n6, n7, n8, draft_, n9, n10, report_, summary_, n11, audit_, complete_, enqueue_>>
             both == first \o second
  <2>1. t = both \o rest
    BY <1>4, <1>5, <1>7, Zenon
  <2> HIDE DEF t
  <2>2. first \in Seq(Task) /\ second \in Seq(Task) /\ rest \in Seq(Task)
    BY <1>2
  <2>3. Len(first) = 2 /\ Len(second) = 1 /\ Len(rest) = 14
    OBVIOUS
  <2>4. /\ first[1] = n1 /\ first[2] = load_ /\ second[1] = n12 /\ rest[1] = n4 /\ rest[2] = n5
        /\ rest[3] = n6 /\ rest[4] = n7 /\ rest[5] = n8 /\ rest[6] = draft_ /\ rest[7] = n9
        /\ rest[8] = n10 /\ rest[9] = report_ /\ rest[10] = summary_ /\ rest[11] = n11 /\ rest[12] = audit_
        /\ rest[13] = complete_ /\ rest[14] = enqueue_
    OBVIOUS
  <2> HIDE DEF first, second, rest
  <2>11. /\ both \in Seq(Task) /\ Len(both) = 3
         /\ \A i \in 1..2 : both[i] = first[i]
         /\ \A i \in 1..1 : both[2 + i] = second[i]
    <3>1. /\ both \in Seq(Task) /\ Len(both) = Len(first) + Len(second)
          /\ \A i \in 1..Len(first) : both[i] = first[i]
          /\ \A i \in 1..Len(second) : both[Len(first) + i] = second[i]
      <4>1. both = first \o second
        OBVIOUS
      <4> HIDE DEF both
      <4> QED
        BY <2>2, <4>1, SMT
    <3> QED
      BY <2>3, <3>1
  <2> HIDE DEF both
  <2>12. /\ t \in Seq(Task) /\ Len(t) = 17
         /\ \A i \in 1..3 : t[i] = both[i]
         /\ \A i \in 1..14 : t[3 + i] = rest[i]
    <3>1. /\ t \in Seq(Task) /\ Len(t) = Len(both) + Len(rest)
          /\ \A i \in 1..Len(both) : t[i] = both[i]
          /\ \A i \in 1..Len(rest) : t[Len(both) + i] = rest[i]
      <4>1. both \in Seq(Task) /\ rest \in Seq(Task)
        BY <2>2, <2>11
      <4> QED
        BY <2>1, <4>1, SMT
    <3> QED
      BY <2>3, <2>11, <3>1
  <2>13. /\ t[1] = both[1] /\ t[2] = both[2] /\ t[3] = both[3] /\ t[4] = rest[1] /\ t[5] = rest[2]
         /\ t[6] = rest[3] /\ t[7] = rest[4] /\ t[8] = rest[5] /\ t[9] = rest[6] /\ t[10] = rest[7]
         /\ t[11] = rest[8] /\ t[12] = rest[9] /\ t[13] = rest[10] /\ t[14] = rest[11] /\ t[15] = rest[12]
         /\ t[16] = rest[13] /\ t[17] = rest[14] /\ both[1] = first[1] /\ both[2] = first[2] /\ both[3] = second[1]
    BY <2>11, <2>12
  <2>14. /\ t[1] = n1 /\ t[2] = load_ /\ t[3] = n12 /\ t[4] = n4 /\ t[5] = n5 /\ t[6] = n6
         /\ t[7] = n7 /\ t[8] = n8 /\ t[9] = draft_ /\ t[10] = n9 /\ t[11] = n10 /\ t[12] = report_
         /\ t[13] = summary_ /\ t[14] = n11 /\ t[15] = audit_ /\ t[16] = complete_ /\ t[17] = enqueue_
    BY <2>4, <2>13
  <2>5. /\ t[1].task = "note" /\ t[1].type = "CHECKING_CREDENTIALS"
        /\ t[2].task = "load"
        /\ t[3].task = "note" /\ t[3].type = "VALIDATING_IDENTITY"
        /\ t[4].task = "note" /\ t[4].type = x
        /\ t[5].task = "note" /\ t[5].type = "ANALYZING_SECURITY"
        /\ t[6].task = "note" /\ t[6].type = "ANALYZING_COST"
        /\ t[7].task = "note" /\ t[7].type = "MAPPING_COMPLIANCE"
        /\ t[8].task = "note" /\ t[8].type = "GENERATING_REMEDIATION_PLANS"
        /\ t[9].task = "draft"
        /\ t[10].task = "note" /\ t[10].type = "GENERATING_REMEDIATION_PLANS"
        /\ t[11].task = "note" /\ t[11].type = "GENERATING_REPORT"
        /\ t[12].task = "report"
        /\ t[13].task = "summary"
        /\ t[14].task = "note" /\ t[14].type = "GENERATING_REPORT"
        /\ t[15].task = "audit"
        /\ t[16].task = "complete"
        /\ t[17].task = "enqueue"
    BY <1>3, <2>14
  <2>7. \A i \in 1..17 : i \in {1, 2, 3, 4, 5, 6, 7, 8, 9, 10, 11, 12, 13, 14, 15, 16, 17}
    OBVIOUS
  <2>8. /\ \A i \in 1..17 : t[i].task = "enqueue" <=> i = 17
        /\ \A i \in 1..17 : t[i].task = "complete" <=> i = 16
        /\ \A i \in 1..17 : t[i].task = "note" => t[i].type \in NoteTypes
        /\ \A i \in 1..17 : t[i].task = "note" => t[i].status \in Outcomes
    <3>1. /\ t[1].status \in Outcomes /\ t[3].status \in Outcomes /\ t[4].status \in Outcomes /\ t[5].status \in Outcomes
          /\ t[6].status \in Outcomes /\ t[7].status \in Outcomes /\ t[8].status \in Outcomes /\ t[10].status \in Outcomes
          /\ t[11].status \in Outcomes /\ t[14].status \in Outcomes
      BY <1>8, <2>14
    <3> QED
      BY <1>1, <2>5, <2>7, <3>1 DEF NoteTypes
  <2>9. /\ \A y \in Items \cup {"draft"} : \E i \in 1..15 : t[i].task = y
        /\ \A i, j \in 1..17 : t[i].task = "load" /\ t[j].task = "draft" => i < j
    <3>1. \A i \in 1..17 : t[i].task = "load" => i = 2
      BY <2>5, <2>7
    <3>2. t[1].task # "draft" /\ t[2].task # "draft"
      BY <2>5
    <3>3. 9 \in 1..15 /\ 12 \in 1..15 /\ 13 \in 1..15 /\ 15 \in 1..15
      OBVIOUS
    <3> QED
      BY <2>5, <3>1, <3>2, <3>3 DEF Items
  <2>10. \A i \in 1..17 : t[i].task # "call"
    BY <2>5, <2>7
  <2> QED
    BY <2>8, <2>9, <2>10, <2>12 DEF IsScript, t
<1> QED
  BY <1>6, <1>7

\* Counting the notes of a script.
LEMMA Counting ==
  ASSUME NEW s, IsScript(s), NEW i \in 1..Len(s)
  PROVE  /\ IsFiniteSet(Notes(s)) /\ Cardinality(Noted(s, i)) \in Nat
         /\ \A j \in Noted(s, i) : Nth(s, j) \in 1..Cardinality(Noted(s, i))
         /\ IF i \in Notes(s)
            THEN /\ Nth(s, i) = Cardinality(Noted(s, i)) + 1
                 /\ Noted(s, i + 1) = Noted(s, i) \cup {i}
                 /\ Cardinality(Noted(s, i + 1)) = Cardinality(Noted(s, i)) + 1
            ELSE Noted(s, i + 1) = Noted(s, i)
<1>1. DOMAIN s = 1..Len(s) /\ Len(s) \in Nat /\ Notes(s) \subseteq 1..Len(s)
  BY DEF IsScript, Notes
<1>2. IsFiniteSet(Notes(s))
  <2>1. IsFiniteSet(1..Len(s))
    BY <1>1, FS_Interval
  <2> QED
    BY <1>1, <2>1, FS_Subset
<1>3. IsFiniteSet(Noted(s, i)) /\ Cardinality(Noted(s, i)) \in Nat /\ i \notin Noted(s, i)
  <2>1. Noted(s, i) \subseteq Notes(s) /\ i \notin Noted(s, i)
    BY <1>1 DEF Noted
  <2>2. IsFiniteSet(Noted(s, i))
    BY <1>2, <2>1, FS_Subset
  <2> QED
    BY <2>1, <2>2, FS_CardinalityType
<1>4. ASSUME NEW j \in Noted(s, i)
      PROVE  Nth(s, j) \in 1..Cardinality(Noted(s, i))
  <2> DEFINE T == {k \in Notes(s) : k <= j}
  <2>1. T \subseteq Noted(s, i) /\ j \in T
    BY <1>1 DEF Noted
  <2> HIDE DEF T
  <2>2. IsFiniteSet(T) /\ Cardinality(T) <= Cardinality(Noted(s, i))
    BY <1>3, <2>1, FS_Subset
  <2>3. Cardinality(T) \in Nat /\ Cardinality(T) # 0
    BY <2>1, <2>2, FS_CardinalityType, FS_EmptySet
  <2>4. Nth(s, j) = Cardinality(T)
    BY DEF Nth, T
  <2> QED
    BY <1>3, <2>2, <2>3, <2>4
<1>5. CASE i \in Notes(s)
  <2>1. Noted(s, i + 1) = Noted(s, i) \cup {i} /\ {k \in Notes(s) : k <= i} = Noted(s, i) \cup {i}
    BY <1>1, <1>5 DEF Noted
  <2>2. Cardinality(Noted(s, i) \cup {i}) = Cardinality(Noted(s, i)) + 1
    BY <1>3, FS_AddElement
  <2> QED
    BY <1>2, <1>3, <1>4, <1>5, <2>1, <2>2 DEF Nth
<1>6. CASE i \notin Notes(s)
  <2>1. Noted(s, i + 1) = Noted(s, i)
    BY <1>1, <1>6 DEF Noted
  <2> QED
    BY <1>2, <1>3, <1>4, <1>6, <2>1
<1> QED
  BY <1>5, <1>6

\* What is on record stays on record, and grows with a note.
LEMMA RecordGoesOn ==
  ASSUME NEW s, IsScript(s), NEW i \in 1..(Len(s) - 1), NEW l \in Seq(NoteTypes \X Outcomes), Logged(s, l, i)
  PROVE  IF s[i].task = "note"
         THEN LET m == Append(l, <<s[i].type, s[i].status>>)
              IN  /\ Logged(s, m, i + 1) /\ m # <<>> /\ m[Len(m)][1] = s[i].type
                  /\ m \in Seq(NoteTypes \X Outcomes)
                  /\ \A k \in DOMAIN l : k \in DOMAIN m /\ m[k] = l[k]
         ELSE Logged(s, l, i + 1)
<1>1. i \in 1..Len(s) /\ i \in DOMAIN s
  BY DEF IsScript
<1>2. Len(l) = Cardinality(Noted(s, i)) /\ Cardinality(Noted(s, i)) \in Nat
  BY <1>1, Counting DEF Logged
<1>3. CASE s[i].task = "note"
  <2> DEFINE e == <<s[i].type, s[i].status>>
             m == Append(l, e)
  <2>1. s[i].type \in NoteTypes /\ s[i].status \in Outcomes
    BY <1>1, <1>3 DEF IsScript
  <2>2. e \in NoteTypes \X Outcomes /\ e[1] = s[i].type
    BY <2>1
  <2> HIDE DEF e
  <2>3. /\ m \in Seq(NoteTypes \X Outcomes) /\ Len(m) = Len(l) + 1 /\ m[Len(l) + 1] = e
        /\ \A k \in 1..Len(l) : m[k] = l[k]
        /\ DOMAIN l = 1..Len(l) /\ DOMAIN m = 1..(Len(l) + 1) /\ Len(l) \in Nat
    BY <2>2
  <2>4. /\ Nth(s, i) = Cardinality(Noted(s, i)) + 1
        /\ Noted(s, i + 1) = Noted(s, i) \cup {i}
        /\ Cardinality(Noted(s, i + 1)) = Cardinality(Noted(s, i)) + 1
        /\ \A j \in Noted(s, i) : Nth(s, j) \in 1..Cardinality(Noted(s, i))
    BY <1>1, <1>3, Counting DEF Notes
  <2> HIDE DEF m
  <2>5. Logged(s, m, i + 1)
    <3>1. ASSUME NEW j \in Noted(s, i + 1) PROVE m[Nth(s, j)] = <<s[j].type, s[j].status>>
      <4>1. CASE j = i
        BY <1>2, <2>3, <2>4, <4>1 DEF e
      <4>2. CASE j # i
        <5>1. j \in Noted(s, i)
          BY <2>4, <4>2
        <5>2. l[Nth(s, j)] = <<s[j].type, s[j].status>> /\ Nth(s, j) \in 1..Len(l)
          BY <1>2, <2>4, <5>1 DEF Logged
        <5> QED
          BY <2>3, <5>2
      <4> QED
        BY <4>1, <4>2
    <3> QED
      BY <1>2, <2>3, <2>4, <3>1 DEF Logged
  <2>6. m # <<>> /\ m[Len(m)][1] = s[i].type
    BY <2>2, <2>3
  <2>7. /\ Logged(s, m, i + 1) /\ m # <<>> /\ m[Len(m)][1] = s[i].type
        /\ m \in Seq(NoteTypes \X Outcomes)
        /\ \A k \in DOMAIN l : k \in DOMAIN m /\ m[k] = l[k]
    BY <2>3, <2>5, <2>6
  <2> QED
    BY <1>3, <2>7 DEF m, e
<1>4. CASE s[i].task # "note"
  <2>1. Noted(s, i + 1) = Noted(s, i)
    BY <1>1, <1>4, Counting DEF Notes
  <2> QED
    BY <1>4, <2>1 DEF Logged
<1> QED
  BY <1>3, <1>4

\* Before the first task nothing is on record, and before the last two everything is.
LEMMA RecordEnds ==
  ASSUME NEW s, IsScript(s), NEW l
  PROVE  /\ Logged(s, <<>>, 1)
         /\ \A i \in {Len(s) - 1, Len(s)} : Noted(s, i) = Notes(s)
<1>1. Noted(s, 1) = {}
  BY DEF Noted, Notes, IsScript
<1>2. \A i \in {Len(s) - 1, Len(s)} : Noted(s, i) = Notes(s)
  BY DEF Noted, Notes, IsScript
<1> QED
  BY <1>1, <1>2, FS_EmptySet DEF Logged

LEMMA ScriptLength == ASSUME NEW s, IsScript(s) PROVE Len(s) \in 3..20
BY DEF IsScript

LEMMA RunBegins ==
  ASSUME NEW c, NEW s, IsScript(s), NEW u, NEW w, NEW l, NEW p, NEW h, NEW F, NEW unplanned,
         RunOK(c, s, u, w, l, p, h, F, unplanned), w.status = "NONE",
         NEW v \in A(c)!Row, v.status = "CREATED"
  PROVE  RunOK(c, s, u, v, l, p, [h EXCEPT !.at = 1], F, unplanned)
<1> DEFINE g == [h EXCEPT !.at = 1]
<1>1. /\ h = A(c)!Idle /\ l = <<>> /\ h \in A(c)!Handler
      /\ l \in Seq(NoteTypes \X Outcomes) /\ p \in SUBSET Items
  BY DEF RunOK, RunTypes
<1>2. h.at = 0 /\ ~h.half /\ ~h.called /\ h.top = {}
  BY <1>1 DEF A!Idle
<1>3. g \in A(c)!Handler /\ g.at = 1 /\ ~g.half /\ ~g.called /\ g.top = {}
  BY <1>1, <1>2 DEF A!Handler
<1>4. g.at = 1 /\ ~g.half /\ ~g.called /\ g.top = {}
  BY <1>3
<1> HIDE DEF g
<1>5. 1 < Len(s) /\ 1 <= Len(s)
  <2>1. Len(s) \in 3..20
    BY ScriptLength
  <2> DEFINE n == Len(s)
  <2>2. n \in 3..20
    BY <2>1
  <2> HIDE DEF n
  <2>3. 1 < n /\ 1 <= n
    BY <2>2
  <2> QED
    BY <2>3 DEF n
<1>6. RunTypes(c, s, v, l, p, g)
  BY <1>1, <1>3, <1>4, <1>5 DEF RunTypes
<1>7. AtWork(s, v, l, p, g)
  <2>1. Logged(s, l, g.at)
    BY <1>1, <1>4, RecordEnds
  <2>2. 1..(g.at - 1) = {}
    BY <1>4
  <2>3. Len(s) \in 3..20
    BY ScriptLength
  <2>4. /\ \A j \in 1..(g.at - 1) : s[j].task \in Items => s[j].task \in p
        /\ (\E j \in 1..(g.at - 1) : s[j].task = "draft") => g.left = {} /\ g.current = 0
    BY <2>2
  <2>5. v.status # "NONE" /\ (v.status = "COMPLETED" <=> g.at = Len(s))
    BY <1>4, <2>3
  <2> QED
    BY <1>1, <1>4, <2>1, <2>4, <2>5 DEF AtWork
<1> QED
  BY <1>1, <1>4, <1>6, <1>7 DEF RunOK, Leads, IsAnnounced, g

LEMMA RunNotes ==
  ASSUME NEW c, NEW s, IsScript(s), NEW u, NEW w, NEW l, NEW p, NEW h, NEW F, NEW unplanned,
         RunOK(c, s, u, w, l, p, h, F, unplanned), h.at > 0, s[h.at].task = "note"
  PROVE  /\ ~h.half => RunOK(c, s, u, [w EXCEPT !.status = s[h.at].type], l, p,
                             [h EXCEPT !.half = TRUE], F, unplanned)
         /\ h.half => RunOK(c, s, u, w, Append(l, <<s[h.at].type, s[h.at].status>>), p,
                            [h EXCEPT !.at = h.at + 1, !.half = FALSE], F, unplanned)
<1> DEFINE i == h.at
<1>1. /\ i \in 1..(Len(s) - 2) /\ i \in 1..Len(s) /\ i \in Notes(s)
      /\ s[i].type \in NoteTypes /\ Len(s) \in 3..20
  <2>1. i \in 1..Len(s)
    <3>1. h \in A(c)!Handler /\ h.at <= Len(s)
      BY DEF RunOK, RunTypes
    <3>2. h.at \in 0..20
      BY <3>1 DEF A!Handler
    <3> QED
      BY <3>1, <3>2, ScriptLength, SMTT(60)
  <2> QED
    BY <2>1 DEF IsScript, Notes
<1>2. /\ AtWork(s, w, l, p, h) /\ RunTypes(c, s, w, l, p, h) /\ w \in A(c)!Row /\ h \in A(c)!Handler
      /\ l \in Seq(NoteTypes \X Outcomes)
      /\ w.status # "COMPLETED" /\ w.status # "NONE"
      /\ \A f \in h.top : f \in F \/ f \in h.left \/ f = h.current
      /\ Logged(s, l, i) /\ IsAnnounced(u, l, h)
  BY <1>1 DEF RunOK, AtWork, RunTypes
<1>3. ASSUME ~h.half
      PROVE  RunOK(c, s, u, [w EXCEPT !.status = s[h.at].type], l, p, [h EXCEPT !.half = TRUE], F, unplanned)
  <2> DEFINE v == [w EXCEPT !.status = s[h.at].type]
             g == [h EXCEPT !.half = TRUE]
  <2>1. v \in A(c)!Row /\ v.status = s[i].type /\ v.status # "COMPLETED" /\ v.status # "NONE"
    BY <1>1, <1>2 DEF A!Row, NoteTypes
  <2>2. /\ g \in A(c)!Handler /\ g.half /\ g.at = h.at /\ g.called = h.called /\ g.top = h.top
        /\ g.left = h.left /\ g.current = h.current
    BY <1>2 DEF A!Handler
  <2> HIDE DEF v, g
  <2>3. RunTypes(c, s, v, l, p, g)
    BY <1>2, <2>1, <2>2 DEF RunTypes
  <2>4. AtWork(s, v, l, p, g)
    BY <1>1, <1>2, <2>1, <2>2 DEF AtWork
  <2>5. Leads(s, v, l)
    <3>1. Nth(s, i) = Len(l) + 1
      BY <1>1, <1>2, Counting DEF Logged
    <3> QED
      BY <1>1, <2>1, <3>1 DEF Leads
  <2>6. RunOK(c, s, u, v, l, p, g, F, unplanned)
    BY <1>2, <2>1, <2>2, <2>3, <2>4, <2>5 DEF RunOK, IsAnnounced
  <2> QED
    BY <2>6 DEF v, g
<1>4. ASSUME h.half
      PROVE  RunOK(c, s, u, w, Append(l, <<s[h.at].type, s[h.at].status>>), p,
                   [h EXCEPT !.at = h.at + 1, !.half = FALSE], F, unplanned)
  <2> DEFINE m == Append(l, <<s[h.at].type, s[h.at].status>>)
             g == [h EXCEPT !.at = h.at + 1, !.half = FALSE]
  <2>1. /\ Logged(s, m, i + 1) /\ m # <<>> /\ m[Len(m)][1] = s[i].type
        /\ m \in Seq(NoteTypes \X Outcomes)
        /\ \A k \in DOMAIN l : k \in DOMAIN m /\ m[k] = l[k]
    <3>1. i \in 1..(Len(s) - 1) /\ s[i].task = "note"
      BY <1>1
    <3> HIDE DEF i
    <3>2. LET k == Append(l, <<s[i].type, s[i].status>>)
          IN  /\ Logged(s, k, i + 1) /\ k # <<>> /\ k[Len(k)][1] = s[i].type
              /\ k \in Seq(NoteTypes \X Outcomes)
              /\ \A x \in DOMAIN l : x \in DOMAIN k /\ k[x] = l[x]
      BY <1>2, <3>1, RecordGoesOn
    <3> QED
      BY <3>2 DEF i
  <2>2. /\ g \in A(c)!Handler /\ ~g.half /\ g.at = i + 1 /\ g.called = h.called /\ g.top = h.top
        /\ g.left = h.left /\ g.current = h.current
    <3>1. h.at + 1 \in 0..20
      <4> DEFINE k == h.at
                 n == Len(s)
      <4>1. k \in 1..(n - 2) /\ n \in 3..20
        BY <1>1
      <4> HIDE DEF k, n
      <4>2. k + 1 \in 0..20
        BY <4>1
      <4> QED
        BY <4>2 DEF k
    <3>2. /\ h = [x \in {"at", "half", "called", "top", "left", "current"} |-> h[x]]
          /\ DOMAIN h = {"at", "half", "called", "top", "left", "current"}
      BY <1>2 DEF A!Handler
    <3>3. /\ g.at = h.at + 1 /\ g.half = FALSE /\ g.called = h.called /\ g.top = h.top
          /\ g.left = h.left /\ g.current = h.current
      BY <3>2
    <3>4. g \in A(c)!Handler
      BY <1>2, <3>1 DEF A!Handler
    <3> QED
      BY <3>3, <3>4
  <2> HIDE DEF m, g
  <2>3. RunTypes(c, s, w, m, p, g)
    BY <1>1, <1>2, <2>1, <2>2 DEF RunTypes
  <2>4. w.status = s[i].type
    BY <1>2, <1>4 DEF AtWork
  <2>5. AtWork(s, w, m, p, g)
    <3>1. \A j \in 1..(g.at - 1) : j \in 1..(h.at - 1) \/ j = i
      BY <1>1, <2>2
    <3>2. \A j \in 1..(g.at - 1) : s[j].task \in Items => s[j].task \in p
      BY <1>2, <3>1 DEF AtWork, Items
    <3>3. (\E j \in 1..(g.at - 1) : s[j].task = "draft") => g.left = {} /\ g.current = 0
      BY <1>2, <2>2, <3>1 DEF AtWork
    <3> QED
      BY <1>1, <1>2, <2>1, <2>2, <2>4, <3>2, <3>3 DEF AtWork
  <2>6. Leads(s, w, m) /\ IsAnnounced(u, m, g)
    BY <1>2, <2>1, <2>2, <2>4 DEF Leads, IsAnnounced
  <2>7. RunOK(c, s, u, w, m, p, g, F, unplanned)
    BY <1>1, <1>2, <2>2, <2>3, <2>5, <2>6 DEF RunOK
  <2> QED
    BY <2>7 DEF m, g
<1> QED
  BY <1>3, <1>4

\* A task that is no note is done.
LEMMA RunMoves ==
  ASSUME NEW c, NEW s, IsScript(s), NEW u, NEW w, NEW l, NEW p, NEW h, NEW F, NEW unplanned,
         RunOK(c, s, u, w, l, p, h, F, unplanned), h.at \in 1..(Len(s) - 2), s[h.at].task # "note",
         NEW g \in A(c)!Handler, g.at = h.at + 1, ~g.half,
         NEW q \in SUBSET Items, p \subseteq q, s[h.at].task \in Items => s[h.at].task \in q,
         (\E j \in 1..h.at : s[j].task = "draft") => g.left = {} /\ g.current = 0,
         \A f \in g.top : f \in F \/ f \in g.left \/ f = g.current,
         IsAnnounced(u, l, g)
  PROVE  RunOK(c, s, u, w, l, q, g, F, unplanned)
<1>1. /\ AtWork(s, w, l, p, h) /\ RunTypes(c, s, w, l, p, h) /\ Len(s) \in 3..20
      /\ w.status # "COMPLETED" /\ w.status # "NONE" /\ Leads(s, w, l) /\ ~h.half
  BY DEF RunOK, AtWork, IsScript
<1>2. RunTypes(c, s, w, l, q, g)
  BY <1>1 DEF RunTypes
<1>3. AtWork(s, w, l, q, g)
  <2>1. \A j \in 1..(g.at - 1) : j \in 1..(h.at - 1) \/ j = h.at
    BY <1>1
  <2>2. \A j \in 1..(g.at - 1) : s[j].task \in Items => s[j].task \in q
    BY <1>1, <2>1 DEF AtWork
  <2>3. (\E j \in 1..(g.at - 1) : s[j].task = "draft") => g.left = {} /\ g.current = 0
    OBVIOUS
  <2>4. Logged(s, l, g.at)
    <3>1. h.at \in 1..(Len(s) - 1) /\ l \in Seq(NoteTypes \X Outcomes) /\ Logged(s, l, h.at)
      BY <1>1 DEF AtWork, RunTypes
    <3>2. Logged(s, l, h.at + 1)
      BY <3>1, RecordGoesOn
    <3> QED
      BY <3>2
  <2> QED
    BY <1>1, <2>2, <2>3, <2>4 DEF AtWork
<1> QED
  BY <1>1, <1>2, <1>3 DEF RunOK

\* A plan is looked for or created.
LEMMA RunDrafts ==
  ASSUME NEW c, NEW s, IsScript(s), NEW u, NEW w, NEW l, NEW p, NEW h, NEW F, NEW unplanned,
         RunOK(c, s, u, w, l, p, h, F, unplanned), h.at \in 1..(Len(s) - 2),
         h.left # {} \/ h.current # 0,
         NEW g \in A(c)!Handler, g.at = h.at, g.half = h.half, g.called = h.called, g.top = h.top,
         NEW H, F \subseteq H, NEW any,
         \A f \in g.top : f \in H \/ f \in g.left \/ f = g.current
  PROVE  RunOK(c, s, u, w, l, p, g, H, any)
<1>1. /\ AtWork(s, w, l, p, h) /\ RunTypes(c, s, w, l, p, h) /\ Len(s) \in 3..20
      /\ w.status # "COMPLETED" /\ w.status # "NONE" /\ Leads(s, w, l) /\ IsAnnounced(u, l, h)
  <2>1. Len(s) \in 3..20
    BY ScriptLength
  <2>2. h.at > 0 /\ h.at # Len(s)
    BY <2>1
  <2> QED
    BY <2>1, <2>2 DEF RunOK, AtWork
<1>2. RunTypes(c, s, w, l, p, g)
  BY <1>1 DEF RunTypes
<1>3. AtWork(s, w, l, p, g)
  BY <1>1 DEF AtWork
<1> QED
  BY <1>1, <1>2, <1>3 DEF RunOK, IsAnnounced

LEMMA RunCompletes ==
  ASSUME NEW c \in AssessmentConfigs, NEW s, IsScript(s), NEW u, NEW w, NEW l, NEW p, NEW h,
         NEW F, NEW unplanned, RunOK(c, s, u, w, l, p, h, F, unplanned), h.at > 0,
         s[h.at].task = "complete"
  PROVE  RunOK(c, s, u, [w EXCEPT !.status = "COMPLETED", !.called = h.called], l, p,
               [h EXCEPT !.at = h.at + 1, !.half = FALSE], F, unplanned)
<1> DEFINE v == [w EXCEPT !.status = "COMPLETED", !.called = h.called]
           g == [h EXCEPT !.at = h.at + 1, !.half = FALSE]
           n == Len(s)
<1>1. h.at = n - 1 /\ n \in 3..20 /\ h.at \in 1..n
  <2>1. h.at \in 1..Len(s)
    <3>1. h \in A(c)!Handler /\ h.at <= Len(s)
      BY DEF RunOK, RunTypes
    <3>2. h.at \in 0..20
      BY <3>1 DEF A!Handler
    <3> QED
      BY <3>1, <3>2, ScriptLength, SMTT(60)
  <2> QED
    BY <2>1 DEF IsScript
<1>2. /\ AtWork(s, w, l, p, h) /\ RunTypes(c, s, w, l, p, h) /\ w \in A(c)!Row /\ h \in A(c)!Handler
      /\ \A f \in h.top : f \in F \/ f \in h.left \/ f = h.current
      /\ IsAnnounced(u, l, h)
  BY <1>1 DEF RunOK, RunTypes
<1>3. v \in A(c)!Row /\ v.status = "COMPLETED" /\ v.called = h.called
  BY <1>2 DEF A!Row, A!Handler
<1>4. /\ g \in A(c)!Handler /\ ~g.half /\ g.at = n /\ g.called = h.called /\ g.top = h.top
      /\ g.left = h.left /\ g.current = h.current
  <2>1. h.at + 1 \in 0..20 /\ h.at + 1 = n
    BY <1>1
  <2>2. DOMAIN h = {"at", "half", "called", "top", "left", "current"}
    BY <1>2 DEF A!Handler
  <2>3. /\ g.at = h.at + 1 /\ g.half = FALSE /\ g.called = h.called /\ g.top = h.top
        /\ g.left = h.left /\ g.current = h.current
    BY <2>2
  <2>4. g \in A(c)!Handler
    BY <1>2, <2>1 DEF A!Handler
  <2> QED
    BY <2>1, <2>3, <2>4
<1> HIDE DEF v, g
<1>5. \A x \in Items \cup {"draft"} : \E j \in 1..(h.at - 1) : s[j].task = x
  BY <1>1 DEF IsScript
<1>6. h.left = {} /\ h.current = 0 /\ p = Items
  <2>1. h.left = {} /\ h.current = 0
    BY <1>2, <1>5 DEF AtWork
  <2>2. \A x \in Items : x \in p
    BY <1>2, <1>5 DEF AtWork
  <2> QED
    BY <1>2, <2>1, <2>2 DEF RunTypes
<1>7. Logged(s, l, n) /\ Noted(s, n) = Notes(s)
  <2>1. Logged(s, l, n - 1)
    BY <1>1, <1>2 DEF AtWork
  <2> QED
    BY <2>1, RecordEnds DEF Logged
<1>8. h.top \subseteq F
  <2> SUFFICES ASSUME NEW f \in h.top PROVE f \in F
    OBVIOUS
  <2>1. f # 0
    BY <1>2, AssessmentAssumption DEF A!Handler
  <2> QED
    BY <1>2, <1>6, <2>1
<1>9. IsWhole(s, v, l, p, g, F)
  BY <1>3, <1>4, <1>6, <1>7, <1>8 DEF IsWhole, Logged
<1>10. RunTypes(c, s, v, l, p, g)
  BY <1>1, <1>2, <1>3, <1>4 DEF RunTypes
<1>11. AtWork(s, v, l, p, g)
  BY <1>1, <1>3, <1>4, <1>6, <1>7 DEF AtWork
<1>12. RunOK(c, s, u, v, l, p, g, F, unplanned)
  BY <1>2, <1>3, <1>4, <1>9, <1>10, <1>11 DEF RunOK, Leads, IsAnnounced
<1> QED
  BY <1>12 DEF v, g

\* A handler ends, however it does.
LEMMA RunEnds ==
  ASSUME NEW c, NEW s, IsScript(s), NEW u, NEW w, NEW l, NEW p, NEW h, NEW F, NEW unplanned,
         RunOK(c, s, u, w, l, p, h, F, unplanned)
  PROVE  RunOK(c, s, u, w, l, p, [h EXCEPT !.at = 0], F, unplanned)
<1> DEFINE g == [h EXCEPT !.at = 0]
<1>1. h \in A(c)!Handler /\ Len(s) \in 3..20
  BY DEF RunOK, RunTypes, IsScript
<1>2. /\ g \in A(c)!Handler /\ g.half = h.half /\ g.at = 0 /\ g.called = h.called /\ g.top = h.top
      /\ g.left = h.left /\ g.current = h.current
  BY <1>1 DEF A!Handler
<1>3. h = A(c)!Idle => g = A(c)!Idle
  BY DEF A!Idle
<1> HIDE DEF g
<1>4. RunOK(c, s, u, w, l, p, g, F, unplanned)
  BY <1>1, <1>2, <1>3 DEF RunOK, RunTypes, IsWhole, IsAnnounced
<1> QED
  BY <1>4 DEF g

LEMMA RunStays ==
  ASSUME NEW c, NEW s, NEW u, NEW w, NEW l, NEW p, NEW h, NEW F, NEW unplanned,
         RunOK(c, s, u, w, l, p, h, F, unplanned), NEW H, F \subseteq H, NEW still, unplanned => still
  PROVE  RunOK(c, s, u, w, l, p, h, H, still)
BY DEF RunOK, IsWhole

LEMMA ScriptStays ==
  ASSUME NEW c, UNCHANGED setting
  PROVE  A(c)!Script' = A(c)!Script
BY DEF A!Script, A!Tasks, A!Rest, A!Validates, A!Mode, A!Note, A!Do

\* What every step of a run r comes to: it leaves the other runs as they are.
LEMMA RunChanges ==
  ASSUME NEW c, AssessmentInv(c), UNCHANGED setting, NEW r \in c.Runs, NEW w, NEW l, NEW p, NEW h,
         RunOK(c, A(c)!Script, setting, w, l, p, h, Planned(c)', Unplanned(c, r)'),
         row' = [row EXCEPT ![r] = w], log' = [log EXCEPT ![r] = l],
         product' = [product EXCEPT ![r] = p], handler' = [handler EXCEPT ![r] = h],
         drafts' \in [c.Findings -> SUBSET c.Runs], queue' \subseteq c.Runs,
         \A f \in c.Findings : drafts[f] \subseteq drafts'[f] /\ drafts'[f] \subseteq drafts[f] \cup {r},
         Overlaps(c)'
  PROVE  AssessmentInv(c)'
<1>1. A(c)!Script' = A(c)!Script
  BY ScriptStays
<1>2. Planned(c) \subseteq Planned(c)'
  BY DEF Planned
<1>3. AssessmentTypes(c)'
  BY DEF RunOK, RunTypes, AssessmentInv, AssessmentTypes, A!Row, A!Handler
<1>4. ASSUME NEW q \in c.Runs
      PROVE  RunOK(c, A(c)!Script, setting, row'[q], log'[q], product'[q], handler'[q],
                   Planned(c)', Unplanned(c, q)')
  <2>1. CASE q = r
    BY <2>1 DEF AssessmentInv, AssessmentTypes
  <2>2. CASE q # r
    <3>1. /\ row'[q] = row[q] /\ log'[q] = log[q] /\ product'[q] = product[q]
          /\ handler'[q] = handler[q]
      BY <2>2 DEF AssessmentInv, AssessmentTypes
    <3>2. Unplanned(c, q) => Unplanned(c, q)'
      BY <2>2 DEF Unplanned
    <3>3. RunOK(c, A(c)!Script, setting, row[q], log[q], product[q], handler[q], Planned(c), Unplanned(c, q))
      BY DEF AssessmentInv
    <3> QED
      BY <1>2, <3>1, <3>2, <3>3, RunStays
  <2> QED
    BY <2>1, <2>2
<1>5. \A i \in DOMAIN A(c)!Script : A(c)!Script[i].task = "call" => ~setting.scanner /\ setting.ready
  BY DEF AssessmentInv
<1>6. IsScript(A(c)!Script)
  BY DEF AssessmentInv
<1> HIDE DEF RunOK
<1> QED
  BY <1>1, <1>3, <1>4, <1>5, <1>6 DEF AssessmentInv

\* A step that looks for no plan and begins no run.
LEMMA OverlapsStay ==
  ASSUME NEW c, Overlaps(c), UNCHANGED drafts,
         \A q \in c.Runs :
            /\ row'[q].after = row[q].after /\ row[q].after \subseteq c.Runs
            /\ row[q].status # "NONE" => row'[q].status # "NONE"
            /\ handler[q].at = 0 => handler'[q].at = 0
            /\ handler'[q].current \in {0, handler[q].current},
         \A f \in c.Findings : drafts[f] \subseteq c.Runs
  PROVE  Overlaps(c)'
BY DEF Overlaps

\* The facts about a run that its steps begin from.
LEMMA RunFacts ==
  ASSUME NEW c, AssessmentInv(c), NEW r \in c.Runs
  PROVE  /\ RunOK(c, A(c)!Script, setting, row[r], log[r], product[r], handler[r], Planned(c), Unplanned(c, r))
         /\ IsScript(A(c)!Script) /\ Overlaps(c)
         /\ row = [row EXCEPT ![r] = row[r]] /\ log = [log EXCEPT ![r] = log[r]]
         /\ product = [product EXCEPT ![r] = product[r]] /\ handler = [handler EXCEPT ![r] = handler[r]]
         /\ drafts \in [c.Findings -> SUBSET c.Runs] /\ queue \subseteq c.Runs
         /\ row \in [c.Runs -> A(c)!Row] /\ handler \in [c.Runs -> A(c)!Handler]
         /\ \A q \in c.Runs : row[q].after \subseteq c.Runs
         /\ row[r] \in A(c)!Row /\ handler[r] \in A(c)!Handler
<1>1. AssessmentTypes(c)
  BY DEF AssessmentInv
<1>2. \A q \in c.Runs : row[q].after \subseteq c.Runs
  BY <1>1 DEF AssessmentTypes, A!Row
<1>3. /\ row = [row EXCEPT ![r] = row[r]] /\ log = [log EXCEPT ![r] = log[r]]
      /\ product = [product EXCEPT ![r] = product[r]] /\ handler = [handler EXCEPT ![r] = handler[r]]
  BY <1>1 DEF AssessmentTypes
<1>4. row[r] \in A(c)!Row /\ handler[r] \in A(c)!Handler
  BY <1>1 DEF AssessmentTypes
<1> QED
  BY <1>1, <1>2, <1>3, <1>4 DEF AssessmentInv, AssessmentTypes

\* A step of run r that changes its row, log, products and handler alone.
LEMMA RunGoesOn ==
  ASSUME NEW c, AssessmentInv(c), UNCHANGED <<setting, drafts>>, NEW r \in c.Runs,
         NEW w, NEW l, NEW p, NEW h,
         RunOK(c, A(c)!Script, setting, w, l, p, h, Planned(c), Unplanned(c, r)),
         row' = [row EXCEPT ![r] = w], log' = [log EXCEPT ![r] = l],
         product' = [product EXCEPT ![r] = p], handler' = [handler EXCEPT ![r] = h],
         queue' \subseteq c.Runs,
         w.after = row[r].after, row[r].status # "NONE" => w.status # "NONE",
         handler[r].at = 0 => h.at = 0, h.current \in {0, handler[r].current}
  PROVE  AssessmentInv(c)'
<1> HIDE DEF RunOK
<1>1. /\ Overlaps(c) /\ drafts \in [c.Findings -> SUBSET c.Runs]
      /\ row \in [c.Runs -> A(c)!Row] /\ handler \in [c.Runs -> A(c)!Handler]
      /\ \A q \in c.Runs : row[q].after \subseteq c.Runs
  BY RunFacts
<1>2. \A q \in c.Runs :
         /\ row'[q].after = row[q].after /\ row[q].after \subseteq c.Runs
         /\ row[q].status # "NONE" => row'[q].status # "NONE"
         /\ handler[q].at = 0 => handler'[q].at = 0
         /\ handler'[q].current \in {0, handler[q].current}
  BY <1>1
<1>3. Overlaps(c)'
  BY <1>1, <1>2, OverlapsStay
<1>4. Planned(c)' = Planned(c) /\ Unplanned(c, r)' = Unplanned(c, r)
  BY DEF Planned, Unplanned
<1>5. RunOK(c, A(c)!Script, setting, w, l, p, h, Planned(c)', Unplanned(c, r)')
  BY <1>4
<1> QED
  BY <1>1, <1>3, <1>5, RunChanges

LEMMA AssessmentStarts ==
  ASSUME NEW c \in AssessmentConfigs, A(c)!Init
  PROVE  AssessmentInv(c)
<1>1. IsScript(A(c)!Script) /\ \A i \in DOMAIN A(c)!Script :
         A(c)!Script[i].task = "call" => ~setting.scanner /\ setting.ready
  BY AssessmentScript
<1>2. A(c)!Idle \in A(c)!Handler /\ A(c)!Idle.at = 0 /\ A(c)!Idle.top = {} /\ ~A(c)!Idle.called
  BY DEF A!Idle, A!Handler
<1>3. [status |-> "NONE", called |-> FALSE, after |-> {}] \in A(c)!Row
  BY DEF A!Row
<1>4. <<>> \in Seq(NoteTypes \X Outcomes)
  OBVIOUS
<1>5. AssessmentTypes(c)
  BY <1>2, <1>3, <1>4 DEF AssessmentTypes, A!Init
<1>6. ASSUME NEW r \in c.Runs
      PROVE  RunOK(c, A(c)!Script, setting, row[r], log[r], product[r], handler[r], Planned(c), Unplanned(c, r))
  <2>1. /\ row[r] = [status |-> "NONE", called |-> FALSE, after |-> {}] /\ log[r] = <<>>
        /\ product[r] = {} /\ handler[r] = A(c)!Idle /\ Unplanned(c, r)
    BY DEF A!Init, Unplanned
  <2>2. RunTypes(c, A(c)!Script, row[r], log[r], product[r], handler[r])
    BY <1>1, <1>2, <1>3, <1>4, <2>1 DEF RunTypes, IsScript
  <2> QED
    BY <1>2, <2>1, <2>2 DEF RunOK, Leads, IsAnnounced
<1>7. Overlaps(c)
  BY DEF Overlaps, A!Init
<1> QED
  BY <1>1, <1>5, <1>6, <1>7 DEF AssessmentInv

LEMMA AssessmentBegins ==
  ASSUME NEW c \in AssessmentConfigs, AssessmentInv(c), NEW r \in c.Runs, A(c)!Start(r)
  PROVE  AssessmentInv(c)'
<1> DEFINE v == [status |-> "CREATED", called |-> FALSE,
                 after |-> {q \in c.Runs : row[q].status # "NONE" /\ handler[q].at = 0}]
           g == [handler[r] EXCEPT !.at = 1]
<1>1. /\ RunOK(c, A(c)!Script, setting, row[r], log[r], product[r], handler[r], Planned(c), Unplanned(c, r))
      /\ IsScript(A(c)!Script) /\ Overlaps(c)
      /\ log = [log EXCEPT ![r] = log[r]] /\ product = [product EXCEPT ![r] = product[r]]
      /\ drafts \in [c.Findings -> SUBSET c.Runs] /\ queue \subseteq c.Runs
      /\ row \in [c.Runs -> A(c)!Row] /\ handler \in [c.Runs -> A(c)!Handler]
  BY RunFacts
<1>2. /\ row[r].status = "NONE" /\ row' = [row EXCEPT ![r] = v] /\ handler' = [handler EXCEPT ![r].at = 1]
      /\ UNCHANGED <<setting, log, product, drafts, queue>>
  BY DEF A!Start
<1>3. handler' = [handler EXCEPT ![r] = g]
  BY <1>2
<1>4. v \in A(c)!Row /\ v.status = "CREATED" /\ v.after = {q \in c.Runs : row[q].status # "NONE" /\ handler[q].at = 0}
  BY DEF A!Row
<1>5. /\ handler[r] = A(c)!Idle /\ Unplanned(c, r)
  BY <1>1, <1>2 DEF RunOK
<1> HIDE DEF v
<1>6. RunOK(c, A(c)!Script, setting, v, log[r], product[r], g, Planned(c), Unplanned(c, r))
  BY <1>1, <1>2, <1>4, RunBegins
<1>7. Planned(c)' = Planned(c) /\ Unplanned(c, r)' = Unplanned(c, r)
  BY <1>2 DEF Planned, Unplanned
<1>8. Overlaps(c)'
  <2>1. \A q \in c.Runs : q # r => row'[q] = row[q] /\ handler'[q] = handler[q]
    BY <1>1, <1>2
  <2>2. row'[r] = v /\ handler'[r].current = 0
    BY <1>1, <1>2, <1>5 DEF A!Idle, A!Handler
  <2>3. ASSUME NEW q \in c.Runs, NEW s \in row'[q].after
        PROVE  /\ row'[s].status # "NONE" /\ handler'[s].at = 0
               /\ handler'[q].current # 0 => s \notin drafts'[handler'[q].current]
    <3>1. CASE q = r
      <4>1. s \in c.Runs /\ row[s].status # "NONE" /\ handler[s].at = 0
        BY <1>4, <2>2, <2>3, <3>1
      <4>2. s # r
        BY <1>2, <4>1
      <4> QED
        BY <2>1, <2>2, <3>1, <4>1, <4>2
    <3>2. CASE q # r
      <4>1. row'[q] = row[q] /\ handler'[q] = handler[q]
        BY <2>1, <3>2
      <4>2. /\ row[s].status # "NONE" /\ handler[s].at = 0
            /\ handler[q].current # 0 => s \notin drafts[handler[q].current]
        BY <1>1, <2>3, <4>1 DEF Overlaps
      <4>3. s # r /\ s \in c.Runs
        BY <1>1, <1>2, <2>3, <4>1, <4>2 DEF A!Row
      <4> QED
        BY <1>2, <2>1, <4>1, <4>2, <4>3
    <3> QED
      BY <3>1, <3>2
  <2>4. ASSUME NEW f \in c.Findings, NEW s \in drafts'[f], NEW q \in drafts'[f]
        PROVE  s \notin row'[q].after
    <3>1. drafts' = drafts /\ s \in c.Runs /\ q \in c.Runs /\ q # r
      BY <1>1, <1>2, <1>5, <2>4 DEF Unplanned
    <3>2. s \notin row[q].after
      BY <1>1, <2>4, <3>1 DEF Overlaps
    <3> QED
      BY <2>1, <3>1, <3>2
  <2> QED
    BY <2>3, <2>4 DEF Overlaps
<1>9. RunOK(c, A(c)!Script, setting, v, log[r], product[r], g, Planned(c)', Unplanned(c, r)')
  BY <1>6, <1>7
<1>10. /\ log' = [log EXCEPT ![r] = log[r]] /\ product' = [product EXCEPT ![r] = product[r]]
       /\ drafts' \in [c.Findings -> SUBSET c.Runs] /\ queue' \subseteq c.Runs /\ UNCHANGED setting
       /\ \A f \in c.Findings : drafts[f] \subseteq drafts'[f] /\ drafts'[f] \subseteq drafts[f] \cup {r}
  BY <1>1, <1>2
<1> HIDE DEF g
<1>11. ASSUME NEW w, NEW l, NEW p, NEW h, w = v, l = log[r], p = product[r], h = g
       PROVE  AssessmentInv(c)'
  <2>1. /\ RunOK(c, A(c)!Script, setting, w, l, p, h, Planned(c)', Unplanned(c, r)')
        /\ row' = [row EXCEPT ![r] = w] /\ log' = [log EXCEPT ![r] = l]
        /\ product' = [product EXCEPT ![r] = p] /\ handler' = [handler EXCEPT ![r] = h]
    BY <1>2, <1>3, <1>9, <1>10, <1>11
  <2> QED
    BY <1>8, <1>10, <2>1, RunChanges
<1> QED
  BY <1>11

\* What the task of a handler at work is.
LEMMA AtTask ==
  ASSUME NEW c, AssessmentInv(c), NEW r \in c.Runs, handler[r].at > 0, NEW t, t = A(c)!Script[handler[r].at]
  PROVE  /\ handler[r].at \in 1..Len(A(c)!Script) /\ handler[r].at \in DOMAIN A(c)!Script
         /\ t.task \notin {"complete", "enqueue"} => handler[r].at \in 1..(Len(A(c)!Script) - 2)
         /\ row[r].status # "NONE"
         /\ AtWork(A(c)!Script, row[r], log[r], product[r], handler[r])
         /\ IsAnnounced(setting, log[r], handler[r])
         /\ \A f \in handler[r].top : f \in Planned(c) \/ f \in handler[r].left \/ f = handler[r].current
<1>1. /\ RunOK(c, A(c)!Script, setting, row[r], log[r], product[r], handler[r], Planned(c), Unplanned(c, r))
      /\ IsScript(A(c)!Script) /\ handler[r] \in A(c)!Handler
  BY RunFacts
<1>2. handler[r].at \in 1..Len(A(c)!Script)
  BY <1>1, SMTT(60) DEF RunOK, RunTypes, A!Handler
<1>3. t.task \notin {"complete", "enqueue"} => handler[r].at \in 1..(Len(A(c)!Script) - 2)
  BY <1>1, <1>2 DEF IsScript
<1>4. /\ AtWork(A(c)!Script, row[r], log[r], product[r], handler[r]) /\ IsAnnounced(setting, log[r], handler[r])
      /\ \A f \in handler[r].top : f \in Planned(c) \/ f \in handler[r].left \/ f = handler[r].current
  BY <1>1 DEF RunOK
<1>5. row[r].status # "NONE" /\ handler[r].at \in DOMAIN A(c)!Script
  BY <1>1, <1>2, <1>4 DEF AtWork, IsScript
<1> QED
  BY <1>2, <1>3, <1>4, <1>5

LEMMA AssessmentNotes ==
  ASSUME NEW c \in AssessmentConfigs, AssessmentInv(c), NEW r \in c.Runs, handler[r].at > 0,
         NEW t, t = A(c)!Script[handler[r].at], A(c)!NoteStatus(r, t) \/ A(c)!NoteEvent(r, t)
  PROVE  AssessmentInv(c)'
<1> DEFINE s == A(c)!Script
           v == [row[r] EXCEPT !.status = s[handler[r].at].type]
           m == Append(log[r], <<s[handler[r].at].type, s[handler[r].at].status>>)
           begun == [handler[r] EXCEPT !.half = TRUE]
           ended == [handler[r] EXCEPT !.at = handler[r].at + 1, !.half = FALSE]
<1>1. /\ RunOK(c, s, setting, row[r], log[r], product[r], handler[r], Planned(c), Unplanned(c, r))
      /\ IsScript(s)
      /\ row = [row EXCEPT ![r] = row[r]] /\ log = [log EXCEPT ![r] = log[r]]
      /\ product = [product EXCEPT ![r] = product[r]] /\ queue \subseteq c.Runs
      /\ row[r] \in A(c)!Row /\ handler[r] \in A(c)!Handler
      /\ row \in [c.Runs -> A(c)!Row] /\ handler \in [c.Runs -> A(c)!Handler]
  BY RunFacts
<1>2. t.task = "note" /\ UNCHANGED <<setting, drafts, queue, product>>
  BY DEF A!NoteStatus, A!NoteEvent
<1>3. CASE A(c)!NoteStatus(r, t)
  <2>1. /\ row' = [row EXCEPT ![r] = v] /\ handler' = [handler EXCEPT ![r] = begun]
        /\ ~handler[r].half /\ log' = log
    BY <1>1, <1>3 DEF A!NoteStatus
  <2>2. RunOK(c, s, setting, v, log[r], product[r], begun, Planned(c), Unplanned(c, r))
    BY <1>1, <1>2, <2>1, RunNotes
  <2>3. v.after = row[r].after /\ begun.at = handler[r].at /\ begun.current = handler[r].current
    BY <1>1 DEF A!Row, A!Handler
  <2>4. v.status # "NONE"
    <3>1. v.status = t.type
      BY <1>1 DEF A!Row
    <3>2. handler[r].at \in 1..Len(s)
      BY AtTask
    <3>3. t.type \in NoteTypes
      BY <1>1, <1>2, <3>2 DEF IsScript
    <3> QED
      BY <3>1, <3>3 DEF NoteTypes
  <2>5. /\ log' = [log EXCEPT ![r] = log[r]] /\ product' = [product EXCEPT ![r] = product[r]]
        /\ queue' \subseteq c.Runs /\ UNCHANGED <<setting, drafts>>
    BY <1>1, <1>2, <2>1
  <2>6. RunOK(c, A(c)!Script, setting, v, log[r], product[r], begun, Planned(c), Unplanned(c, r))
    BY <2>2
  <2> HIDE DEF v, begun, s
  <2> QED
    BY <2>1, <2>3, <2>4, <2>5, <2>6, RunGoesOn
<1>4. CASE A(c)!NoteEvent(r, t)
  <2>1. /\ log' = [log EXCEPT ![r] = m] /\ handler' = [handler EXCEPT ![r] = ended]
        /\ handler[r].half /\ row' = row
    BY <1>1, <1>4 DEF A!NoteEvent, A!Go, A!Next_
  <2>2. RunOK(c, s, setting, row[r], m, product[r], ended, Planned(c), Unplanned(c, r))
    BY <1>1, <1>2, <2>1, RunNotes
  <2>3. ended.current = handler[r].current
    BY <1>1 DEF A!Handler
  <2>4. /\ row' = [row EXCEPT ![r] = row[r]] /\ product' = [product EXCEPT ![r] = product[r]]
        /\ queue' \subseteq c.Runs /\ UNCHANGED <<setting, drafts>>
    BY <1>1, <1>2, <2>1
  <2>5. RunOK(c, A(c)!Script, setting, row[r], m, product[r], ended, Planned(c), Unplanned(c, r))
    BY <2>2
  <2>6. handler[r].at # 0
    OBVIOUS
  <2> HIDE DEF m, ended, s
  <2> QED
    BY <2>1, <2>3, <2>4, <2>5, <2>6, RunGoesOn
<1> QED
  BY <1>3, <1>4

\* A handler with one task done, and what else it may have learnt.
LEMMA HandlerMoves ==
  ASSUME NEW c, NEW h \in A(c)!Handler, h.at \in 1..19
  PROVE  /\ A(c)!Next_(h) \in A(c)!Handler /\ A(c)!Next_(h).at = h.at + 1 /\ ~A(c)!Next_(h).half
         /\ A(c)!Next_(h).called = h.called /\ A(c)!Next_(h).top = h.top
         /\ A(c)!Next_(h).left = h.left /\ A(c)!Next_(h).current = h.current
<1> DEFINE n == A(c)!Next_(h)
<1>1. h.at + 1 \in 0..20
  OBVIOUS
<1>2. n = [h EXCEPT !.at = h.at + 1, !.half = FALSE]
  BY DEF A!Next_
<1>3. DOMAIN h = {"at", "half", "called", "top", "left", "current"}
  BY DEF A!Handler
<1>4. /\ n.at = h.at + 1 /\ n.half = FALSE /\ n.called = h.called /\ n.top = h.top
      /\ n.left = h.left /\ n.current = h.current
  BY <1>2, <1>3
<1>5. n \in A(c)!Handler
  BY <1>1, <1>2 DEF A!Handler
<1> HIDE DEF n
<1> QED
  BY <1>4, <1>5 DEF n

LEMMA TaskDone ==
  ASSUME NEW c, AssessmentInv(c), NEW r \in c.Runs, handler[r].at > 0,
         NEW t, t = A(c)!Script[handler[r].at], t.task \notin {"note", "complete", "enqueue"},
         NEW g \in A(c)!Handler, g.at = handler[r].at + 1, ~g.half, g.current \in {0, handler[r].current},
         NEW q \in SUBSET Items, product[r] \subseteq q, t.task \in Items => t.task \in q,
         (\E j \in 1..handler[r].at : A(c)!Script[j].task = "draft") => g.left = {} /\ g.current = 0,
         \A f \in g.top : f \in Planned(c) \/ f \in g.left \/ f = g.current,
         IsAnnounced(setting, log[r], g),
         handler' = [handler EXCEPT ![r] = g], product' = [product EXCEPT ![r] = q],
         UNCHANGED <<setting, row, log, drafts, queue>>
  PROVE  AssessmentInv(c)'
<1>1. /\ RunOK(c, A(c)!Script, setting, row[r], log[r], product[r], handler[r], Planned(c), Unplanned(c, r))
      /\ IsScript(A(c)!Script) /\ queue \subseteq c.Runs
      /\ row = [row EXCEPT ![r] = row[r]] /\ log = [log EXCEPT ![r] = log[r]]
  BY RunFacts
<1>2. handler[r].at \in 1..(Len(A(c)!Script) - 2)
  BY AtTask
<1>3. RunOK(c, A(c)!Script, setting, row[r], log[r], q, g, Planned(c), Unplanned(c, r))
  <2> DEFINE s == A(c)!Script
             h == handler[r]
             F == Planned(c)
             any == Unplanned(c, r)
  <2>1. s[h.at].task # "note" /\ (s[h.at].task \in Items => s[h.at].task \in q)
    OBVIOUS
  <2> HIDE DEF s, h, F, any
  <2> QED
    BY <1>1, <1>2, <2>1, RunMoves DEF s, h, F, any
<1>4. row' = [row EXCEPT ![r] = row[r]] /\ log' = [log EXCEPT ![r] = log[r]] /\ queue' \subseteq c.Runs
  BY <1>1
<1>5. handler[r].at # 0
  OBVIOUS
<1> QED
  BY <1>3, <1>4, <1>5, RunGoesOn

\* What holds of a handler before a task that is no note.
LEMMA BeforeTask ==
  ASSUME NEW c, AssessmentInv(c), NEW r \in c.Runs, handler[r].at > 0,
         NEW t, t = A(c)!Script[handler[r].at], t.task \notin {"note", "complete", "enqueue"}
  PROVE  /\ handler[r] \in A(c)!Handler /\ handler[r].at \in 1..19 /\ product[r] \in SUBSET Items
         /\ \A f \in handler[r].top : f \in Planned(c) \/ f \in handler[r].left \/ f = handler[r].current
         /\ t.task # "draft" =>
               ((\E j \in 1..handler[r].at : A(c)!Script[j].task = "draft") =>
                    handler[r].left = {} /\ handler[r].current = 0)
<1>1. /\ RunOK(c, A(c)!Script, setting, row[r], log[r], product[r], handler[r], Planned(c), Unplanned(c, r))
      /\ IsScript(A(c)!Script) /\ handler[r] \in A(c)!Handler
  BY RunFacts
<1>2. /\ handler[r].at \in 1..(Len(A(c)!Script) - 2)
      /\ AtWork(A(c)!Script, row[r], log[r], product[r], handler[r])
      /\ \A f \in handler[r].top : f \in Planned(c) \/ f \in handler[r].left \/ f = handler[r].current
  BY AtTask
<1>3. Len(A(c)!Script) \in 3..20
  BY <1>1 DEF IsScript
<1>4. handler[r].at \in 1..19
  <2> DEFINE k == handler[r].at
             n == Len(A(c)!Script)
  <2>1. k \in 1..(n - 2) /\ n \in 3..20
    BY <1>2, <1>3
  <2> HIDE DEF k, n
  <2>2. k \in 1..19
    BY <2>1
  <2> QED
    BY <2>2 DEF k
<1>5. product[r] \in SUBSET Items
  BY <1>1 DEF RunOK, RunTypes
<1>6. ASSUME t.task # "draft", \E j \in 1..handler[r].at : A(c)!Script[j].task = "draft"
      PROVE  handler[r].left = {} /\ handler[r].current = 0
  <2>1. PICK j \in 1..handler[r].at : A(c)!Script[j].task = "draft"
    BY <1>6
  <2>2. j \in 1..(handler[r].at - 1)
    BY <1>4, <1>6, <2>1
  <2> QED
    BY <1>2, <2>1, <2>2 DEF AtWork
<1> QED
  BY <1>1, <1>2, <1>4, <1>5, <1>6

LEMMA AssessmentLoads ==
  ASSUME NEW c \in AssessmentConfigs, AssessmentInv(c), NEW r \in c.Runs, handler[r].at > 0,
         NEW t, t = A(c)!Script[handler[r].at], A(c)!Load(r, t)
  PROVE  AssessmentInv(c)'
<1> DEFINE h == handler[r]
           s == A(c)!Script
<1>1. /\ t.task = "load" /\ UNCHANGED <<setting, row, log, product, drafts, queue>>
      /\ \E T \in SUBSET c.Findings :
            handler' = [handler EXCEPT ![r] = [A(c)!Next_(@) EXCEPT !.top = T, !.left = T]]
  BY DEF A!Load, A!stored
<1>2. PICK T \in SUBSET c.Findings :
         handler' = [handler EXCEPT ![r] = [A(c)!Next_(@) EXCEPT !.top = T, !.left = T]]
  BY <1>1
<1> DEFINE g == [A(c)!Next_(handler[r]) EXCEPT !.top = T, !.left = T]
<1>3. h \in A(c)!Handler /\ h.at \in 1..19 /\ product[r] \in SUBSET Items
  BY <1>1, BeforeTask
<1>4. handler' = [handler EXCEPT ![r] = g]
  BY <1>2
<1>5. /\ g \in A(c)!Handler /\ g.at = h.at + 1 /\ ~g.half /\ g.called = h.called
      /\ g.top = T /\ g.left = T /\ g.current = h.current
  <2> DEFINE n == A(c)!Next_(handler[r])
  <2>1. /\ n \in A(c)!Handler /\ n.at = h.at + 1 /\ ~n.half /\ n.called = h.called
        /\ n.current = h.current
    BY <1>3, HandlerMoves
  <2> HIDE DEF n
  <2>2. g = [n EXCEPT !.top = T, !.left = T]
    BY DEF n
  <2> HIDE DEF g, h
  <2> QED
    BY <2>1, <2>2 DEF A!Handler
<1> HIDE DEF g
<1>6. IsScript(s) /\ product = [product EXCEPT ![r] = product[r]]
  BY RunFacts
<1>7. h.at \in 1..Len(s) /\ IsAnnounced(setting, log[r], h)
  BY AtTask
<1>8. ~\E j \in 1..h.at : s[j].task = "draft"
  <2> SUFFICES ASSUME NEW j \in 1..h.at, s[j].task = "draft" PROVE FALSE
    OBVIOUS
  <2>1. j \in 1..Len(s) /\ h.at \in 1..Len(s) /\ s[h.at].task = "load"
    BY <1>1, <1>3, <1>6, <1>7 DEF IsScript
  <2>2. h.at < j
    BY <1>6, <2>1 DEF IsScript
  <2> QED
    BY <1>3, <2>1, <2>2
<1>9. IsAnnounced(setting, log[r], g)
  BY <1>5, <1>7 DEF IsAnnounced
<1>10. t.task \notin Items
  BY <1>1 DEF Items
<1> QED
  BY <1>1, <1>3, <1>4, <1>5, <1>6, <1>8, <1>9, <1>10, TaskDone

LEMMA AssessmentCalls ==
  ASSUME NEW c \in AssessmentConfigs, AssessmentInv(c), NEW r \in c.Runs, handler[r].at > 0,
         NEW t, t = A(c)!Script[handler[r].at], A(c)!CallIdentity(r, t)
  PROVE  AssessmentInv(c)'
<1> DEFINE h == handler[r]
           s == A(c)!Script
<1>1. /\ t.task = "call" /\ UNCHANGED <<setting, row, log, product, drafts, queue>>
      /\ \E called \in {FALSE, setting.connector = "readonly-validation"} :
            handler' = [handler EXCEPT ![r] = [A(c)!Next_(@) EXCEPT !.called = called]]
  BY DEF A!CallIdentity, A!stored
<1>2. PICK called \in {FALSE, setting.connector = "readonly-validation"} :
         handler' = [handler EXCEPT ![r] = [A(c)!Next_(@) EXCEPT !.called = called]]
  BY <1>1
<1> DEFINE g == [A(c)!Next_(handler[r]) EXCEPT !.called = called]
<1>3. /\ h \in A(c)!Handler /\ h.at \in 1..19 /\ product[r] \in SUBSET Items
      /\ \A f \in h.top : f \in Planned(c) \/ f \in h.left \/ f = h.current
      /\ (\E j \in 1..h.at : s[j].task = "draft") => h.left = {} /\ h.current = 0
  BY <1>1, BeforeTask
<1>4. handler' = [handler EXCEPT ![r] = g]
  BY <1>2
<1>5. /\ g \in A(c)!Handler /\ g.at = h.at + 1 /\ ~g.half /\ g.called = called
      /\ g.top = h.top /\ g.left = h.left /\ g.current = h.current
  <2> DEFINE n == A(c)!Next_(handler[r])
  <2>1. /\ n \in A(c)!Handler /\ n.at = h.at + 1 /\ ~n.half /\ n.top = h.top
        /\ n.left = h.left /\ n.current = h.current
    BY <1>3, HandlerMoves
  <2> HIDE DEF n
  <2>2. g = [n EXCEPT !.called = called] /\ called \in BOOLEAN
    BY DEF n
  <2> HIDE DEF g, h
  <2> QED
    BY <2>1, <2>2 DEF A!Handler
<1> HIDE DEF g
<1>6. /\ IsScript(s) /\ product = [product EXCEPT ![r] = product[r]]
      /\ RunOK(c, s, setting, row[r], log[r], product[r], h, Planned(c), Unplanned(c, r))
  BY RunFacts
<1>7. h.at \in 1..Len(s) /\ h.at \in DOMAIN s /\ AtWork(s, row[r], log[r], product[r], h)
  BY AtTask
<1>8. IsAnnounced(setting, log[r], g)
  <2> DEFINE i == h.at - 1
  <2>1. h.at > 1 /\ s[h.at - 1].task = "note" /\ <<s[h.at - 1].type, s[h.at - 1].status>> = Announced
    BY <1>1, <1>6, <1>7 DEF IsScript
  <2>2. i \in Noted(s, h.at)
    BY <1>6, <1>7, <2>1 DEF Noted, Notes, IsScript
  <2>3. log[r] \in Seq(NoteTypes \X Outcomes) /\ Logged(s, log[r], h.at)
    BY <1>6, <1>7 DEF RunOK, RunTypes, AtWork
  <2>4. Nth(s, i) \in 1..Len(log[r])
    BY <1>6, <1>7, <2>2, <2>3, Counting DEF Logged
  <2>5. log[r][Nth(s, i)] = Announced
    BY <2>1, <2>2, <2>3 DEF Logged
  <2>6. Nth(s, i) \in DOMAIN log[r]
    BY <2>3, <2>4
  <2>7. ~setting.scanner /\ setting.ready
    BY <1>1, <1>7 DEF AssessmentInv
  <2> QED
    BY <1>5, <2>5, <2>6, <2>7 DEF IsAnnounced
<1>9. t.task \notin Items
  BY <1>1 DEF Items
<1>10. /\ product' = [product EXCEPT ![r] = product[r]] /\ UNCHANGED <<setting, row, log, drafts, queue>>
       /\ t.task \notin {"note", "complete", "enqueue"}
  BY <1>1, <1>6
<1>11. /\ g.at = handler[r].at + 1 /\ ~g.half /\ g.current \in {0, handler[r].current}
       /\ (\E j \in 1..handler[r].at : A(c)!Script[j].task = "draft") => g.left = {} /\ g.current = 0
       /\ \A f \in g.top : f \in Planned(c) \/ f \in g.left \/ f = g.current
  BY <1>3, <1>5
<1> QED
  BY <1>3, <1>4, <1>5, <1>8, <1>9, <1>10, <1>11, TaskDone

LEMMA AssessmentStores ==
  ASSUME NEW c \in AssessmentConfigs, AssessmentInv(c), NEW r \in c.Runs, handler[r].at > 0,
         NEW t, t = A(c)!Script[handler[r].at], A(c)!Store(r, t) \/ A(c)!EndDrafts(r, t)
  PROVE  AssessmentInv(c)'
<1> DEFINE h == handler[r]
           s == A(c)!Script
           g == A(c)!Next_(handler[r])
<1>1. /\ t.task \in Items \cup {"draft"} /\ UNCHANGED <<setting, row, log, drafts, queue>>
      /\ handler' = [handler EXCEPT ![r] = g]
  BY DEF A!Store, A!EndDrafts, A!stored, A!Go, Items
<1>2. /\ h \in A(c)!Handler /\ h.at \in 1..19 /\ product[r] \in SUBSET Items
      /\ \A f \in h.top : f \in Planned(c) \/ f \in h.left \/ f = h.current
      /\ t.task # "draft" => ((\E j \in 1..h.at : s[j].task = "draft") => h.left = {} /\ h.current = 0)
  <2>1. t.task \notin {"note", "complete", "enqueue"}
    BY <1>1 DEF Items
  <2> QED
    BY <2>1, BeforeTask
<1>3. /\ g \in A(c)!Handler /\ g.at = h.at + 1 /\ ~g.half /\ g.called = h.called
      /\ g.top = h.top /\ g.left = h.left /\ g.current = h.current
  BY <1>2, HandlerMoves
<1>4. t.task = "draft" => h.left = {} /\ h.current = 0
  BY DEF A!Store, A!EndDrafts
<1>5. IsAnnounced(setting, log[r], h)
  BY AtTask
<1>6. IsAnnounced(setting, log[r], g)
  BY <1>3, <1>5 DEF IsAnnounced
<1>7. t.task \notin {"note", "complete", "enqueue"}
  BY <1>1 DEF Items
<1>8. product = [product EXCEPT ![r] = product[r]]
  BY RunFacts
<1>9. \E q \in SUBSET Items : /\ product' = [product EXCEPT ![r] = q] /\ product[r] \subseteq q
                              /\ t.task \in Items => t.task \in q
  <2>1. CASE A(c)!Store(r, t)
    <3>1. product' = [product EXCEPT ![r] = product[r] \cup {t.task}] /\ t.task \in Items
      BY <2>1 DEF A!Store, Items
    <3> QED
      BY <1>2, <3>1
  <2>2. CASE A(c)!EndDrafts(r, t)
    <3>1. product' = product /\ t.task \notin Items
      BY <2>2 DEF A!EndDrafts, A!stored, Items
    <3> QED
      BY <1>2, <1>8, <3>1
  <2> QED
    BY <2>1, <2>2
<1>10. PICK q \in SUBSET Items : /\ product' = [product EXCEPT ![r] = q] /\ product[r] \subseteq q
                                 /\ t.task \in Items => t.task \in q
  BY <1>9
<1> HIDE DEF g
<1> QED
  BY <1>1, <1>2, <1>3, <1>4, <1>6, <1>7, <1>10, TaskDone

LEMMA AssessmentFinds ==
  ASSUME NEW c \in AssessmentConfigs, AssessmentInv(c), NEW r \in c.Runs, handler[r].at > 0,
         NEW t, t = A(c)!Script[handler[r].at], A(c)!FindDraft(r, t)
  PROVE  AssessmentInv(c)'
<1>1. /\ t.task = "draft" /\ handler[r].current = 0 /\ UNCHANGED <<setting, row, log, product, drafts, queue>>
      /\ \E f \in handler[r].left :
            handler' = [handler EXCEPT ![r].left = @ \ {f}, ![r].current = IF drafts[f] = {} THEN f ELSE 0]
  BY DEF A!FindDraft, A!stored
<1>2. PICK f \in handler[r].left :
         handler' = [handler EXCEPT ![r].left = @ \ {f}, ![r].current = IF drafts[f] = {} THEN f ELSE 0]
  BY <1>1
<1> DEFINE h == handler[r]
           s == A(c)!Script
           new == IF drafts[f] = {} THEN f ELSE 0
           g == [h EXCEPT !.left = h.left \ {f}, !.current = new]
<1>3. /\ RunOK(c, s, setting, row[r], log[r], product[r], h, Planned(c), Unplanned(c, r))
      /\ IsScript(s) /\ Overlaps(c) /\ h \in A(c)!Handler
      /\ row = [row EXCEPT ![r] = row[r]] /\ log = [log EXCEPT ![r] = log[r]]
      /\ product = [product EXCEPT ![r] = product[r]]
      /\ drafts \in [c.Findings -> SUBSET c.Runs] /\ queue \subseteq c.Runs
      /\ row \in [c.Runs -> A(c)!Row] /\ handler \in [c.Runs -> A(c)!Handler]
  BY RunFacts
<1>4. h.at \in 1..(Len(s) - 2)
  BY <1>1, AtTask
<1>5. f \in c.Findings /\ f # 0 /\ h.top \subseteq c.Findings
  BY <1>2, <1>3, AssessmentAssumption DEF A!Handler
<1>6. handler' = [handler EXCEPT ![r] = g]
  BY <1>2, <1>3
<1>7. new \in c.Findings \cup {0} /\ (new # 0 => new = f /\ drafts[f] = {}) /\ (drafts[f] = {} => new = f)
  BY <1>5
<1> HIDE DEF new
<1>8. /\ g \in A(c)!Handler /\ g.at = h.at /\ g.half = h.half /\ g.called = h.called /\ g.top = h.top
      /\ g.left = h.left \ {f} /\ g.current = new
  BY <1>3, <1>7 DEF A!Handler
<1> HIDE DEF g
<1>9. \A x \in g.top : x \in Planned(c)' \/ x \in g.left \/ x = g.current
  <2> SUFFICES ASSUME NEW x \in h.top PROVE x \in Planned(c)' \/ x \in g.left \/ x = g.current
    BY <1>8
  <2>1. x \in c.Findings /\ x # 0
    BY <1>5, AssessmentAssumption
  <2>2. x \in Planned(c) \/ x \in h.left
    BY <1>1, <2>1, AtTask
  <2>3. Planned(c)' = Planned(c)
    BY <1>1 DEF Planned
  <2>4. CASE x = f
    BY <1>1, <1>5, <1>7, <1>8, <2>3, <2>4 DEF Planned
  <2> QED
    BY <1>8, <2>2, <2>3, <2>4
<1>10. Planned(c) \subseteq Planned(c)' /\ (h.left # {} \/ h.current # 0)
  BY <1>1, <1>2 DEF Planned
<1>11. RunOK(c, s, setting, row[r], log[r], product[r], g, Planned(c)', Unplanned(c, r)')
  <2> DEFINE F == Planned(c)
             H == Planned(c)'
             any == Unplanned(c, r)'
             all == Unplanned(c, r)
  <2> HIDE DEF s, h, F, H, any, all
  <2> QED
    BY <1>3, <1>4, <1>8, <1>9, <1>10, RunDrafts DEF F, H, any, all
<1>12. Overlaps(c)'
  <2>1. ASSUME NEW q \in c.Runs, NEW e \in row[q].after
        PROVE  handler'[e].at = 0 /\ (handler'[q].current # 0 => e \notin drafts[handler'[q].current])
    <3>1. row[e].status # "NONE" /\ handler[e].at = 0 /\ e \in c.Runs
      BY <1>3, <2>1 DEF Overlaps, A!Row
    <3>2. handler'[e].at = 0
      BY <1>3, <1>6, <3>1
    <3>3. CASE q = r
      <4>1. handler'[q].current = new
        BY <1>3, <1>6, <1>8, <3>3
      <4> QED
        BY <1>7, <3>2, <4>1
    <3>4. CASE q # r
      BY <1>3, <1>6, <2>1, <3>2, <3>4 DEF Overlaps
    <3> QED
      BY <3>3, <3>4
  <2>2. /\ \A q \in c.Runs : \A e \in row[q].after : row[e].status # "NONE"
        /\ \A x \in c.Findings : \A e, q \in drafts[x] : e \notin row[q].after
    BY <1>3 DEF Overlaps
  <2>3. row' = row /\ drafts' = drafts
    BY <1>1
  <2> QED
    BY <2>1, <2>2, <2>3 DEF Overlaps
<1>13. /\ row' = [row EXCEPT ![r] = row[r]] /\ log' = [log EXCEPT ![r] = log[r]]
       /\ product' = [product EXCEPT ![r] = product[r]] /\ UNCHANGED setting
       /\ drafts' \in [c.Findings -> SUBSET c.Runs] /\ queue' \subseteq c.Runs
       /\ \A x \in c.Findings : drafts[x] \subseteq drafts'[x] /\ drafts'[x] \subseteq drafts[x] \cup {r}
  BY <1>1, <1>3
<1>14. ASSUME NEW w, NEW l, NEW p, NEW k, w = row[r], l = log[r], p = product[r], k = g
       PROVE  AssessmentInv(c)'
  <2>1. /\ RunOK(c, A(c)!Script, setting, w, l, p, k, Planned(c)', Unplanned(c, r)')
        /\ row' = [row EXCEPT ![r] = w] /\ log' = [log EXCEPT ![r] = l]
        /\ product' = [product EXCEPT ![r] = p] /\ handler' = [handler EXCEPT ![r] = k]
    BY <1>6, <1>11, <1>13, <1>14
  <2> QED
    BY <1>12, <1>13, <2>1, RunChanges
<1> QED
  BY <1>14

LEMMA AssessmentCreates ==
  ASSUME NEW c \in AssessmentConfigs, AssessmentInv(c), NEW r \in c.Runs, handler[r].at > 0,
         NEW t, t = A(c)!Script[handler[r].at], A(c)!CreateDraft(r, t)
  PROVE  AssessmentInv(c)'
<1> DEFINE h == handler[r]
           s == A(c)!Script
           f == handler[r].current
           g == [h EXCEPT !.current = 0]
<1>1. /\ t.task = "draft" /\ f # 0 /\ UNCHANGED <<setting, row, log, product, queue>>
      /\ drafts' = [drafts EXCEPT ![f] = @ \cup {r}] /\ handler' = [handler EXCEPT ![r].current = 0]
  BY DEF A!CreateDraft
<1>2. /\ RunOK(c, s, setting, row[r], log[r], product[r], h, Planned(c), Unplanned(c, r))
      /\ IsScript(s) /\ Overlaps(c) /\ h \in A(c)!Handler
      /\ row = [row EXCEPT ![r] = row[r]] /\ log = [log EXCEPT ![r] = log[r]]
      /\ product = [product EXCEPT ![r] = product[r]]
      /\ drafts \in [c.Findings -> SUBSET c.Runs] /\ queue \subseteq c.Runs
      /\ row \in [c.Runs -> A(c)!Row] /\ handler \in [c.Runs -> A(c)!Handler]
  BY RunFacts
<1>3. h.at \in 1..(Len(s) - 2)
  BY <1>1, AtTask
<1>4. f \in c.Findings
  BY <1>1, <1>2 DEF A!Handler
<1>5. handler' = [handler EXCEPT ![r] = g]
  BY <1>1, <1>2
<1>6. /\ g \in A(c)!Handler /\ g.at = h.at /\ g.half = h.half /\ g.called = h.called /\ g.top = h.top
      /\ g.left = h.left /\ g.current = 0
  BY <1>2 DEF A!Handler
<1> HIDE DEF g
<1>7. \A x \in c.Findings : drafts'[x] = IF x = f THEN drafts[x] \cup {r} ELSE drafts[x]
  BY <1>1, <1>2
<1>8. Planned(c) \subseteq Planned(c)' /\ f \in Planned(c)'
  BY <1>4, <1>7 DEF Planned
<1>9. \A x \in g.top : x \in Planned(c)' \/ x \in g.left \/ x = g.current
  BY <1>6, <1>8, AtTask
<1>10. RunOK(c, s, setting, row[r], log[r], product[r], g, Planned(c)', Unplanned(c, r)')
  <2> DEFINE F == Planned(c)
             H == Planned(c)'
             any == Unplanned(c, r)'
             all == Unplanned(c, r)
  <2>1. h.current # 0
    BY <1>1
  <2> HIDE DEF s, h, F, H, any, all
  <2> QED
    BY <1>2, <1>3, <1>6, <1>8, <1>9, <2>1, RunDrafts DEF F, H, any, all
<1>11. Overlaps(c)'
  <2>1. ASSUME NEW q \in c.Runs, NEW e \in row[q].after
        PROVE  /\ e # r /\ handler'[e].at = 0
               /\ handler'[q].current # 0 => e \notin drafts'[handler'[q].current]
               /\ handler[q].current # 0 => e \notin drafts[handler[q].current]
    <3>1. /\ row[e].status # "NONE" /\ handler[e].at = 0 /\ e \in c.Runs
          /\ handler[q].current # 0 => e \notin drafts[handler[q].current]
      BY <1>2, <2>1 DEF Overlaps, A!Row
    <3>2. handler'[e].at = 0 /\ e # r
      BY <1>2, <1>5, <3>1
    <3>3. handler'[q].current # 0 => handler'[q].current = handler[q].current /\ handler[q].current \in c.Findings
      BY <1>2, <1>5, <1>6 DEF A!Handler
    <3> QED
      BY <1>7, <3>1, <3>2, <3>3
  <2>2. ASSUME NEW x \in c.Findings, NEW e \in drafts'[x], NEW q \in drafts'[x]
        PROVE  e \notin row[q].after
    <3>1. q \in c.Runs /\ e \in c.Runs
      <4>1. drafts[x] \subseteq c.Runs /\ r \in c.Runs
        BY <1>2
      <4>2. drafts'[x] \subseteq drafts[x] \cup {r}
        BY <1>7
      <4> QED
        BY <2>2, <4>1, <4>2
    <3>2. CASE e = r
      BY <2>1, <3>1, <3>2
    <3>3. CASE e # r /\ q = r
      <4>1. e \in drafts[x]
        BY <1>7, <2>2, <3>3
      <4>2. CASE x = f
        BY <1>1, <2>1, <3>1, <3>3, <4>1, <4>2
      <4>3. CASE x # f
        <5>1. q \in drafts[x]
          BY <1>7, <2>2, <4>3
        <5> QED
          BY <1>2, <4>1, <5>1 DEF Overlaps
      <4> QED
        BY <4>2, <4>3
    <3>4. CASE e # r /\ q # r
      <4>1. e \in drafts[x] /\ q \in drafts[x]
        BY <1>7, <2>2, <3>4
      <4> QED
        BY <1>2, <4>1 DEF Overlaps
    <3> QED
      BY <3>2, <3>3, <3>4
  <2>3. \A q \in c.Runs : \A e \in row[q].after : row[e].status # "NONE"
    BY <1>2 DEF Overlaps
  <2> QED
    BY <1>1, <2>1, <2>2, <2>3 DEF Overlaps
<1>12. /\ row' = [row EXCEPT ![r] = row[r]] /\ log' = [log EXCEPT ![r] = log[r]]
       /\ product' = [product EXCEPT ![r] = product[r]] /\ UNCHANGED setting
       /\ drafts' \in [c.Findings -> SUBSET c.Runs] /\ queue' \subseteq c.Runs
       /\ \A x \in c.Findings : drafts[x] \subseteq drafts'[x] /\ drafts'[x] \subseteq drafts[x] \cup {r}
  BY <1>1, <1>2, <1>7
<1>13. ASSUME NEW w, NEW l, NEW p, NEW k, w = row[r], l = log[r], p = product[r], k = g
       PROVE  AssessmentInv(c)'
  <2>1. /\ RunOK(c, A(c)!Script, setting, w, l, p, k, Planned(c)', Unplanned(c, r)')
        /\ row' = [row EXCEPT ![r] = w] /\ log' = [log EXCEPT ![r] = l]
        /\ product' = [product EXCEPT ![r] = p] /\ handler' = [handler EXCEPT ![r] = k]
    BY <1>5, <1>10, <1>12, <1>13
  <2> QED
    BY <1>11, <1>12, <2>1, RunChanges
<1> QED
  BY <1>13

LEMMA AssessmentCompletes ==
  ASSUME NEW c \in AssessmentConfigs, AssessmentInv(c), NEW r \in c.Runs, handler[r].at > 0,
         NEW t, t = A(c)!Script[handler[r].at], A(c)!Complete(r, t)
  PROVE  AssessmentInv(c)'
<1> DEFINE h == handler[r]
           s == A(c)!Script
           v == [row[r] EXCEPT !.status = "COMPLETED", !.called = handler[r].called]
           g == [handler[r] EXCEPT !.at = handler[r].at + 1, !.half = FALSE]
<1>1. /\ RunOK(c, s, setting, row[r], log[r], product[r], h, Planned(c), Unplanned(c, r))
      /\ IsScript(s) /\ row[r] \in A(c)!Row /\ h \in A(c)!Handler
      /\ log = [log EXCEPT ![r] = log[r]] /\ product = [product EXCEPT ![r] = product[r]]
      /\ queue \subseteq c.Runs
      /\ row \in [c.Runs -> A(c)!Row] /\ handler \in [c.Runs -> A(c)!Handler]
  BY RunFacts
<1>2. /\ t.task = "complete" /\ UNCHANGED <<setting, log, product, drafts, queue>>
      /\ row' = [row EXCEPT ![r].status = "COMPLETED", ![r].called = handler[r].called]
      /\ handler' = [handler EXCEPT ![r] = A(c)!Next_(@)]
  BY DEF A!Complete, A!Go
<1>3. handler' = [handler EXCEPT ![r] = g]
  BY <1>2 DEF A!Next_
<1>4. row' = [row EXCEPT ![r] = v]
  BY <1>1, <1>2
<1>5. RunOK(c, s, setting, v, log[r], product[r], g, Planned(c), Unplanned(c, r))
  BY <1>1, <1>2, RunCompletes
<1>6. v.after = row[r].after /\ v.status # "NONE"
  BY <1>1 DEF A!Row
<1>7. g.current = h.current
  BY <1>1 DEF A!Handler
<1>8. /\ log' = [log EXCEPT ![r] = log[r]] /\ product' = [product EXCEPT ![r] = product[r]]
      /\ queue' \subseteq c.Runs /\ UNCHANGED <<setting, drafts>> /\ handler[r].at # 0
  BY <1>1, <1>2
<1> HIDE DEF v, g
<1> QED
  BY <1>3, <1>4, <1>5, <1>6, <1>7, <1>8, RunGoesOn

\* The handler of a run ends: it has queued its job, or a statement has thrown.
LEMMA AssessmentEnds ==
  ASSUME NEW c \in AssessmentConfigs, AssessmentInv(c), NEW r \in c.Runs,
         A(c)!Throw(r) \/ \E t : A(c)!Enqueue(r, t)
  PROVE  AssessmentInv(c)'
<1> DEFINE g == [handler[r] EXCEPT !.at = 0]
<1>1. /\ RunOK(c, A(c)!Script, setting, row[r], log[r], product[r], handler[r], Planned(c), Unplanned(c, r))
      /\ IsScript(A(c)!Script) /\ handler[r] \in A(c)!Handler
      /\ row = [row EXCEPT ![r] = row[r]] /\ log = [log EXCEPT ![r] = log[r]]
      /\ product = [product EXCEPT ![r] = product[r]] /\ queue \subseteq c.Runs
      /\ row \in [c.Runs -> A(c)!Row] /\ handler \in [c.Runs -> A(c)!Handler]
  BY RunFacts
<1>2. /\ handler' = [handler EXCEPT ![r].at = 0] /\ queue' \in {queue, queue \cup {r}}
      /\ UNCHANGED <<setting, row, log, product, drafts>>
  BY DEF A!Throw, A!Enqueue, A!stored
<1>3. handler' = [handler EXCEPT ![r] = g]
  BY <1>2
<1>4. RunOK(c, A(c)!Script, setting, row[r], log[r], product[r], g, Planned(c), Unplanned(c, r))
  BY <1>1, RunEnds
<1>5. g.at = 0 /\ g.current = handler[r].current
  BY <1>1 DEF A!Handler
<1>6. /\ row' = [row EXCEPT ![r] = row[r]] /\ log' = [log EXCEPT ![r] = log[r]]
      /\ product' = [product EXCEPT ![r] = product[r]] /\ queue' \subseteq c.Runs
      /\ UNCHANGED <<setting, drafts>>
  BY <1>1, <1>2
<1> HIDE DEF g
<1> QED
  BY <1>3, <1>4, <1>5, <1>6, RunGoesOn

\* A crash ends every handler there is.
LEMMA AssessmentDies ==
  ASSUME NEW c \in AssessmentConfigs, AssessmentInv(c), A(c)!Crash
  PROVE  AssessmentInv(c)'
<1>1. /\ handler' = [r \in c.Runs |-> [handler[r] EXCEPT !.at = 0]]
      /\ UNCHANGED <<setting, row, log, product, drafts, queue>>
  BY DEF A!Crash, A!stored
<1>2. ASSUME NEW r \in c.Runs
      PROVE  /\ RunOK(c, A(c)!Script, setting, row[r], log[r], product[r], handler'[r], Planned(c), Unplanned(c, r))
             /\ handler'[r] \in A(c)!Handler /\ handler'[r].at = 0 /\ handler'[r].current = handler[r].current
  <2> DEFINE g == [handler[r] EXCEPT !.at = 0]
  <2>1. /\ RunOK(c, A(c)!Script, setting, row[r], log[r], product[r], handler[r], Planned(c), Unplanned(c, r))
        /\ IsScript(A(c)!Script) /\ handler[r] \in A(c)!Handler
    BY RunFacts
  <2>2. RunOK(c, A(c)!Script, setting, row[r], log[r], product[r], g, Planned(c), Unplanned(c, r))
    BY <2>1, RunEnds
  <2>3. g \in A(c)!Handler /\ g.at = 0 /\ g.current = handler[r].current
    BY <2>1 DEF A!Handler
  <2>4. handler'[r] = g
    BY <1>1
  <2> HIDE DEF g
  <2> QED
    BY <2>2, <2>3, <2>4
<1>3. Planned(c)' = Planned(c) /\ \A r \in c.Runs : Unplanned(c, r)' = Unplanned(c, r)
  BY <1>1 DEF Planned, Unplanned
<1>4. A(c)!Script' = A(c)!Script
  BY <1>1, ScriptStays
<1>5. /\ AssessmentTypes(c) /\ Overlaps(c) /\ IsScript(A(c)!Script)
      /\ \A i \in DOMAIN A(c)!Script : A(c)!Script[i].task = "call" => ~setting.scanner /\ setting.ready
  BY DEF AssessmentInv
<1>6. AssessmentTypes(c)'
  BY <1>1, <1>2, <1>5 DEF AssessmentTypes
<1>7. Overlaps(c)'
  <2>1. \A q \in c.Runs : row[q].after \subseteq c.Runs
    BY <1>5 DEF AssessmentTypes, A!Row
  <2>2. \A f \in c.Findings : drafts[f] \subseteq c.Runs
    BY <1>5 DEF AssessmentTypes
  <2> QED
    BY <1>1, <1>2, <1>5, <2>1, <2>2, OverlapsStay
<1>8. \A r \in c.Runs : RunOK(c, A(c)!Script, setting, row[r], log[r], product[r], handler'[r],
                              Planned(c)', Unplanned(c, r)')
  BY <1>2, <1>3
<1> QED
  BY <1>1, <1>4, <1>5, <1>6, <1>7, <1>8 DEF AssessmentInv

\* The worker's hook, triage and stuttering are nothing to a run.
LEMMA AssessmentTicks ==
  ASSUME NEW c \in AssessmentConfigs, AssessmentInv(c), UNCHANGED <<setting, row, log, product, drafts, handler>>,
         queue' \subseteq queue
  PROVE  AssessmentInv(c)'
<1>1. A(c)!Script' = A(c)!Script
  BY ScriptStays
<1>2. Planned(c)' = Planned(c) /\ \A r \in c.Runs : Unplanned(c, r)' = Unplanned(c, r)
  BY DEF Planned, Unplanned
<1>3. AssessmentTypes(c)' /\ Overlaps(c)'
  BY DEF AssessmentInv, AssessmentTypes, Overlaps, A!Row
<1> QED
  BY <1>1, <1>2, <1>3 DEF AssessmentInv

LEMMA AssessmentStep ==
  ASSUME NEW c \in AssessmentConfigs, AssessmentInv(c), A(c)!Next
  PROVE  AssessmentInv(c)'
<1>1. CASE \E r \in c.Runs : A(c)!Start(r)
  BY <1>1, AssessmentBegins
<1>2. CASE \E r \in c.Runs : A(c)!Step(r)
  <2>1. PICK r \in c.Runs : A(c)!Step(r)
    BY <1>2
  <2> DEFINE t == A(c)!Script[handler[r].at]
  <2>2. /\ handler[r].at > 0
        /\ \/ A(c)!NoteStatus(r, t) \/ A(c)!NoteEvent(r, t) \/ A(c)!Load(r, t) \/ A(c)!CallIdentity(r, t)
           \/ A(c)!FindDraft(r, t) \/ A(c)!CreateDraft(r, t) \/ A(c)!EndDrafts(r, t)
           \/ A(c)!Store(r, t) \/ A(c)!Complete(r, t) \/ A(c)!Enqueue(r, t)
    BY <2>1 DEF A!Step
  <2>3. t = A(c)!Script[handler[r].at]
    OBVIOUS
  <2> HIDE DEF t
  <2> QED
    BY <2>2, <2>3, AssessmentNotes, AssessmentLoads, AssessmentCalls, AssessmentFinds, AssessmentCreates,
       AssessmentStores, AssessmentCompletes, AssessmentEnds
<1>3. CASE \E r \in c.Runs : A(c)!Hook(r)
  BY <1>3, AssessmentTicks DEF A!Hook, A!stored
<1>4. CASE \E r \in c.Runs : A(c)!Throw(r)
  BY <1>4, AssessmentEnds
<1>5. CASE A(c)!Crash
  BY <1>5, AssessmentDies
<1>6. CASE A(c)!Triage
  BY <1>6, AssessmentTicks DEF A!Triage, A!stored
<1> QED
  BY <1>1, <1>2, <1>3, <1>4, <1>5, <1>6 DEF A!Next

LEMMA AssessmentSafe ==
  ASSUME NEW c \in AssessmentConfigs, AssessmentInv(c)
  PROVE  /\ A(c)!TypeOK /\ A(c)!CompletedIsWhole /\ A(c)!RetryFindsDrafts
         /\ A(c)!CallIsAnnounced /\ A(c)!StatusLeads
<1>1. A(c)!Steps = Notes(A(c)!Script)
  BY DEF A!Steps, Notes
<1>2. \A i : A(c)!Number(A(c)!Steps, i) = Nth(A(c)!Script, i)
  BY <1>1, AssessmentCardinality DEF A!Number, Nth
<1>3. \A r \in c.Runs :
         RunOK(c, A(c)!Script, setting, row[r], log[r], product[r], handler[r], Planned(c), Unplanned(c, r))
  BY DEF AssessmentInv
<1>4. A(c)!TypeOK
  BY <1>3 DEF A!TypeOK, AssessmentInv, AssessmentTypes, RunOK, RunTypes
<1>5. A(c)!CompletedIsWhole
  <2> SUFFICES ASSUME NEW r \in c.Runs, row[r].status = "COMPLETED"
               PROVE  /\ Len(log[r]) = A(c)!Cardinality(A(c)!Steps)
                      /\ \A i \in A(c)!Steps :
                            log[r][A(c)!Number(A(c)!Steps, i)] = <<A(c)!Script[i].type, A(c)!Script[i].status>>
                      /\ product[r] = {"report", "summary", "audit"}
                      /\ \A f \in handler[r].top : drafts[f] # {}
                      /\ row[r].called = handler[r].called
    BY DEF A!CompletedIsWhole
  <2>1. IsWhole(A(c)!Script, row[r], log[r], product[r], handler[r], Planned(c))
    BY <1>3 DEF RunOK
  <2>2. A(c)!Cardinality(A(c)!Steps) = Cardinality(Notes(A(c)!Script))
    BY <1>1, AssessmentCardinality
  <2> QED
    BY <1>1, <1>2, <2>1, <2>2 DEF IsWhole, Items, Planned
<1>6. A(c)!RetryFindsDrafts
  BY DEF A!RetryFindsDrafts, AssessmentInv, Overlaps
<1>7. A(c)!CallIsAnnounced
  BY <1>3 DEF A!CallIsAnnounced, RunOK, IsAnnounced, Announced
<1>8. A(c)!StatusLeads
  BY <1>1, <1>2, <1>3 DEF A!StatusLeads, RunOK, Leads
<1> QED
  BY <1>4, <1>5, <1>6, <1>7, <1>8

\* Whatever throws, dies or runs beside it, for every number of runs, findings and
\* plans a run may make: a run that says COMPLETED is whole, a run that starts after
\* another has ended finds its plans, AWS is called only when announced, and the
\* status leads the events (runAssessment).
THEOREM AssessmentsAlwaysWhole == Spec => []AssessmentsAreWhole
<1> DEFINE Inv == \A c \in AssessmentConfigs : part = <<"assessment", c>> => AssessmentInv(c)
<1>1. Init => Inv
  BY PartBegins, AssessmentStarts
<1>2. Inv /\ [Next]_vars => Inv'
  <2> SUFFICES ASSUME Inv, [Next]_vars, NEW c \in AssessmentConfigs, part = <<"assessment", c>>
               PROVE  AssessmentInv(c)'
    BY PartStays
  <2> QED
    BY PartGoesOn, AssessmentStep, AssessmentTicks DEF vars, assessmentVars
<1>3. Inv => AssessmentsAreWhole
  BY AssessmentSafe DEF AssessmentsAreWhole
<1> QED
  BY <1>1, <1>2, <1>3, PTL DEF Spec

(***************************************************************************)
(* Compliance.                                                             *)
(***************************************************************************)
Mapped(c) == UNION {[F -> C(c)!Finding] : F \in SUBSET C(c)!Findings}

Evaluation(c) ==
    [at : {"idle", "catalog", "read", "write"}, todo : SUBSET c.Controls, on : c.Controls \cup {0},
     seen : Mapped(c), unwritten : SUBSET C(c)!Findings, alone : BOOLEAN]

ComplianceTypes(c) ==
    /\ finding \in [C(c)!Findings -> C(c)!Finding] /\ late \in BOOLEAN /\ others \in Nat
    /\ control \in [c.Controls -> C(c)!Control]
    /\ evidence \in [c.Controls -> [C(c)!Findings -> {"none", "PASS", "WARNING", "FAIL"}]]
    /\ request \in [c.Evaluators -> Evaluation(c)]
    /\ alone \in [c.Controls -> BOOLEAN]
    /\ basis \in [c.Controls -> Mapped(c)]

\* What an evaluation works on is a stored control, and what it writes is about a
\* finding that the rules of the control match.
InPlace(c, q) ==
    /\ q.at = "catalog" => \A d \in c.Controls \ q.todo : control[d].status # "none"
    /\ q.at \in {"read", "write"} => \A d \in c.Controls : control[d].status # "none"
    /\ q.at # "write" => q.unwritten = {}
    /\ q.at = "write" =>
          /\ q.on \in c.Controls /\ q.unwritten \subseteq DOMAIN q.seen
          /\ DOMAIN q.seen \subseteq c.Reads[q.on]

EvaluationsInPlace(c) == \A e \in c.Evaluators : InPlace(c, request[e])

EvidenceInPlace(c) ==
    \A d \in c.Controls, f \in C(c)!Findings : evidence[d][f] # "none" => f \in c.Reads[d]

\* The findings seen are what a statement would still read for the control d.
AsRead(c, d, seen) ==
    \E S \in SUBSET c.Security, T \in SUBSET c.Cost :
        /\ C(c)!Taken(C(c)!Readable(d, c.Security), S) /\ C(c)!Taken(C(c)!Readable(d, c.Cost), T)
        /\ seen = [f \in S \cup T |-> finding[f]]

Recorded(c, d, seen, F) == \A f \in F : evidence[d][f] = C(c)!EvidenceOf(f, seen[f])

\* An evaluation nobody has disturbed: what it has seen is so, what it has written stands.
EvaluationsAlone(c) ==
    \A e \in c.Evaluators : request[e].at = "write" /\ request[e].alone =>
        /\ AsRead(c, request[e].on, request[e].seen)
        /\ Recorded(c, request[e].on, request[e].seen, DOMAIN request[e].seen \ request[e].unwritten)

\* And so with the control it leaves behind.
ControlsAlone(c) ==
    \A d \in c.Controls : alone[d] =>
        /\ AsRead(c, d, basis[d]) /\ Recorded(c, d, basis[d], DOMAIN basis[d])
        /\ control[d].status = C(c)!StatusOf(basis[d], others)

ComplianceInv(c) ==
    /\ ComplianceTypes(c) /\ EvaluationsInPlace(c) /\ EvidenceInPlace(c)
    /\ EvaluationsAlone(c) /\ ControlsAlone(c)

LEMMA ComplianceIdle ==
  ASSUME NEW c \in ComplianceConfigs
  PROVE  /\ C(c)!Idle \in Evaluation(c) /\ [f \in {} |-> 0] \in Mapped(c)
         /\ C(c)!Idle.at = "idle" /\ C(c)!Idle.unwritten = {}
<1>1. [f \in {} |-> 0] \in [{} -> C(c)!Finding] /\ {} \in SUBSET C(c)!Findings
  OBVIOUS
<1>2. [f \in {} |-> 0] \in Mapped(c)
  BY <1>1 DEF Mapped
<1> QED
  BY <1>2 DEF C!Idle, Evaluation

LEMMA ComplianceStarts ==
  ASSUME NEW c \in ComplianceConfigs, C(c)!Init
  PROVE  ComplianceInv(c)
<1>1. ComplianceTypes(c)
  BY ComplianceIdle, ComplianceAssumption
     DEF C!Init, ComplianceTypes, C!Finding, C!Workflow, C!Acceptance, C!Control, C!NoControl
<1>2. EvaluationsInPlace(c) /\ EvidenceInPlace(c) /\ EvaluationsAlone(c) /\ ControlsAlone(c)
  BY DEF C!Init, C!Idle, EvaluationsInPlace, InPlace, EvidenceInPlace, EvaluationsAlone, ControlsAlone
<1> QED
  BY <1>1, <1>2 DEF ComplianceInv

\* An instance has a Cardinality of its own.
LEMMA ComplianceCardinality ==
  ASSUME NEW c, NEW S PROVE C(c)!Cardinality(S) = Cardinality(S)
BY DEF C!Cardinality, Cardinality

LEMMA SeenIsFinite ==
  ASSUME NEW c \in ComplianceConfigs, NEW s \in Mapped(c)
  PROVE  /\ DOMAIN s \subseteq C(c)!Findings /\ IsFiniteSet(DOMAIN s)
         /\ Cardinality(DOMAIN s) \in Nat
         /\ \A f \in DOMAIN s : s[f] \in C(c)!Finding
<1>1. PICK F \in SUBSET C(c)!Findings : s \in [F -> C(c)!Finding]
  BY DEF Mapped
<1>2. IsFiniteSet(C(c)!Findings)
  BY ComplianceAssumption, FS_Union DEF C!Findings
<1> QED
  BY <1>1, <1>2, FS_Subset, FS_CardinalityType

LEMMA StatusIsPosture ==
  ASSUME NEW c, NEW s, NEW n PROVE C(c)!StatusOf(s, n) \in C(c)!Posture
BY DEF C!StatusOf, C!Derive, C!Posture

LEMMA DisturbedKeeps ==
  ASSUME NEW c, NEW r \in Evaluation(c)
  PROVE  /\ C(c)!Disturbed(r) \in Evaluation(c) /\ ~C(c)!Disturbed(r).alone
         /\ C(c)!Disturbed(r).at = r.at /\ C(c)!Disturbed(r).todo = r.todo
         /\ C(c)!Disturbed(r).on = r.on /\ C(c)!Disturbed(r).seen = r.seen
         /\ C(c)!Disturbed(r).unwritten = r.unwritten
BY DEF Evaluation, C!Disturbed

\* A step of the evaluation e, which goes on as q: what matters of the others and of
\* the controls is whether they were disturbed.
LEMMA ComplianceMoves ==
  ASSUME NEW c \in ComplianceConfigs, ComplianceInv(c), NEW e \in c.Evaluators,
         NEW q \in Evaluation(c), UNCHANGED <<finding, late, others>>,
         control' \in [c.Controls -> C(c)!Control],
         evidence' \in [c.Controls -> [C(c)!Findings -> {"none", "PASS", "WARNING", "FAIL"}]],
         alone' \in [c.Controls -> BOOLEAN], basis' \in [c.Controls -> Mapped(c)],
         request' = [x \in c.Evaluators |-> request'[x]], request'[e] = q,
         \A x \in c.Evaluators \ {e} :
             \/ request'[x] = C(c)!Disturbed(request[x])
             \/ /\ request'[x] = request[x]
                /\ request[x].at = "write" => evidence'[request[x].on] = evidence[request[x].on],
         \A k \in c.Controls : control[k].status # "none" => control'[k].status # "none",
         \A k \in c.Controls, f \in C(c)!Findings : evidence'[k][f] # "none" => f \in c.Reads[k],
         InPlace(c, q)',
         q.at = "write" /\ q.alone =>
             /\ AsRead(c, q.on, q.seen)
             /\ \A f \in DOMAIN q.seen \ q.unwritten : evidence'[q.on][f] = C(c)!EvidenceOf(f, q.seen[f]),
         \A k \in c.Controls : alone'[k] =>
             \/ /\ alone[k] /\ evidence'[k] = evidence[k] /\ basis'[k] = basis[k]
                /\ control'[k].status = control[k].status
             \/ /\ AsRead(c, k, basis'[k]) /\ control'[k].status = C(c)!StatusOf(basis'[k], others)
                /\ \A f \in DOMAIN basis'[k] : evidence'[k][f] = C(c)!EvidenceOf(f, basis'[k][f])
  PROVE  ComplianceInv(c)'
<1> USE DEF ComplianceInv
<1>1. \A k, s : AsRead(c, k, s)' = AsRead(c, k, s)
  BY DEF AsRead, C!Taken, C!Readable
<1>2. \A s : C(c)!StatusOf(s, others)' = C(c)!StatusOf(s, others)
  BY DEF C!StatusOf, C!Open, C!Accepted
<1>3. \A x \in c.Evaluators \ {e} :
          /\ request'[x] \in Evaluation(c)
          /\ request'[x].at = request[x].at /\ request'[x].todo = request[x].todo
          /\ request'[x].on = request[x].on /\ request'[x].seen = request[x].seen
          /\ request'[x].unwritten = request[x].unwritten
          /\ request'[x].alone =>
                /\ request[x].alone
                /\ request[x].at = "write" => evidence'[request[x].on] = evidence[request[x].on]
  BY DisturbedKeeps DEF ComplianceTypes
<1>4. ComplianceTypes(c)'
  <2>1. request' \in [c.Evaluators -> Evaluation(c)]
    BY <1>3
  <2> QED
    BY <2>1 DEF ComplianceTypes, Evaluation, Mapped, C!Finding, C!Control, C!Posture, C!Workflow, C!Acceptance
<1>5. EvaluationsInPlace(c)'
  <2> SUFFICES ASSUME NEW x \in c.Evaluators PROVE InPlace(c, request[x])'
    BY DEF EvaluationsInPlace
  <2>1. CASE x = e
    BY <2>1
  <2>2. CASE x # e
    BY <2>2, <1>3 DEF EvaluationsInPlace, InPlace
  <2> QED
    BY <2>1, <2>2
<1>6. EvidenceInPlace(c)'
  BY DEF EvidenceInPlace
<1>7. EvaluationsAlone(c)'
  <2> SUFFICES ASSUME NEW x \in c.Evaluators, request'[x].at = "write", request'[x].alone
               PROVE  /\ AsRead(c, request'[x].on, request'[x].seen)
                      /\ \A f \in DOMAIN request'[x].seen \ request'[x].unwritten :
                            evidence'[request'[x].on][f] = C(c)!EvidenceOf(f, request'[x].seen[f])
    BY <1>1 DEF EvaluationsAlone, Recorded, C!EvidenceOf
  <2>1. CASE x = e
    BY <2>1
  <2>2. CASE x # e
    BY <2>2, <1>3 DEF EvaluationsAlone, Recorded
  <2> QED
    BY <2>1, <2>2
<1>8. ControlsAlone(c)'
  <2> SUFFICES ASSUME NEW k \in c.Controls, alone'[k]
               PROVE  /\ AsRead(c, k, basis'[k]) /\ control'[k].status = C(c)!StatusOf(basis'[k], others)
                      /\ \A f \in DOMAIN basis'[k] : evidence'[k][f] = C(c)!EvidenceOf(f, basis'[k][f])
    BY <1>1, <1>2 DEF ControlsAlone, Recorded, C!EvidenceOf
  <2> QED
    BY DEF ControlsAlone, Recorded
<1> QED
  BY <1>4, <1>5, <1>6, <1>7, <1>8

\* A step of one request that writes nothing and leaves it at the catalog, reading
\* or idle.
LEMMA RequestGoesOn ==
  ASSUME NEW c \in ComplianceConfigs, ComplianceInv(c), NEW e \in c.Evaluators,
         NEW q \in Evaluation(c), InPlace(c, q), request' = [request EXCEPT ![e] = q],
         q.at = "write" /\ q.alone => AsRead(c, q.on, q.seen) /\ q.unwritten = DOMAIN q.seen,
         UNCHANGED <<finding, late, others, control, evidence, alone, basis>>
  PROVE  ComplianceInv(c)'
<1>1. /\ request' = [x \in c.Evaluators |-> request'[x]] /\ request'[e] = q
      /\ \A x \in c.Evaluators \ {e} : request'[x] = request[x]
  BY DEF ComplianceInv, ComplianceTypes
<1>2. InPlace(c, q)'
  BY DEF InPlace
<1> QED
  BY <1>1, <1>2, ComplianceMoves DEF ComplianceInv, ComplianceTypes, EvidenceInPlace

LEMMA ComplianceBegins ==
  ASSUME NEW c \in ComplianceConfigs, ComplianceInv(c), NEW e \in c.Evaluators,
         C(c)!Begin(e) \/ C(c)!Ensured(e) \/ C(c)!Finish(e)
  PROVE  ComplianceInv(c)'
<1>1. UNCHANGED <<finding, late, others, control, evidence, alone, basis>>
  BY DEF C!Begin, C!Ensured, C!Finish
<1>2. \E q \in Evaluation(c) : q.at # "write" /\ InPlace(c, q) /\ request' = [request EXCEPT ![e] = q]
  <2>1. InPlace(c, C(c)!Idle)
    BY DEF InPlace, C!Idle
  <2>2. CASE C(c)!Begin(e)
    <3> DEFINE q == [C(c)!Idle EXCEPT !.at = "catalog", !.todo = c.Controls]
    <3>1. q \in Evaluation(c) /\ q.at = "catalog" /\ q.todo = c.Controls /\ q.unwritten = {}
      BY ComplianceIdle DEF Evaluation
    <3>2. request' = [request EXCEPT ![e] = q]
      BY <2>2 DEF C!Begin
    <3> HIDE DEF q
    <3>3. InPlace(c, q)
      BY <3>1 DEF InPlace
    <3> QED
      BY <3>1, <3>2, <3>3
  <2>3. CASE C(c)!Ensured(e)
    <3> DEFINE q == [C(c)!Idle EXCEPT !.at = "read", !.todo = c.Controls]
    <3>1. q \in Evaluation(c) /\ q.at = "read" /\ q.unwritten = {}
      BY ComplianceIdle DEF Evaluation
    <3>2. request' = [request EXCEPT ![e] = q] \/ request' = [request EXCEPT ![e] = C(c)!Idle]
      BY <2>3 DEF C!Ensured
    <3>3. \A d \in c.Controls : control[d].status # "none"
      BY <2>3 DEF C!Ensured, ComplianceInv, EvaluationsInPlace, InPlace
    <3> HIDE DEF q
    <3>4. InPlace(c, q)
      BY <3>1, <3>3 DEF InPlace
    <3> QED
      BY <2>1, <3>1, <3>2, <3>4, ComplianceIdle
  <2>4. CASE C(c)!Finish(e)
    BY <2>1, <2>4, ComplianceIdle DEF C!Finish
  <2> QED
    BY <2>2, <2>3, <2>4
<1> QED
  BY <1>1, <1>2, RequestGoesOn

\* Storing the catalog leaves what was evaluated.
LEMMA ComplianceStores ==
  ASSUME NEW c \in ComplianceConfigs, ComplianceInv(c), NEW e \in c.Evaluators, C(c)!Ensure(e)
  PROVE  ComplianceInv(c)'
<1>1. PICK d \in request[e].todo :
          /\ control' = [control EXCEPT ![d] = C(c)!Upserted(@)]
          /\ request' = [request EXCEPT ![e].todo = @ \ {d}]
  BY DEF C!Ensure
<1>2. request[e].at = "catalog" /\ UNCHANGED <<finding, late, others, evidence, alone, basis>>
  BY DEF C!Ensure
<1> SUFFICES ASSUME NEW q, q = [request[e] EXCEPT !.todo = @ \ {d}] PROVE ComplianceInv(c)'
  OBVIOUS
<1>3. /\ q \in Evaluation(c) /\ q.at = "catalog" /\ q.todo = request[e].todo \ {d} /\ q.unwritten = {}
      /\ d \in c.Controls
  BY <1>2 DEF ComplianceInv, ComplianceTypes, Evaluation, EvaluationsInPlace, InPlace
<1>4. /\ request' = [x \in c.Evaluators |-> request'[x]] /\ request'[e] = q
      /\ \A x \in c.Evaluators \ {e} : request'[x] = request[x]
  BY <1>1 DEF ComplianceInv, ComplianceTypes
<1>5. /\ control' \in [c.Controls -> C(c)!Control]
      /\ \A k \in c.Controls : /\ control[k].status # "none" => control'[k] = control[k]
                               /\ k = d => control'[k].status # "none"
  BY <1>1, <1>3 DEF ComplianceInv, ComplianceTypes, C!Upserted, C!Control
<1>6. InPlace(c, q)'
  BY <1>2, <1>3, <1>5 DEF ComplianceInv, EvaluationsInPlace, InPlace
<1>7. \A k \in c.Controls : alone[k] => control[k].status # "none"
  BY StatusIsPosture DEF ComplianceInv, ControlsAlone, C!Posture
<1> QED
  BY <1>2, <1>3, <1>4, <1>5, <1>6, <1>7, ComplianceMoves, ZenonT(60) DEF ComplianceInv, ComplianceTypes, EvidenceInPlace

\* What an evaluation reads is as it was read.
LEMMA ComplianceReads ==
  ASSUME NEW c \in ComplianceConfigs, ComplianceInv(c), NEW e \in c.Evaluators, C(c)!Read(e)
  PROVE  ComplianceInv(c)'
<1>1. PICK d \in request[e].todo, S \in SUBSET c.Security, T \in SUBSET c.Cost :
          /\ C(c)!Taken(C(c)!Readable(d, c.Security), S) /\ C(c)!Taken(C(c)!Readable(d, c.Cost), T)
          /\ request' = [request EXCEPT ![e] = [C(c)!Idle EXCEPT !.at = "write", !.on = d,
                !.todo = request[e].todo \ {d}, !.seen = [f \in S \cup T |-> finding[f]],
                !.unwritten = S \cup T, !.alone = TRUE]]
  BY DEF C!Read
<1>2. request[e].at = "read" /\ UNCHANGED <<finding, late, others, control, evidence, alone, basis>>
  BY DEF C!Read
<1> DEFINE s == [f \in S \cup T |-> finding[f]]
<1>3. s \in Mapped(c) /\ S \cup T \in SUBSET C(c)!Findings
  <2>1. S \cup T \in SUBSET C(c)!Findings
    BY DEF C!Findings
  <2>2. finding \in [C(c)!Findings -> C(c)!Finding]
    BY DEF ComplianceInv, ComplianceTypes
  <2>3. s \in [S \cup T -> C(c)!Finding]
    BY <2>1, <2>2
  <2> QED
    BY <2>1, <2>3 DEF Mapped
<1>4. S \cup T \subseteq c.Reads[d]
  BY <1>1 DEF C!Taken, C!Readable
<1>5. AsRead(c, d, s) /\ DOMAIN s = S \cup T
  BY <1>1 DEF AsRead
<1> HIDE DEF s
<1> DEFINE q == [C(c)!Idle EXCEPT !.at = "write", !.on = d, !.todo = request[e].todo \ {d},
                     !.seen = s, !.unwritten = S \cup T, !.alone = TRUE]
<1>6. /\ q \in Evaluation(c) /\ q.at = "write" /\ q.on = d /\ q.seen = s /\ q.unwritten = S \cup T
      /\ d \in c.Controls
  BY <1>3, ComplianceIdle DEF ComplianceInv, ComplianceTypes, Evaluation
<1>7. request' = [request EXCEPT ![e] = q]
  BY <1>1 DEF s
<1> HIDE DEF q
<1>8. InPlace(c, q)
  BY <1>2, <1>4, <1>5, <1>6 DEF ComplianceInv, EvaluationsInPlace, InPlace
<1> QED
  BY <1>2, <1>5, <1>6, <1>7, <1>8, RequestGoesOn

\* A row of evidence disturbs whoever else evaluates the control.
LEMMA ComplianceWrites ==
  ASSUME NEW c \in ComplianceConfigs, ComplianceInv(c), NEW e \in c.Evaluators, C(c)!Write(e)
  PROVE  ComplianceInv(c)'
<1> DEFINE d == request[e].on
<1>1. PICK f \in request[e].unwritten :
          /\ evidence' = [evidence EXCEPT ![d][f] = C(c)!EvidenceOf(f, request[e].seen[f])]
          /\ request' = [x \in c.Evaluators |->
                IF x = e THEN [request[e] EXCEPT !.unwritten = @ \ {f}]
                ELSE IF request[x].on = d THEN C(c)!Disturbed(request[x]) ELSE request[x]]
  BY DEF C!Write, C!Upsert
<1>2. /\ request[e].at = "write" /\ alone' = [alone EXCEPT ![d] = FALSE]
      /\ UNCHANGED <<finding, late, others, control, basis>>
  BY DEF C!Write
<1>3. /\ d \in c.Controls /\ f \in C(c)!Findings /\ f \in DOMAIN request[e].seen /\ f \in c.Reads[d]
      /\ request[e] \in Evaluation(c) /\ InPlace(c, request[e])
  BY <1>2 DEF ComplianceInv, ComplianceTypes, EvaluationsInPlace, InPlace, Evaluation
<1> SUFFICES ASSUME NEW q, q = [request[e] EXCEPT !.unwritten = @ \ {f}] PROVE ComplianceInv(c)'
  OBVIOUS
<1>4. /\ q \in Evaluation(c) /\ q.at = "write" /\ q.on = d /\ q.seen = request[e].seen
      /\ q.unwritten = request[e].unwritten \ {f} /\ q.alone = request[e].alone
  BY <1>2, <1>3 DEF Evaluation
<1>5. /\ request' = [x \in c.Evaluators |-> request'[x]] /\ request'[e] = q
      /\ \A x \in c.Evaluators \ {e} : request'[x] =
            IF request[x].on = d THEN C(c)!Disturbed(request[x]) ELSE request[x]
  BY <1>1
<1> DEFINE v == C(c)!EvidenceOf(f, request[e].seen[f])
<1>6. v \in {"PASS", "WARNING", "FAIL"}
  BY DEF C!EvidenceOf
<1>7. evidence' = [evidence EXCEPT ![d][f] = v]
  BY <1>1
<1> HIDE DEF v, d
<1>8. /\ evidence' \in [c.Controls -> [C(c)!Findings -> {"none", "PASS", "WARNING", "FAIL"}]]
      /\ \A k \in c.Controls \ {d} : evidence'[k] = evidence[k]
      /\ \A g \in C(c)!Findings : evidence'[d][g] = IF g = f THEN v ELSE evidence[d][g]
  BY <1>3, <1>6, <1>7 DEF ComplianceInv, ComplianceTypes
<1>9. \A k \in c.Controls, g \in C(c)!Findings : evidence'[k][g] # "none" => g \in c.Reads[k]
  BY <1>3, <1>8 DEF ComplianceInv, EvidenceInPlace
<1>10. InPlace(c, q)'
  BY <1>2, <1>3, <1>4 DEF InPlace, d
<1>11. q.at = "write" /\ q.alone =>
           /\ AsRead(c, q.on, q.seen)
           /\ \A g \in DOMAIN q.seen \ q.unwritten : evidence'[q.on][g] = C(c)!EvidenceOf(g, q.seen[g])
  <2>1. DOMAIN request[e].seen \subseteq C(c)!Findings
    BY <1>3, SeenIsFinite DEF Evaluation
  <2> SUFFICES ASSUME request[e].alone
               PROVE  /\ AsRead(c, d, request[e].seen)
                      /\ \A g \in DOMAIN request[e].seen \ (request[e].unwritten \ {f}) :
                            evidence'[d][g] = C(c)!EvidenceOf(g, request[e].seen[g])
    BY <1>4
  <2>2. /\ AsRead(c, d, request[e].seen)
        /\ \A g \in DOMAIN request[e].seen \ request[e].unwritten :
              evidence[d][g] = C(c)!EvidenceOf(g, request[e].seen[g])
    BY <1>2 DEF ComplianceInv, EvaluationsAlone, Recorded, d
  <2>3. ASSUME NEW g \in DOMAIN request[e].seen \ (request[e].unwritten \ {f})
        PROVE  evidence'[d][g] = C(c)!EvidenceOf(g, request[e].seen[g])
    <3>1. CASE g = f
      BY <3>1, <1>3, <1>8 DEF v
    <3>2. CASE g # f
      BY <3>2, <1>8, <2>1, <2>2
    <3> QED
      BY <3>1, <3>2
  <2> QED
    BY <2>2, <2>3
<1>12. \A x \in c.Evaluators \ {e} :
           \/ request'[x] = C(c)!Disturbed(request[x])
           \/ /\ request'[x] = request[x]
              /\ request[x].at = "write" => evidence'[request[x].on] = evidence[request[x].on]
  BY <1>5, <1>8 DEF ComplianceInv, EvaluationsInPlace, InPlace
<1>13. /\ alone' \in [c.Controls -> BOOLEAN]
       /\ \A k \in c.Controls : alone'[k] => alone[k] /\ evidence'[k] = evidence[k]
  BY <1>2, <1>3, <1>8 DEF ComplianceInv, ComplianceTypes, d
<1> QED
  BY <1>2, <1>4, <1>5, <1>8, <1>9, <1>10, <1>11, <1>12, <1>13, ComplianceMoves, ZenonT(60)
     DEF ComplianceInv, ComplianceTypes

\* The status that is stored is the one of what was seen.
LEMMA ComplianceUpdates ==
  ASSUME NEW c \in ComplianceConfigs, ComplianceInv(c), NEW e \in c.Evaluators, C(c)!Update(e)
  PROVE  ComplianceInv(c)'
<1> DEFINE r == request[e]
           d == request[e].on
           new == [status |-> C(c)!StatusOf(r.seen, others), findings |-> Cardinality(DOMAIN r.seen),
                   failed |-> Cardinality(C(c)!Failed(r))]
<1>1. /\ r.at = "write" /\ r.unwritten = {}
      /\ control' = [control EXCEPT ![d] = new]
      /\ alone' = [alone EXCEPT ![d] = r.alone] /\ basis' = [basis EXCEPT ![d] = r.seen]
      /\ UNCHANGED <<finding, late, others, evidence>>
  BY ComplianceCardinality DEF C!Update
<1> SUFFICES ASSUME NEW q, q = [C(c)!Idle EXCEPT !.at = "read", !.todo = r.todo]
             PROVE  ComplianceInv(c)'
  OBVIOUS
<1>2. /\ request' = [x \in c.Evaluators |-> request'[x]] /\ request'[e] = q
      /\ \A x \in c.Evaluators \ {e} :
            request'[x] = C(c)!Disturbed(request[x]) \/ request'[x] = request[x]
  BY DEF C!Update
<1>3. r \in Evaluation(c) /\ d \in c.Controls /\ r.seen \in Mapped(c) /\ InPlace(c, r)
  BY <1>1 DEF ComplianceInv, ComplianceTypes, EvaluationsInPlace, InPlace, Evaluation
<1>4. q \in Evaluation(c) /\ q.at = "read" /\ q.unwritten = {}
  BY <1>3, ComplianceIdle DEF Evaluation
<1>5. new \in C(c)!Control /\ new.status \in C(c)!Posture
  <2>1. Cardinality(DOMAIN r.seen) \in Nat
    BY <1>3, SeenIsFinite
  <2>2. Cardinality(C(c)!Failed(r)) \in Nat
    BY <1>3, SeenIsFinite, FS_Subset, FS_CardinalityType DEF C!Failed
  <2> QED
    BY <2>1, <2>2, StatusIsPosture DEF C!Control
<1>6. new.status = C(c)!StatusOf(r.seen, others)
  OBVIOUS
<1> HIDE DEF new
<1>7. /\ control' \in [c.Controls -> C(c)!Control]
      /\ alone' \in [c.Controls -> BOOLEAN] /\ basis' \in [c.Controls -> Mapped(c)]
      /\ control'[d] = new /\ alone'[d] = r.alone /\ basis'[d] = r.seen
      /\ \A k \in c.Controls \ {d} : /\ control'[k] = control[k] /\ alone'[k] = alone[k]
                                     /\ basis'[k] = basis[k]
  BY <1>1, <1>3, <1>5 DEF ComplianceInv, ComplianceTypes, Evaluation
<1>8. \A k \in c.Controls : control[k].status # "none" => control'[k].status # "none"
  BY <1>5, <1>7 DEF C!Posture
<1>9. InPlace(c, q)'
  BY <1>1, <1>3, <1>4, <1>8 DEF InPlace
<1>10. alone'[d] => /\ AsRead(c, d, basis'[d]) /\ control'[d].status = C(c)!StatusOf(basis'[d], others)
                    /\ \A f \in DOMAIN basis'[d] : evidence'[d][f] = C(c)!EvidenceOf(f, basis'[d][f])
  <2> SUFFICES ASSUME r.alone
               PROVE  /\ AsRead(c, d, r.seen) /\ new.status = C(c)!StatusOf(r.seen, others)
                      /\ \A f \in DOMAIN r.seen : evidence[d][f] = C(c)!EvidenceOf(f, r.seen[f])
    BY <1>1, <1>7
  <2>1. AsRead(c, d, r.seen) /\ Recorded(c, d, r.seen, DOMAIN r.seen \ r.unwritten)
    BY <1>1 DEF ComplianceInv, EvaluationsAlone
  <2>2. DOMAIN r.seen \ r.unwritten = DOMAIN r.seen
    BY <1>1
  <2> QED
    BY <1>6, <2>1, <2>2 DEF Recorded
<1> HIDE DEF r, d
<1>11. \A k \in c.Controls : alone'[k] =>
             \/ /\ alone[k] /\ evidence'[k] = evidence[k] /\ basis'[k] = basis[k]
                /\ control'[k].status = control[k].status
             \/ /\ AsRead(c, k, basis'[k]) /\ control'[k].status = C(c)!StatusOf(basis'[k], others)
                /\ \A f \in DOMAIN basis'[k] : evidence'[k][f] = C(c)!EvidenceOf(f, basis'[k][f])
  BY <1>1, <1>7, <1>10
<1>12. /\ evidence' \in [c.Controls -> [C(c)!Findings -> {"none", "PASS", "WARNING", "FAIL"}]]
       /\ \A k \in c.Controls, f \in C(c)!Findings : evidence'[k][f] # "none" => f \in c.Reads[k]
  BY <1>1 DEF ComplianceInv, ComplianceTypes, EvidenceInPlace
<1>13. \A x \in c.Evaluators \ {e} :
           \/ request'[x] = C(c)!Disturbed(request[x])
           \/ /\ request'[x] = request[x]
              /\ request[x].at = "write" => evidence'[request[x].on] = evidence[request[x].on]
  BY <1>1, <1>2
<1>14. UNCHANGED <<finding, late, others>>
  BY <1>1
<1>15. q.at = "write" /\ q.alone =>
             /\ AsRead(c, q.on, q.seen)
             /\ \A f \in DOMAIN q.seen \ q.unwritten : evidence'[q.on][f] = C(c)!EvidenceOf(f, q.seen[f])
  BY <1>4
<1>16. request' = [x \in c.Evaluators |-> request'[x]] /\ request'[e] = q
  BY <1>2
<1> QED
  BY <1>4, <1>7, <1>8, <1>9, <1>11, <1>12, <1>13, <1>14, <1>15, <1>16, ComplianceMoves

\* An evaluation that fails leaves some rows of evidence and no status.
LEMMA ComplianceFails ==
  ASSUME NEW c \in ComplianceConfigs, ComplianceInv(c), NEW e \in c.Evaluators, C(c)!Fail(e)
  PROVE  ComplianceInv(c)'
<1> DEFINE r == request[e]
<1>1. PICK W \in SUBSET r.unwritten :
          /\ evidence' = [k \in c.Controls |-> [f \in C(c)!Findings |->
                IF k = r.on /\ f \in W THEN C(c)!EvidenceOf(f, r.seen[f]) ELSE evidence[k][f]]]
          /\ request' = [x \in c.Evaluators |->
                IF x = e THEN C(c)!Idle
                ELSE IF r.on # 0 /\ request[x].on = r.on THEN C(c)!Disturbed(request[x]) ELSE request[x]]
          /\ alone' = [k \in c.Controls |-> alone[k] /\ k # r.on]
  BY DEF C!Fail
<1>2. UNCHANGED <<finding, late, others, control, basis>>
  BY DEF C!Fail
<1>3. /\ r \in Evaluation(c) /\ InPlace(c, r) /\ W \subseteq r.unwritten
      /\ W # {} => r.on # 0 /\ W \subseteq c.Reads[r.on]
  BY ComplianceAssumption DEF ComplianceInv, ComplianceTypes, EvaluationsInPlace, InPlace
<1>4. /\ request' = [x \in c.Evaluators |-> request'[x]] /\ request'[e] = C(c)!Idle
      /\ \A x \in c.Evaluators \ {e} : request'[x] =
            IF r.on # 0 /\ request[x].on = r.on THEN C(c)!Disturbed(request[x]) ELSE request[x]
  BY <1>1
<1>5. \A f : C(c)!EvidenceOf(f, r.seen[f]) \in {"PASS", "WARNING", "FAIL"}
  BY DEF C!EvidenceOf
<1> HIDE DEF r
<1>6. /\ evidence' \in [c.Controls -> [C(c)!Findings -> {"none", "PASS", "WARNING", "FAIL"}]]
      /\ \A k \in c.Controls, f \in C(c)!Findings : evidence'[k][f] # "none" => f \in c.Reads[k]
  BY <1>1, <1>3, <1>5 DEF ComplianceInv, ComplianceTypes, EvidenceInPlace
<1>7. \A k \in c.Controls : k # r.on \/ r.on = 0 => evidence'[k] = evidence[k]
  BY <1>1, <1>3 DEF ComplianceInv, ComplianceTypes
<1>8. \A x \in c.Evaluators \ {e} :
           \/ request'[x] = C(c)!Disturbed(request[x])
           \/ /\ request'[x] = request[x]
              /\ request[x].at = "write" => evidence'[request[x].on] = evidence[request[x].on]
  BY <1>4, <1>7 DEF ComplianceInv, EvaluationsInPlace, InPlace
<1>9. /\ alone' \in [c.Controls -> BOOLEAN]
      /\ \A k \in c.Controls : alone'[k] => alone[k] /\ evidence'[k] = evidence[k]
  BY <1>1, <1>7 DEF ComplianceInv, ComplianceTypes
<1>10. InPlace(c, C(c)!Idle)' /\ C(c)!Idle.at # "write" /\ C(c)!Idle \in Evaluation(c)
  BY ComplianceIdle DEF InPlace, C!Idle
<1> QED
  BY <1>2, <1>4, <1>6, <1>8, <1>9, <1>10, ComplianceMoves DEF ComplianceInv, ComplianceTypes

\* Whatever happens to findings meanwhile disturbs everybody.
LEMMA ComplianceMeanwhile ==
  ASSUME NEW c \in ComplianceConfigs, ComplianceInv(c), NEW f,
         \/ C(c)!Lapse
         \/ f \in C(c)!Findings /\ (C(c)!Accept(f) \/ C(c)!Decide(f) \/ C(c)!Archive(f))
  PROVE  ComplianceInv(c)'
<1> USE DEF ComplianceInv
<1>1. /\ request' = [e \in c.Evaluators |-> C(c)!Disturbed(request[e])]
      /\ alone' = [k \in c.Controls |-> FALSE]
      /\ UNCHANGED <<others, control, evidence, basis>>
  BY DEF C!Lapse, C!Accept, C!Decide, C!Archive, C!Changed
<1>2. finding' \in [C(c)!Findings -> C(c)!Finding] /\ late' \in BOOLEAN
  <2>1. CASE C(c)!Lapse
    BY <2>1 DEF C!Lapse, ComplianceTypes, C!Finding
  <2>2. CASE f \in C(c)!Findings /\ C(c)!Accept(f)
    <3>1. finding \in [C(c)!Findings -> C(c)!Finding] /\ finding[f] \in C(c)!Finding /\ late \in BOOLEAN
      BY <2>2 DEF ComplianceTypes
    <3>2. PICK a \in {"short", "long"} :
              finding' = [finding EXCEPT ![f].workflow = "RISK_ACCEPTED",
                                         ![f].acceptance = IF @ = "long" THEN @ ELSE a]
      BY <2>2 DEF C!Accept
    <3> DEFINE x == [finding[f] EXCEPT !.workflow = "RISK_ACCEPTED",
                                       !.acceptance = IF @ = "long" THEN @ ELSE a]
    <3>3. x \in C(c)!Finding
      BY <3>1 DEF C!Finding, C!Workflow, C!Acceptance
    <3>4. finding' = [finding EXCEPT ![f] = x]
      BY <2>2, <3>1, <3>2 DEF C!Finding
    <3> HIDE DEF x
    <3>5. finding' \in [C(c)!Findings -> C(c)!Finding]
      BY <2>2, <3>1, <3>3, <3>4
    <3> QED
      BY <2>2, <3>1, <3>5 DEF C!Accept
  <2>3. CASE f \in C(c)!Findings /\ C(c)!Decide(f)
    BY <2>3 DEF C!Decide, ComplianceTypes, C!Finding, C!Workflow, C!Acceptance
  <2>4. CASE f \in C(c)!Findings /\ C(c)!Archive(f)
    BY <2>4, ZenonT(60) DEF C!Archive, ComplianceTypes, C!Finding, C!Workflow, C!Acceptance
  <2> QED
    BY <2>1, <2>2, <2>3, <2>4
<1>3. \A e \in c.Evaluators :
          /\ request'[e] \in Evaluation(c) /\ ~request'[e].alone
          /\ request'[e].at = request[e].at /\ request'[e].todo = request[e].todo
          /\ request'[e].on = request[e].on /\ request'[e].seen = request[e].seen
          /\ request'[e].unwritten = request[e].unwritten
  BY <1>1, DisturbedKeeps DEF ComplianceTypes
<1>4. ComplianceTypes(c)'
  <2>1. request' \in [c.Evaluators -> Evaluation(c)] /\ alone' \in [c.Controls -> BOOLEAN]
    BY <1>1, <1>3
  <2> QED
    BY <1>1, <1>2, <2>1
       DEF ComplianceTypes, Evaluation, Mapped, C!Finding, C!Control, C!Posture, C!Workflow, C!Acceptance
<1>5. EvaluationsInPlace(c)' /\ EvidenceInPlace(c)'
  <2>1. ASSUME NEW e \in c.Evaluators PROVE InPlace(c, request[e])'
    <3>1. InPlace(c, request[e])
      BY DEF EvaluationsInPlace
    <3> QED
      BY <1>1, <1>3, <3>1 DEF InPlace
  <2>2. EvidenceInPlace(c)'
    BY <1>1 DEF EvidenceInPlace, C!Findings
  <2> QED
    BY <2>1, <2>2 DEF EvaluationsInPlace
<1>6. EvaluationsAlone(c)' /\ ControlsAlone(c)'
  BY <1>1, <1>3 DEF EvaluationsAlone, ControlsAlone
<1> QED
  BY <1>4, <1>5, <1>6

\* What is captured concerns nobody but the registry.
LEMMA ComplianceKept ==
  ASSUME NEW c \in ComplianceConfigs, ComplianceInv(c),
         UNCHANGED <<finding, late, others, control, evidence, request, alone, basis>>
  PROVE  ComplianceInv(c)'
<1>1. UNCHANGED <<finding, late, others, control, evidence, request, alone, basis>>
  OBVIOUS
<1>2. ComplianceTypes(c)'
  BY <1>1 DEF ComplianceInv, ComplianceTypes, Evaluation, Mapped, C!Findings, C!Finding, C!Control,
     C!Posture, C!Workflow, C!Acceptance
<1>3. EvaluationsInPlace(c)' /\ EvidenceInPlace(c)'
  BY <1>1 DEF ComplianceInv, EvaluationsInPlace, InPlace, EvidenceInPlace, C!Findings
<1>4. /\ \A d, s : AsRead(c, d, s)' = AsRead(c, d, s)
      /\ \A d, s, F : Recorded(c, d, s, F)' = Recorded(c, d, s, F)
      /\ \A s : C(c)!StatusOf(s, others)' = C(c)!StatusOf(s, others)
  BY <1>1 DEF AsRead, Recorded, C!Taken, C!Readable, C!EvidenceOf, C!StatusOf, C!Open, C!Accepted
<1>5. EvaluationsAlone(c)' /\ ControlsAlone(c)'
  BY <1>1, <1>4 DEF ComplianceInv, EvaluationsAlone, ControlsAlone
<1> QED
  BY <1>2, <1>3, <1>5 DEF ComplianceInv

LEMMA ComplianceStep ==
  ASSUME NEW c \in ComplianceConfigs, ComplianceInv(c), C(c)!Next
  PROVE  ComplianceInv(c)'
<1>1. ASSUME NEW e \in c.Evaluators, C(c)!Step(e) PROVE ComplianceInv(c)'
  BY <1>1, ComplianceBegins, ComplianceStores, ComplianceReads, ComplianceWrites, ComplianceUpdates,
     ComplianceFails DEF C!Step
<1>2. ASSUME NEW f, C(c)!Capture(f) PROVE ComplianceInv(c)'
  BY <1>2, ComplianceKept DEF C!Capture
<1> QED
  BY <1>1, <1>2, ComplianceMeanwhile DEF C!Next

\* Of few findings all are read.
LEMMA AllAreTaken ==
  ASSUME NEW c \in ComplianceConfigs, NEW S, NEW T, IsFiniteSet(S), Cardinality(S) <= c.Limit,
         C(c)!Taken(S, T)
  PROVE  T = S
<1>1. Cardinality(S) \in Nat /\ c.Limit \in Nat
  BY ComplianceAssumption, FS_CardinalityType
<1>2. T \subseteq S /\ Cardinality(T) = Cardinality(S)
  BY <1>1, ComplianceCardinality DEF C!Taken
<1> QED
  BY <1>2, FS_Subset

\* A set that counts nothing is empty.
LEMMA CountsNothing ==
  ASSUME NEW S, IsFiniteSet(S) PROVE Cardinality(S) \in Nat /\ (Cardinality(S) > 0 <=> S # {})
BY FS_CardinalityType, FS_EmptySet

\* What an undisturbed control d says, when p maps all that d is about: each finding
\* it has seen is one that p projects, as it is now, and within the limit none of
\* those that d reads is missing.
LEMMA PartHasSeen ==
  ASSUME NEW c \in ComplianceConfigs, ComplianceInv(c), NEW p \in c.Registry,
         NEW d \in C(c)!Parts(p), alone[d]
  PROVE  /\ basis[d] \in Mapped(c) /\ control[d].status = C(c)!StatusOf(basis[d], others)
         /\ DOMAIN basis[d] \subseteq C(c)!Projected(p) \cap c.Reads[d]
         /\ \A f \in DOMAIN basis[d] : basis[d][f] = finding[f]
         /\ C(c)!Current(d) => DOMAIN basis[d] = C(c)!Projected(p) \cap c.Reads[d]
<1>1. d \in c.Controls /\ c.Reads[d] \subseteq c.Maps[p] /\ c.Maps[p] \subseteq c.Security
  BY ComplianceAssumption DEF C!Parts
<1>2. /\ basis[d] \in Mapped(c) /\ control[d].status = C(c)!StatusOf(basis[d], others)
      /\ AsRead(c, d, basis[d])
  BY <1>1 DEF ComplianceInv, ComplianceTypes, ControlsAlone
<1>3. PICK S \in SUBSET c.Security, T \in SUBSET c.Cost :
        /\ C(c)!Taken(C(c)!Readable(d, c.Security), S) /\ C(c)!Taken(C(c)!Readable(d, c.Cost), T)
        /\ basis[d] = [f \in S \cup T |-> finding[f]]
  BY <1>2 DEF AsRead
<1> DEFINE F == C(c)!Projected(p) \cap c.Reads[d]
<1>4. C(c)!Readable(d, c.Security) = F /\ C(c)!Readable(d, c.Cost) \subseteq F
  BY <1>1 DEF C!Readable, C!Projected
<1>5. S \subseteq F /\ T \subseteq F
  BY <1>3, <1>4 DEF C!Taken
<1>6. C(c)!Current(d) => S = F
  <2>1. IsFiniteSet(F)
    BY <1>1, ComplianceAssumption, FS_Subset DEF C!Projected
  <2>2. C(c)!Current(d) => Cardinality(F) <= c.Limit
    BY <1>4, ComplianceCardinality DEF C!Current
  <2> QED
    BY <1>3, <1>4, <2>1, <2>2, AllAreTaken
<1> HIDE DEF F
<1>7. DOMAIN basis[d] = S \cup T /\ \A f \in S \cup T : basis[d][f] = finding[f]
  BY <1>3
<1> QED
  BY <1>2, <1>5, <1>6, <1>7 DEF F

\* The stored status, from what there is among the findings seen.
LEMMA StatusTells ==
  ASSUME NEW c \in ComplianceConfigs, NEW s \in Mapped(c), others \in Nat,
         \A f \in DOMAIN s : s[f] = finding[f]
  PROVE  /\ C(c)!StatusOf(s, others) = "FAIL" <=> \E f \in DOMAIN s : C(c)!Open(finding[f])
         /\ (\A f \in DOMAIN s : ~C(c)!Open(finding[f])) /\ (\E f \in DOMAIN s : C(c)!Accepted(finding[f]))
              => C(c)!StatusOf(s, others) = "NEEDS_REVIEW"
         /\ (\A f \in DOMAIN s : ~C(c)!Open(finding[f]) /\ ~C(c)!Accepted(finding[f]))
              /\ ~(DOMAIN s \subseteq c.Sample)
              => C(c)!StatusOf(s, others) = "PASS"
<1> DEFINE open == {f \in DOMAIN s : C(c)!Open(s[f])}
           accepted == {f \in DOMAIN s : C(c)!Accepted(s[f])}
<1>1. /\ Cardinality(open) \in Nat /\ (Cardinality(open) > 0 <=> open # {})
      /\ Cardinality(accepted) \in Nat /\ (Cardinality(accepted) > 0 <=> accepted # {})
      /\ Cardinality(DOMAIN s) \in Nat /\ (Cardinality(DOMAIN s) > 0 <=> DOMAIN s # {})
  BY SeenIsFinite, FS_Subset, CountsNothing
<1>2. C(c)!StatusOf(s, others) = C(c)!Derive(Cardinality(open), Cardinality(accepted),
                                     Cardinality(DOMAIN s) + others, DOMAIN s \subseteq c.Sample)
  BY ComplianceCardinality DEF C!StatusOf
<1>3. /\ open # {} <=> \E f \in DOMAIN s : C(c)!Open(finding[f])
      /\ accepted # {} <=> \E f \in DOMAIN s : C(c)!Accepted(finding[f])
      /\ ~(DOMAIN s \subseteq c.Sample) => DOMAIN s # {}
  OBVIOUS
<1> HIDE DEF open, accepted
<1>4. /\ C(c)!StatusOf(s, others) = "FAIL" <=> open # {}
      /\ open = {} /\ accepted # {} => C(c)!StatusOf(s, others) = "NEEDS_REVIEW"
      /\ open = {} /\ accepted = {} /\ DOMAIN s # {} /\ ~(DOMAIN s \subseteq c.Sample)
           => C(c)!StatusOf(s, others) = "PASS"
  BY <1>1, <1>2 DEF C!Derive
<1>5. C(c)!StatusOf(s, others) = "FAIL" <=> \E f \in DOMAIN s : C(c)!Open(finding[f])
  BY <1>3, <1>4
<1>6. (\A f \in DOMAIN s : ~C(c)!Open(finding[f])) /\ (\E f \in DOMAIN s : C(c)!Accepted(finding[f]))
        => C(c)!StatusOf(s, others) = "NEEDS_REVIEW"
  BY <1>3, <1>4
<1>7. (\A f \in DOMAIN s : ~C(c)!Open(finding[f]) /\ ~C(c)!Accepted(finding[f]))
        /\ ~(DOMAIN s \subseteq c.Sample)
        => C(c)!StatusOf(s, others) = "PASS"
  BY <1>3, <1>4
<1> QED
  BY <1>5, <1>6, <1>7

\* And what the registry shows.
LEMMA ProjectionTells ==
  ASSUME NEW c \in ComplianceConfigs, NEW p \in c.Registry
  PROVE  LET F == C(c)!Projected(p)
         IN /\ C(c)!Projection(p) = "FAILING" <=> \E f \in F : C(c)!Open(finding[f])
            /\ C(c)!Projection(p) = "ACCEPTED_RISK" =>
                 (\A f \in F : ~C(c)!Open(finding[f])) /\ \E f \in F : C(c)!Accepted(finding[f])
            /\ C(c)!Projection(p) = "PASSING" =>
                 /\ \A f \in F : ~C(c)!Open(finding[f]) /\ ~C(c)!Accepted(finding[f])
                 /\ ~(F \subseteq c.Sample)
<1> DEFINE F == C(c)!Projected(p)
           open == {f \in F : C(c)!Open(finding[f])}
           accepted == {f \in F : C(c)!Accepted(finding[f])}
           kept == F \cap captured
<1>1. IsFiniteSet(F)
  BY ComplianceAssumption, FS_Subset DEF C!Projected
<1>2. /\ Cardinality(open) \in Nat /\ (Cardinality(open) > 0 <=> open # {})
      /\ Cardinality(accepted) \in Nat /\ (Cardinality(accepted) > 0 <=> accepted # {})
      /\ Cardinality(kept) \in Nat
  BY <1>1, FS_Subset, CountsNothing
<1>3. C(c)!Projection(p) = C(c)!DeriveProjection(Cardinality(open), Cardinality(accepted),
                                                 Cardinality(kept), F \subseteq c.Sample)
  BY ComplianceCardinality DEF C!Projection
<1>4. /\ open # {} <=> \E f \in F : C(c)!Open(finding[f])
      /\ accepted # {} <=> \E f \in F : C(c)!Accepted(finding[f])
  OBVIOUS
<1> HIDE DEF F, open, accepted, kept
<1>5. /\ C(c)!Projection(p) = "FAILING" <=> open # {}
      /\ C(c)!Projection(p) = "ACCEPTED_RISK" => open = {} /\ accepted # {}
      /\ C(c)!Projection(p) = "PASSING" => open = {} /\ accepted = {} /\ ~(F \subseteq c.Sample)
  BY <1>2, <1>3 DEF C!DeriveProjection
<1> QED
  BY <1>4, <1>5 DEF F

\* The two catalogs do not contradict each other.
LEMMA CatalogsAgree ==
  ASSUME NEW c \in ComplianceConfigs, ComplianceInv(c)
  PROVE  C(c)!RegistryAgrees
<1> SUFFICES ASSUME NEW p \in c.Registry
             PROVE
      /\ \A d \in C(c)!Parts(p) : alone[d] /\ control[d].status = "FAIL" => C(c)!Projection(p) = "FAILING"
      /\ /\ \A d \in C(c)!Parts(p) : C(c)!Current(d)
         /\ c.Maps[p] = UNION {c.Reads[d] : d \in C(c)!Parts(p)}
         => /\ C(c)!Projection(p) = "FAILING" => \E d \in C(c)!Parts(p) : control[d].status = "FAIL"
            /\ C(c)!Projection(p) = "ACCEPTED_RISK" =>
                 \E d \in C(c)!Parts(p) : control[d].status = "NEEDS_REVIEW"
            /\ C(c)!Projection(p) = "PASSING" => \E d \in C(c)!Parts(p) : control[d].status = "PASS"
  BY DEF C!RegistryAgrees
<1> DEFINE F == C(c)!Projected(p)
<1>1. others \in Nat
  BY DEF ComplianceInv, ComplianceTypes
<1>2. ASSUME NEW d \in C(c)!Parts(p), alone[d], control[d].status = "FAIL"
      PROVE  C(c)!Projection(p) = "FAILING"
  <2>1. \E f \in DOMAIN basis[d] : C(c)!Open(finding[f])
    BY <1>1, <1>2, PartHasSeen, StatusTells
  <2>2. DOMAIN basis[d] \subseteq F
    BY <1>2, PartHasSeen
  <2> QED
    BY <2>1, <2>2, ProjectionTells
<1>3. ASSUME \A d \in C(c)!Parts(p) : C(c)!Current(d), c.Maps[p] = UNION {c.Reads[d] : d \in C(c)!Parts(p)}
      PROVE  /\ C(c)!Projection(p) = "FAILING" => \E d \in C(c)!Parts(p) : control[d].status = "FAIL"
             /\ C(c)!Projection(p) = "ACCEPTED_RISK" =>
                  \E d \in C(c)!Parts(p) : control[d].status = "NEEDS_REVIEW"
             /\ C(c)!Projection(p) = "PASSING" => \E d \in C(c)!Parts(p) : control[d].status = "PASS"
  <2>1. \A f \in F : \E d \in C(c)!Parts(p) : f \in c.Reads[d]
    BY <1>3 DEF C!Projected
  <2>2. ASSUME NEW d \in C(c)!Parts(p)
        PROVE  /\ basis[d] \in Mapped(c) /\ control[d].status = C(c)!StatusOf(basis[d], others)
               /\ DOMAIN basis[d] = F \cap c.Reads[d]
               /\ \A f \in DOMAIN basis[d] : basis[d][f] = finding[f]
    BY <1>3, PartHasSeen DEF C!Current
  <2> HIDE DEF F
  <2>3. ASSUME NEW f \in F, C(c)!Open(finding[f])
        PROVE  \E d \in C(c)!Parts(p) : control[d].status = "FAIL"
    BY <1>1, <2>1, <2>2, <2>3, StatusTells
  <2>4. ASSUME NEW f \in F, C(c)!Accepted(finding[f]), \A g \in F : ~C(c)!Open(finding[g])
        PROVE  \E d \in C(c)!Parts(p) : control[d].status = "NEEDS_REVIEW"
    BY <1>1, <2>1, <2>2, <2>4, StatusTells
  <2>5. ASSUME NEW f \in F, f \notin c.Sample,
               \A g \in F : ~C(c)!Open(finding[g]) /\ ~C(c)!Accepted(finding[g])
        PROVE  \E d \in C(c)!Parts(p) : control[d].status = "PASS"
    BY <1>1, <2>1, <2>2, <2>5, StatusTells
  <2> QED
    BY <2>3, <2>4, <2>5, ProjectionTells DEF F
<1> QED
  BY <1>2, <1>3

LEMMA ComplianceSafe ==
  ASSUME NEW c \in ComplianceConfigs, ComplianceInv(c)
  PROVE  C(c)!TypeOK /\ C(c)!RegistryAgrees /\ C(c)!EvidenceCarriesStatus
<1> USE DEF ComplianceInv
<1>1. C(c)!TypeOK
  <2>1. finding \in [C(c)!Findings -> C(c)!Finding] /\ control \in [c.Controls -> C(c)!Control]
    BY DEF ComplianceTypes
  <2>2. \A e \in c.Evaluators :
          /\ request[e].at \in {"idle", "catalog", "read", "write"}
          /\ request[e].at = "write" =>
                /\ control[request[e].on].status # "none"
                /\ DOMAIN request[e].seen \subseteq c.Reads[request[e].on]
    BY DEF ComplianceTypes, Evaluation, EvaluationsInPlace, InPlace
  <2> QED
    BY <2>1, <2>2 DEF C!TypeOK, EvidenceInPlace
<1>2. C(c)!RegistryAgrees
  BY CatalogsAgree
<1>3. C(c)!EvidenceCarriesStatus
  <2> SUFFICES ASSUME NEW d \in c.Controls, alone[d]
               PROVE  /\ control[d].status = "PASS" => \A f \in DOMAIN basis[d] : evidence[d][f] = "PASS"
                      /\ control[d].status = "FAIL" => \E f \in DOMAIN basis[d] : evidence[d][f] # "PASS"
    BY DEF C!EvidenceCarriesStatus
  <2> DEFINE s == basis[d]
             open == {f \in DOMAIN s : C(c)!Open(s[f])}
             accepted == {f \in DOMAIN s : C(c)!Accepted(s[f])}
  <2>1. /\ s \in Mapped(c) /\ control[d].status = C(c)!StatusOf(s, others)
        /\ \A f \in DOMAIN s : evidence[d][f] = C(c)!EvidenceOf(f, s[f])
    BY DEF ComplianceTypes, ControlsAlone, Recorded
  <2>2. /\ IsFiniteSet(DOMAIN s) /\ \A f \in DOMAIN s : s[f].workflow \in C(c)!Workflow
    BY <2>1, SeenIsFinite DEF C!Finding
  <2>3. /\ Cardinality(open) \in Nat /\ (Cardinality(open) > 0 <=> open # {})
        /\ Cardinality(accepted) \in Nat /\ (Cardinality(accepted) > 0 <=> accepted # {})
    BY <2>2, FS_Subset, CountsNothing
  <2>4. C(c)!StatusOf(s, others) = C(c)!Derive(Cardinality(open), Cardinality(accepted),
                                       Cardinality(DOMAIN s) + others, DOMAIN s \subseteq c.Sample)
    BY ComplianceCardinality DEF C!StatusOf
  <2>5. /\ control[d].status = "PASS" => open = {} /\ accepted = {}
        /\ control[d].status = "FAIL" => open # {}
    <3> HIDE DEF open, accepted, s
    <3> QED
      BY <2>1, <2>3, <2>4 DEF C!Derive
  <2>6. \A f \in DOMAIN s : f \notin open /\ f \notin accepted => evidence[d][f] = "PASS"
    BY <2>1, <2>2 DEF C!Open, C!Accepted, C!EvidenceOf, C!Workflow
  <2>7. \A f \in open : f \in DOMAIN s /\ evidence[d][f] # "PASS"
    BY <2>1 DEF C!Open, C!EvidenceOf
  <2> QED
    BY <2>5, <2>6, <2>7
<1> QED
  BY <1>1, <1>2, <1>3

\* For any number of controls, findings and evaluations at once, whatever fails, and
\* whatever is decided, archived or runs out meanwhile: what an evaluation stored
\* undisturbed does not contradict what the registry shows of the same findings, and
\* the evidence beside it says the same.
THEOREM PosturesAlwaysAgree == Spec => []PosturesAgree
<1> DEFINE Inv == \A c \in ComplianceConfigs : part = <<"compliance", c>> => ComplianceInv(c)
<1>1. Init => Inv
  BY PartBegins, ComplianceStarts
<1>2. Inv /\ [Next]_vars => Inv'
  <2> SUFFICES ASSUME Inv, [Next]_vars, NEW c \in ComplianceConfigs, part = <<"compliance", c>>
               PROVE  ComplianceInv(c)'
    BY PartStays
  <2> QED
    BY PartGoesOn, ComplianceStep, ComplianceKept DEF vars, complianceVars
<1>3. Inv => PosturesAgree
  BY ComplianceSafe DEF PosturesAgree
<1> QED
  BY <1>1, <1>2, <1>3, PTL DEF Spec

(***************************************************************************)
(* The command center.                                                     *)
(***************************************************************************)
Places == {"idle", "summary", "accounts", "governance", "done"}

IsCenterRequest(r) ==
    r \in [at : Places, now : Nat, todo : {r.todo}, n : {r.n}, scans : {r.scans},
           accounts : {r.accounts}, critical : {r.critical}, calm : BOOLEAN, won : {r.won}]

CommandTypes(c) ==
    /\ account \in [c.Accounts -> D(c)!Account]
    /\ finding \in [c.Findings -> D(c)!Finding] /\ control \in [c.Controls -> D(c)!Control]
    /\ clock \in Nat /\ IsCenterRequest(request)

\* What has been counted so far, and that it is still so if nobody wrote.
CommandCounts(c) ==
    /\ request.at \in {"idle", "accounts", "done"} => request.todo = {}
    /\ request.at = "summary" =>
          request.todo \subseteq D(c)!Summary /\ \A Q \in D(c)!Summary \ request.todo : Q \subseteq DOMAIN request.n
    /\ request.at \in {"accounts", "governance", "done"} => UNION D(c)!Summary \subseteq DOMAIN request.n
    /\ request.at = "governance" =>
          request.todo \subseteq D(c)!Governance
          /\ \A Q \in D(c)!Governance \ request.todo : Q \subseteq DOMAIN request.n
    /\ request.at = "done" => (UNION D(c)!Governance) \cup {"owned"} \subseteq DOMAIN request.n
    /\ request.calm => \A q \in DOMAIN request.n : request.n[q] = D(c)!Count(q)

\* A success that started at w is behind the run x, or is the run x.
Outdoes(x, w) == x.start > w \/ (x.start = w /\ x.status = "SUCCEEDED")

\* No two runs start together, and each success that still stands has been outdone by a
\* run of its account at most: rows are never deleted, and never start earlier.
CommandRows(c) ==
    /\ scans \in Seq(D(c)!Scan) /\ stamp \in Nat
    /\ won \in [c.Accounts -> SUBSET Nat] /\ synced \in [c.Accounts -> SUBSET Nat]
    /\ request.won \in [c.Accounts -> SUBSET Nat]
    /\ \A i \in DOMAIN scans :
          /\ scans[i].start <= stamp
          /\ scans[i].status = "SUCCEEDED" => scans[i].ended \in synced[scans[i].of]
          /\ \A j \in DOMAIN scans : i # j => scans[i].start # scans[j].start
    /\ \A a \in c.Accounts :
          /\ request.won[a] \subseteq won[a]
          /\ \A w \in won[a] : \E i \in DOMAIN scans : scans[i].of = a /\ Outdoes(scans[i], w)

\* The same of the runs that were read: whatever is beyond the limit started earlier.
CommandRuns(c) ==
    /\ \A i \in DOMAIN request.scans :
          /\ request.scans[i] \in D(c)!Scan
          /\ request.scans[i].status = "SUCCEEDED" =>
                request.scans[i].ended \in synced[request.scans[i].of]
          /\ \A j \in DOMAIN request.scans : i # j => request.scans[i].start # request.scans[j].start
    /\ \A a \in c.Accounts : \A w \in request.won[a] :
          D(c)!Runs(request, a) # {} => \E i \in D(c)!Runs(request, a) : Outdoes(request.scans[i], w)
    /\ request.calm => request.scans = [i \in D(c)!Recent |-> scans[i]]

CommandReads(c) ==
    /\ request.at # "idle" => request.now = clock
    /\ request.at \in {"accounts", "governance", "done"} => CommandRuns(c)
    /\ request.at \in {"governance", "done"} =>
          /\ DOMAIN request.accounts \subseteq c.Accounts
          /\ request.calm =>
                request.accounts = [a \in {b \in c.Accounts : ~account[b].archived} |-> account[a]]

CommandInv(c) == CommandTypes(c) /\ CommandRows(c) /\ CommandCounts(c) /\ CommandReads(c)

\* What a row of a run holds.
LEMMA ScanFields ==
  ASSUME NEW c \in CommandConfigs, NEW x \in D(c)!Scan
  PROVE  x.of \in c.Accounts /\ x.start \in Nat /\ x.tries \in Nat /\ x.runs \in Nat /\ x.owed \in Nat
BY DEF D!Scan, D!Way

LEMMA ScanRows ==
  ASSUME NEW c \in CommandConfigs, CommandRows(c)
  PROVE  /\ DOMAIN scans = 1..Len(scans) /\ Len(scans) \in Nat
         /\ \A i \in DOMAIN scans : /\ scans[i] \in D(c)!Scan
                                     /\ scans[i].of \in c.Accounts /\ scans[i].start \in Nat
<1>1. scans \in Seq(D(c)!Scan)
  BY DEF CommandRows
<1>2. DOMAIN scans = 1..Len(scans) /\ Len(scans) \in Nat /\ \A i \in DOMAIN scans : scans[i] \in D(c)!Scan
  BY <1>1
<1> QED
  BY <1>2, ScanFields

LEMMA CenterNothing ==
  ASSUME NEW c \in CommandConfigs
  PROVE  /\ IsCenterRequest(D(c)!Nothing) /\ D(c)!Nothing.at = "idle" /\ D(c)!Nothing.todo = {}
         /\ DOMAIN D(c)!Nothing.n = {} /\ ~D(c)!Nothing.calm
         /\ D(c)!Nothing.won = [a \in c.Accounts |-> {}]
BY DEF D!Nothing, IsCenterRequest, Places

LEMMA CommandStarts ==
  ASSUME NEW c \in CommandConfigs, D(c)!Init
  PROVE  CommandInv(c)
<1>1. CommandTypes(c)
  <2>1. account \in [c.Accounts -> D(c)!Account]
    BY DEF D!Init, D!Account, D!Connection, D!Unusable
  <2>2. control \in [c.Controls -> D(c)!Control]
    BY DEF D!Init, D!Control
  <2> QED
    BY <2>1, <2>2, CenterNothing DEF D!Init, CommandTypes
<1>2. CommandRows(c)
  <2>1. /\ scans = <<>> /\ stamp = 0 /\ won = [a \in c.Accounts |-> {}]
        /\ synced = [a \in c.Accounts |-> {}] /\ request.won = [a \in c.Accounts |-> {}]
    BY CenterNothing DEF D!Init
  <2> QED
    BY <2>1 DEF CommandRows
<1>3. CommandCounts(c) /\ CommandReads(c)
  BY CenterNothing DEF D!Init, CommandCounts, CommandReads
<1> QED
  BY <1>1, <1>2, <1>3 DEF CommandInv

LEMMA CommandCardinality ==
  ASSUME NEW c, NEW S PROVE D(c)!Cardinality(S) = Cardinality(S)
BY DEF D!Cardinality, Cardinality

\* What a step of the request leaves alone, counts as before.
LEMMA CountStays ==
  ASSUME NEW c, D(c)!Stored PROVE \A q : D(c)!Count(q)' = D(c)!Count(q)
BY DEF D!Stored, D!Count, D!Live, D!OpenOf, D!HasEvidence, D!Owned

\* What has been read stays so in a step that only reads something else.
LEMMA ReadStays ==
  ASSUME NEW c \in CommandConfigs, D(c)!Stored,
         request'.scans = request.scans, request'.calm = request.calm, request'.won = request.won
  PROVE  (CommandRuns(c) => CommandRuns(c)') /\ (CommandRows(c) => CommandRows(c)')
<1>1. UNCHANGED <<scans, stamp, won, synced>>
  BY DEF D!Stored, D!history
<1>2. D(c)!Recent' = D(c)!Recent
  BY <1>1 DEF D!Recent
<1>3. \A a : D(c)!Runs(request, a)' = D(c)!Runs(request, a)
  BY DEF D!Runs
<1>4. CommandRuns(c) => CommandRuns(c)'
  BY <1>1, <1>2, <1>3 DEF CommandRuns, D!Scan, D!Way
<1>5. CommandRows(c) => CommandRows(c)'
  BY <1>1 DEF CommandRows, D!Scan, D!Way
<1> QED
  BY <1>4, <1>5

LEMMA CenterBegins ==
  ASSUME NEW c \in CommandConfigs, CommandInv(c), D(c)!Begin \/ D(c)!Answer
  PROVE  CommandInv(c)'
<1>1. D(c)!Stored
  BY DEF D!Begin, D!Answer
<1>2. \/ request' = D(c)!Nothing
      \/ /\ IsCenterRequest(request') /\ request'.at = "summary" /\ request'.todo = D(c)!Summary
         /\ DOMAIN request'.n = {} /\ request'.now = clock /\ request'.won = won
  <2>1. CASE D(c)!Begin
    <3>1. request' = [D(c)!Nothing EXCEPT !.at = "summary", !.now = clock, !.todo = D(c)!Summary, !.calm = TRUE,
                                            !.won = won]
      BY <2>1 DEF D!Begin
    <3>2. clock \in Nat
      BY DEF CommandInv, CommandTypes
    <3> QED
      BY <3>1, <3>2 DEF D!Nothing, IsCenterRequest, Places
  <2>2. CASE D(c)!Answer
    BY <2>2 DEF D!Answer
  <2> QED
    BY <2>1, <2>2
<1>3. CommandTypes(c)'
  BY <1>1, <1>2, CenterNothing
     DEF CommandInv, CommandTypes, D!Stored, D!Account, D!Finding, D!Control, D!Connection, D!Unusable
<1>4. CommandCounts(c)'
  BY <1>2, CenterNothing DEF CommandCounts, D!Summary
<1>5. CommandReads(c)'
  BY <1>1, <1>2, CenterNothing DEF CommandReads, D!Stored
<1>6. CommandRows(c)'
  <2>1. request'.won = won \/ request'.won = [a \in c.Accounts |-> {}]
    BY <1>2, CenterNothing
  <2>2. UNCHANGED <<scans, stamp, won, synced>>
    BY <1>1 DEF D!Stored, D!history
  <2> QED
    BY <2>1, <2>2 DEF CommandInv, CommandRows, D!Scan, D!Way
<1> QED
  BY <1>3, <1>4, <1>5, <1>6 DEF CommandInv

\* Counting some more.
LEMMA CenterCounts ==
  ASSUME NEW c \in CommandConfigs, CommandInv(c), D(c)!Stored, NEW Q,
         request'.n = D(c)!Counted(request.n, Q), request'.calm = request.calm
  PROVE  /\ DOMAIN request'.n = DOMAIN request.n \cup Q
         /\ request'.calm => \A q \in DOMAIN request'.n : request'.n[q] = D(c)!Count(q)'
<1>1. /\ DOMAIN request'.n = DOMAIN request.n \cup Q
      /\ \A q \in DOMAIN request'.n : request'.n[q] = IF q \in Q THEN D(c)!Count(q) ELSE request.n[q]
  BY DEF D!Counted
<1>2. request.calm => \A q \in DOMAIN request.n : request.n[q] = D(c)!Count(q)
  BY DEF CommandInv, CommandCounts
<1> QED
  BY <1>1, <1>2, CountStays

LEMMA CenterQueries ==
  ASSUME NEW c \in CommandConfigs, CommandInv(c), D(c)!Query
  PROVE  CommandInv(c)'
<1>1. PICK Q \in request.todo :
          request' = [request EXCEPT !.todo = @ \ {Q}, !.n = D(c)!Counted(@, Q)]
  BY DEF D!Query
<1>2. D(c)!Stored
  BY DEF D!Query
<1>3. IsCenterRequest(request)
  BY DEF CommandInv, CommandTypes
<1>4. /\ IsCenterRequest(request') /\ request'.at = request.at /\ request'.now = request.now
      /\ request'.todo = request.todo \ {Q} /\ request'.n = D(c)!Counted(request.n, Q)
      /\ request'.scans = request.scans /\ request'.accounts = request.accounts
      /\ request'.calm = request.calm /\ request'.won = request.won
  <2> DEFINE n == D(c)!Counted(request.n, Q)
  <2>1. request' = [request EXCEPT !.todo = @ \ {Q}, !.n = n]
    BY <1>1, <1>3 DEF IsCenterRequest
  <2> HIDE DEF n
  <2> QED
    BY <2>1, <1>3 DEF IsCenterRequest, n
<1>5. /\ DOMAIN request'.n = DOMAIN request.n \cup Q
      /\ request'.calm => \A q \in DOMAIN request'.n : request'.n[q] = D(c)!Count(q)'
  BY <1>2, <1>4, CenterCounts
<1>6. CommandTypes(c)'
  BY <1>2, <1>4
     DEF CommandInv, CommandTypes, D!Stored, D!Account, D!Finding, D!Control, D!Connection, D!Unusable
<1>7. CommandCounts(c)'
  <2>1. request.at \in {"summary", "governance"}
    BY <1>3 DEF CommandInv, CommandCounts, IsCenterRequest, Places
  <2> QED
    BY <2>1, <1>4, <1>5 DEF CommandInv, CommandCounts, D!Summary, D!Governance
<1>8. CommandReads(c)' /\ CommandRows(c)'
  BY <1>2, <1>4, ReadStays DEF CommandInv, CommandReads, D!Stored
<1> QED
  BY <1>6, <1>7, <1>8 DEF CommandInv

\* A run that is read started later than one beyond the limit.
LEMMA RecentIsLater ==
  ASSUME NEW c \in CommandConfigs, CommandRows(c), NEW i \in D(c)!Recent,
         NEW j \in DOMAIN scans, j \notin D(c)!Recent
  PROVE  scans[j].start < scans[i].start
<1> DEFINE Before(k) == {m \in DOMAIN scans : scans[m].start > scans[k].start}
<1>1. DOMAIN scans = 1..Len(scans) /\ Len(scans) \in Nat /\ \A m \in DOMAIN scans : scans[m].start \in Nat
  BY ScanRows
<1>2. IsFiniteSet(DOMAIN scans)
  <2> DEFINE n == Len(scans)
  <2>1. n \in Nat /\ DOMAIN scans = 1..n
    BY <1>1
  <2> HIDE DEF n
  <2> QED
    BY <2>1, FS_Interval
<1>3. i \in DOMAIN scans /\ c.ScanLimit \in Nat
  BY CommandAssumption DEF D!Recent
<1>4. Cardinality(Before(i)) < c.ScanLimit /\ ~(Cardinality(Before(j)) < c.ScanLimit)
  BY CommandCardinality DEF D!Recent
<1> SUFFICES ASSUME ~(scans[j].start < scans[i].start) PROVE FALSE
  OBVIOUS
<1>5. Before(j) \subseteq Before(i)
  BY <1>1, <1>3
<1>6. Before(i) \subseteq DOMAIN scans
  OBVIOUS
<1> HIDE DEF Before
<1>7. IsFiniteSet(Before(i)) /\ Cardinality(Before(j)) <= Cardinality(Before(i))
  BY <1>2, <1>5, <1>6, FS_Subset
<1>8. Cardinality(Before(i)) \in Nat /\ Cardinality(Before(j)) \in Nat
  BY <1>5, <1>7, FS_Subset, FS_CardinalityType
<1> QED
  BY <1>3, <1>4, <1>7, <1>8

LEMMA CenterReadsScans ==
  ASSUME NEW c \in CommandConfigs, CommandInv(c), D(c)!ReadScans
  PROVE  CommandInv(c)'
<1> DEFINE s == [i \in D(c)!Recent |-> scans[i]]
<1>1. /\ request.at = "summary" /\ request.todo = {} /\ D(c)!Stored
      /\ request' = [request EXCEPT !.at = "accounts", !.scans = s]
  BY DEF D!ReadScans
<1>2. IsCenterRequest(request) /\ CommandRows(c)
  BY DEF CommandInv, CommandTypes
<1>3. DOMAIN s = D(c)!Recent /\ D(c)!Recent \subseteq DOMAIN scans /\ \A i \in DOMAIN s : s[i] = scans[i]
  BY DEF D!Recent
<1> HIDE DEF s
<1>4. /\ IsCenterRequest(request') /\ request'.at = "accounts" /\ request'.now = request.now
      /\ request'.todo = {} /\ request'.n = request.n /\ request'.scans = s
      /\ request'.calm = request.calm /\ request'.won = request.won
  BY <1>1, <1>2 DEF IsCenterRequest, Places
<1>5. UNCHANGED <<scans, stamp, won, synced>> /\ D(c)!Recent' = D(c)!Recent
  BY <1>1 DEF D!Stored, D!history, D!Recent
<1>6. CommandTypes(c)' /\ CommandRows(c)'
  <2>1. CommandTypes(c)'
    BY <1>1, <1>4
       DEF CommandInv, CommandTypes, D!Stored, D!Account, D!Finding, D!Control, D!Connection, D!Unusable
  <2>2. CommandRows(c)'
    BY <1>2, <1>4, <1>5 DEF CommandRows, D!Scan, D!Way
  <2> QED
    BY <2>1, <2>2
<1>7. CommandCounts(c)'
  BY <1>1, <1>4, CountStays DEF CommandInv, CommandCounts
<1>8. CommandRuns(c)'
  <2>1. \A i \in DOMAIN s :
          /\ s[i] \in D(c)!Scan
          /\ s[i].status = "SUCCEEDED" => s[i].ended \in synced[s[i].of]
          /\ \A j \in DOMAIN s : i # j => s[i].start # s[j].start
    BY <1>2, <1>3 DEF CommandRows
  <2>2. ASSUME NEW a \in c.Accounts, NEW w \in request.won[a], D(c)!Runs(request', a) # {}
        PROVE  \E i \in D(c)!Runs(request', a) : Outdoes(s[i], w)
    <3>1. D(c)!Runs(request', a) = {i \in DOMAIN s : s[i].of = a}
      BY <1>4 DEF D!Runs
    <3>2. PICK j \in DOMAIN scans : scans[j].of = a /\ Outdoes(scans[j], w)
      BY <1>2 DEF CommandRows
    <3>3. CASE j \in D(c)!Recent
      BY <1>3, <3>1, <3>2, <3>3
    <3>4. CASE j \notin D(c)!Recent
      <4>1. PICK i \in DOMAIN s : s[i].of = a
        BY <2>2, <3>1
      <4>2. scans[j].start < scans[i].start /\ i \in DOMAIN scans
        BY <1>2, <1>3, <3>4, <4>1, RecentIsLater
      <4>3. w \in Nat /\ scans[i].start \in Nat /\ scans[j].start \in Nat
        BY <1>2, <4>2, ScanRows DEF CommandRows
      <4>4. scans[i].start > w
        BY <3>2, <4>2, <4>3 DEF Outdoes
      <4> QED
        BY <1>3, <3>1, <4>1, <4>4 DEF Outdoes
    <3> QED
      BY <3>3, <3>4
  <2>3. request.calm => s = [i \in D(c)!Recent |-> scans[i]]
    BY DEF s
  <2>4. \A a : D(c)!Runs(request, a)' = D(c)!Runs(request', a)
    BY DEF D!Runs
  <2> QED
    BY <1>4, <1>5, <2>1, <2>2, <2>3, <2>4 DEF CommandRuns, D!Scan, D!Way
<1>9. CommandReads(c)'
  BY <1>1, <1>4, <1>8 DEF CommandInv, CommandReads, D!Stored
<1> QED
  BY <1>6, <1>7, <1>9 DEF CommandInv

LEMMA CenterReadsAccounts ==
  ASSUME NEW c \in CommandConfigs, CommandInv(c), D(c)!ReadAccounts
  PROVE  CommandInv(c)'
<1> DEFINE t == [a \in {b \in c.Accounts : ~account[b].archived} |-> account[a]]
           k == {c.On[f] : f \in {g \in c.Findings : finding[g].open /\ c.Severity[g] = "CRITICAL"}}
<1>1. /\ request.at = "accounts" /\ D(c)!Stored
      /\ request' = [request EXCEPT !.at = "governance", !.todo = D(c)!Governance,
                         !.accounts = t, !.critical = k]
  BY DEF D!ReadAccounts
<1>2. IsCenterRequest(request)
  BY DEF CommandInv, CommandTypes
<1>3. DOMAIN t \subseteq c.Accounts
  OBVIOUS
<1> HIDE DEF k
<1>4. /\ IsCenterRequest(request') /\ request'.at = "governance" /\ request'.now = request.now
      /\ request'.todo = D(c)!Governance /\ request'.n = request.n /\ request'.scans = request.scans
      /\ request'.accounts = t /\ request'.calm = request.calm
      /\ request'.won = request.won
  <2> HIDE DEF t
  <2> QED
    BY <1>1, <1>2 DEF IsCenterRequest, Places
<1>5. CommandTypes(c)'
  BY <1>1, <1>4
     DEF CommandInv, CommandTypes, D!Stored, D!Account, D!Finding, D!Control, D!Connection, D!Unusable
<1>6. CommandCounts(c)'
  BY <1>1, <1>4, CountStays DEF CommandInv, CommandCounts
<1>7. CommandReads(c)' /\ CommandRows(c)'
  BY <1>1, <1>3, <1>4, ReadStays DEF CommandInv, CommandReads, D!Stored
<1> QED
  BY <1>5, <1>6, <1>7 DEF CommandInv

LEMMA CenterReadsOwned ==
  ASSUME NEW c \in CommandConfigs, CommandInv(c), D(c)!ReadOwned
  PROVE  CommandInv(c)'
<1> DEFINE n == D(c)!Counted(request.n, {"owned"})
<1>1. IsCenterRequest(request)
  BY DEF CommandInv, CommandTypes
<1>2. /\ request.at = "governance" /\ request.todo = {} /\ D(c)!Stored
      /\ request' = [request EXCEPT !.at = "done", !.n = n]
  BY <1>1 DEF D!ReadOwned, IsCenterRequest
<1> HIDE DEF n
<1>3. /\ IsCenterRequest(request') /\ request'.at = "done" /\ request'.now = request.now
      /\ request'.todo = {} /\ request'.n = n /\ request'.scans = request.scans
      /\ request'.accounts = request.accounts /\ request'.calm = request.calm
      /\ request'.won = request.won
  BY <1>1, <1>2 DEF IsCenterRequest, Places
<1>4. /\ DOMAIN request'.n = DOMAIN request.n \cup {"owned"}
      /\ request'.calm => \A q \in DOMAIN request'.n : request'.n[q] = D(c)!Count(q)'
  BY <1>2, <1>3, CenterCounts DEF n
<1>5. CommandTypes(c)'
  BY <1>2, <1>3
     DEF CommandInv, CommandTypes, D!Stored, D!Account, D!Finding, D!Control, D!Connection, D!Unusable
<1>6. CommandCounts(c)'
  <2>1. /\ UNION D(c)!Summary \subseteq DOMAIN request.n
        /\ \A Q \in D(c)!Governance : Q \subseteq DOMAIN request.n
    BY <1>2 DEF CommandInv, CommandCounts
  <2>2. (UNION D(c)!Governance) \cup {"owned"} \subseteq DOMAIN request'.n
    BY <2>1, <1>4
  <2>3. UNION D(c)!Summary \subseteq DOMAIN request'.n
    BY <2>1, <1>4
  <2>4. D(c)!Summary' = D(c)!Summary /\ D(c)!Governance' = D(c)!Governance
    BY DEF D!Summary, D!Governance
  <2> QED
    BY <2>2, <2>3, <2>4, <1>3, <1>4 DEF CommandCounts
<1>7. CommandReads(c)' /\ CommandRows(c)'
  BY <1>2, <1>3, ReadStays DEF CommandInv, CommandReads, D!Stored
<1> QED
  BY <1>5, <1>6, <1>7 DEF CommandInv

\* Whatever is written meanwhile, the request forgets that it is calm, and successes
\* that are taken back.
LEMMA CenterDisturbed ==
  ASSUME NEW c \in CommandConfigs, CommandInv(c), CommandRows(c)', clock' = clock,
         account' \in [c.Accounts -> D(c)!Account], finding' \in [c.Findings -> D(c)!Finding],
         control' \in [c.Controls -> D(c)!Control],
         NEW won1, request' = [request EXCEPT !.calm = FALSE, !.won = won1],
         \A a \in c.Accounts : won1[a] \subseteq request.won[a] /\ synced[a] \subseteq synced'[a]
  PROVE  CommandInv(c)'
<1>1. IsCenterRequest(request)
  BY DEF CommandInv, CommandTypes
<1>2. /\ IsCenterRequest(request') /\ request'.at = request.at /\ request'.now = request.now
      /\ request'.todo = request.todo /\ request'.n = request.n /\ request'.scans = request.scans
      /\ request'.accounts = request.accounts /\ ~request'.calm /\ request'.won = won1
  BY <1>1 DEF IsCenterRequest
<1>3. CommandTypes(c)'
  BY <1>2 DEF CommandInv, CommandTypes, D!Account, D!Finding, D!Control, D!Connection, D!Unusable
<1>4. CommandCounts(c)'
  BY <1>2 DEF CommandInv, CommandCounts
<1>5. CommandRuns(c) => CommandRuns(c)'
  <2> SUFFICES ASSUME CommandRuns(c) PROVE CommandRuns(c)'
    OBVIOUS
  <2>1. \A a : D(c)!Runs(request, a)' = D(c)!Runs(request, a)
    BY <1>2 DEF D!Runs
  <2>2. \A i \in DOMAIN request.scans :
          /\ request.scans[i] \in D(c)!Scan
          /\ request.scans[i].status = "SUCCEEDED" =>
                request.scans[i].ended \in synced'[request.scans[i].of]
          /\ \A j \in DOMAIN request.scans : i # j => request.scans[i].start # request.scans[j].start
    BY DEF CommandRuns, D!Scan, D!Way
  <2> QED
    BY <1>2, <2>1, <2>2 DEF CommandRuns, D!Scan, D!Way
<1>6. CommandReads(c)'
  BY <1>2, <1>5 DEF CommandInv, CommandReads
<1> QED
  BY <1>3, <1>4, <1>6 DEF CommandInv

\* As it does while other tables are written.
LEMMA CenterLeftAlone ==
  ASSUME NEW c \in CommandConfigs, CommandInv(c), D(c)!Meanwhile,
         UNCHANGED <<scans, stamp, won, synced, clock>>,
         account' \in [c.Accounts -> D(c)!Account], finding' \in [c.Findings -> D(c)!Finding],
         control' \in [c.Controls -> D(c)!Control]
  PROVE  CommandInv(c)'
<1>1. IsCenterRequest(request) /\ CommandRows(c)
  BY DEF CommandInv, CommandTypes
<1>2. request' = [request EXCEPT !.calm = FALSE, !.won = request.won] /\ request'.won = request.won
  BY <1>1 DEF D!Meanwhile, IsCenterRequest
<1>3. CommandRows(c)'
  BY <1>1, <1>2 DEF CommandRows, D!Scan, D!Way
<1> QED
  BY <1>2, <1>3, CenterDisturbed

\* A row that is planned starts after all the others.
LEMMA CenterPlans ==
  ASSUME NEW c \in CommandConfigs, CommandInv(c), NEW a \in c.Accounts, NEW by \in c.Ways, D(c)!Plan(a, by)
  PROVE  CommandInv(c)'
<1> DEFINE x == [of |-> a, by |-> by, status |-> IF by = "none" THEN "BLOCKED" ELSE "QUEUED",
                 start |-> stamp + 1, ended |-> 0, tries |-> 0, runs |-> 0, owed |-> 0]
<1>1. /\ scans' = Append(scans, x) /\ stamp' = stamp + 1 /\ D(c)!Meanwhile
      /\ UNCHANGED <<account, won, synced, finding, control, inventory, clock, changes>>
  BY DEF D!Plan, D!history
<1>2. CommandRows(c) /\ IsCenterRequest(request) /\ CommandTypes(c)
  BY DEF CommandInv, CommandTypes
<1>3. x \in D(c)!Scan /\ x.start = stamp + 1 /\ x.status # "SUCCEEDED"
  <2>1. by \in D(c)!Way /\ stamp \in Nat
    BY <1>2, CommandAssumption DEF CommandRows, D!Way
  <2> QED
    BY <2>1 DEF D!Scan, D!Way
<1> HIDE DEF x
<1>4. /\ scans \in Seq(D(c)!Scan) /\ scans' \in Seq(D(c)!Scan) /\ Len(scans) \in Nat
      /\ DOMAIN scans = 1..Len(scans) /\ DOMAIN scans' = 1..(Len(scans) + 1)
      /\ scans'[Len(scans) + 1] = x /\ \A i \in DOMAIN scans : scans'[i] = scans[i]
  BY <1>1, <1>2, <1>3 DEF CommandRows
<1>5. request' = [request EXCEPT !.calm = FALSE, !.won = request.won] /\ request'.won = request.won
  BY <1>1, <1>2 DEF D!Meanwhile, IsCenterRequest
<1>6. \A i \in DOMAIN scans : scans[i].start \in Nat /\ scans[i].start <= stamp /\ stamp \in Nat
  BY <1>2, ScanRows DEF CommandRows
<1>7. \A i \in DOMAIN scans' :
          /\ scans'[i].start <= stamp + 1
          /\ scans'[i].status = "SUCCEEDED" => scans'[i].ended \in synced[scans'[i].of]
          /\ \A j \in DOMAIN scans' : i # j => scans'[i].start # scans'[j].start
  <2> TAKE i \in DOMAIN scans'
  <2>1. CASE i \in DOMAIN scans
    <3>1. scans'[i] = scans[i] /\ scans[i].start < stamp + 1 /\ scans[i].start <= stamp + 1
      BY <2>1, <1>4, <1>6
    <3>2. \A j \in DOMAIN scans' : j \in DOMAIN scans \/ scans'[j] = x
      BY <1>4
    <3>3. scans[i].status = "SUCCEEDED" => scans[i].ended \in synced[scans[i].of]
      BY <1>2, <2>1 DEF CommandRows
    <3>4. \A j \in DOMAIN scans : i # j => scans[i].start # scans[j].start
      BY <1>2, <2>1 DEF CommandRows
    <3>5. \A j \in DOMAIN scans' : i # j => scans'[i].start # scans'[j].start
      <4> TAKE j \in DOMAIN scans'
      <4>1. CASE j \in DOMAIN scans
        BY <4>1, <3>1, <3>4, <1>4
      <4>2. CASE scans'[j] = x
        BY <4>2, <3>1, <1>3, <1>6, <2>1
      <4> QED
        BY <4>1, <4>2, <3>2
    <3> QED
      BY <3>1, <3>3, <3>5
  <2>2. CASE i \notin DOMAIN scans
    <3>1. i = Len(scans) + 1 /\ scans'[i] = x
      BY <2>2, <1>4
    <3>2. \A j \in DOMAIN scans' : i # j => j \in DOMAIN scans
      BY <3>1, <1>4
    <3>3. stamp \in Nat
      BY <1>2 DEF CommandRows
    <3>4. \A j \in DOMAIN scans' : i # j => scans'[j].start # stamp + 1
      BY <3>2, <1>4, <1>6
    <3> QED
      BY <3>1, <3>3, <3>4, <1>3
  <2> QED
    BY <2>1, <2>2
<1>8. \A b \in c.Accounts : \A w \in won[b] :
         \E i \in DOMAIN scans' : scans'[i].of = b /\ Outdoes(scans'[i], w)
  BY <1>2, <1>4 DEF CommandRows
<1>9. CommandRows(c)'
  BY <1>1, <1>2, <1>4, <1>5, <1>7, <1>8 DEF CommandRows
<1> QED
  BY <1>1, <1>2, <1>5, <1>9, CenterDisturbed DEF CommandTypes

\* A run writes its row by id: it starts as it did, or after all the others.
LEMMA CenterWrites ==
  ASSUME NEW c \in CommandConfigs, CommandInv(c), NEW i \in DOMAIN scans, NEW x \in D(c)!Scan,
         x.of = scans[i].of, D(c)!Write(i, x), stamp' \in Nat,
         \/ x.start = scans[i].start /\ stamp' = stamp
         \/ x.start = stamp + 1 /\ stamp' = stamp + 1,
         synced' \in [c.Accounts -> SUBSET Nat], \A a \in c.Accounts : synced[a] \subseteq synced'[a],
         x.status = "SUCCEEDED" => x.ended \in synced'[x.of],
         clock' = clock, account' \in [c.Accounts -> D(c)!Account], UNCHANGED <<finding, control>>
  PROVE  CommandInv(c)'
<1> DEFINE a == scans[i].of
           lost == IF x.start = scans[i].start /\ x.status # "SUCCEEDED" THEN {x.start} ELSE {}
           gained == IF x.status = "SUCCEEDED" THEN {x.start} ELSE {}
           won1 == [request.won EXCEPT ![a] = @ \ lost]
<1>1. CommandRows(c) /\ IsCenterRequest(request) /\ CommandTypes(c)
  BY DEF CommandInv, CommandTypes
<1>2. /\ scans' = [scans EXCEPT ![i] = x]
      /\ won' = [won EXCEPT ![a] = (@ \ lost) \cup gained]
  BY DEF D!Write
<1>3. request' = [request EXCEPT !.calm = FALSE, !.won = won1]
  BY <1>1 DEF D!Write, IsCenterRequest
<1>4. /\ scans \in Seq(D(c)!Scan) /\ won \in [c.Accounts -> SUBSET Nat]
      /\ request.won \in [c.Accounts -> SUBSET Nat] /\ stamp \in Nat
  BY <1>1 DEF CommandRows
<1>5. a \in c.Accounts /\ x.start \in Nat /\ \A j \in DOMAIN scans : scans[j].start \in Nat
  BY <1>1, ScanRows, ScanFields
<1>6. /\ scans' \in Seq(D(c)!Scan) /\ DOMAIN scans' = DOMAIN scans
      /\ \A j \in DOMAIN scans : scans'[j] = IF j = i THEN x ELSE scans[j]
  BY <1>2, <1>4
<1>7. lost \subseteq {x.start} /\ gained \subseteq {x.start}
  OBVIOUS
<1>8. \A w \in gained : x.start = w /\ x.status = "SUCCEEDED"
  OBVIOUS
<1>9. \A w : w \notin lost /\ Outdoes(scans[i], w) /\ w \in Nat => Outdoes(x, w)
  <2> SUFFICES ASSUME NEW w \in Nat, w \notin lost, Outdoes(scans[i], w) PROVE Outdoes(x, w)
    OBVIOUS
  <2>1. CASE x.start = scans[i].start /\ stamp' = stamp
    BY <2>1 DEF Outdoes
  <2>2. CASE x.start = stamp + 1
    <3>1. scans[i].start <= stamp /\ scans[i].start >= w
      BY <1>1, <1>5 DEF CommandRows, Outdoes
    <3> QED
      BY <2>2, <3>1, <1>4, <1>5 DEF Outdoes
  <2> QED
    BY <2>1, <2>2
<1> HIDE DEF lost, gained
<1>10. /\ won' \in [c.Accounts -> SUBSET Nat]
       /\ \A b \in c.Accounts : won'[b] = IF b = a THEN (won[b] \ lost) \cup gained ELSE won[b]
  <2>1. (won[a] \ lost) \cup gained \subseteq Nat
    BY <1>4, <1>5, <1>7
  <2> QED
    BY <2>1, <1>2, <1>4, <1>5
<1>11. /\ won1 \in [c.Accounts -> SUBSET Nat]
       /\ \A b \in c.Accounts : won1[b] = IF b = a THEN request.won[b] \ lost ELSE request.won[b]
  <2>1. request.won[a] \ lost \subseteq Nat
    BY <1>4, <1>5
  <2> QED
    BY <2>1, <1>4, <1>5
<1> HIDE DEF won1
<1>12. request'.won = won1
  BY <1>1, <1>3 DEF IsCenterRequest
<1>13. \A j \in DOMAIN scans : scans[j].start <= stamp /\ (j # i => scans[j].start # x.start)
  <2> TAKE j \in DOMAIN scans
  <2>1. scans[j].start <= stamp /\ (j # i => scans[j].start # scans[i].start)
    BY <1>1 DEF CommandRows
  <2> QED
    BY <2>1, <1>4, <1>5
<1>14. \A j \in DOMAIN scans' :
          /\ scans'[j].start <= stamp'
          /\ scans'[j].status = "SUCCEEDED" => scans'[j].ended \in synced'[scans'[j].of]
          /\ \A k \in DOMAIN scans' : j # k => scans'[j].start # scans'[k].start
  <2> TAKE j \in DOMAIN scans'
  <2>1. scans'[j].start <= stamp'
    BY <1>4, <1>5, <1>6, <1>13
  <2>2. scans'[j].status = "SUCCEEDED" => scans'[j].ended \in synced'[scans'[j].of]
    <3>1. CASE j = i
      BY <3>1, <1>6
    <3>2. CASE j # i
      <4>1. scans'[j] = scans[j] /\ scans[j].of \in c.Accounts
        BY <3>2, <1>1, <1>6, ScanRows
      <4>2. scans[j].status = "SUCCEEDED" => scans[j].ended \in synced[scans[j].of]
        BY <1>1, <1>6 DEF CommandRows
      <4> QED
        BY <4>1, <4>2
    <3> QED
      BY <3>1, <3>2
  <2>3. ASSUME NEW k \in DOMAIN scans', j # k PROVE scans'[j].start # scans'[k].start
    <3>1. CASE j = i \/ k = i
      BY <3>1, <2>3, <1>6, <1>13
    <3>2. CASE j # i /\ k # i
      BY <3>2, <2>3, <1>1, <1>6 DEF CommandRows
    <3> QED
      BY <3>1, <3>2
  <2> QED
    BY <2>1, <2>2, <2>3
<1>15. ASSUME NEW b \in c.Accounts
       PROVE  /\ won1[b] \subseteq won'[b] /\ won1[b] \subseteq request.won[b]
              /\ \A w \in won'[b] : \E j \in DOMAIN scans' : scans'[j].of = b /\ Outdoes(scans'[j], w)
  <2>1. request.won[b] \subseteq won[b]
    BY <1>1 DEF CommandRows
  <2>2. won1[b] \subseteq won'[b] /\ won1[b] \subseteq request.won[b]
    BY <2>1, <1>10, <1>11
  <2>3. ASSUME NEW w \in won'[b]
        PROVE  \E j \in DOMAIN scans' : scans'[j].of = b /\ Outdoes(scans'[j], w)
    <3>1. CASE b = a /\ w \in gained
      BY <3>1, <1>6, <1>8 DEF Outdoes
    <3>2. CASE ~(b = a /\ w \in gained)
      <4>1. w \in won[b] /\ w \in Nat /\ (b = a => w \notin lost)
        BY <3>2, <1>4, <1>10
      <4>2. PICK j \in DOMAIN scans : scans[j].of = b /\ Outdoes(scans[j], w)
        BY <4>1, <1>1 DEF CommandRows
      <4>3. CASE j = i
        BY <4>1, <4>2, <4>3, <1>6, <1>9
      <4>4. CASE j # i
        BY <4>2, <4>4, <1>6
      <4> QED
        BY <4>3, <4>4
    <3> QED
      BY <3>1, <3>2
  <2> QED
    BY <2>2, <2>3
<1>16. CommandRows(c)'
  BY <1>6, <1>10, <1>11, <1>12, <1>14, <1>15 DEF CommandRows
<1>17. finding' \in [c.Findings -> D(c)!Finding] /\ control' \in [c.Controls -> D(c)!Control]
  BY <1>1 DEF CommandTypes
<1>18. \A b \in c.Accounts : won1[b] \subseteq request.won[b] /\ synced[b] \subseteq synced'[b]
  BY <1>15
<1> QED
  BY <1>3, <1>16, <1>17, <1>18, CenterDisturbed

\* What becomes of the row of a run.
LEMMA CenterScans ==
  ASSUME NEW c \in CommandConfigs, CommandInv(c), NEW i \in DOMAIN scans,
         \/ D(c)!Start(i) \/ D(c)!Refuse(i) \/ D(c)!Connected(i)
         \/ D(c)!Sweep(i) \/ D(c)!Compensate(i)
         \/ \E s \in {"SUCCEEDED", "PARTIALLY_SUCCEEDED", "FAILED"} : D(c)!End(i, s)
  PROVE  CommandInv(c)'
<1>1. /\ scans[i] \in D(c)!Scan /\ stamp \in Nat /\ clock \in Nat
      /\ synced \in [c.Accounts -> SUBSET Nat] /\ account \in [c.Accounts -> D(c)!Account]
      /\ scans[i].status = "SUCCEEDED" => scans[i].ended \in synced[scans[i].of]
  BY DEF CommandInv, CommandTypes, CommandRows
<1>2. CASE D(c)!Start(i)
  <2> DEFINE start == stamp + 1
             tries == scans[i].tries + 1
             runs == scans[i].runs + 1
             x == [scans[i] EXCEPT !.status = "RUNNING", !.start = start, !.tries = tries, !.runs = runs]
  <2>1. start \in Nat /\ tries \in Nat /\ runs \in Nat
    BY <1>1, ScanFields
  <2>2. /\ D(c)!Write(i, x) /\ stamp' = stamp + 1
        /\ UNCHANGED <<account, synced, finding, control, inventory, clock, changes>>
    BY <1>2 DEF D!Start
  <2> HIDE DEF start, tries, runs
  <2>3. x \in D(c)!Scan /\ x.of = scans[i].of /\ x.start = start /\ x.status # "SUCCEEDED"
    BY <1>1, <2>1 DEF D!Scan, D!Way
  <2> HIDE DEF x
  <2> QED
    BY <1>1, <2>2, <2>3, CenterWrites DEF start
<1>3. CASE D(c)!Refuse(i)
  <2> DEFINE tries == scans[i].tries + 1
             x == [scans[i] EXCEPT !.status = "BLOCKED", !.tries = tries]
  <2>1. tries \in Nat
    BY <1>1, ScanFields
  <2>2. D(c)!Write(i, x) /\ UNCHANGED <<account, stamp, synced, finding, control, inventory, clock, changes>>
    BY <1>3 DEF D!Refuse
  <2> HIDE DEF tries
  <2>3. x \in D(c)!Scan /\ x.of = scans[i].of /\ x.start = scans[i].start /\ x.status # "SUCCEEDED"
    BY <1>1, <2>1 DEF D!Scan, D!Way
  <2> HIDE DEF x
  <2> QED
    BY <1>1, <2>2, <2>3, CenterWrites
<1>4. CASE D(c)!Connected(i)
  <2> DEFINE x == [scans[i] EXCEPT !.owed = @ - 1]
  <2>1. /\ x \in D(c)!Scan /\ x.of = scans[i].of /\ x.start = scans[i].start
        /\ x.status = scans[i].status /\ x.ended = scans[i].ended
    BY <1>1, <1>4 DEF D!Scan, D!Way, D!Connected
  <2>2. /\ D(c)!Write(i, x) /\ UNCHANGED <<stamp, synced, finding, control, inventory, clock, changes>>
        /\ account' = [account EXCEPT ![scans[i].of].connection = "VALIDATION_SUCCEEDED"]
    BY <1>4 DEF D!Connected
  <2> HIDE DEF x
  <2>3. account' \in [c.Accounts -> D(c)!Account]
    BY <1>1, <2>2 DEF D!Account, D!Connection, D!Scan, D!Way
  <2> QED
    BY <1>1, <2>1, <2>2, <2>3, CenterWrites
<1>5. CASE D(c)!Sweep(i)
  <2> DEFINE x == [scans[i] EXCEPT !.status = "FAILED"]
  <2>1. x \in D(c)!Scan /\ x.of = scans[i].of /\ x.start = scans[i].start /\ x.status # "SUCCEEDED"
    BY <1>1 DEF D!Scan, D!Way
  <2>2. D(c)!Write(i, x) /\ UNCHANGED <<account, stamp, synced, finding, control, inventory, clock, changes>>
    BY <1>5 DEF D!Sweep
  <2> HIDE DEF x
  <2> QED
    BY <1>1, <2>1, <2>2, CenterWrites
<1>6. CASE D(c)!Compensate(i)
  <2> DEFINE x == [scans[i] EXCEPT !.status = "FAILED", !.by = "queue"]
  <2>1. x \in D(c)!Scan /\ x.of = scans[i].of /\ x.start = scans[i].start /\ x.status # "SUCCEEDED"
    BY <1>1 DEF D!Scan, D!Way
  <2>2. D(c)!Write(i, x) /\ UNCHANGED <<account, stamp, synced, finding, control, inventory, clock, changes>>
    BY <1>6 DEF D!Compensate
  <2> HIDE DEF x
  <2> QED
    BY <1>1, <2>1, <2>2, CenterWrites
<1>7. ASSUME NEW s \in {"SUCCEEDED", "PARTIALLY_SUCCEEDED", "FAILED"}, D(c)!End(i, s)
      PROVE  CommandInv(c)'
  <2> DEFINE owes == IF s = "FAILED" THEN scans[i].owed ELSE scans[i].owed + 1
             x == [scans[i] EXCEPT !.status = s, !.runs = @ - 1,
                      !.ended = IF s = "SUCCEEDED" THEN clock ELSE @, !.owed = owes]
  <2>1. owes \in Nat /\ scans[i].runs - 1 \in Nat
    BY <1>1, <1>7 DEF D!Scan, D!Way, D!End
  <2>2. /\ D(c)!Write(i, x) /\ UNCHANGED <<account, stamp, finding, control, inventory, clock, changes>>
        /\ synced' = IF s = "SUCCEEDED" THEN [synced EXCEPT ![scans[i].of] = @ \cup {clock}] ELSE synced
    BY <1>1, <1>7 DEF D!Scan, D!Way, D!End
  <2> HIDE DEF owes
  <2>3. /\ x \in D(c)!Scan /\ x.of = scans[i].of /\ x.start = scans[i].start
        /\ x.status = s /\ (s = "SUCCEEDED" => x.ended = clock)
    BY <1>1, <2>1 DEF D!Scan, D!Way
  <2> HIDE DEF x
  <2>4. /\ synced' \in [c.Accounts -> SUBSET Nat] /\ \A a \in c.Accounts : synced[a] \subseteq synced'[a]
        /\ x.status = "SUCCEEDED" => x.ended \in synced'[x.of]
    BY <1>1, <2>2, <2>3 DEF D!Scan, D!Way
  <2> QED
    BY <1>1, <2>2, <2>3, <2>4, CenterWrites
<1> QED
  BY <1>2, <1>3, <1>4, <1>5, <1>6, <1>7

\* What is stored, and what administrators, reviewers and evaluations do.
LEMMA CenterOthers ==
  ASSUME NEW c \in CommandConfigs, CommandInv(c),
         \/ \E i \in DOMAIN scans : D(c)!Store(i)
         \/ \E a \in c.Accounts : D(c)!Connect(a) \/ D(c)!Archive(a)
         \/ \E f \in c.Findings : D(c)!Review(f)
         \/ \E k \in c.Controls : D(c)!Evaluate(k)
  PROVE  CommandInv(c)'
<1>1. D(c)!Meanwhile /\ UNCHANGED <<scans, stamp, won, synced, clock>>
  BY DEF D!Store, D!Connect, D!Archive, D!Review, D!Evaluate, D!history
<1>2. /\ account' \in [c.Accounts -> D(c)!Account] /\ finding' \in [c.Findings -> D(c)!Finding]
      /\ control' \in [c.Controls -> D(c)!Control]
  <2> USE DEF CommandInv, CommandTypes
  <2>1. ASSUME NEW a \in c.Accounts, D(c)!Connect(a) \/ D(c)!Archive(a)
        PROVE  account' \in [c.Accounts -> D(c)!Account] /\ UNCHANGED <<finding, control>>
    <3>1. CASE D(c)!Connect(a)
      <4>1. PICK k \in D(c)!Connection : account' = [account EXCEPT ![a].connection = k]
        BY <3>1 DEF D!Connect
      <4>2. account \in [c.Accounts -> D(c)!Account]
        OBVIOUS
      <4>3. account' \in [c.Accounts -> D(c)!Account]
        BY <4>1, <4>2 DEF D!Account
      <4> QED
        BY <3>1, <4>3 DEF D!Connect
    <3>2. CASE D(c)!Archive(a)
      BY <3>2 DEF D!Archive, D!Account, D!Connection, D!Unusable
    <3> QED
      BY <2>1, <3>1, <3>2
  <2>2. ASSUME NEW f \in c.Findings, D(c)!Review(f)
        PROVE  finding' \in [c.Findings -> D(c)!Finding] /\ UNCHANGED <<account, control>>
    <3>1. finding \in [c.Findings -> D(c)!Finding] /\ finding[f] \in D(c)!Finding
      OBVIOUS
    <3> DEFINE x == [finding[f] EXCEPT !.open = ~@]
               y == [finding[f] EXCEPT !.owned = ~@]
    <3>2. x \in D(c)!Finding /\ y \in D(c)!Finding
      BY <3>1 DEF D!Finding
    <3>3. finding' = [finding EXCEPT ![f] = x] \/ finding' = [finding EXCEPT ![f] = y]
      BY <2>2, <3>1 DEF D!Review, D!Finding
    <3> HIDE DEF x, y
    <3>4. finding' \in [c.Findings -> D(c)!Finding]
      BY <3>1, <3>2, <3>3
    <3> QED
      BY <2>2, <3>4 DEF D!Review
  <2>3. ASSUME NEW k \in c.Controls, D(c)!Evaluate(k)
        PROVE  control' \in [c.Controls -> D(c)!Control] /\ UNCHANGED <<account, finding>>
    BY <2>3 DEF D!Evaluate, D!Control
  <2>4. ASSUME NEW i \in DOMAIN scans, D(c)!Store(i) PROVE UNCHANGED <<account, finding, control>>
    BY <2>4 DEF D!Store
  <2> QED
    BY <2>1, <2>2, <2>3, <2>4
<1> QED
  BY <1>1, <1>2, CenterLeftAlone

LEMMA CommandStep ==
  ASSUME NEW c \in CommandConfigs, CommandInv(c), D(c)!Next
  PROVE  CommandInv(c)'
<1>1. CASE D(c)!Tick
  <2>1. /\ clock' \in Nat /\ request.at = "idle"
        /\ UNCHANGED <<account, scans, stamp, won, synced, finding, control, inventory, request, changes>>
    BY <1>1 DEF D!Tick, D!history, CommandInv, CommandTypes
  <2>2. CommandTypes(c)' /\ CommandReads(c)'
    BY <2>1 DEF CommandInv, CommandTypes, CommandReads, D!Account, D!Finding, D!Control, D!Connection, D!Unusable
  <2>3. \A q : D(c)!Count(q)' = D(c)!Count(q)
    BY <2>1 DEF D!Count, D!Live, D!OpenOf, D!HasEvidence, D!Owned
  <2>4. CommandRows(c)'
    BY <2>1 DEF CommandInv, CommandRows, D!Scan, D!Way
  <2> QED
    BY <2>1, <2>2, <2>3, <2>4 DEF CommandInv, CommandCounts
<1>2. ASSUME NEW a \in c.Accounts, NEW by \in c.Ways, D(c)!Plan(a, by) PROVE CommandInv(c)'
  BY <1>2, CenterPlans
<1>3. ASSUME NEW i \in DOMAIN scans,
             \/ D(c)!Start(i) \/ D(c)!Refuse(i) \/ D(c)!Connected(i)
             \/ D(c)!Sweep(i) \/ D(c)!Compensate(i)
             \/ D(c)!End(i, "SUCCEEDED") \/ D(c)!End(i, "PARTIALLY_SUCCEEDED") \/ D(c)!End(i, "FAILED")
      PROVE  CommandInv(c)'
  BY <1>3, CenterScans
<1> QED
  BY <1>1, <1>2, <1>3, CenterBegins, CenterQueries, CenterReadsScans, CenterReadsAccounts,
     CenterReadsOwned, CenterOthers DEF D!Next

LEMMA CommandStutter ==
  ASSUME NEW c \in CommandConfigs, CommandInv(c), UNCHANGED vars
  PROVE  CommandInv(c)'
<1>1. UNCHANGED <<account, scans, stamp, won, synced, finding, control, inventory, clock, request, changes>>
  BY DEF vars, commandVars
<1>2. D(c)!Stored
  BY <1>1 DEF D!Stored, D!history
<1>3. \A q : D(c)!Count(q)' = D(c)!Count(q)
  BY <1>2, CountStays
<1>4. (CommandRuns(c) => CommandRuns(c)') /\ (CommandRows(c) => CommandRows(c)')
  BY <1>1, <1>2, ReadStays
<1>5. CommandTypes(c)'
  BY <1>1 DEF CommandInv, CommandTypes, D!Account, D!Finding, D!Control, D!Connection, D!Unusable
<1>6. CommandCounts(c)'
  BY <1>1, <1>3 DEF CommandInv, CommandCounts
<1>7. CommandReads(c)'
  BY <1>1, <1>4 DEF CommandInv, CommandReads
<1> QED
  BY <1>4, <1>5, <1>6, <1>7 DEF CommandInv

LEMMA CenterFreshness ==
  ASSUME NEW c \in CommandConfigs, CommandInv(c), request.at = "done"
  PROVE  D(c)!FreshIsEarned /\ D(c)!NoAlarmAfterSuccess /\ D(c)!LatestTroubleIsShown
<1>1. CommandRuns(c) /\ CommandRows(c) /\ DOMAIN request.accounts \subseteq c.Accounts
  BY DEF CommandInv, CommandReads
<1>2. request.now \in Nat /\ c.FreshMax \in Nat /\ c.AgingMax \in Nat
  BY CommandAssumption DEF CommandInv, CommandTypes, IsCenterRequest
<1>3. \A i \in DOMAIN request.scans : request.scans[i].start \in Nat /\ request.scans[i].ended \in Nat
  BY <1>1 DEF CommandRuns, D!Scan, D!Way
<1>4. D(c)!FreshIsEarned
  <2> SUFFICES ASSUME NEW a \in DOMAIN request.accounts, D(c)!Freshness(request, a) = "FRESH"
               PROVE  \E t \in synced[a] : request.now - t < c.FreshMax
    BY DEF D!FreshIsEarned
  <2>1. D(c)!HasSuccess(request, a) /\ D(c)!Age(request.now - D(c)!Ended(request, a)) = "FRESH"
    BY DEF D!Freshness
  <2>2. PICK i \in D(c)!LastSuccess(request, a) : D(c)!Ended(request, a) = request.scans[i].ended
    BY <2>1 DEF D!HasSuccess, D!Ended
  <2>3. i \in DOMAIN request.scans /\ request.scans[i].of = a /\ request.scans[i].status = "SUCCEEDED"
    BY <2>2 DEF D!LastSuccess, D!Newest, D!Runs
  <2>4. request.scans[i].ended \in synced[a]
    BY <1>1, <2>3 DEF CommandRuns
  <2>5. request.now - request.scans[i].ended < c.FreshMax
    BY <1>2, <1>3, <2>1, <2>2, <2>3 DEF D!Age
  <2> QED
    BY <2>4, <2>5
<1>5. D(c)!NoAlarmAfterSuccess
  <2> SUFFICES ASSUME NEW a \in DOMAIN request.accounts, D(c)!Freshness(request, a) \in {"FAILED", "BLOCKED"}
               PROVE  \E i \in D(c)!Runs(request, a) :
                         /\ request.scans[i].status = D(c)!Freshness(request, a)
                         /\ \A w \in request.won[a] : w < request.scans[i].start
    BY DEF D!NoAlarmAfterSuccess
  <2>1. D(c)!LatestIs(request, a, D(c)!Freshness(request, a))
    BY DEF D!Freshness, D!Age
  <2>2. PICK i \in D(c)!Newest(request, D(c)!Runs(request, a)) :
           request.scans[i].status = D(c)!Freshness(request, a)
    BY <2>1 DEF D!LatestIs
  <2>3. /\ i \in D(c)!Runs(request, a) /\ i \in DOMAIN request.scans
        /\ \A j \in D(c)!Runs(request, a) : request.scans[j].start <= request.scans[i].start
    BY <2>2 DEF D!Newest, D!Runs
  <2>4. ASSUME NEW w \in request.won[a] PROVE w < request.scans[i].start
    <3>1. PICK j \in D(c)!Runs(request, a) : Outdoes(request.scans[j], w)
      BY <1>1, <2>3 DEF CommandRuns
    <3>2. j \in DOMAIN request.scans /\ request.scans[j].start <= request.scans[i].start /\ w \in Nat
      BY <1>1, <2>3 DEF D!Runs, CommandRows
    <3>3. CASE request.scans[j].start > w
      BY <3>2, <3>3, <1>3, <2>3
    <3>4. CASE request.scans[j].start = w /\ request.scans[j].status = "SUCCEEDED"
      <4>1. i # j
        BY <2>2, <3>4
      <4>2. request.scans[i].start # request.scans[j].start
        BY <4>1, <1>1, <2>3, <3>2 DEF CommandRuns
      <4> QED
        BY <4>2, <3>2, <3>4, <1>3, <2>3
    <3> QED
      BY <3>1, <3>3, <3>4 DEF Outdoes
  <2> QED
    BY <2>2, <2>3, <2>4
<1>6. D(c)!LatestTroubleIsShown
  <2> SUFFICES ASSUME request.calm, NEW a \in DOMAIN request.accounts, NEW i \in D(c)!Recent,
                      account[a].connection \notin D(c)!Unusable,
                      scans[i].of = a, scans[i].status \in {"FAILED", "BLOCKED"},
                      \A j \in DOMAIN scans : scans[j].of = a => scans[j].start <= scans[i].start
               PROVE  \E act \in D(c)!Actions(request) :
                         act.about = a /\ act.rule \in {"SYNC_FAILED", "SYNC_BLOCKED"}
    BY DEF D!LatestTroubleIsShown
  <2>1. request.scans = [k \in D(c)!Recent |-> scans[k]] /\ D(c)!Recent \subseteq DOMAIN scans
    BY <1>1 DEF CommandRuns, D!Recent
  <2>2. /\ DOMAIN request.scans = D(c)!Recent
        /\ \A j \in DOMAIN request.scans : request.scans[j] = scans[j]
    BY <2>1
  <2>3. i \in D(c)!Newest(request, D(c)!Runs(request, a))
    BY <2>1, <2>2 DEF D!Newest, D!Runs
  <2>4. D(c)!LatestIs(request, a, "FAILED") \/ D(c)!LatestIs(request, a, "BLOCKED")
    BY <2>2, <2>3 DEF D!LatestIs
  <2>5. request.accounts[a].connection = account[a].connection
    BY DEF CommandInv, CommandReads
  <2>6. D(c)!Freshness(request, a) \in {"FAILED", "BLOCKED"}
    BY <2>4, <2>5 DEF D!Freshness
  <2>7. D(c)!Readiness(request, a) \in {"SYNC_FAILED", "SYNC_BLOCKED"}
    BY <2>5, <2>6 DEF D!Readiness, D!Unusable
  <2> DEFINE act == [rule |-> D(c)!Readiness(request, a), about |-> a]
  <2>8. act \in D(c)!Actions(request)
    BY <2>7 DEF D!Actions
  <2> QED
    BY <2>7, <2>8
<1> QED
  BY <1>4, <1>5, <1>6

LEMMA TimesMore ==
  ASSUME NEW x \in Nat, NEW y \in Nat, NEW z \in Nat, x <= y
  PROVE  x * z \in Nat /\ y * z \in Nat /\ x * z <= y * z
<1>1. PICK d \in Nat : y = x + d
  <2>1. y - x \in Nat /\ y = x + (y - x)
    OBVIOUS
  <2> QED
    BY <2>1
<1>2. y * z = x * z + d * z /\ d * z \in Nat /\ x * z \in Nat
  BY <1>1
<1> QED
  BY <1>2

LEMMA RoundInScale ==
  ASSUME NEW c, NEW x \in Nat, NEW w \in Nat \ {0}, x <= 100 * w
  PROVE  D(c)!Round(x, w) \in 0..100
BY RoundedInScale DEF D!Round

LEMMA PercentInScale ==
  ASSUME NEW c, NEW x \in Nat, NEW w \in Nat, x <= w
  PROVE  D(c)!Percent(x, w) \in 0..100
<1>1. CASE w > 0
  <2>1. 100 * x \in Nat /\ w \in Nat \ {0} /\ 100 * x <= 100 * w
    BY <1>1
  <2>2. D(c)!Round(100 * x, w) \in 0..100
    BY <2>1, RoundInScale
  <2> QED
    BY <1>1, <2>2 DEF D!Percent
<1>2. CASE ~(w > 0)
  BY <1>2 DEF D!Percent
<1> QED
  BY <1>1, <1>2

\* Part of the evidence and part of the owned risk make no more than the whole.
LEMMA GovernanceFits ==
  ASSUME NEW d \in Nat \ {0}, NEW h \in Nat \ {0}, NEW e \in Nat, e <= d,
         NEW o \in Nat, o <= h, NEW t \in {0, 1}
  PROVE  /\ 50 * e * h + 25 * o * d + (15 * t + 10) * d * h \in Nat /\ d * h \in Nat \ {0}
         /\ 50 * e * h + 25 * o * d + (15 * t + 10) * d * h <= 100 * (d * h)
<1>1. e * h \in Nat /\ d * h \in Nat /\ e * h <= d * h
  BY TimesMore
<1>2. o * d \in Nat /\ h * d \in Nat /\ o * d <= h * d
  BY TimesMore
<1>3. h * d = d * h /\ d * h # 0
  OBVIOUS
<1>4. 50 * e * h = 50 * (e * h) /\ 25 * o * d = 25 * (o * d)
  OBVIOUS
<1>5. (15 * t + 10) * d * h = IF t = 0 THEN 10 * (d * h) ELSE 25 * (d * h)
  <2>1. CASE t = 0
    <3>1. 15 * t + 10 = 10
      BY <2>1
    <3>2. 10 * d * h = 10 * (d * h)
      OBVIOUS
    <3> QED
      BY <2>1, <3>1, <3>2
  <2>2. CASE t = 1
    <3>1. 15 * t + 10 = 25
      BY <2>2
    <3>2. 25 * d * h = 25 * (d * h)
      OBVIOUS
    <3> QED
      BY <2>2, <3>1, <3>2
  <2> QED
    BY <2>1, <2>2
<1> DEFINE x == e * h
           y == o * d
           z == d * h
<1>6. x \in Nat /\ y \in Nat /\ z \in Nat \ {0} /\ x <= z /\ y <= z
  BY <1>1, <1>2, <1>3
<1>7. 50 * e * h + 25 * o * d + (15 * t + 10) * d * h
        = 50 * x + 25 * y + (IF t = 0 THEN 10 * z ELSE 25 * z)
  BY <1>4, <1>5
<1> HIDE DEF x, y, z
<1>8. /\ 50 * x + 25 * y + (IF t = 0 THEN 10 * z ELSE 25 * z) \in Nat
      /\ 50 * x + 25 * y + (IF t = 0 THEN 10 * z ELSE 25 * z) <= 100 * z
  BY <1>6
<1> QED
  BY <1>6, <1>7, <1>8 DEF z

\* What a response counts, if nobody wrote beside it.
CalmCounts(r) ==
    /\ \A q \in {"total", "resources", "connected", "critical", "high", "controls", "withEvidence",
                 "passed", "owned"} : r.n[q] \in Nat
    /\ r.n["connected"] <= r.n["total"]
    /\ r.n["owned"] <= r.n["critical"] + r.n["high"]
    /\ r.n["withEvidence"] <= r.n["controls"] /\ r.n["passed"] <= r.n["controls"]

LEMMA CalmCountsFit ==
  ASSUME NEW c \in CommandConfigs, CommandInv(c), request.at = "done", request.calm
  PROVE  CalmCounts(request)
<1> DEFINE total == D(c)!Live
           conn == {a \in D(c)!Live : account[a].connection = "VALIDATION_SUCCEEDED"}
           resources == {a \in D(c)!Live : inventory[a] # "none"}
           critical == D(c)!OpenOf({"CRITICAL"})
           high == D(c)!OpenOf({"HIGH"})
           controls == {k \in c.Controls : control[k] # "none"}
           passed == {k \in c.Controls : control[k] = "PASS"}
<1>1. (UNION D(c)!Summary) \cup (UNION D(c)!Governance) \cup {"owned"} \subseteq DOMAIN request.n
  BY DEF CommandInv, CommandCounts
<1>2. {"total", "resources", "connected", "critical", "high", "controls", "withEvidence", "passed", "owned"}
        \subseteq DOMAIN request.n
  BY <1>1 DEF D!Summary, D!Governance
<1>3. \A q \in DOMAIN request.n : request.n[q] = D(c)!Count(q)
  BY DEF CommandInv, CommandCounts
<1>4. /\ request.n["total"] = Cardinality(total) /\ request.n["connected"] = Cardinality(conn)
      /\ request.n["resources"] = Cardinality(resources)
      /\ request.n["critical"] = Cardinality(critical) /\ request.n["high"] = Cardinality(high)
      /\ request.n["controls"] = Cardinality(controls) /\ request.n["passed"] = Cardinality(passed)
      /\ request.n["withEvidence"] = Cardinality(D(c)!HasEvidence)
      /\ request.n["owned"] = Cardinality(D(c)!Owned)
  BY <1>2, <1>3, CommandCardinality DEF D!Count
<1>5. /\ total \subseteq c.Accounts /\ conn \subseteq total /\ resources \subseteq total
      /\ critical \subseteq c.Findings /\ high \subseteq c.Findings
      /\ controls \subseteq c.Controls /\ passed \subseteq controls /\ D(c)!HasEvidence \subseteq controls
      /\ D(c)!Owned \subseteq critical \cup high
  BY DEF D!Live, D!OpenOf, D!HasEvidence, D!Owned
<1> HIDE DEF total, conn, resources, critical, high, controls, passed
<1>6. IsFiniteSet(c.Accounts) /\ IsFiniteSet(c.Findings) /\ IsFiniteSet(c.Controls)
  BY CommandAssumption
<1>7. IsFiniteSet(total) /\ IsFiniteSet(critical) /\ IsFiniteSet(high) /\ IsFiniteSet(controls)
  BY <1>5, <1>6, FS_Subset
<1>8. /\ Cardinality(total) \in Nat /\ Cardinality(critical) \in Nat /\ Cardinality(high) \in Nat
      /\ Cardinality(controls) \in Nat
  BY <1>7, FS_CardinalityType
<1>9. /\ Cardinality(conn) \in Nat /\ Cardinality(conn) <= Cardinality(total)
      /\ Cardinality(resources) \in Nat
      /\ Cardinality(passed) \in Nat /\ Cardinality(passed) <= Cardinality(controls)
      /\ Cardinality(D(c)!HasEvidence) \in Nat /\ Cardinality(D(c)!HasEvidence) <= Cardinality(controls)
  BY <1>5, <1>7, FS_Subset, FS_CardinalityType
<1>10. /\ Cardinality(D(c)!Owned) \in Nat
       /\ Cardinality(D(c)!Owned) <= Cardinality(critical) + Cardinality(high)
  <2>1. /\ IsFiniteSet(critical \cup high) /\ IsFiniteSet(critical \cap high)
        /\ Cardinality(critical \cup high)
              = Cardinality(critical) + Cardinality(high) - Cardinality(critical \cap high)
    BY <1>7, FS_Union, FS_Intersection
  <2>2. Cardinality(critical \cap high) \in Nat
    BY <2>1, FS_CardinalityType
  <2>3. Cardinality(D(c)!Owned) \in Nat /\ Cardinality(D(c)!Owned) <= Cardinality(critical \cup high)
    BY <1>5, <2>1, FS_Subset, FS_CardinalityType
  <2> QED
    BY <1>8, <2>1, <2>2, <2>3
<1> QED
  BY <1>4, <1>8, <1>9, <1>10 DEF CalmCounts

\* A number no larger than 100 that is not let under 0 is between 0 and 100.
LEMMA ClampedInScale ==
  ASSUME NEW z \in Int, z <= 100
  PROVE  (IF z > 0 THEN z ELSE 0) \in 0..100
<1>1. CASE z > 0
  BY <1>1
<1>2. CASE ~(z > 0)
  BY <1>2
<1> QED
  BY <1>1, <1>2

\* Each component that is scored is between 0 and 100.
LEMMA CalmScores ==
  ASSUME NEW c \in CommandConfigs, CalmCounts(request)
  PROVE  \A k \in DOMAIN D(c)!Components(request) :
           /\ D(c)!Components(request)[k].score \in 0..100
           /\ D(c)!Components(request)[k].weight =
                 CASE k = "SECURITY" -> 30 [] k \in {"COMPLIANCE", "GOVERNANCE"} -> 20 [] OTHER -> 15
<1> USE DEF CalmCounts
<1>1. D(c)!SecurityScore(request) \in 0..100
  <2> DEFINE x == request.n["critical"]
             y == request.n["high"]
  <2>1. x \in Nat /\ y \in Nat
    OBVIOUS
  <2>2. D(c)!SecurityScore(request) = IF 100 - 5 * x - 2 * y > 0 THEN 100 - 5 * x - 2 * y ELSE 0
    BY DEF D!SecurityScore
  <2> HIDE DEF x, y
  <2> DEFINE z == 100 - 5 * x - 2 * y
  <2>3. z \in Int /\ z <= 100
    BY <2>1
  <2>4. D(c)!SecurityScore(request) = IF z > 0 THEN z ELSE 0
    BY <2>2
  <2> HIDE DEF z
  <2>5. (IF z > 0 THEN z ELSE 0) \in 0..100
    BY <2>3, ClampedInScale
  <2> QED
    BY <2>4, <2>5, Zenon
<1>2. D(c)!Percent(request.n["passed"], request.n["controls"]) \in 0..100
  BY PercentInScale
<1>3. D(c)!Percent(request.n["connected"], request.n["total"]) \in 0..100
  BY PercentInScale
<1>4. D(c)!GovernanceScore(request) \in 0..100
  <2> DEFINE risk == D(c)!HighRisk(request)
             d == IF request.n["controls"] > 0 THEN request.n["controls"] ELSE 1
             h == IF risk > 0 THEN risk ELSE 1
             data == IF request.n["total"] > 0 \/ request.n["resources"] > 0 THEN 1 ELSE 0
             owned == IF risk > 0 THEN request.n["owned"] ELSE data
             e == request.n["withEvidence"]
  <2>1. risk \in Nat /\ request.n["owned"] <= risk
    BY DEF D!HighRisk
  <2>2. D(c)!GovernanceScore(request) =
          D(c)!Round(50 * e * h + 25 * owned * d + (15 * data + 10) * d * h, d * h)
    BY DEF D!GovernanceScore
  <2> HIDE DEF risk
  <2>3. /\ d \in Nat \ {0} /\ h \in Nat \ {0} /\ e \in Nat /\ e <= d /\ data \in {0, 1}
        /\ owned \in Nat /\ owned <= h
    BY <2>1
  <2> HIDE DEF d, h, data, owned, e
  <2> DEFINE m == 50 * e * h + 25 * owned * d + (15 * data + 10) * d * h
             w == d * h
  <2>4. m \in Nat /\ w \in Nat \ {0} /\ m <= 100 * w
    BY <2>3, GovernanceFits
  <2>5. D(c)!GovernanceScore(request) = D(c)!Round(m, w)
    BY <2>2
  <2> HIDE DEF m, w
  <2> QED
    BY <2>4, <2>5, RoundInScale
<1>5. /\ DOMAIN D(c)!Components(request) \subseteq D(c)!Keys
      /\ \A k \in DOMAIN D(c)!Components(request) : D(c)!Components(request)[k] =
           CASE k = "SECURITY" -> [score |-> D(c)!SecurityScore(request), weight |-> 30]
             [] k = "COMPLIANCE" ->
                  [score |-> D(c)!Percent(request.n["passed"], request.n["controls"]), weight |-> 20]
             [] k = "FRESHNESS" ->
                  [score |-> IF D(c)!Overall(request) = "STALE" THEN 0
                             ELSE IF D(c)!Overall(request) = "AGING" THEN 50 ELSE 100, weight |-> 15]
             [] k = "READINESS" ->
                  [score |-> D(c)!Percent(request.n["connected"], request.n["total"]), weight |-> 15]
             [] k = "GOVERNANCE" -> [score |-> D(c)!GovernanceScore(request), weight |-> 20]
  BY DEF D!Components
<1> DEFINE p == D(c)!Components(request)
<1> HIDE DEF p
<1>6. ASSUME NEW k \in DOMAIN p
      PROVE  /\ p[k].score \in 0..100
             /\ p[k].weight =
                   CASE k = "SECURITY" -> 30 [] k \in {"COMPLIANCE", "GOVERNANCE"} -> 20 [] OTHER -> 15
  <2>1. k \in {"SECURITY", "COMPLIANCE", "FRESHNESS", "READINESS", "GOVERNANCE"}
    BY <1>5 DEF D!Keys, p
  <2>2. CASE k = "SECURITY"
    <3>1. p[k] = [score |-> D(c)!SecurityScore(request), weight |-> 30]
      BY <1>5, <2>2 DEF p
    <3> QED
      BY <3>1, <2>2, <1>1
  <2>3. CASE k = "COMPLIANCE"
    <3>1. p[k] = [score |-> D(c)!Percent(request.n["passed"], request.n["controls"]), weight |-> 20]
      BY <1>5, <2>3 DEF p
    <3> QED
      BY <3>1, <2>3, <1>2
  <2>4. CASE k = "FRESHNESS"
    <3>1. PICK x \in {0, 50, 100} : p[k] = [score |-> x, weight |-> 15]
      BY <1>5, <2>4 DEF p
    <3> QED
      BY <3>1, <2>4
  <2>5. CASE k = "READINESS"
    <3>1. p[k] = [score |-> D(c)!Percent(request.n["connected"], request.n["total"]), weight |-> 15]
      BY <1>5, <2>5 DEF p
    <3> QED
      BY <3>1, <2>5, <1>3
  <2>6. CASE k = "GOVERNANCE"
    <3>1. p[k] = [score |-> D(c)!GovernanceScore(request), weight |-> 20]
      BY <1>5, <2>6 DEF p
    <3> QED
      BY <3>1, <2>6, <1>4
  <2> QED
    BY <2>1, <2>2, <2>3, <2>4, <2>5, <2>6
<1> QED
  BY <1>6 DEF p

LEMMA CommandSafe ==
  ASSUME NEW c \in CommandConfigs, CommandInv(c)
  PROVE  D(c)!TypeOK /\ D(c)!CalmFits
<1>1. D(c)!TypeOK
  BY DEF D!TypeOK, CommandInv, CommandTypes, CommandRows, CommandCounts, IsCenterRequest, Places
<1>2. D(c)!CalmFits
  <2> SUFFICES ASSUME request.at = "done", request.calm
               PROVE  D(c)!Parses(request) /\ D(c)!Unowned(request) >= 0
    BY DEF D!CalmFits, D!Done
  <2>1. CalmCounts(request)
    BY CalmCountsFit
  <2>2. D(c)!Unowned(request) >= 0
    BY <2>1 DEF CalmCounts, D!Unowned, D!HighRisk
  <2> DEFINE p == D(c)!Components(request)
  <2>3. \A k \in DOMAIN p :
           /\ p[k].score \in 0..100
           /\ p[k].weight =
                 CASE k = "SECURITY" -> 30 [] k \in {"COMPLIANCE", "GOVERNANCE"} -> 20 [] OTHER -> 15
    BY <2>1, CalmScores
  <2>4. ASSUME D(c)!Scored(request) PROVE D(c)!Total(request) \in 0..100
    <3>1. DOMAIN p = {"SECURITY", "COMPLIANCE", "FRESHNESS", "READINESS", "GOVERNANCE"}
      BY <2>4 DEF D!Scored, D!Keys
    <3> DEFINE v == p["SECURITY"].score * p["SECURITY"].weight
                      + p["COMPLIANCE"].score * p["COMPLIANCE"].weight
                      + p["FRESHNESS"].score * p["FRESHNESS"].weight
                      + p["READINESS"].score * p["READINESS"].weight
                      + p["GOVERNANCE"].score * p["GOVERNANCE"].weight
    <3>2. D(c)!Total(request) = D(c)!Round(v, 100)
      BY DEF D!Total
    <3> HIDE DEF p
    <3>3. /\ p["SECURITY"].score \in 0..100 /\ p["SECURITY"].weight = 30
          /\ p["COMPLIANCE"].score \in 0..100 /\ p["COMPLIANCE"].weight = 20
          /\ p["FRESHNESS"].score \in 0..100 /\ p["FRESHNESS"].weight = 15
          /\ p["READINESS"].score \in 0..100 /\ p["READINESS"].weight = 15
          /\ p["GOVERNANCE"].score \in 0..100 /\ p["GOVERNANCE"].weight = 20
      BY <2>3, <3>1
    <3>4. v \in Nat /\ v <= 100 * 100
      <4> DEFINE v1 == p["SECURITY"].score
                 v2 == p["COMPLIANCE"].score
                 v3 == p["FRESHNESS"].score
                 v4 == p["READINESS"].score
                 v5 == p["GOVERNANCE"].score
      <4>1. v1 \in 0..100 /\ v2 \in 0..100 /\ v3 \in 0..100 /\ v4 \in 0..100 /\ v5 \in 0..100
        BY <3>3
      <4>2. v = v1 * 30 + v2 * 20 + v3 * 15 + v4 * 15 + v5 * 20
        BY <3>3
      <4> HIDE DEF v1, v2, v3, v4, v5
      <4> HIDE DEF v
      <4> QED
        BY <4>1, <4>2
    <3> HIDE DEF v
    <3> QED
      BY <3>2, <3>4, RoundInScale
  <2> QED
    BY <2>2, <2>3, <2>4 DEF D!Parses, D!InScale
<1> QED
  BY <1>1, <1>2

CommandPart == \A c \in CommandConfigs : part = <<"command", c>> => CommandInv(c)

LEMMA CommandHolds == Spec => []CommandPart
<1> USE DEF CommandPart
<1>1. Init => CommandPart
  BY PartBegins, CommandStarts
<1>2. CommandPart /\ [Next]_vars => CommandPart'
  <2> SUFFICES ASSUME CommandPart, [Next]_vars, NEW c \in CommandConfigs, part = <<"command", c>>
               PROVE  CommandInv(c)'
    BY PartStays
  <2> QED
    BY PartGoesOn, CommandStep, CommandStutter
<1> QED
  BY <1>1, <1>2, PTL DEF Spec

\* For any number of accounts, findings, controls and scans: a response nobody wrote
\* beside fits its schema, scores every part between 0 and 100 and counts no more
\* owned risk than there is (getCommandCenterData).
THEOREM ScoresAlwaysAddUp == Spec => []ScoresAddUp
<1>1. CommandPart => ScoresAddUp
  BY CommandSafe DEF CommandPart, ScoresAddUp
<1> QED
  BY <1>1, CommandHolds, PTL

\* Whatever is scanned, delivered again, swept, connected or archived while a response
\* is put together: who is called fresh was synchronized in time, who is called failed
\* or blocked has no success that started later and still stands, and the latest trouble
\* of an account whose connector is usable has its action (getCommandCenterData).
THEOREM FreshnessAlwaysTrue == Spec => []FreshnessIsTrue
<1>1. CommandPart => FreshnessIsTrue
  BY CenterFreshness DEF CommandPart, FreshnessIsTrue, D!FreshIsEarned, D!NoAlarmAfterSuccess,
     D!LatestTroubleIsShown, D!Done
<1> QED
  BY <1>1, CommandHolds, PTL
===============================================================================
