-------------------------- MODULE AwsAccountsProofs -------------------------
(***************************************************************************)
(* Type correctness and safety of AwsAccounts, for any number of accounts  *)
(* and of things under way.                                                *)
(***************************************************************************)
EXTENDS AwsAccounts, TLAPS

\* What is under way has an account, and only a scan has left the request.
WorkFits(k) ==
    /\ k.kind # "none" <=> k.acct \in Accounts
    /\ k.kind \in {"update", "registry", "change"} => k.step \in {"read", "queued"}

\* The inductive invariant: an answer was given in the present mode, and an
\* answer or a listing that succeeded is about the identity of the runtime role.
Answered(k) ==
    /\ k.kind = "legacy" /\ k.step = "answered" /\ mode # "readonly-validation"
         => k.verdict = "DISABLED"
    /\ k.kind = "identity" /\ k.step = "answered" /\ k.verdict = "VALIDATION_SUCCEEDED"
         => k.number = RuntimeNumber
    /\ k.kind = "scan" /\ k.step = "listed" => k.number = RuntimeNumber

Sound ==
    /\ BlockedIsLeftAlone /\ SucceededIsProved
    /\ \A w \in Works : WorkFits(work[w]) /\ Answered(work[w])

IInv == TypeOK /\ Sound

LEMMA InitIInv == Init => IInv
<1> SUFFICES ASSUME Init PROVE IInv
  OBVIOUS
<1> USE AccountConstants DEF Init
<1>1. TypeOK
  BY DEF TypeOK, Unregistered, Idle, Row, Work, Status, Registered
<1>2. BlockedIsLeftAlone /\ SucceededIsProved
  BY DEF BlockedIsLeftAlone, SucceededIsProved, Blocked, Registered, Unregistered
<1>3. \A w \in Works : WorkFits(work[w]) /\ Answered(work[w])
  BY DEF WorkFits, Answered, Idle
<1>4. QED
  BY <1>1, <1>2, <1>3 DEF IInv, Sound
-----------------------------------------------------------------------------
(* What a step does, all but what it remembers                             *)

Typed ==
    /\ mode \in Modes /\ account \in [Accounts -> Row] /\ work \in [Works -> Work]
    /\ proved \subseteq Accounts
    /\ \A w \in Works : work[w].kind # "none" => Registered(work[w].acct)
    /\ \A a, b \in Accounts : Registered(a) /\ account[a].number = account[b].number => a = b

WorksFit == \A w \in Works : WorkFits(work[w]) /\ Answered(work[w])

\* What arrives at a blocked account is a legacy validation.
Arrivals ==
    \A a \in Accounts, w \in Works : Blocked(a) /\ work'[w].acct = a =>
        \/ work[w].acct = a /\ work'[w].kind = work[w].kind
        \/ work'[w].kind = "legacy"

\* An account comes back by something that writes it and ends, and a legacy
\* validation only does so where it is switched on.
Returns ==
    \A a \in Accounts : Blocked(a) /\ ~Blocked(a)' =>
        \E w \in Works : /\ work[w].acct = a /\ work'[w] = Idle
                         /\ mode = "readonly-validation" \/ work[w].kind # "legacy"

Effect == Typed' /\ WorksFit' /\ SucceededIsProved' /\ Arrivals /\ Returns

\* A read.
LEMMA ReadEffect ==
    ASSUME IInv, NEW w \in Works, NEW a \in Accounts, Reads(w, a) PROVE Effect
<1> USE AccountConstants DEF IInv, Sound, TypeOK, Registered
<1>1. PICK kind \in {"update", "registry", "identity", "legacy", "scan", "change"} :
        Begin(w, kind, a) /\ (kind = "legacy" \/ Active(account[a]))
  BY DEF Reads, ReadForUpdate, ReadForRegistry, ReadForIdentity, ReadForLegacy, ReadForScan,
         ReadForChange, Eligible
<1>2. Typed'
  <2> DEFINE begun == [kind |-> kind, step |-> "read", acct |-> a, verdict |-> "READY_FOR_VALIDATION",
                       number |-> IF kind = "identity" THEN account[a].number ELSE None]
  <2>1. begun \in Work
    BY DEF Work, Row, Status
  <2>2. work' = [work EXCEPT ![w] = begun]
    BY <1>1 DEF Begin
  <2>3. mode' \in Modes /\ account' \in [Accounts -> Row] /\ work' \in [Works -> Work] /\ proved' \subseteq Accounts
    BY <1>1, <2>1, <2>2 DEF Begin
  <2>4. \A v \in Works : work'[v].kind # "none" => account'[work'[v].acct].number # None
    BY <1>1, <2>2 DEF Begin
  <2>5. QED
    BY <1>1, <2>3, <2>4 DEF Begin, Typed
<1>3. WorksFit'
  BY <1>1 DEF Begin, Idle, WorksFit, WorkFits, Answered, Work
<1>4. SucceededIsProved' /\ Returns
  BY <1>1 DEF Begin, SucceededIsProved, Returns, Blocked
<1>5. Arrivals
  BY <1>1 DEF Begin, Idle, Arrivals, Active, Blocked, Work
<1>6. QED
  BY <1>2, <1>3, <1>4, <1>5 DEF Effect

\* A step of what is under way that writes no account: it goes on, is queued,
\* is answered or ends.
LEMMA QuietEffect ==
    ASSUME IInv, UNCHANGED <<mode, account, proved>>,
           \A w \in Works :
             \/ work'[w] = Idle \/ work'[w] = work[w]
             \/ /\ work'[w] \in Work /\ work[w].kind # "none"
                /\ work'[w].kind = work[w].kind /\ work'[w].acct = work[w].acct
                /\ WorkFits(work'[w]) /\ Answered(work'[w]),
           work' \in [Works -> Work]
    PROVE  Effect
<1> USE AccountConstants DEF IInv, Sound, TypeOK, Registered
<1>1. Typed'
  BY DEF Idle, Typed
<1>2. WorksFit'
  BY DEF Idle, WorksFit, WorkFits, Answered
<1>3. SucceededIsProved' /\ Returns
  BY DEF SucceededIsProved, Returns, Blocked
<1>4. Arrivals
  BY DEF Idle, Arrivals
<1>5. QED
  BY <1>1, <1>2, <1>3, <1>4 DEF Effect

\* An end after a write of its account.
LEMMA WriteEffect ==
    ASSUME IInv, NEW w \in Works, NEW a \in Accounts, work[w].acct = a, End(w), UNCHANGED mode,
           NEW row \in Row, row.number # None, row.archived = account[a].archived,
           Free(a, row.number), account' = [account EXCEPT ![a] = row],
           proved' \in SUBSET Accounts, proved' \ {a} \subseteq proved,
           a \in proved' => row.number = RuntimeNumber /\ row.status = "VALIDATION_SUCCEEDED",
           mode = "readonly-validation" \/ work[w].kind # "legacy" \/ row.status = "DISABLED"
    PROVE  Effect
<1> USE AccountConstants DEF IInv, Sound, TypeOK, Registered
<1>1. Typed'
  <2>1. mode' \in Modes /\ account' \in [Accounts -> Row] /\ work' \in [Works -> Work]
    BY DEF End, Idle, Work, Status
  <2>2. \A v \in Works : work'[v].kind # "none" => account'[work'[v].acct].number # None
    BY DEF End, Idle, WorkFits
  <2>3. \A b, c \in Accounts :
          account'[b].number # None /\ account'[b].number = account'[c].number => b = c
    BY DEF Free
  <2>4. QED
    BY <2>1, <2>2, <2>3 DEF Typed
<1>2. WorksFit'
  BY DEF End, Idle, WorksFit, WorkFits, Answered
<1>3. SucceededIsProved'
  BY DEF SucceededIsProved
<1>4. Arrivals
  BY DEF End, Idle, Arrivals
<1>5. Returns
  BY DEF End, Returns, Blocked
<1>6. QED
  BY <1>1, <1>2, <1>3, <1>4, <1>5 DEF Effect

\* A status that is written, and what it proves.
LEMMA StatusEffect ==
    ASSUME IInv, NEW w \in Works, work[w].kind # "none", NEW status \in Status,
           WriteStatus(w, status),
           Disproves(w) \/ (status = "VALIDATION_SUCCEEDED" /\ work[w].number = RuntimeNumber /\ Proves(w)),
           mode = "readonly-validation" \/ work[w].kind # "legacy" \/ status = "DISABLED"
    PROVE  Effect
<1> DEFINE a == work[w].acct
           row == [account[a] EXCEPT !.status = status]
<1>1. a \in Accounts /\ Registered(a) /\ account[a] \in Row
  BY DEF IInv, Sound, TypeOK, WorkFits
<1>2. row \in Row /\ row.number = account[a].number /\ row.archived = account[a].archived
      /\ row.status = status
  BY <1>1 DEF Row
<1>3. account' = [account EXCEPT ![a] = row] /\ End(w) /\ UNCHANGED mode
  BY DEF WriteStatus
<1>4. Free(a, row.number)
  BY <1>1, <1>2 DEF Free, IInv, TypeOK, Registered
<1>5. proved' \in SUBSET Accounts /\ proved' \ {a} \subseteq proved
      /\ (a \in proved' => row.number = RuntimeNumber /\ row.status = "VALIDATION_SUCCEEDED")
  BY <1>1, <1>2 DEF Proves, Disproves, IInv, TypeOK
<1>6. QED
  BY <1>1, <1>2, <1>3, <1>4, <1>5, WriteEffect DEF Registered

LEMMA UpdateEffect ==
    ASSUME IInv, NEW w \in Works, Update(w) PROVE Effect
<1> DEFINE a == work[w].acct
<1>1. a \in Accounts /\ account[a] \in Row
  BY DEF IInv, Sound, TypeOK, WorkFits, Update, Is
<1>2. PICK n \in Numbers, status \in Status, prod \in BOOLEAN, configured \in BOOLEAN :
        /\ Free(a, n)
        /\ account' = [account EXCEPT ![a].number = n, ![a].status = status,
                                      ![a].prod = prod, ![a].configured = configured]
        /\ IF n = account[a].number /\ status = account[a].status
           THEN UNCHANGED proved ELSE Disproves(w)
  BY DEF Update
<1> DEFINE row == [account[a] EXCEPT !.number = n, !.status = status,
                                     !.prod = prod, !.configured = configured]
<1>3. row \in Row /\ row.number = n /\ row.archived = account[a].archived /\ row.status = status
  BY <1>1 DEF Row
<1>4. account' = [account EXCEPT ![a] = row]
  BY <1>1, <1>2 DEF IInv, TypeOK
<1>5. End(w) /\ UNCHANGED mode /\ work[w].kind # "legacy" /\ n # None
  BY AccountConstants DEF Update, Is
<1>6. proved' \in SUBSET Accounts /\ proved' \ {a} \subseteq proved
      /\ (a \in proved' => row.number = RuntimeNumber /\ row.status = "VALIDATION_SUCCEEDED")
  BY <1>1, <1>2, <1>3 DEF Disproves, IInv, Sound, SucceededIsProved, TypeOK
<1>7. row.number # None /\ Free(a, row.number)
  BY <1>2, <1>3, <1>5
<1> HIDE DEF row
<1>8. QED
  BY <1>1, <1>3, <1>4, <1>5, <1>6, <1>7, WriteEffect

\* Every step of what is under way.
LEMMA GoesOnEffect ==
    ASSUME IInv, NEW w \in Works, GoesOn(w) PROVE Effect
<1> DEFINE k == work[w]
<1>1. k \in Work /\ WorkFits(k) /\ Answered(k) /\ work \in [Works -> Work]
  BY DEF IInv, Sound, TypeOK
<1>2. ASSUME Update(w) PROVE Effect
  BY <1>2, UpdateEffect
<1>3. ASSUME MarkReady(w) PROVE Effect
  BY <1>3, StatusEffect DEF MarkReady, Is, Status
<1>4. ASSUME RecordIdentity(w) PROVE Effect
  BY <1>1, <1>4, StatusEffect DEF RecordIdentity, Is, Work, Answered
<1>5. ASSUME RecordLegacy(w) PROVE Effect
  BY <1>1, <1>5, StatusEffect DEF RecordLegacy, Is, Work, Answered
<1>6. ASSUME FinishScan(w) PROVE Effect
  BY <1>1, <1>6, StatusEffect DEF FinishScan, Is, Status, Answered
<1>7. ASSUME AskSts(w) \/ AskLegacy(w) PROVE Effect
  <2>1. PICK v \in Status : work' = [work EXCEPT ![w].step = "answered", ![w].verdict = v]
          /\ (k.kind = "legacy" /\ mode # "readonly-validation" => v = "DISABLED")
          /\ (k.kind = "identity" /\ v = "VALIDATION_SUCCEEDED" => k.number = RuntimeNumber)
    BY <1>7 DEF AskSts, AskLegacy, Is, Answer, StsVerdicts, LegacyVerdicts, SameIdentity, Status
  <2>2. work'[w] \in Work /\ work'[w].kind = k.kind /\ work'[w].acct = k.acct
        /\ WorkFits(work'[w]) /\ Answered(work'[w])
    BY <1>1, <1>7, <2>1 DEF AskSts, AskLegacy, Is, Work, WorkFits, Answered
  <2>3. work' \in [Works -> Work] /\ \A x \in Works \ {w} : work'[x] = work[x]
    BY <1>1, <2>1, <2>2
  <2>4. UNCHANGED <<mode, account, proved>> /\ k.kind # "none"
    BY <1>7 DEF AskSts, AskLegacy, Is, Answer
  <2>5. QED
    BY <2>2, <2>3, <2>4, QuietEffect
<1>8. ASSUME QueueScan(w) \/ StartScan(w) \/ ListRegions(w) \/ RedeliverScan(w) \/ QueueChange(w)
      PROVE  Effect
  <2>1. PICK step \in {"queued", "running", "listed"}, n \in Numbers \cup {None} :
          /\ work' = [work EXCEPT ![w] = [k EXCEPT !.step = step, !.number = n]]
          /\ k.kind = "scan" \/ (k.kind = "change" /\ step = "queued")
          /\ k.kind = "scan" /\ step = "listed" => n = RuntimeNumber
    <3>1. CASE StartScan(w)
      <4> DEFINE n == account[k.acct].number
      <4>1. n \in Numbers \cup {None} /\ k.kind = "scan"
        BY <1>1, <3>1 DEF StartScan, Is, WorkFits, IInv, TypeOK, Row
      <4>2. work' = [work EXCEPT ![w] = [k EXCEPT !.step = "running", !.number = n]]
        BY <1>1, <3>1 DEF StartScan
      <4>3. QED
        BY <4>1, <4>2
    <3>2. CASE QueueScan(w) \/ ListRegions(w) \/ RedeliverScan(w) \/ QueueChange(w)
      <4>1. PICK step \in {"queued", "running", "listed"} :
              /\ work' = [work EXCEPT ![w].step = step]
              /\ k.kind = "scan" \/ (k.kind = "change" /\ step = "queued")
              /\ k.kind = "scan" /\ step = "listed" => k.number = RuntimeNumber
        BY <3>2 DEF QueueScan, ListRegions, RedeliverScan, QueueChange, Continue, Is, SameIdentity
      <4>2. k.number \in Numbers \cup {None} /\ [k EXCEPT !.step = step, !.number = k.number] = [k EXCEPT !.step = step]
        BY <1>1 DEF Work
      <4>3. work' = [work EXCEPT ![w] = [k EXCEPT !.step = step, !.number = k.number]]
        BY <1>1, <4>1, <4>2
      <4>4. QED
        BY <4>1, <4>2, <4>3
    <3>3. QED
      BY <1>8, <3>1, <3>2
  <2>2. work'[w] \in Work /\ work'[w].kind = k.kind /\ work'[w].acct = k.acct
        /\ WorkFits(work'[w]) /\ Answered(work'[w])
    BY <1>1, <2>1 DEF Work, WorkFits, Answered
  <2>3. work' \in [Works -> Work] /\ \A x \in Works \ {w} : work'[x] = work[x]
    BY <1>1, <2>1, <2>2
  <2>4. UNCHANGED <<mode, account, proved>> /\ k.kind # "none"
    BY <1>8, <2>1 DEF QueueScan, StartScan, ListRegions, RedeliverScan, QueueChange, Continue
  <2>5. QED
    BY <2>2, <2>3, <2>4, QuietEffect
<1>9. ASSUME RunChange(w) \/ Abandon(w) PROVE Effect
  <2>1. work' = [work EXCEPT ![w] = Idle] /\ UNCHANGED <<mode, account, proved>>
    BY <1>9 DEF RunChange, Abandon, End
  <2>2. Idle \in Work
    BY DEF Idle, Work, Status
  <2>3. work' \in [Works -> Work] /\ \A x \in Works : work'[x] = Idle \/ work'[x] = work[x]
    BY <1>1, <2>1, <2>2
  <2>4. QED
    BY <2>1, <2>3, QuietEffect
<1>10. QED
  BY <1>2, <1>3, <1>4, <1>5, <1>6, <1>7, <1>8, <1>9 DEF GoesOn

\* A number is entered into the registry.
LEMMA RegisterEffect ==
    ASSUME IInv, NEW a \in Accounts, NEW n \in Numbers, Register(a, n) PROVE Effect
<1> USE AccountConstants DEF IInv, Sound, TypeOK, Registered
<1>1. PICK row \in Row : /\ row.number = n /\ account' = [account EXCEPT ![a] = row]
                         /\ ~row.archived /\ row.status = "READY_FOR_VALIDATION"
  <2>1. PICK prod \in BOOLEAN, configured \in BOOLEAN : account' = [account EXCEPT ![a] =
          [Unregistered EXCEPT !.number = n, !.prod = prod, !.configured = configured]]
    BY DEF Register
  <2> DEFINE row == [Unregistered EXCEPT !.number = n, !.prod = prod, !.configured = configured]
  <2>2. row \in Row /\ row.number = n /\ ~row.archived /\ row.status = "READY_FOR_VALIDATION"
    BY DEF Unregistered, Row, Status
  <2>3. QED
    BY <2>1, <2>2
<1>2. Typed'
  <2>1. account' \in [Accounts -> Row] /\ \A b \in Accounts \ {a} : account'[b] = account[b]
    BY <1>1
  <2>2. \A b, c \in Accounts :
          account'[b].number # None /\ account'[b].number = account'[c].number => b = c
    BY <1>1 DEF Register, Free
  <2>3. \A w \in Works : work'[w].kind # "none" => account'[work'[w].acct].number # None
    BY <1>1 DEF Register, WorkFits
  <2>4. QED
    BY <2>1, <2>2, <2>3 DEF Typed, Register
<1>3. WorksFit'
  BY DEF Register, WorksFit, WorkFits, Answered
<1>4. a \notin proved
  BY DEF Register, SucceededIsProved
<1>5. SucceededIsProved'
  BY <1>1, <1>4 DEF Register, SucceededIsProved
<1>6. Arrivals /\ Returns
  BY <1>1 DEF Register, Arrivals, Returns, Blocked
<1>7. QED
  BY <1>2, <1>3, <1>5, <1>6 DEF Effect

\* An account is archived.
LEMMA ArchiveEffect ==
    ASSUME IInv, NEW a \in Accounts, Archive(a) PROVE Effect
<1> USE AccountConstants DEF IInv, Sound, TypeOK, Registered
<1> DEFINE row == [account[a] EXCEPT !.archived = TRUE, !.status = "DISABLED"]
<1>0. account[a] \in Row
  OBVIOUS
<1>1. row \in Row /\ row.number = account[a].number /\ row.archived /\ row.status = "DISABLED"
  BY ONLY <1>0 DEF Row, Status
<1>2. account' = [account EXCEPT ![a] = row]
  BY DEF Archive
<1> HIDE DEF row
<1>3. Typed'
  <2>1. account' \in [Accounts -> Row] /\ \A b \in Accounts : account'[b].number = account[b].number
    BY <1>1, <1>2
  <2>2. QED
    BY <1>2, <2>1 DEF Archive, Typed, WorkFits
<1>4. WorksFit'
  BY DEF Archive, WorksFit, WorkFits, Answered
<1>5. SucceededIsProved'
  BY <1>1, <1>2 DEF Archive, SucceededIsProved
<1>6. Arrivals /\ Returns
  BY <1>1, <1>2 DEF Archive, Arrivals, Returns, Blocked
<1>7. QED
  BY <1>3, <1>4, <1>5, <1>6 DEF Effect

\* Every process starts again.
LEMMA RedeployEffect == ASSUME IInv, Redeploy PROVE Effect
<1>1. /\ account \in [Accounts -> Row] /\ proved \subseteq Accounts
      /\ \A a, b \in Accounts : account[a].number # None /\ account[a].number = account[b].number => a = b
  BY DEF IInv, TypeOK, Registered
<1>2. ASSUME NEW w \in Works
      PROVE  /\ work[w] \in Work /\ WorkFits(work[w])
             /\ work[w].kind # "none" => account[work[w].acct].number # None
  BY DEF IInv, Sound, TypeOK, Registered
<1> DEFINE moved(w) == [work[w] EXCEPT !.step = "queued"]
<1>3. ASSUME NEW w \in Works
      PROVE  \/ work'[w] = Idle
             \/ work'[w] = moved(w) /\ work[w].kind \in {"scan", "change"}
  BY DEF Redeploy
<1>4. ASSUME NEW w \in Works
      PROVE  /\ moved(w) \in Work /\ moved(w).step = "queued"
             /\ moved(w).kind = work[w].kind /\ moved(w).acct = work[w].acct
  BY <1>2 DEF Work
<1>5. Idle \in Work /\ Idle.kind = "none" /\ Idle.acct \notin Accounts /\ Idle.step = "read"
  BY AccountConstants DEF Idle, Work, Status
<1> HIDE DEF moved
<1>6. \A w \in Works : work'[w] \in Work /\ WorkFits(work'[w]) /\ Answered(work[w])'
  BY <1>2, <1>3, <1>4, <1>5 DEF WorkFits, Answered
<1>7. work' \in [Works -> Work]
  BY <1>6 DEF Redeploy
<1>8. \A w \in Works : work'[w].kind # "none" => account[work'[w].acct].number # None
  BY <1>2, <1>3, <1>4, <1>5
<1>9. Typed'
  BY <1>1, <1>7, <1>8 DEF Redeploy, Typed, Registered
<1>10. WorksFit'
  BY <1>6 DEF WorksFit, WorkFits, Answered
<1>11. SucceededIsProved' /\ Returns
  BY DEF Redeploy, SucceededIsProved, Returns, Blocked, Registered, IInv, Sound
<1>12. Arrivals
  BY <1>3, <1>4, <1>5 DEF Arrivals
<1>13. QED
  BY <1>9, <1>10, <1>11, <1>12 DEF Effect

LEMMA StepEffect == IInv /\ Step => Effect
<1> SUFFICES ASSUME IInv, Step PROVE Effect
  OBVIOUS
<1>1. QED
  BY ReadEffect, GoesOnEffect, RegisterEffect, ArchiveEffect, RedeployEffect DEF Step
-----------------------------------------------------------------------------
(* The invariant, with what is remembered                                  *)

LEMMA NextIInv == IInv /\ Next => IInv'
<1> SUFFICES ASSUME IInv, Next PROVE IInv'
  OBVIOUS
<1>1. Effect
  BY StepEffect DEF Next
<1>2. pending' \in [Accounts -> SUBSET Works]
  BY DEF Next, Remember, On, IInv, TypeOK
<1>3. TypeOK'
  BY <1>1, <1>2 DEF Effect, Typed, TypeOK
<1>4. BlockedIsLeftAlone'
  <2>1. SUFFICES ASSUME NEW a \in Accounts, Blocked(a)', NEW w \in Works,
                        work'[w].acct = a, w \notin pending'[a]
                 PROVE  work'[w].kind = "legacy"
    BY DEF BlockedIsLeftAlone, On
  <2>2. Blocked(a) /\ w \notin pending[a]
    BY <2>1 DEF Next, Remember, On
  <2>3. work[w].acct = a => work[w].kind = "legacy"
    BY <2>2 DEF IInv, Sound, BlockedIsLeftAlone, On
  <2>4. QED
    BY <1>1, <2>1, <2>2, <2>3 DEF Effect, Arrivals
<1>5. QED
  BY <1>1, <1>3, <1>4 DEF Effect, WorksFit, IInv, Sound

LEMMA StutterIInv == IInv /\ UNCHANGED vars => IInv'
BY DEF vars, IInv, Sound, TypeOK, BlockedIsLeftAlone, SucceededIsProved, Blocked, Registered,
       On, WorkFits, Answered, Row, Work

LEMMA SpecIInv == Spec => []IInv
<1>1. IInv /\ [Next]_vars => IInv'
  BY NextIInv, StutterIInv
<1>2. QED
  BY InitIInv, <1>1, PTL DEF Spec
-----------------------------------------------------------------------------
(* Theorems                                                                *)

\* Rows and what is under way are well formed, and no number is registered twice
\* (schema.prisma, model AwsAccount; aws-account.routes.ts:88).
THEOREM AccountTypes == Spec => []TypeOK
BY SpecIInv, PTL DEF IInv

\* On a blocked account only what had read it before goes on, and legacy
\* validations (aws-account-lifecycle.policy.ts:4).
THEOREM NothingBeginsOnBlocked == Spec => []BlockedIsLeftAlone
BY SpecIInv, PTL DEF IInv, Sound

\* A status that a check of the present number wrote speaks for the number
\* (aws-connector.service.ts, validateStsOnly; aws-ec2-scanner.ts:186).
THEOREM SuccessIsProved == Spec => []SucceededIsProved
BY SpecIInv, PTL DEF IInv, Sound

\* Whoever brings a blocked account back was under way when it was blocked, and
\* is not any more (aws-connector.routes.ts:161, aws-ec2-scanner.ts:301).
THEOREM BlockedComesBackOnce == Spec => BlockedStaysBlocked
<1>1. ASSUME IInv, Next, NEW a \in Accounts, Blocked(a), mode # "readonly-validation", ~Blocked(a)'
      PROVE  pending'[a] # pending[a]
  <2>1. PICK w \in Works : /\ work[w].acct = a /\ work'[w] = Idle /\ work[w].kind # "legacy"
    BY <1>1, StepEffect DEF Next, Effect, Returns
  <2>2. w \in pending[a]
    BY <1>1, <2>1 DEF IInv, Sound, BlockedIsLeftAlone, On
  <2>3. pending'[a] = {}
    BY <1>1 DEF Next, Remember
  <2>4. QED
    BY <2>2, <2>3
<1>2. ASSUME IInv, [Next]_vars
      PROVE  [\A a \in Accounts :
                Blocked(a) /\ mode # "readonly-validation" /\ pending'[a] = pending[a]
                  => Blocked(a)']_vars
  BY <1>1, <1>2 DEF vars
<1>3. QED
  BY SpecIInv, <1>2, PTL DEF Spec, BlockedStaysBlocked
=============================================================================
