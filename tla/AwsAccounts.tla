----------------------------- MODULE AwsAccounts ----------------------------
(***************************************************************************)
(* Registered AWS accounts and everything that reads one, works for a      *)
(* while and writes it, or calls AWS for it: edits, the three kinds of     *)
(* validation, inventory scans and governed changes.  Whether an account   *)
(* may be used is judged when a request reads its row; nothing that is     *)
(* under way, queued or in a worker judges it again, and every write is by *)
(* id.                                                                     *)
(*                                                                         *)
(* One runtime role serves the whole installation: it lives in the AWS     *)
(* account RuntimeNumber, which is the identity that STS returns for it.   *)
(***************************************************************************)
CONSTANTS
    Accounts,       \* rows of the registry
    Numbers,        \* AWS account numbers
    RuntimeNumber,  \* the number of the account in which the runtime role lives
    Allowed,        \* the numbers of AWS_ALLOWED_ACCOUNT_IDS
    Modes,          \* the connector modes that deployments use
    Works,          \* what can be under way at the same time
    None

ASSUME AccountConstants ==
    /\ RuntimeNumber \in Numbers /\ Allowed \subseteq Numbers
    /\ Modes \subseteq {"disabled", "readonly-validation", "sts-validation"} /\ Modes # {}
    /\ None \notin Accounts \cup Numbers \cup Works

VARIABLES
    mode,     \* AWS_CONNECTOR_MODE of the processes
    account,  \* the AwsAccount rows
    work,     \* requests, scans and changes that have read an account
    pending,  \* history: what was under way on an account when it was blocked
    proved    \* history: whose status an identity check of the present number wrote

vars == <<mode, account, work, pending, proved>>

\* The statuses that a reader tells apart; AUTH_FAILED, PERMISSION_DENIED and
\* NOT_CONFIGURED are read like VALIDATION_FAILED.
Status == {"READY_FOR_VALIDATION", "VALIDATION_SUCCEEDED", "VALIDATION_FAILED", "DISABLED"}

\* configured: the role and the External ID of the row agree with the runtime's.
Row == [number : Numbers \cup {None}, archived : BOOLEAN, status : Status,
        prod : BOOLEAN, configured : BOOLEAN]
Work == [kind : {"none", "update", "registry", "identity", "legacy", "scan", "change"},
         step : {"read", "answered", "queued", "running", "listed"},
         acct : Accounts \cup {None}, number : Numbers \cup {None}, verdict : Status]

Unregistered == [number |-> None, archived |-> FALSE, status |-> "READY_FOR_VALIDATION",
                 prod |-> FALSE, configured |-> FALSE]
Idle == [kind |-> "none", step |-> "read", acct |-> None, number |-> None,
         verdict |-> "READY_FOR_VALIDATION"]

Registered(a) == account[a].number # None
On(a) == {w \in Works : work[w].acct = a}

\* getAwsAccountOperationalBlockReason finds none.
Active(row) == ~row.archived /\ row.status # "DISABLED"

\* What the properties call a blocked account.
Blocked(a) == Registered(a) /\ (account[a].archived \/ account[a].status = "DISABLED")

\* The unique index on the organization and the account number.
Free(a, n) == \A b \in Accounts \ {a} : account[b].number # n

Init ==
    /\ mode \in Modes
    /\ account = [a \in Accounts |-> Unregistered]
    /\ work = [w \in Works |-> Idle]
    /\ pending = [a \in Accounts |-> {}]
    /\ proved = {}
-----------------------------------------------------------------------------
(* Steps of what is under way                                              *)

Is(w, kind, step) == work[w].kind = kind /\ work[w].step = step

\* Something reads the row of an account and goes on.
Begin(w, kind, a) ==
    /\ work[w] = Idle /\ Registered(a)
    /\ work' = [work EXCEPT ![w] =
                 [kind |-> kind, step |-> "read", acct |-> a, verdict |-> "READY_FOR_VALIDATION",
                  number |-> IF kind = "identity" THEN account[a].number ELSE None]]
    /\ UNCHANGED <<mode, account, proved>>

Continue(w, step) ==
    /\ work' = [work EXCEPT ![w].step = step]
    /\ UNCHANGED <<mode, account, proved>>

End(w) == work' = [work EXCEPT ![w] = Idle]

\* It writes the status of its account by id, and ends.
WriteStatus(w, status) ==
    /\ End(w)
    /\ account' = [account EXCEPT ![work[w].acct].status = status]
    /\ UNCHANGED mode

\* A status that an identity check writes speaks for the number it has read.
Proves(w) ==
    proved' = IF account[work[w].acct].number = work[w].number
              THEN proved \cup {work[w].acct} ELSE proved \ {work[w].acct}
Disproves(w) == proved' = proved \ {work[w].acct}

\* A request or a job ends without a further write: it was refused, a write
\* threw, or its process died.
Abandon(w) ==
    /\ work[w] # Idle
    /\ End(w)
    /\ UNCHANGED <<mode, account, proved>>
-----------------------------------------------------------------------------
(* The registry                                                            *)

\* The search for the number and the insert are two statements; who loses the
\* race meets the unique index and ends like who finds the number.
Register(a, n) ==
    /\ ~Registered(a) /\ Free(a, n)
    /\ \E prod, configured \in BOOLEAN :
         account' = [account EXCEPT ![a] = [Unregistered EXCEPT
                       !.number = n, !.prod = prod, !.configured = configured]]
    /\ UNCHANGED <<mode, work, proved>>

ReadForUpdate(w, a) == Active(account[a]) /\ Begin(w, "update", a)

\* Any field may be given, the connection status too; what is not given stays.
Update(w) ==
    LET a == work[w].acct IN
    /\ Is(w, "update", "read")
    /\ \E n \in Numbers, status \in Status, prod, configured \in BOOLEAN :
         /\ Free(a, n)
         /\ account' = [account EXCEPT ![a].number = n, ![a].status = status,
                                       ![a].prod = prod, ![a].configured = configured]
         /\ IF n = account[a].number /\ status = account[a].status
            THEN UNCHANGED proved ELSE Disproves(w)
    /\ End(w) /\ UNCHANGED mode

\* The row is read only to find its id.
Archive(a) ==
    /\ Registered(a)
    /\ account' = [account EXCEPT ![a].archived = TRUE, ![a].status = "DISABLED"]
    /\ proved' = proved \ {a}
    /\ UNCHANGED <<mode, work>>

\* "Validation" of the registry record: no call, and the status starts anew.
ReadForRegistry(w, a) == Active(account[a]) /\ Begin(w, "registry", a)

MarkReady(w) ==
    /\ Is(w, "registry", "read")
    /\ WriteStatus(w, "READY_FOR_VALIDATION") /\ Disproves(w)
-----------------------------------------------------------------------------
(* Validation by STS                                                       *)

ReadForIdentity(w, a) ==
    Active(account[a]) /\ ~account[a].prod /\ Begin(w, "identity", a)

\* Mutant: whatever identity the role has will do.
AnyIdentity(n) == TRUE

\* STS returns the account of the role, which is compared with the one read.
SameIdentity(n) == n = RuntimeNumber

\* validateStsOnly, mapped to the status it is recorded as.
StsVerdicts(n) ==
    IF mode # "sts-validation" THEN {"DISABLED"}
    ELSE IF SameIdentity(n) /\ n \in Allowed THEN {"VALIDATION_SUCCEEDED", "VALIDATION_FAILED"}
    ELSE {"VALIDATION_FAILED"}

\* Mutant: the legacy validation leaves an account ready where it is switched off.
LegacyLeavesReady(m) ==
    IF m = "readonly-validation" THEN {"VALIDATION_SUCCEEDED", "VALIDATION_FAILED"}
    ELSE {"READY_FOR_VALIDATION"}

\* validateReadonlyConnection: it does not know which account it is for.
LegacyVerdicts(m) ==
    IF m = "readonly-validation" THEN {"VALIDATION_SUCCEEDED", "VALIDATION_FAILED"}
    ELSE {"DISABLED"}

Answer(w, verdicts) ==
    /\ \E v \in verdicts :
         work' = [work EXCEPT ![w].step = "answered", ![w].verdict = v]
    /\ UNCHANGED <<mode, account, proved>>

AskSts(w) == Is(w, "identity", "read") /\ Answer(w, StsVerdicts(work[w].number))

RecordIdentity(w) ==
    /\ Is(w, "identity", "answered")
    /\ WriteStatus(w, work[w].verdict)
    /\ IF work[w].verdict = "VALIDATION_SUCCEEDED" THEN Proves(w) ELSE Disproves(w)

\* The legacy route does not ask whether the account may be used.
ReadForLegacy(w, a) == Begin(w, "legacy", a)
AskLegacy(w) == Is(w, "legacy", "read") /\ Answer(w, LegacyVerdicts(mode))

RecordLegacy(w) ==
    /\ Is(w, "legacy", "answered")
    /\ WriteStatus(w, work[w].verdict) /\ Disproves(w)
-----------------------------------------------------------------------------
(* Inventory scans, as far as they read and write the account.  Scans of   *)
(* one account that run twice, or are refused because one is active, are   *)
(* the subject of InventoryScan.                                           *)

Eligible(row) ==
    /\ Active(row) /\ ~row.prod /\ row.configured
    /\ row.status = "VALIDATION_SUCCEEDED" /\ mode # "disabled"

ReadForScan(w, a) == Eligible(account[a]) /\ Begin(w, "scan", a)
QueueScan(w) == Is(w, "scan", "read") /\ Continue(w, "queued")

\* The worker reads the row again, for its number only.
StartScan(w) ==
    LET n == account[work[w].acct].number IN
    /\ Is(w, "scan", "queued")
    /\ mode # "disabled" /\ (Allowed = {} \/ n \in Allowed)
    /\ work' = [work EXCEPT ![w].step = "running", ![w].number = n]
    /\ UNCHANGED <<mode, account, proved>>

\* The identity is the registered one, and some region is listed.
ListRegions(w) ==
    Is(w, "scan", "running") /\ SameIdentity(work[w].number) /\ Continue(w, "listed")

FinishScan(w) ==
    /\ Is(w, "scan", "listed")
    /\ WriteStatus(w, "VALIDATION_SUCCEEDED") /\ Proves(w)

\* The job is delivered again after it failed or its worker died.
RedeliverScan(w) ==
    work[w].kind = "scan" /\ work[w].step \in {"running", "listed"} /\ Continue(w, "queued")
-----------------------------------------------------------------------------
(* Governed changes, as far as they depend on the account.  Which          *)
(* environments they may touch depends on AWS_CHANGE_EXECUTION_MODE, which *)
(* is left out: a refusal is Abandon.                                      *)

ReadForChange(w, a) == Active(account[a]) /\ Begin(w, "change", a)
QueueChange(w) == Is(w, "change", "read") /\ Continue(w, "queued")

\* The worker's gate does not look at the life cycle again.
RunChange(w) ==
    /\ Is(w, "change", "queued")
    /\ End(w) /\ UNCHANGED <<mode, account, proved>>
-----------------------------------------------------------------------------
\* A new configuration: every process starts again, requests are lost, scans
\* that ran are delivered again.
Redeploy ==
    /\ mode' \in Modes \ {mode}
    /\ work' = [w \in Works |->
                 IF work[w].kind \in {"scan", "change"} /\ work[w].step # "read"
                 THEN [work[w] EXCEPT !.step = "queued"] ELSE Idle]
    /\ UNCHANGED <<account, proved>>

\* What is under way when an account becomes blocked, until it has ended.
Remember ==
    pending' = [a \in Accounts |->
                 IF ~Blocked(a)' THEN {}
                 ELSE IF Blocked(a) THEN pending[a] \cap On(a)' ELSE On(a)']

Reads(w, a) ==
    \/ ReadForUpdate(w, a) \/ ReadForRegistry(w, a) \/ ReadForIdentity(w, a)
    \/ ReadForLegacy(w, a) \/ ReadForScan(w, a) \/ ReadForChange(w, a)

GoesOn(w) ==
    \/ Update(w) \/ MarkReady(w) \/ AskSts(w) \/ RecordIdentity(w) \/ AskLegacy(w)
    \/ RecordLegacy(w) \/ QueueScan(w) \/ StartScan(w) \/ ListRegions(w) \/ FinishScan(w)
    \/ RedeliverScan(w) \/ QueueChange(w) \/ RunChange(w) \/ Abandon(w)

Step ==
    \/ \E a \in Accounts, n \in Numbers : Register(a, n)
    \/ \E a \in Accounts : Archive(a)
    \/ \E w \in Works, a \in Accounts : Reads(w, a)
    \/ \E w \in Works : GoesOn(w)
    \/ Redeploy

Next == Step /\ Remember

Spec == Init /\ [][Next]_vars
-----------------------------------------------------------------------------
(* Properties                                                              *)

\* Rows and what is under way are well formed, what is under way has an account,
\* and no number is registered twice (schema.prisma, model AwsAccount).
TypeOK ==
    /\ mode \in Modes
    /\ account \in [Accounts -> Row] /\ work \in [Works -> Work]
    /\ pending \in [Accounts -> SUBSET Works] /\ proved \subseteq Accounts
    /\ \A w \in Works : work[w].kind # "none" => Registered(work[w].acct)
    /\ \A a, b \in Accounts : Registered(a) /\ account[a].number = account[b].number => a = b

\* Nothing new begins on an archived or disabled account, however late the status
\* of an archived one is overwritten: what is under way on it was so when it was
\* blocked (aws-account-lifecycle.policy.ts:4).  The legacy validation is exempt:
\* its route does not ask.
BlockedIsLeftAlone ==
    \A a \in Accounts : Blocked(a) =>
        \A w \in On(a) \ pending[a] : work[w].kind = "legacy"

\* Unless the legacy validation is switched on, an account that is blocked only
\* comes back when something that was under way on it at that time writes its
\* status; with nothing under way it is blocked for good, since no route undoes it.
BlockedStaysBlocked ==
    [][\A a \in Accounts :
         Blocked(a) /\ mode # "readonly-validation" /\ pending'[a] = pending[a]
           => Blocked(a)']_vars

\* A status of VALIDATION_SUCCEEDED that a validation or a scan wrote, on an
\* account whose number has not been edited since either of them read it, says
\* that the number is the identity of the runtime role.
SucceededIsProved ==
    \A a \in proved : /\ account[a].status = "VALIDATION_SUCCEEDED"
                      /\ account[a].number = RuntimeNumber
=============================================================================
