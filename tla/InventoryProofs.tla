--------------------------- MODULE InventoryProofs ---------------------------
(***************************************************************************)
(* What InventoryScan promises, for every number of scans, workers,        *)
(* regions and resources, and for every combination of faults.             *)
(***************************************************************************)
EXTENDS InventoryScan, TLAPS

ScansOK == scan \in [Scans -> ScanRow]

\* A row whose job has not been added has none, and a job that can still run
\* has an attempt left.
JobsOK ==
    /\ request \in [Scans -> {"check", "create", "add", "confirm", "compensate", "ended"}]
    /\ job \in [Scans -> Job]
    /\ \A s \in Scans :
         /\ job[s].state = "active" <=> job[s].holder # None
         /\ job[s].state # "ended" => job[s].failures < MaxJobAttempts
         /\ request[s] \in {"check", "create", "add"} => job[s].state = "none"

\* A candidate is past its cutoff as long as its time stamp is the one that
\* was read: a run that starts the row afresh changes the stamp.
SweepsOK ==
    /\ up \in [Workers -> BOOLEAN]
    /\ DOMAIN sweep = Workers /\ \A w \in Workers : IsSweep(sweep[w])
    /\ \A w \in Workers : \A s \in DOMAIN sweep[w].found :
         /\ sweep[w].found[s].stamp <= scan[s].stamp
         /\ sweep[w].found[s].stamp = scan[s].stamp => scan[s].old

\* What was never missed exists.
InventoryOK ==
    /\ cloud \subseteq Resources /\ missed \subseteq Resources
    /\ stored \in [Resources -> {"absent", "fresh", "stale"}]
    /\ Resources \ missed \subseteq cloud
    /\ PresentNeverStale

WellFormed(x) ==
    /\ x.scan = None <=> x.pc = "idle"
    /\ x.pc \in {"save", "aggregate"} => x.region # None

\* What a run has seen: all that was never missed and, as long as nobody
\* disturbs it, all that exists.
Sees(x) ==
    /\ x.pc = "save" => InRegion(x.region) \ missed \subseteq x.seen
    /\ (x.pc = "save" /\ x.calm) => /\ x.seen = cloud \cap InRegion(x.region)
                                    /\ x.unsaved \subseteq x.seen
                                    /\ \A y \in x.seen \ x.unsaved : stored[y] = "fresh"
    /\ (x.pc = "aggregate" /\ x.calm)
         => \A y \in InRegion(x.region) : stored[y] = "fresh" <=> y \in cloud

WorkOK ==
    /\ work \in [Workers -> Run]
    /\ \A w \in Workers : WellFormed(work[w]) /\ Sees(work[w])

IInv == setting \in Settings /\ ScansOK /\ JobsOK /\ SweepsOK /\ InventoryOK /\ WorkOK

LEMMA IdleIsRun == Idle \in Run /\ WellFormed(Idle) /\ Sees(Idle)
  BY DEF Idle, Run, WellFormed, Sees

LEMMA InitHolds == Init => IInv
<1> SUFFICES ASSUME Init PROVE IInv
  OBVIOUS
<1>1. setting \in Settings /\ ScansOK
  BY DEF Init, ScansOK, ScanRow
<1>2. JobsOK
  BY InventoryConstants DEF Init, JobsOK, Job
<1>3. SweepsOK
  BY DEF Init, SweepsOK, NoSweep, IsSweep
<1>4. InventoryOK
  BY DEF Init, InventoryOK, PresentNeverStale
<1>5. WorkOK
  BY IdleIsRun DEF Init, WorkOK
<1> QED
  BY <1>1, <1>2, <1>3, <1>4, <1>5 DEF IInv
-----------------------------------------------------------------------------
(* What the parts of the invariant depend on.                               *)

Statuses == {"QUEUED", "RUNNING", "SUCCEEDED", "PARTIALLY_SUCCEEDED", "FAILED", "BLOCKED"}

\* Setting a status leaves the time stamp and the age of a row.
LEMMA SettingStatus ==
    ASSUME IInv, NEW s \in Scans, NEW status \in Statuses, SetStatus(s, status),
           UNCHANGED <<up, sweep>>
    PROVE  ScansOK' /\ SweepsOK'
<1>1. /\ scan' \in [Scans -> ScanRow]
      /\ \A t \in Scans : scan'[t].old = scan[t].old /\ scan'[t].stamp = scan[t].stamp
  BY DEF IInv, ScansOK, SetStatus, ScanRow, Active, Statuses
<1>2. \A w \in Workers : \A t \in DOMAIN sweep[w].found : t \in Scans
  BY DEF IInv, SweepsOK, IsSweep
<1> QED
  BY <1>1, <1>2 DEF IInv, ScansOK, SweepsOK

LEMMA SameSweeps ==
    ASSUME IInv, UNCHANGED <<scan, up, sweep>>
    PROVE  ScansOK' /\ SweepsOK'
  BY DEF IInv, ScansOK, SweepsOK

LEMMA SameJobs ==
    ASSUME IInv, UNCHANGED <<request, job>>
    PROVE  JobsOK'
  BY DEF IInv, JobsOK

LEMMA SameInventory ==
    ASSUME IInv, UNCHANGED inventory
    PROVE  InventoryOK'
  BY DEF IInv, InventoryOK, PresentNeverStale, inventory

LEMMA SameWork ==
    ASSUME IInv, UNCHANGED <<work, inventory>>
    PROVE  InventoryOK' /\ WorkOK'
  BY SameInventory DEF IInv, WorkOK, Sees, inventory

\* One run moves and the inventory stays.
LEMMA OneRun ==
    ASSUME IInv, NEW w \in Workers, NEW x \in Run, work' = [work EXCEPT ![w] = x],
           UNCHANGED inventory, WellFormed(x), Sees(x)
    PROVE  InventoryOK' /\ WorkOK'
<1>1. work' \in [Workers -> Run] /\ \A v \in Workers : work'[v] = IF v = w THEN x ELSE work[v]
  BY DEF IInv, WorkOK
<1>2. \A v \in Workers : WellFormed(work'[v]) /\ Sees(work'[v])
  BY <1>1 DEF IInv, WorkOK
<1>3. ASSUME NEW v \in Workers PROVE Sees(work[v])'
  BY <1>2 DEF Sees, inventory
<1> QED
  BY <1>1, <1>2, <1>3, SameInventory DEF WorkOK, WellFormed

LEMMA BusyRun ==
    ASSUME IInv, NEW w \in Workers, work[w].pc # "idle"
    PROVE  /\ work[w] \in Run /\ work[w].scan \in Scans
           /\ WellFormed(work[w]) /\ Sees(work[w])
  BY DEF IInv, WorkOK, Run, WellFormed

\* A run that has returned, or whose attempt has failed.
LEMMA EndKeeps ==
    ASSUME IInv, NEW w \in Workers, work[w].pc # "idle", Return(w) \/ Throw(w),
           UNCHANGED <<request, inventory>>
    PROVE  JobsOK' /\ InventoryOK' /\ WorkOK'
<1> DEFINE s == work[w].scan
<1>1. s \in Scans
  BY BusyRun
<1>2. InventoryOK' /\ WorkOK'
  BY IdleIsRun, OneRun DEF Return, Throw
<1>3. /\ job[s] \in Job /\ request[s] = request'[s]
      /\ job[s].holder = w => job[s].state = "active" /\ job[s].failures < MaxJobAttempts
  BY <1>1, InventoryConstants DEF IInv, JobsOK
<1>4. CASE job[s].holder = w /\ Return(w)
  <2>1. job' = [job EXCEPT ![s].state = "ended", ![s].holder = None]
    BY <1>4 DEF Return
  <2> HIDE DEF s
  <2> QED
    BY <1>1, <1>2, <1>3, <1>4, <2>1 DEF IInv, JobsOK, Job
<1>5. CASE job[s].holder = w /\ Throw(w)
  <2> DEFINE state == IF AttemptsLeft(s) THEN "waiting" ELSE "ended"
  <2>1. job' = [job EXCEPT ![s].failures = job[s].failures + 1, ![s].holder = None,
                           ![s].state = state]
    BY <1>5 DEF Throw
  <2>2. /\ job[s].failures \in 0..MaxJobAttempts /\ MaxJobAttempts \in Nat
        /\ job[s].failures + 1 \in 0..MaxJobAttempts
    BY <1>3, <1>5, InventoryConstants DEF Job
  <2>3. /\ state \in {"waiting", "ended"}
        /\ state = "waiting" => job[s].failures + 1 < MaxJobAttempts
    BY DEF AttemptsLeft
  <2> HIDE DEF s, state
  <2> QED
    BY <1>1, <1>2, <1>3, <1>5, <2>1, <2>2, <2>3 DEF IInv, JobsOK, Job
<1>6. CASE job[s].holder # w
  <2>1. job' = job
    BY <1>6 DEF Return, Throw
  <2> QED
    BY <1>2, <2>1, SameJobs
<1> QED
  BY <1>4, <1>5, <1>6
-----------------------------------------------------------------------------
(* Requests and the queue.                                                  *)

LEMMA PlanKeeps ==
    ASSUME IInv, NEW s \in Scans, Plan(s), UNCHANGED setting
    PROVE  IInv'
<1>1. InventoryOK' /\ WorkOK'
  BY SameWork DEF Plan, Refuse, Check, Create, Add, Compensate, Confirm, ApiDies
<1>2. ASSUME NEW pc \in {"check", "create", "add", "confirm", "compensate", "ended"}, Goto(s, pc),
             UNCHANGED job, pc \in {"check", "create", "add"} => job[s].state = "none"
      PROVE  JobsOK'
  BY <1>2 DEF Goto, IInv, JobsOK
<1>3. setting' \in Settings
  BY DEF IInv
<1>4. CASE Refuse(s) \/ Confirm(s) \/ ApiDies(s)
  <2>1. Goto(s, "ended") /\ UNCHANGED <<scan, job, up, sweep>>
    BY <1>4 DEF Refuse, Confirm, ApiDies
  <2> QED
    BY <1>1, <1>2, <1>3, <2>1, SameSweeps DEF IInv
<1>5. ASSUME NEW scope \in setting.scopes, Check(s, scope) PROVE IInv'
  <2>1. scope \in SUBSET Regions
    BY <1>5, InventoryConstants DEF IInv
  <2>2. CASE Goto(s, "ended") /\ UNCHANGED scan
    BY <1>1, <1>2, <1>3, <1>5, <2>2, SameSweeps DEF Check, IInv
  <2>3. CASE Goto(s, "create") /\ scan' = [scan EXCEPT ![s].regions = scope]
    <3>1. request[s] = "check" /\ UNCHANGED <<job, up, sweep>>
      BY <1>5 DEF Check
    <3>2. JobsOK'
      BY <1>2, <2>3, <3>1 DEF IInv, JobsOK
    <3>3. /\ scan' \in [Scans -> ScanRow]
          /\ \A t \in Scans : scan'[t].old = scan[t].old /\ scan'[t].stamp = scan[t].stamp
      BY <2>1, <2>3 DEF IInv, ScansOK, ScanRow
    <3>4. \A w \in Workers : \A t \in DOMAIN sweep[w].found : t \in Scans
      BY DEF IInv, SweepsOK, IsSweep
    <3>5. ScansOK' /\ SweepsOK'
      BY <3>1, <3>3, <3>4 DEF IInv, ScansOK, SweepsOK
    <3> QED
      BY <1>1, <1>3, <3>2, <3>5 DEF IInv
  <2> QED
    BY <1>5, <2>2, <2>3 DEF Check
<1>6. CASE Create(s)
  <2>1. JobsOK'
    BY <1>2, <1>6 DEF Create, IInv, JobsOK
  <2> QED
    BY <1>1, <1>3, <1>6, <2>1, SettingStatus DEF Create, IInv, Statuses
<1>7. CASE Add(s)
  <2>1. ASSUME NEW pc \in {"confirm", "compensate"}, Goto(s, pc),
               job' = [job EXCEPT ![s].state = "waiting"], job[s].state = "none"
        PROVE  JobsOK'
    BY <2>1, InventoryConstants DEF Goto, IInv, JobsOK, Job
  <2>2. JobsOK'
    BY <1>2, <1>7, <2>1 DEF Add, IInv, JobsOK
  <2> QED
    BY <1>1, <1>3, <1>7, <2>2, SameSweeps DEF Add, IInv
<1>8. CASE Compensate(s)
  <2>1. JobsOK'
    BY <1>2, <1>8 DEF Compensate
  <2> QED
    BY <1>1, <1>3, <1>8, <2>1, SettingStatus, SameSweeps DEF Compensate, IInv, Statuses
<1> QED
  BY <1>4, <1>5, <1>6, <1>7, <1>8 DEF Plan

LEMMA DeliverKeeps ==
    ASSUME IInv, NEW w \in Workers, NEW s \in Scans, Deliver(w, s), UNCHANGED setting
    PROVE  IInv'
<1> DEFINE x == [Idle EXCEPT !.pc = "start", !.scan = s]
<1>1. s # None /\ w # None
  BY InventoryConstants
<1>2. x.pc = "start" /\ x.scan = s
  BY DEF Idle
<1>3. x \in Run
  BY IdleIsRun DEF Run
<1>4. WellFormed(x) /\ Sees(x)
  BY <1>1, <1>2 DEF WellFormed, Sees
<1>5. work' = [work EXCEPT ![w] = x] /\ UNCHANGED inventory
  BY DEF Deliver
<1> HIDE DEF x
<1>6. InventoryOK' /\ WorkOK'
  BY <1>3, <1>4, <1>5, OneRun
<1>7. JobsOK'
  BY <1>1 DEF Deliver, IInv, JobsOK, Job
<1> QED
  BY <1>6, <1>7, SameSweeps DEF Deliver, IInv

LEMMA StallKeeps ==
    ASSUME IInv, NEW s \in Scans, Stall(s), UNCHANGED setting
    PROVE  IInv'
<1>1. job[s] \in Job /\ job[s].state = "active" /\ MaxStalled \in Nat
  BY InventoryConstants DEF IInv, JobsOK, Stall
<1>2. /\ Stalled(job[s]) \in Job /\ Stalled(job[s]).state \in {"waiting", "ended"}
      /\ Stalled(job[s]).holder = None /\ Stalled(job[s]).failures = job[s].failures
  <2>1. CASE job[s].stalls < MaxStalled
    <3> DEFINE more == job[s].stalls + 1
    <3>1. Stalled(job[s]) = [job[s] EXCEPT !.state = "waiting", !.stalls = more, !.holder = None]
      BY <2>1 DEF Stalled
    <3>2. more \in 0..MaxStalled
      BY <1>1, <2>1 DEF Job
    <3> HIDE DEF more
    <3> QED
      BY <1>1, <3>1, <3>2 DEF Job
  <2>2. CASE ~(job[s].stalls < MaxStalled)
    <3>1. Stalled(job[s]) = [job[s] EXCEPT !.state = "ended", !.holder = None]
      BY <2>2 DEF Stalled
    <3> QED
      BY <1>1, <3>1 DEF Job
  <2> QED
    BY <2>1, <2>2
<1>3. job' = [job EXCEPT ![s] = Stalled(job[s])] /\ UNCHANGED request
  BY DEF Stall
<1>4. JobsOK'
  BY <1>1, <1>2, <1>3 DEF IInv, JobsOK
<1> QED
  BY <1>4, SameSweeps, SameWork DEF Stall, IInv

LEMMA AgeKeeps ==
    ASSUME IInv, NEW s \in Scans, Age(s), UNCHANGED setting
    PROVE  IInv'
<1>1. /\ scan' \in [Scans -> ScanRow]
      /\ \A t \in Scans : (scan[t].old => scan'[t].old) /\ scan'[t].stamp = scan[t].stamp
  BY DEF Age, IInv, ScansOK, ScanRow
<1>2. \A w \in Workers : \A t \in DOMAIN sweep[w].found : t \in Scans
  BY DEF IInv, SweepsOK, IsSweep
<1>3. ScansOK' /\ SweepsOK'
  BY <1>1, <1>2 DEF Age, IInv, ScansOK, SweepsOK
<1> QED
  BY <1>3, SameJobs, SameWork DEF Age, IInv

LEMMA ProcessKeeps ==
    ASSUME IInv, NEW w \in Workers, Crash(w) \/ Boot(w), UNCHANGED setting
    PROVE  IInv'
<1>1. SweepsOK' /\ ScansOK'
  <2>1. CASE Crash(w)
    BY <2>1 DEF Crash, IInv, SweepsOK, ScansOK, IsSweep, NoSweep, table
  <2>2. CASE Boot(w)
    BY <2>2 DEF Boot, IInv, SweepsOK, ScansOK, IsSweep, table
  <2> QED
    BY <2>1, <2>2
<1>2. InventoryOK' /\ WorkOK'
  <2>1. CASE Crash(w)
    BY <2>1, IdleIsRun, OneRun DEF Crash
  <2>2. CASE Boot(w)
    BY <2>2, SameWork DEF Boot
  <2> QED
    BY <2>1, <2>2
<1> QED
  BY <1>1, <1>2, SameJobs DEF Crash, Boot, IInv, table

LEMMA SweepKeeps ==
    ASSUME IInv, NEW w \in Workers, SweepStep(w) \/ SweepFails(w), UNCHANGED setting
    PROVE  IInv'
<1>1. JobsOK' /\ InventoryOK' /\ WorkOK'
  BY SameJobs, SameWork DEF SweepStep, SweepRead, SweepWrite, SweepEnd, SweepFails, table
<1>2. CASE SweepRead(w)
  <2>1. /\ DOMAIN Candidates(scan) \subseteq Scans
        /\ Candidates(scan) \in [DOMAIN Candidates(scan) -> Read]
        /\ \A s \in DOMAIN Candidates(scan) :
             /\ Candidates(scan)[s].stamp = scan[s].stamp /\ scan[s].old /\ scan[s].stamp \in Nat
    BY DEF Candidates, Sweepable, Read, IInv, ScansOK, ScanRow, Active
  <2>2. SweepsOK'
    BY <1>2, <2>1 DEF SweepRead, IInv, SweepsOK, IsSweep, table
  <2> QED
    BY <1>1, <1>2, <2>2 DEF SweepRead, IInv, ScansOK, table
<1>3. ASSUME NEW s \in Scans, SweepWrite(w, s) PROVE IInv'
  <2>1. /\ Swept(scan[s], sweep[w].found[s]) \in ScanRow
        /\ Swept(scan[s], sweep[w].found[s]).old = scan[s].old
        /\ Swept(scan[s], sweep[w].found[s]).stamp = scan[s].stamp
    BY DEF Swept, IInv, ScansOK, ScanRow
  <2>2. ScansOK' /\ \A t \in Scans : scan'[t].old = scan[t].old /\ scan'[t].stamp = scan[t].stamp
    BY <1>3, <2>1 DEF SweepWrite, IInv, ScansOK
  <2>3. /\ DOMAIN Without(sweep[w].found, s) \subseteq DOMAIN sweep[w].found
        /\ \A t \in DOMAIN Without(sweep[w].found, s) :
             Without(sweep[w].found, s)[t] = sweep[w].found[t]
        /\ Without(sweep[w].found, s) \in [DOMAIN Without(sweep[w].found, s) -> Read]
    BY DEF Without, IInv, SweepsOK, IsSweep
  <2>4. SweepsOK'
    BY <1>3, <2>2, <2>3 DEF SweepWrite, IInv, SweepsOK, IsSweep
  <2> QED
    BY <1>1, <2>2, <2>4 DEF IInv
<1>4. CASE SweepEnd(w) \/ SweepFails(w)
  <2>1. sweep' = [sweep EXCEPT ![w] = NoSweep] /\ UNCHANGED <<scan, up>>
    BY <1>4 DEF SweepEnd, SweepFails, table
  <2>2. SweepsOK' /\ ScansOK'
    BY <2>1 DEF IInv, SweepsOK, ScansOK, IsSweep, NoSweep
  <2> QED
    BY <1>1, <2>2 DEF IInv
<1> QED
  BY <1>2, <1>3, <1>4 DEF SweepStep
-----------------------------------------------------------------------------
(* The steps of a scan.                                                     *)

\* A run that moves on without touching a row or the inventory.
LEMMA MovingKeeps ==
    ASSUME IInv, NEW w \in Workers, NEW x \in Run, work' = [work EXCEPT ![w] = x],
           UNCHANGED <<table, up, sweep, inventory, setting>>, WellFormed(x), Sees(x)
    PROVE  IInv'
<1>1. InventoryOK' /\ WorkOK'
  BY OneRun
<1>2. ScansOK' /\ SweepsOK' /\ JobsOK'
  BY SameSweeps, SameJobs DEF table
<1> QED
  BY <1>1, <1>2 DEF IInv

\* A step to a place where nothing is known of the inventory.
LEMMA StepKeeps ==
    ASSUME IInv, NEW w \in Workers, work[w].pc # "idle", NEW pc \in {"region", "rules"},
           Step(w, pc), UNCHANGED inventory
    PROVE  InventoryOK' /\ WorkOK'
<1> DEFINE x == [work[w] EXCEPT !.pc = pc]
<1>1. work[w] \in Run /\ WellFormed(work[w])
  BY BusyRun
<1>2. x \in Run /\ x.pc = pc /\ x.scan = work[w].scan /\ work' = [work EXCEPT ![w] = x]
  BY <1>1 DEF Step, Run
<1> HIDE DEF x
<1>3. WellFormed(x) /\ Sees(x)
  BY <1>1, <1>2 DEF WellFormed, Sees
<1> QED
  BY <1>2, <1>3, OneRun

LEMMA StartKeeps ==
    ASSUME IInv, NEW w \in Workers, Start(w), UNCHANGED setting
    PROVE  IInv'
<1> DEFINE s == work[w].scan
<1>1. /\ work[w].pc = "start" /\ UNCHANGED <<request, up, sweep, inventory>>
      /\ s \in Scans /\ work[w] \in Run /\ WellFormed(work[w])
  BY BusyRun DEF Start
<1>2. ASSUME NEW status \in {"BLOCKED", "FAILED"}, SetStatus(s, status), Return(w)
      PROVE  IInv'
  BY <1>1, <1>2, SettingStatus, EndKeeps DEF IInv, Statuses
<1>3. ASSUME scan' = [scan EXCEPT ![s].status = "RUNNING", ![s].stamp = scan[s].stamp + 1,
                                  ![s].old = FALSE],
             work' = [work EXCEPT ![w].pc = "identity", ![w].todo = scan[s].regions],
             UNCHANGED job
      PROVE  IInv'
  <2> DEFINE regions == scan[s].regions
  <2> DEFINE x == [work[w] EXCEPT !.pc = "identity", !.todo = regions]
  <2>1. regions \in SUBSET Regions
    BY <1>1 DEF IInv, ScansOK, ScanRow
  <2>2. work' = [work EXCEPT ![w] = x]
    BY <1>3
  <2> HIDE DEF regions
  <2>3. x \in Run /\ x.pc = "identity" /\ x.scan = work[w].scan
    BY <1>1, <2>1 DEF Run
  <2> HIDE DEF x
  <2>4. WellFormed(x) /\ Sees(x)
    BY <1>1, <2>3 DEF WellFormed, Sees
  <2>5. InventoryOK' /\ WorkOK'
    BY <1>1, <2>2, <2>3, <2>4, OneRun
  <2> DEFINE next == scan[s].stamp + 1
  <2>6. \A t \in Scans : scan[t].stamp \in Nat
    BY DEF IInv, ScansOK, ScanRow
  <2>7. next \in Nat /\ scan[s].stamp < next
    BY <1>1, <2>6
  <2>8. scan' = [scan EXCEPT ![s].status = "RUNNING", ![s].stamp = next, ![s].old = FALSE]
    BY <1>3
  <2> HIDE DEF s, next
  <2>9. /\ scan' \in [Scans -> ScanRow]
        /\ scan'[s].stamp = next
        /\ \A t \in Scans \ {s} : scan'[t] = scan[t]
    BY <1>1, <2>7, <2>8 DEF IInv, ScansOK, ScanRow, Active
  <2>10. \A v \in Workers : \A t \in DOMAIN sweep[v].found :
            /\ t \in Scans /\ sweep[v].found[t].stamp \in Nat
            /\ sweep[v].found[t].stamp <= scan[t].stamp
    BY DEF IInv, SweepsOK, IsSweep, Read
  <2>11. \A v \in Workers : \A t \in DOMAIN sweep[v].found :
            /\ sweep[v].found[t].stamp <= scan'[t].stamp
            /\ sweep[v].found[t].stamp = scan'[t].stamp => scan'[t].old
    <3> SUFFICES ASSUME NEW v \in Workers, NEW t \in DOMAIN sweep[v].found
                 PROVE  /\ sweep[v].found[t].stamp <= scan'[t].stamp
                        /\ sweep[v].found[t].stamp = scan'[t].stamp => scan'[t].old
      OBVIOUS
    <3>1. CASE t = s
      <4>1. sweep[v].found[s].stamp \in Nat /\ scan[s].stamp \in Nat
            /\ sweep[v].found[s].stamp <= scan[s].stamp
        BY <1>1, <2>6, <2>10, <3>1
      <4>2. sweep[v].found[s].stamp < next
        BY <2>7, <4>1
      <4> QED
        BY <2>7, <2>9, <3>1, <4>1, <4>2
    <3>2. CASE t # s
      BY <2>9, <2>10, <3>2 DEF IInv, SweepsOK
    <3> QED
      BY <3>1, <3>2
  <2>12. ScansOK' /\ SweepsOK'
    BY <1>1, <2>9, <2>11 DEF IInv, ScansOK, SweepsOK
  <2> QED
    BY <1>1, <1>3, <2>5, <2>12, SameJobs DEF IInv
<1> QED
  BY <1>2, <1>3 DEF Start

LEMMA StatusKeeps ==
    ASSUME IInv, NEW w \in Workers, Identity(w) \/ Finish(w) \/ Rules(w) \/ AttemptFails(w),
           UNCHANGED setting
    PROVE  IInv'
<1>1. /\ work[w].pc # "idle" /\ work[w].scan \in Scans
      /\ UNCHANGED <<request, up, sweep, inventory>>
  BY BusyRun DEF Identity, Finish, Rules, AttemptFails
<1>2. ScansOK' /\ SweepsOK'
  <2>1. UNCHANGED scan \/ \E status \in Statuses : SetStatus(work[w].scan, status)
    BY DEF Identity, Finish, Rules, AttemptFails, FinalStatus, Statuses
  <2> QED
    BY <1>1, <2>1, SettingStatus, SameSweeps
<1>3. \/ Return(w) \/ Throw(w)
      \/ UNCHANGED job /\ (Step(w, "region") \/ Step(w, "rules"))
  BY DEF Identity, Finish, Rules, AttemptFails
<1>4. JobsOK' /\ InventoryOK' /\ WorkOK'
  BY <1>1, <1>3, EndKeeps, StepKeeps, SameJobs
<1> QED
  BY <1>2, <1>4 DEF IInv
LEMMA ObserveKeeps ==
    ASSUME IInv, NEW w \in Workers, NEW r \in Regions, Observe(w, r), UNCHANGED setting
    PROVE  IInv'
<1> DEFINE seen == cloud \cap InRegion(r)
           rest == work[w].todo \ {r}
           x == [work[w] EXCEPT !.pc = "save", !.region = r, !.todo = rest,
                                !.seen = seen, !.unsaved = seen, !.calm = TRUE]
<1>1. /\ work[w].pc = "region" /\ work' = [work EXCEPT ![w] = x]
      /\ UNCHANGED <<table, up, sweep, inventory>>
  BY DEF Observe
<1>2. work[w] \in Run /\ WellFormed(work[w])
  BY <1>1, BusyRun
<1>3. seen \in SUBSET Resources /\ rest \in SUBSET Regions
  BY <1>2 DEF IInv, InventoryOK, Run
<1>4. InRegion(r) \ missed \subseteq seen
  BY DEF IInv, InventoryOK, InRegion
<1>5. seen = cloud \cap InRegion(r)
  OBVIOUS
<1> HIDE DEF seen, rest
<1>6. /\ x \in Run /\ x.pc = "save" /\ x.region = r /\ x.seen = seen /\ x.unsaved = seen
      /\ x.scan = work[w].scan
  BY <1>2, <1>3 DEF Run
<1> HIDE DEF x
<1>7. WellFormed(x)
  BY <1>1, <1>2, <1>6, InventoryConstants DEF WellFormed
<1>8. Sees(x)
  BY <1>4, <1>5, <1>6 DEF Sees
<1> QED
  BY <1>1, <1>6, <1>7, <1>8, MovingKeeps

LEMMA AggregateKeeps ==
    ASSUME IInv, NEW w \in Workers, Aggregate(w), UNCHANGED setting
    PROVE  IInv'
<1> DEFINE pc == IF work[w].todo = {} THEN "finish" ELSE "region"
           x == [work[w] EXCEPT !.pc = pc, !.region = None, !.seen = {}, !.unsaved = {},
                                !.calm = FALSE]
<1>1. /\ work[w].pc = "aggregate" /\ work' = [work EXCEPT ![w] = x]
      /\ UNCHANGED <<table, up, sweep, inventory>>
  BY DEF Aggregate
<1>2. work[w] \in Run /\ WellFormed(work[w])
  BY <1>1, BusyRun
<1>3. pc \in {"finish", "region"}
  OBVIOUS
<1> HIDE DEF pc
<1>4. x \in Run /\ x.pc = pc /\ x.scan = work[w].scan
  BY <1>2, <1>3 DEF Run
<1> HIDE DEF x
<1>5. WellFormed(x) /\ Sees(x)
  BY <1>1, <1>2, <1>3, <1>4 DEF WellFormed, Sees
<1> QED
  BY <1>1, <1>4, <1>5, MovingKeeps

\* What a run is after region r has failed.
Failed(w, r) == [work[w] EXCEPT !.pc = "aggregate", !.region = r, !.todo = work[w].todo \ {r},
                                !.failed = work[w].failed \cup {r}, !.calm = FALSE]

LEMMA FailedRun ==
    ASSUME IInv, NEW w \in Workers, work[w].pc # "idle", NEW r \in Regions
    PROVE  /\ Failed(w, r) \in Run /\ WellFormed(Failed(w, r))
           /\ Failed(w, r).pc = "aggregate" /\ ~Failed(w, r).calm
<1> DEFINE rest == work[w].todo \ {r}
           failed == work[w].failed \cup {r}
<1>1. work[w] \in Run /\ WellFormed(work[w])
  BY BusyRun
<1>2. rest \in SUBSET Regions /\ failed \in SUBSET Regions
  BY <1>1 DEF Run
<1> DEFINE x == [work[w] EXCEPT !.pc = "aggregate", !.region = r, !.todo = rest,
                                !.failed = failed, !.calm = FALSE]
<1>3. Failed(w, r) = x
  BY DEF Failed
<1> HIDE DEF rest, failed
<1>4. x \in Run /\ x.pc = "aggregate" /\ ~x.calm /\ x.region = r /\ x.scan = work[w].scan
  BY <1>1, <1>2 DEF Run
<1> HIDE DEF x
<1>5. WellFormed(x)
  BY <1>1, <1>4, InventoryConstants DEF WellFormed
<1> QED
  BY <1>3, <1>4, <1>5

LEMMA FailRegionKeeps ==
    ASSUME IInv, NEW w \in Workers, NEW r \in Regions, FailRegion(w, r), UNCHANGED setting
    PROVE  IInv'
<1>1. /\ work[w].pc # "idle" /\ work' = [work EXCEPT ![w] = Failed(w, r)]
      /\ UNCHANGED <<table, up, sweep, inventory>>
  BY DEF FailRegion, RegionFailed, Failed
<1>2. /\ Failed(w, r) \in Run /\ WellFormed(Failed(w, r)) /\ Sees(Failed(w, r))
  BY <1>1, FailedRun DEF Sees
<1> QED
  BY <1>1, <1>2, MovingKeeps

\* Whoever works on a region that is touched by another knows no more that it
\* is stored as it is.
LEMMA OthersDisturbed ==
    ASSUME IInv, NEW w \in Workers, NEW r \in Regions, NEW v \in Workers \ {w}
    PROVE  /\ Disturb(w, r)[v] \in Run /\ WellFormed(Disturb(w, r)[v])
           /\ Disturb(w, r)[v].pc = work[v].pc /\ Disturb(w, r)[v].region = work[v].region
           /\ Disturb(w, r)[v].seen = work[v].seen /\ Disturb(w, r)[v].unsaved = work[v].unsaved
           /\ Disturb(w, r)[v].calm => work[v].calm /\ work[v].region # r
<1> DEFINE x == [work[v] EXCEPT !.calm = FALSE]
<1>1. work[v] \in Run /\ WellFormed(work[v])
  BY DEF IInv, WorkOK
<1>2. /\ x \in Run /\ x.pc = work[v].pc /\ x.region = work[v].region /\ x.scan = work[v].scan
      /\ x.seen = work[v].seen /\ x.unsaved = work[v].unsaved /\ ~x.calm
  BY <1>1 DEF Run
<1>3. Disturb(w, r)[v] = IF work[v].region = r THEN x ELSE work[v]
  BY DEF Disturb
<1> HIDE DEF x
<1>4. WellFormed(x)
  BY <1>1, <1>2 DEF WellFormed
<1> QED
  BY <1>1, <1>2, <1>3, <1>4

\* One run touches the rows of a region, and moves to x.
LEMMA TouchingKeeps ==
    ASSUME IInv, NEW w \in Workers, NEW r \in Regions, NEW x \in Run,
           work' = [Disturb(w, r) EXCEPT ![w] = x],
           UNCHANGED <<table, up, sweep, cloud, missed, setting>>,
           stored' \in [Resources -> {"absent", "fresh", "stale"}],
           \A y \in Resources : Home[y] # r => stored'[y] = stored[y],
           \A y \in Resources \ missed : stored'[y] # "stale",
           WellFormed(x),
           x.pc = "save" => InRegion(x.region) \ missed \subseteq x.seen,
           (x.pc = "save" /\ x.calm) => /\ x.seen = cloud \cap InRegion(x.region)
                                        /\ x.unsaved \subseteq x.seen
                                        /\ \A y \in x.seen \ x.unsaved : stored'[y] = "fresh",
           (x.pc = "aggregate" /\ x.calm)
             => \A y \in InRegion(x.region) : stored'[y] = "fresh" <=> y \in cloud
    PROVE  IInv'
<1>1. InventoryOK'
  BY DEF IInv, InventoryOK, PresentNeverStale
<1>2. /\ work' \in [Workers -> Run] /\ work'[w] = x
      /\ \A v \in Workers \ {w} : work'[v] = Disturb(w, r)[v]
  <2>1. Disturb(w, r) \in [Workers -> Run]
    <3>1. Disturb(w, r)[w] = work[w] /\ work[w] \in Run
      BY DEF Disturb, IInv, WorkOK
    <3> QED
      BY <3>1, OthersDisturbed DEF Disturb
  <2> QED
    BY <2>1
<1>3. ASSUME NEW v \in Workers \ {w} PROVE WellFormed(work[v])' /\ Sees(work[v])'
  <2>1. PICK y : y = Disturb(w, r)[v]
    OBVIOUS
  <2>2. work'[v] = y /\ WellFormed(y) /\ Sees(work[v])
    BY <1>2, <2>1, OthersDisturbed DEF IInv, WorkOK
  <2>3. /\ y.pc = work[v].pc /\ y.region = work[v].region
        /\ y.seen = work[v].seen /\ y.unsaved = work[v].unsaved
        /\ y.calm => work[v].calm /\ work[v].region # r
    BY <2>1, OthersDisturbed
  <2>4. \A z \in InRegion(y.region) : z \in Resources /\ Home[z] = y.region
    BY DEF InRegion
  <2>5. y.calm => \A z \in InRegion(y.region) : stored'[z] = stored[z]
    BY <2>3, <2>4
  <2>6. Sees(work[v])'
    BY <2>2, <2>3, <2>5 DEF Sees, InRegion
  <2> QED
    BY <2>2, <2>6 DEF WellFormed
<1>4. WellFormed(work[w])' /\ Sees(work[w])'
  BY <1>2 DEF WellFormed, Sees
<1>5. WorkOK'
  BY <1>2, <1>3, <1>4 DEF WorkOK
<1>6. ScansOK' /\ SweepsOK' /\ JobsOK'
  BY SameSweeps, SameJobs DEF table
<1> QED
  BY <1>1, <1>5, <1>6 DEF IInv
LEMMA SaveKeeps ==
    ASSUME IInv, NEW w \in Workers, NEW y \in Resources, Save(w, y), UNCHANGED setting
    PROVE  IInv'
<1> DEFINE rest == work[w].unsaved \ {y}
           x == [work[w] EXCEPT !.unsaved = rest]
           r == Home[y]
<1>1. /\ work[w].pc = "save" /\ y \in work[w].unsaved /\ stored' = [stored EXCEPT ![y] = "fresh"]
      /\ work' = [Disturb(w, r) EXCEPT ![w].unsaved = @ \ {y}]
      /\ UNCHANGED <<table, up, sweep, cloud, missed>>
  BY DEF Save, AfterSave
<1>2. work[w] \in Run /\ WellFormed(work[w]) /\ Sees(work[w])
  BY <1>1, BusyRun
<1>3. work' = [Disturb(w, r) EXCEPT ![w] = x]
  <2>1. Disturb(w, r)[w] = work[w]
    BY DEF Disturb
  <2> QED
    BY <1>1, <2>1
<1>4. rest \in SUBSET Resources /\ rest \cup {y} = work[w].unsaved /\ r \in Regions
  BY <1>1, <1>2, InventoryConstants DEF Run
<1> HIDE DEF rest
<1>5. /\ x \in Run /\ x.pc = "save" /\ x.region = work[w].region /\ x.scan = work[w].scan
      /\ x.seen = work[w].seen /\ x.unsaved = rest /\ x.calm = work[w].calm
  BY <1>1, <1>2, <1>4 DEF Run
<1> HIDE DEF x
<1>6. /\ stored' \in [Resources -> {"absent", "fresh", "stale"}]
      /\ \A z \in Resources : stored'[z] = IF z = y THEN "fresh" ELSE stored[z]
  BY <1>1 DEF IInv, InventoryOK
<1>7. /\ \A z \in Resources : Home[z] # r => stored'[z] = stored[z]
      /\ \A z \in Resources \ missed : stored'[z] # "stale"
  BY <1>6 DEF IInv, InventoryOK, PresentNeverStale
<1>8. WellFormed(x)
  BY <1>1, <1>2, <1>5 DEF WellFormed
<1>9. x.calm => /\ x.seen = cloud \cap InRegion(x.region)
                /\ x.unsaved \subseteq x.seen
                /\ \A z \in x.seen \ x.unsaved : stored'[z] = "fresh"
  BY <1>1, <1>2, <1>4, <1>5, <1>6 DEF Sees, InRegion
<1>10. InRegion(x.region) \ missed \subseteq x.seen
  BY <1>1, <1>2, <1>5 DEF Sees
<1>11. /\ work' = [Disturb(w, r) EXCEPT ![w] = x] /\ r \in Regions /\ x \in Run
       /\ WellFormed(x) /\ x.pc = "save"
       /\ UNCHANGED <<table, up, sweep, cloud, missed, setting>>
  BY <1>1, <1>3, <1>4, <1>5, <1>8
<1>12. \A z \in Resources : Home[z] # r => stored'[z] = stored[z]
  BY <1>7
<1> HIDE DEF r
<1> QED
  BY <1>6, <1>7, <1>9, <1>10, <1>11, <1>12, TouchingKeeps

LEMMA MarkKeeps ==
    ASSUME IInv, NEW w \in Workers, Mark(w), UNCHANGED setting
    PROVE  IInv'
<1> DEFINE r == work[w].region
           done == work[w].done \cup {r}
           x == [work[w] EXCEPT !.pc = "aggregate", !.done = done]
<1>1. /\ work[w].pc = "save" /\ work[w].unsaved = {} /\ MarkStale(w)
      /\ \/ work' = [Disturb(w, r) EXCEPT ![w] = x]
         \/ work' = [Disturb(w, r) EXCEPT ![w] = Failed(w, r)]
      /\ UNCHANGED <<table, up, sweep, cloud, missed>>
  BY DEF Mark, RegionDone, RegionFailed, Failed
<1>2. work[w] \in Run /\ WellFormed(work[w]) /\ Sees(work[w]) /\ r \in Regions
  BY <1>1, BusyRun DEF WellFormed, Run
<1>3. done \in SUBSET Regions
  BY <1>2 DEF Run
<1> HIDE DEF done
<1>4. /\ x \in Run /\ x.pc = "aggregate" /\ x.region = r /\ x.scan = work[w].scan
      /\ x.calm = work[w].calm
  BY <1>2, <1>3 DEF Run
<1> HIDE DEF x
<1>5. WellFormed(x)
  BY <1>1, <1>2, <1>4, InventoryConstants DEF WellFormed
<1>6. /\ stored' \in [Resources -> {"absent", "fresh", "stale"}]
      /\ \A z \in Resources : stored'[z] = IF /\ Home[z] = r /\ stored[z] # "absent"
                                              /\ z \notin work[w].seen
                                           THEN "stale" ELSE stored[z]
  BY <1>1 DEF MarkStale, MissingOf, InRegion, IInv, InventoryOK
<1>7. \A z \in Resources : Home[z] # r => stored'[z] = stored[z]
  BY <1>6
<1>8. \A z \in Resources \ missed : stored'[z] # "stale"
  <2>1. \A z \in Resources \ missed : Home[z] = r => z \in work[w].seen
    BY <1>1, <1>2 DEF Sees, InRegion
  <2> QED
    BY <1>6, <2>1 DEF IInv, InventoryOK, PresentNeverStale
<1>9. x.calm => \A y \in InRegion(r) : stored'[y] = "fresh" <=> y \in cloud
  BY <1>1, <1>2, <1>4, <1>6 DEF Sees, InRegion, IInv, InventoryOK
<1>10. CASE work' = [Disturb(w, r) EXCEPT ![w] = x]
  <2> HIDE DEF r
  <2> QED
    BY <1>1, <1>2, <1>4, <1>5, <1>6, <1>7, <1>8, <1>9, <1>10, TouchingKeeps
<1>11. CASE work' = [Disturb(w, r) EXCEPT ![w] = Failed(w, r)]
  <2>1. /\ Failed(w, r) \in Run /\ WellFormed(Failed(w, r))
        /\ Failed(w, r).pc = "aggregate" /\ ~Failed(w, r).calm
    BY <1>1, <1>2, FailedRun
  <2> HIDE DEF r
  <2> QED
    BY <1>1, <1>2, <1>6, <1>7, <1>8, <1>11, <2>1, TouchingKeeps
<1> QED
  BY <1>1, <1>10, <1>11

LEMMA CloudKeeps ==
    ASSUME IInv, NEW y \in Resources, CloudChanges(y), UNCHANGED setting
    PROVE  IInv'
<1>1. /\ cloud' \subseteq Resources /\ missed' \subseteq Resources /\ missed \subseteq missed'
      /\ \A z \in Resources : z # y => (z \in cloud' <=> z \in cloud)
      /\ UNCHANGED <<table, up, sweep, stored>>
      /\ Resources \ missed' \subseteq cloud'
  BY DEF CloudChanges, IInv, InventoryOK
<1>2. InventoryOK'
  BY <1>1 DEF IInv, InventoryOK, PresentNeverStale
<1>3. ASSUME NEW w \in Workers
      PROVE  /\ work'[w] \in Run /\ WellFormed(work'[w])
             /\ work'[w].pc = work[w].pc /\ work'[w].region = work[w].region
             /\ work'[w].seen = work[w].seen /\ work'[w].unsaved = work[w].unsaved
             /\ work'[w].calm => work[w].calm /\ work[w].region # Home[y]
  <2> DEFINE x == [work[w] EXCEPT !.calm = FALSE]
  <2>1. work[w] \in Run /\ WellFormed(work[w])
    BY DEF IInv, WorkOK
  <2>2. /\ x \in Run /\ x.pc = work[w].pc /\ x.region = work[w].region /\ x.scan = work[w].scan
        /\ x.seen = work[w].seen /\ x.unsaved = work[w].unsaved /\ ~x.calm
    BY <2>1 DEF Run
  <2>3. work'[w] = IF work[w].region = Home[y] THEN x ELSE work[w]
    BY DEF CloudChanges
  <2> HIDE DEF x
  <2>4. WellFormed(x)
    BY <2>1, <2>2 DEF WellFormed
  <2> QED
    BY <2>1, <2>2, <2>3, <2>4
<1>4. work' \in [Workers -> Run]
  BY <1>3 DEF CloudChanges
<1>5. ASSUME NEW w \in Workers PROVE Sees(work[w])'
  <2>1. Sees(work[w])
    BY DEF IInv, WorkOK
  <2>2. work'[w].calm => \A z \in InRegion(work[w].region) : z \in cloud' <=> z \in cloud
    BY <1>1, <1>3 DEF InRegion
  <2>3. InRegion(work[w].region) \subseteq Resources
    BY DEF InRegion
  <2>4. work[w].pc = "save" => InRegion(work[w].region) \ missed' \subseteq work[w].seen
    BY <1>1, <2>1 DEF Sees
  <2>5. work'[w].calm => cloud' \cap InRegion(work[w].region) = cloud \cap InRegion(work[w].region)
    BY <2>2
  <2>6. stored' = stored /\ InRegion(work[w].region)' = InRegion(work'[w].region)
    BY <1>1 DEF InRegion
  <2> QED
    BY <1>3, <2>1, <2>2, <2>4, <2>5, <2>6 DEF Sees
<1>6. WorkOK'
  BY <1>3, <1>4, <1>5 DEF WorkOK, WellFormed
<1>7. ScansOK' /\ SweepsOK' /\ JobsOK'
  BY <1>1, SameSweeps, SameJobs DEF table
<1> QED
  BY <1>2, <1>6, <1>7 DEF IInv

LEMMA NextKeeps == IInv /\ [Next]_vars => IInv'
<1> SUFFICES ASSUME IInv, [Next]_vars PROVE IInv'
  OBVIOUS
<1>1. CASE UNCHANGED vars
  BY <1>1, SameSweeps, SameJobs, SameWork DEF vars, table, IInv
<1>2. ASSUME Next PROVE IInv'
  <2>1. UNCHANGED setting
    BY <1>2 DEF Next
  <2>2. ASSUME NEW s \in Scans, Plan(s) \/ Stall(s) \/ Age(s) PROVE IInv'
    BY <2>1, <2>2, PlanKeeps, StallKeeps, AgeKeeps
  <2>3. ASSUME NEW w \in Workers, NEW s \in Scans, Deliver(w, s) PROVE IInv'
    BY <2>1, <2>3, DeliverKeeps
  <2>4. ASSUME NEW w \in Workers, Scan(w) PROVE IInv'
    BY <2>1, <2>4, StartKeeps, StatusKeeps, ObserveKeeps, SaveKeeps, MarkKeeps, FailRegionKeeps,
       AggregateKeeps DEF Scan
  <2>5. ASSUME NEW w \in Workers, Crash(w) \/ Boot(w) \/ SweepStep(w) \/ SweepFails(w) PROVE IInv'
    BY <2>1, <2>5, ProcessKeeps, SweepKeeps
  <2>6. ASSUME NEW y \in Resources, CloudChanges(y) PROVE IInv'
    BY <2>1, <2>6, CloudKeeps
  <2> QED
    BY <1>2, <2>2, <2>3, <2>4, <2>5, <2>6 DEF Next
<1> QED
  BY <1>1, <1>2

LEMMA InventoryInvariant == Spec => []IInv
  BY InitHolds, NextKeeps, PTL DEF Spec
-----------------------------------------------------------------------------
(* What follows.                                                            *)

\* Every row, job, run and pass is well formed.
THEOREM InventoryTypes == Spec => []TypeOK
<1>1. IInv => TypeOK
  BY DEF IInv, ScansOK, JobsOK, SweepsOK, InventoryOK, WorkOK, WellFormed, TypeOK
<1> QED
  BY <1>1, InventoryInvariant, PTL

\* markMissingResourcesStale never calls stale what has existed all along,
\* however scans fail, overlap, stall and are run again.
THEOREM PresentNeverStaleAlways == Spec => []PresentNeverStale
<1>1. IInv => PresentNeverStale
  BY DEF IInv, InventoryOK
<1> QED
  BY <1>1, InventoryInvariant, PTL

\* A region that saveResource and markMissingResourcesStale went through alone
\* and undisturbed is stored as it is.
THEOREM AccurateWhenAloneAlways == Spec => []AccurateWhenAlone
<1>1. IInv => AccurateWhenAlone
  BY DEF IInv, WorkOK, Sees, AccurateWhenAlone
<1> QED
  BY <1>1, InventoryInvariant, PTL

\* reconcileStaleInventoryScans fails a row only when it is active and past its
\* cutoff at that moment, whatever has happened since it was selected.
THEOREM SweepOnlyAbandonedAlways == Spec => SweepOnlyAbandoned
<1> DEFINE Abandoned == \A s \in Scans : (scan'[s].swept /\ ~scan[s].swept)
            => (scan[s].status \in Active /\ scan[s].old)
<1>1. IInv /\ [Next]_vars => Abandoned
  <2> SUFFICES ASSUME IInv, [Next]_vars, NEW s \in Scans, scan'[s].swept, ~scan[s].swept
               PROVE  scan[s].status \in Active /\ scan[s].old
    OBVIOUS
  <2>1. scan \in [Scans -> ScanRow] /\ scan' # scan
    BY DEF IInv, ScansOK
  <2>2. ASSUME NEW t \in Scans \cup {None}, NEW status, SetStatus(t, status) PROVE FALSE
    BY <2>1, <2>2 DEF SetStatus, ScanRow
  <2>3. ASSUME NEW t \in Scans, Plan(t) \/ Stall(t) \/ Age(t) PROVE FALSE
    <3>1. ASSUME NEW scope, Check(t, scope) PROVE FALSE
      BY <2>1, <3>1 DEF Check, ScanRow
    <3>2. scan' = scan \/ Create(t) \/ Compensate(t) \/ Age(t)
      BY <2>3, <3>1 DEF Plan, Refuse, Add, Confirm, ApiDies, Stall
    <3> QED
      BY <2>1, <2>2, <3>2 DEF Create, Compensate, Age, ScanRow
  <2>4. ASSUME NEW w \in Workers, Scan(w) PROVE FALSE
    <3>1. work[w].scan \in Scans \cup {None}
      BY DEF IInv, WorkOK, Run
    <3>2. ASSUME Start(w) PROVE FALSE
      BY <2>1, <2>2, <3>1, <3>2 DEF Start, ScanRow
    <3>3. scan' = scan \/ Identity(w) \/ Finish(w)
      BY <2>4, <3>2 DEF Scan, Mark, Aggregate, Rules, Observe, FailRegion, Save, AttemptFails,
                        table
    <3> QED
      BY <2>1, <2>2, <3>1, <3>3 DEF Identity, Finish
  <2>5. ASSUME NEW w \in Workers, NEW t \in Scans, SweepWrite(w, t)
        PROVE  scan[s].status \in Active /\ scan[s].old
    <3>1. t = s /\ scan'[s] = Swept(scan[s], sweep[w].found[s])
      BY <2>1, <2>5 DEF SweepWrite
    <3>2. StillThatRun(scan[s], sweep[w].found[s])
      BY <3>1 DEF Swept
    <3>3. /\ s \in DOMAIN sweep[w].found /\ sweep[w].found[s].status \in Active
          /\ sweep[w].found[s].stamp = scan[s].stamp => scan[s].old
      BY <2>5, <3>1 DEF SweepWrite, IInv, SweepsOK, IsSweep, Read
    <3> QED
      BY <3>2, <3>3 DEF StillThatRun
  <2>6. CASE UNCHANGED vars
    BY <2>1, <2>6 DEF vars, table
  <2>7. CASE Next
    <3>1. ASSUME NEW w \in Workers,
                 Crash(w) \/ Boot(w) \/ SweepRead(w) \/ SweepEnd(w) \/ SweepFails(w)
          PROVE  FALSE
      BY <2>1, <3>1 DEF Crash, Boot, SweepRead, SweepEnd, SweepFails, table
    <3>2. ASSUME NEW w \in Workers, NEW t \in Scans, Deliver(w, t) PROVE FALSE
      BY <2>1, <3>2 DEF Deliver
    <3>3. ASSUME NEW y \in Resources, CloudChanges(y) PROVE FALSE
      BY <2>1, <3>3 DEF CloudChanges, table
    <3> QED
      BY <2>3, <2>4, <2>5, <2>7, <3>1, <3>2, <3>3 DEF Next, SweepStep
  <2> QED
    BY <2>6, <2>7
<1> QED
  BY <1>1, InventoryInvariant, PTL DEF Spec, SweepOnlyAbandoned
=============================================================================
