--------------------------- MODULE MonitoringProofs --------------------------
(***************************************************************************)
(* What SecurityMonitoring promises, for every number of runs, workers and *)
(* conditions, and for every combination of faults.                        *)
(***************************************************************************)
EXTENDS SecurityMonitoring, TLAPS

RunsOK == run \in [Runs -> Row]

\* A row that is not yet in the queue has no job.
JobsOK ==
    /\ request \in [Runs -> {"check", "create", "add", "compensate", "ended"}]
    /\ job \in [Runs -> Job]
    /\ \A r \in Runs : /\ job[r].state = "active" <=> job[r].holder # None
                       /\ request[r] \in {"check", "create", "add"} => job[r] = NoJob

\* What a pass has found is past its cutoff for good: a row is reused only
\* when no pass refers to it.
SweepsOK ==
    /\ up \in [Workers -> BOOLEAN]
    /\ DOMAIN sweep = Workers /\ \A w \in Workers : IsSweep(sweep[w])
    /\ \A w \in Workers : \A r \in DOMAIN sweep[w].found : run[r].old

BoardOK ==
    /\ facts \in Facts /\ snapshot \in Snapshot \cup {None}
    /\ alert \in [Keys -> {"NONE", "RESOLVED"} \cup Standing]

WellFormed(x) ==
    /\ x.run = None <=> x.pc = "idle"
    /\ x.pc = "write" => x.key \in x.keys
    /\ x.pc \in {"alerts", "write"} => x.todo \subseteq x.keys

Kept(ks) == \A k \in ks : alert[k] \in Standing

\* What an evaluation knows as long as nobody has disturbed it.
Undisturbed(x) ==
    x.calm =>
        /\ x.pc \in {"compare", "alerts", "write", "resolve", "complete"} => x.facts = facts
        /\ x.pc \in {"alerts", "write", "resolve", "complete"}
            => \A k \in Conditions : k \in x.keys <=> k \in facts.holds
        /\ x.pc = "alerts" => Kept(x.keys \ x.todo)
        /\ x.pc = "write" => x.was = alert[x.key] /\ Kept(x.keys \ (x.todo \cup {x.key}))
        /\ x.pc = "resolve" => /\ Kept(x.keys) /\ x.todo \cap x.keys = {}
                               /\ \A k \in Keys : alert[k] \in Standing => k \in x.keys \cup x.todo
        /\ x.pc = "complete" => \A k \in Keys : alert[k] \in Standing <=> k \in x.keys

EvalsOK ==
    /\ eval \in [Workers -> Evaluation]
    /\ \A w \in Workers : WellFormed(eval[w]) /\ Undisturbed(eval[w])

IInv == setting \in Settings /\ RunsOK /\ JobsOK /\ SweepsOK /\ BoardOK /\ EvalsOK

LEMMA IdleIsEvaluation == Idle \in Evaluation /\ WellFormed(Idle) /\ Undisturbed(Idle)
  BY MonitoringConstants DEF Idle, Evaluation, WellFormed, Undisturbed, NoFacts, Facts

LEMMA InitHolds == Init => IInv
<1> SUFFICES ASSUME Init PROVE IInv
  OBVIOUS
<1>1. setting \in Settings /\ RunsOK
  BY DEF Init, RunsOK, NoRow, Row
<1>2. JobsOK
  BY MonitoringConstants DEF Init, JobsOK, NoJob, Job
<1>3. SweepsOK
  BY DEF Init, SweepsOK, NoSweep, IsSweep
<1>4. BoardOK
  BY DEF Init, BoardOK
<1>5. EvalsOK
  BY IdleIsEvaluation DEF Init, EvalsOK
<1> QED
  BY <1>1, <1>2, <1>3, <1>4, <1>5 DEF IInv
-----------------------------------------------------------------------------
(* What the parts of the invariant depend on.                               *)

\* Setting a status leaves a row a row, and as old as it was.
LEMMA SettingStatus ==
    ASSUME IInv, NEW r \in Runs, NEW s \in {"QUEUED", "RUNNING", "COMPLETED", "FAILED"},
           SetStatus(r, s), UNCHANGED process
    PROVE  RunsOK' /\ SweepsOK'
<1>1. /\ run' \in [Runs -> Row]
      /\ \A q \in Runs : run'[q].old = run[q].old
  BY DEF IInv, RunsOK, SetStatus, Row, Active
<1>2. \A w \in Workers : \A q \in DOMAIN sweep[w].found : q \in Runs
  BY DEF IInv, SweepsOK, IsSweep
<1> QED
  BY <1>1, <1>2 DEF IInv, RunsOK, SweepsOK, process

LEMMA SameSweeps ==
    ASSUME IInv, UNCHANGED <<run, process>>
    PROVE  RunsOK' /\ SweepsOK'
  BY DEF IInv, RunsOK, SweepsOK, process

LEMMA SameJobs ==
    ASSUME IInv, UNCHANGED <<request, job>>
    PROVE  JobsOK'
  BY DEF IInv, JobsOK

LEMMA SameEvals ==
    ASSUME IInv, UNCHANGED <<eval, board>>
    PROVE  BoardOK' /\ EvalsOK'
  BY DEF IInv, BoardOK, EvalsOK, board, Undisturbed, Kept

\* One evaluation moves and nothing it is about changes.
LEMMA OneEvaluation ==
    ASSUME IInv, NEW w \in Workers, NEW x \in Evaluation, eval' = [eval EXCEPT ![w] = x],
           UNCHANGED <<facts, alert>>, WellFormed(x), Undisturbed(x)
    PROVE  EvalsOK'
<1>1. eval' \in [Workers -> Evaluation] /\ \A v \in Workers : eval'[v] = IF v = w THEN x ELSE eval[v]
  BY DEF IInv, EvalsOK
<1>2. \A v \in Workers : WellFormed(eval'[v]) /\ Undisturbed(eval'[v])
  BY <1>1 DEF IInv, EvalsOK
<1>3. ASSUME NEW v \in Workers PROVE Undisturbed(eval[v])'
  BY <1>2 DEF Undisturbed, Kept
<1> QED
  BY <1>1, <1>2, <1>3 DEF EvalsOK, WellFormed

\* Whoever is disturbed has nothing to answer for.
LEMMA DisturbedEvaluations ==
    ASSUME IInv, NEW ws \in SUBSET Workers
    PROVE  /\ Disturbed(ws) \in [Workers -> Evaluation]
           /\ \A w \in Workers : WellFormed(Disturbed(ws)[w])
           /\ \A w \in ws : ~Disturbed(ws)[w].calm
           /\ \A w \in Workers \ ws : Disturbed(ws)[w] = eval[w]
<1> DEFINE Calmed(w) == [eval[w] EXCEPT !.calm = FALSE]
<1>1. ASSUME NEW w \in Workers
      PROVE  /\ Calmed(w) \in Evaluation /\ ~Calmed(w).calm
             /\ Calmed(w).run = eval[w].run /\ Calmed(w).pc = eval[w].pc
             /\ Calmed(w).key = eval[w].key /\ Calmed(w).keys = eval[w].keys
             /\ Calmed(w).todo = eval[w].todo
  <2>1. eval[w] \in Evaluation
    BY DEF IInv, EvalsOK
  <2> QED
    BY <2>1 DEF Evaluation
<1>2. \A w \in Workers : WellFormed(Calmed(w)) /\ WellFormed(eval[w]) /\ eval[w] \in Evaluation
  BY <1>1 DEF IInv, EvalsOK, WellFormed
<1>3. Disturbed(ws) = [w \in Workers |-> IF w \in ws THEN Calmed(w) ELSE eval[w]]
  BY DEF Disturbed
<1> HIDE DEF Calmed
<1> QED
  BY <1>1, <1>2, <1>3

LEMMA AllDisturbed ==
    ASSUME IInv, eval' = Disturbed(Workers)
    PROVE  EvalsOK'
<1>1. \A w \in Workers : ~eval'[w].calm /\ WellFormed(eval'[w])
  BY DisturbedEvaluations
<1>2. \A w \in Workers : Undisturbed(eval[w])' /\ WellFormed(eval[w])'
  BY <1>1 DEF Undisturbed, WellFormed
<1> QED
  BY <1>2, DisturbedEvaluations DEF EvalsOK

\* One evaluation writes an alert; the others are disturbed.
LEMMA WritingEvaluation ==
    ASSUME IInv, NEW w \in Workers, NEW x \in Evaluation,
           eval' = [Others(w) EXCEPT ![w] = x], WellFormed(x),
           x.pc = "alerts" \/ x.pc = "resolve",
           x.calm => x.facts = facts' /\ \A k \in Conditions : k \in x.keys <=> k \in facts'.holds,
           (x.calm /\ x.pc = "alerts") => \A k \in x.keys \ x.todo : alert'[k] \in Standing,
           (x.calm /\ x.pc = "resolve") =>
                /\ \A k \in x.keys : alert'[k] \in Standing
                /\ x.todo \cap x.keys = {}
                /\ \A k \in Keys : alert'[k] \in Standing => k \in x.keys \cup x.todo
    PROVE  EvalsOK'
<1>1. /\ eval' \in [Workers -> Evaluation] /\ eval'[w] = x
      /\ \A v \in Workers \ {w} : ~eval'[v].calm /\ WellFormed(eval'[v])
  BY DisturbedEvaluations DEF Others
<1>2. \A v \in Workers \ {w} : Undisturbed(eval[v])' /\ WellFormed(eval[v])'
  BY <1>1 DEF Undisturbed, WellFormed
<1>3. Undisturbed(eval[w])' /\ WellFormed(eval[w])'
  BY <1>1 DEF Undisturbed, WellFormed, Kept
<1> QED
  BY <1>1, <1>2, <1>3 DEF EvalsOK

\* A run ends: the job is only moved by its holder.
LEMMA EndKeeps ==
    ASSUME IInv, NEW w \in Workers, eval[w].pc # "idle", End(w), UNCHANGED <<request, board>>
    PROVE  JobsOK' /\ BoardOK' /\ EvalsOK'
<1> DEFINE r == eval[w].run
<1>1. r \in Runs
  BY DEF IInv, EvalsOK, Evaluation, WellFormed
<1>2. EvalsOK' /\ BoardOK'
  BY IdleIsEvaluation, OneEvaluation DEF End, board, IInv, BoardOK
<1> HIDE DEF r
<1>3. ASSUME job[r].holder = w PROVE JobsOK'
  <2>1. job' = [job EXCEPT ![r].state = "ended", ![r].holder = None]
    BY <1>3 DEF End, r
  <2>2. job[r].holder # None /\ job[r] # NoJob
    BY <1>3, MonitoringConstants DEF NoJob
  <2> QED
    BY <1>1, <2>1, <2>2, MonitoringConstants DEF IInv, JobsOK, Job, NoJob
<1>4. ASSUME job[r].holder # w PROVE JobsOK'
  BY <1>4 DEF End, IInv, JobsOK, r
<1> QED
  BY <1>2, <1>3, <1>4
-----------------------------------------------------------------------------
(* One lemma per group of actions.                                          *)

LEMMA RequestKeeps ==
    ASSUME IInv, NEW r \in Runs, Request(r), UNCHANGED setting
    PROVE  IInv'
<1>1. BoardOK' /\ EvalsOK'
  BY SameEvals DEF Request, Check, Create, Add, Compensate, ApiDies, Reuse
<1>2. ASSUME NEW pc \in {"check", "create", "add", "compensate", "ended"}, Goto(r, pc),
             UNCHANGED job, pc \in {"check", "create", "add"} => job[r] = NoJob
      PROVE  JobsOK'
  BY <1>2 DEF Goto, IInv, JobsOK
<1>3. CASE Check(r)
  <2>1. JobsOK'
    BY <1>2, <1>3 DEF Check, IInv, JobsOK
  <2> QED
    BY <1>1, <1>3, <2>1, SameSweeps DEF Check, IInv
<1>4. CASE Create(r)
  <2>1. JobsOK'
    BY <1>2, <1>4 DEF Create, IInv, JobsOK
  <2> QED
    BY <1>1, <1>4, <2>1, SettingStatus DEF Create, IInv
<1>5. CASE Add(r)
  <2>1. ASSUME NEW pc \in {"compensate", "ended"}, Goto(r, pc),
               job' = [job EXCEPT ![r].state = "waiting"], job[r] = NoJob
        PROVE  JobsOK'
    BY <2>1, MonitoringConstants DEF Goto, IInv, JobsOK, Job, NoJob
  <2>2. JobsOK'
    BY <1>2, <1>5, <2>1 DEF Add, IInv, JobsOK
  <2> QED
    BY <1>1, <1>5, <2>2, SameSweeps DEF Add, IInv
<1>6. CASE Compensate(r)
  <2>1. JobsOK'
    BY <1>2, <1>6 DEF Compensate
  <2> QED
    BY <1>1, <1>6, <2>1, SettingStatus DEF Compensate, IInv
<1>7. CASE ApiDies(r)
  <2>1. JobsOK'
    BY <1>2, <1>7 DEF ApiDies
  <2> QED
    BY <1>1, <1>7, <2>1, SameSweeps DEF ApiDies, IInv
<1>8. CASE Reuse(r)
  <2>1. JobsOK'
    BY <1>8, MonitoringConstants DEF Reuse, Goto, IInv, JobsOK, Job, NoJob
  <2>2. RunsOK'
    BY <1>8 DEF Reuse, IInv, RunsOK, NoRow, Row
  <2>3. \A w \in Workers : \A q \in DOMAIN sweep[w].found : run'[q].old
    <3>1. \A w \in Workers : \A q \in DOMAIN sweep[w].found : q \in Runs /\ q # r /\ run[q].old
      BY <1>8 DEF Reuse, IInv, SweepsOK, IsSweep
    <3> QED
      BY <1>8, <3>1 DEF Reuse, IInv, RunsOK
  <2>4. SweepsOK'
    BY <1>8, <2>3 DEF Reuse, IInv, SweepsOK, process
  <2> QED
    BY <1>1, <2>1, <2>2, <2>4 DEF IInv
<1> QED
  BY <1>3, <1>4, <1>5, <1>6, <1>7, <1>8 DEF Request

LEMMA DeliverKeeps ==
    ASSUME IInv, NEW w \in Workers, NEW r \in Runs, Deliver(w, r), UNCHANGED setting
    PROVE  IInv'
<1> DEFINE x == [Idle EXCEPT !.pc = "begin", !.run = r]
<1>1. x \in Evaluation /\ WellFormed(x) /\ Undisturbed(x)
  <2>1. r # None
    BY MonitoringConstants
  <2>2. x.pc = "begin" /\ x.run = r /\ ~x.calm
    BY DEF Idle
  <2>3. x \in Evaluation
    BY IdleIsEvaluation DEF Evaluation
  <2> QED
    BY <2>1, <2>2, <2>3 DEF WellFormed, Undisturbed
<1>2. eval' = [eval EXCEPT ![w] = x] /\ UNCHANGED <<facts, alert>>
  BY DEF Deliver, board
<1> HIDE DEF x
<1>3. EvalsOK'
  BY <1>1, <1>2, OneEvaluation
<1>4. JobsOK'
  BY MonitoringConstants DEF Deliver, IInv, JobsOK, Job, NoJob
<1> QED
  BY <1>3, <1>4, SameSweeps DEF Deliver, IInv, BoardOK, board

LEMMA StallKeeps ==
    ASSUME IInv, NEW r \in Runs, Stall(r), UNCHANGED setting
    PROVE  IInv'
<1>1. /\ Stalled(job[r]) \in Job /\ Stalled(job[r]).state # "active"
      /\ Stalled(job[r]).holder = None
  <2>1. job[r] \in Job /\ MaxStalled \in Nat
    BY MonitoringConstants DEF IInv, JobsOK
  <2>2. CASE job[r].stalls < MaxStalled
    BY <2>1, <2>2 DEF Stalled, Job
  <2>3. CASE ~(job[r].stalls < MaxStalled)
    <3>1. Stalled(job[r]) = [job[r] EXCEPT !.state = "ended", !.holder = None]
      BY <2>3 DEF Stalled
    <3> QED
      BY <2>1, <3>1 DEF Job
  <2> QED
    BY <2>2, <2>3
<1>2. job[r] # NoJob /\ job' = [job EXCEPT ![r] = Stalled(job[r])] /\ UNCHANGED request
  BY DEF Stall, NoJob
<1>3. JobsOK'
  BY <1>1, <1>2 DEF IInv, JobsOK
<1> QED
  BY <1>3, SameSweeps, SameEvals DEF Stall, IInv

LEMMA AgeKeeps ==
    ASSUME IInv, NEW r \in Runs, Age(r), UNCHANGED setting
    PROVE  IInv'
<1>1. run' \in [Runs -> Row] /\ \A q \in Runs : run[q].old => run'[q].old
  BY DEF Age, IInv, RunsOK, Row
<1>2. \A w \in Workers : \A q \in DOMAIN sweep[w].found : q \in Runs
  BY DEF IInv, SweepsOK, IsSweep
<1>3. RunsOK' /\ SweepsOK'
  BY <1>1, <1>2 DEF Age, IInv, RunsOK, SweepsOK, process
<1> QED
  BY <1>3, SameJobs, SameEvals DEF Age, IInv

LEMMA ProcessKeeps ==
    ASSUME IInv, NEW w \in Workers, Crash(w) \/ Boot(w), UNCHANGED setting
    PROVE  IInv'
<1>1. CASE Crash(w)
  <2>1. EvalsOK'
    BY <1>1, IdleIsEvaluation, OneEvaluation DEF Crash, board
  <2>2. SweepsOK'
    BY <1>1 DEF Crash, IInv, SweepsOK, IsSweep, NoSweep, table
  <2> QED
    BY <1>1, <2>1, <2>2, SameJobs DEF Crash, IInv, RunsOK, BoardOK, board, table
<1>2. CASE Boot(w)
  <2>1. SweepsOK'
    BY <1>2 DEF Boot, IInv, SweepsOK, IsSweep, table
  <2> QED
    BY <1>2, <2>1, SameJobs, SameEvals DEF Boot, IInv, RunsOK, table
<1> QED
  BY <1>1, <1>2

LEMMA SweepKeeps ==
    ASSUME IInv, NEW w \in Workers, SweepStep(w) \/ SweepFails(w), UNCHANGED setting
    PROVE  IInv'
<1>1. JobsOK' /\ BoardOK' /\ EvalsOK'
  BY SameJobs, SameEvals
     DEF SweepStep, SweepRead, SweepWrite, SweepEnd, SweepFails, table
<1>2. CASE SweepRead(w)
  <2>1. /\ DOMAIN Candidates(run) \subseteq Runs
        /\ Candidates(run) \in [DOMAIN Candidates(run) -> [status : Active, stamp : {0}]]
        /\ \A q \in DOMAIN Candidates(run) : run[q].old
    BY DEF Candidates, Sweepable, IInv, RunsOK, Row, Active
  <2>2. SweepsOK'
    BY <1>2, <2>1 DEF SweepRead, IInv, SweepsOK, IsSweep, table
  <2> QED
    BY <1>1, <1>2, <2>2 DEF SweepRead, IInv, RunsOK, table
<1>3. ASSUME NEW r \in Runs, SweepWrite(w, r) PROVE IInv'
  <2>1. /\ Swept(run[r], sweep[w].found[r]) \in Row
        /\ Swept(run[r], sweep[w].found[r]).old = run[r].old
    BY DEF Swept, IInv, RunsOK, Row
  <2>2. RunsOK' /\ \A q \in Runs : run'[q].old = run[q].old
    BY <1>3, <2>1 DEF SweepWrite, IInv, RunsOK
  <2>3. /\ DOMAIN Without(sweep[w].found, r) \subseteq DOMAIN sweep[w].found
        /\ \A q \in DOMAIN Without(sweep[w].found, r) :
             Without(sweep[w].found, r)[q] = sweep[w].found[q]
        /\ Without(sweep[w].found, r) \in [DOMAIN Without(sweep[w].found, r) -> [status : Active, stamp : {0}]]
    BY DEF Without, IInv, SweepsOK, IsSweep
  <2>4. SweepsOK'
    BY <1>3, <2>2, <2>3 DEF SweepWrite, IInv, SweepsOK, IsSweep
  <2> QED
    BY <1>1, <2>2, <2>4 DEF IInv
<1>4. CASE SweepEnd(w) \/ SweepFails(w)
  <2>1. sweep' = [sweep EXCEPT ![w] = NoSweep] /\ UNCHANGED <<run, up>>
    BY <1>4 DEF SweepEnd, SweepFails, table
  <2>2. SweepsOK'
    BY <2>1 DEF IInv, SweepsOK, IsSweep, NoSweep
  <2> QED
    BY <1>1, <1>4, <2>2 DEF SweepEnd, SweepFails, IInv, RunsOK, table
<1> QED
  BY <1>2, <1>3, <1>4 DEF SweepStep
-----------------------------------------------------------------------------
(* The steps of an evaluation.                                              *)

\* An evaluation that moves on without touching a row or an alert.
LEMMA MovingKeeps ==
    ASSUME IInv, NEW w \in Workers, NEW x \in Evaluation, eval' = [eval EXCEPT ![w] = x],
           UNCHANGED <<table, process, facts, alert, setting>>,
           snapshot' \in Snapshot \cup {None}, WellFormed(x), Undisturbed(x)
    PROVE  IInv'
<1>1. EvalsOK'
  BY OneEvaluation
<1>2. RunsOK' /\ SweepsOK' /\ JobsOK'
  BY SameSweeps, SameJobs DEF table
<1> QED
  BY <1>1, <1>2 DEF IInv, BoardOK

\* What is known of a busy evaluation.
LEMMA BusyEvaluation ==
    ASSUME IInv, NEW w \in Workers, eval[w].pc # "idle"
    PROVE  /\ eval[w] \in Evaluation /\ eval[w].run \in Runs /\ eval[w].run # None
           /\ WellFormed(eval[w]) /\ Undisturbed(eval[w])
  BY DEF IInv, EvalsOK, Evaluation, WellFormed

\* A step that only changes where the evaluation is, to a place that asks
\* nothing of it.
LEMMA StepKeeps ==
    ASSUME IInv, NEW w \in Workers, eval[w].pc # "idle", NEW pc \in {"claim", "read", "fail"},
           Step(w, pc)
    PROVE  /\ [eval[w] EXCEPT !.pc = pc] \in Evaluation
           /\ WellFormed([eval[w] EXCEPT !.pc = pc]) /\ Undisturbed([eval[w] EXCEPT !.pc = pc])
           /\ eval' = [eval EXCEPT ![w] = [eval[w] EXCEPT !.pc = pc]]
<1> DEFINE x == [eval[w] EXCEPT !.pc = pc]
<1>1. /\ x \in Evaluation /\ x.pc = pc /\ x.run = eval[w].run
      /\ eval' = [eval EXCEPT ![w] = x]
  BY BusyEvaluation DEF Step, Evaluation
<1>2. WellFormed(x) /\ Undisturbed(x)
  BY <1>1, BusyEvaluation DEF WellFormed, Undisturbed
<1> QED
  BY <1>1, <1>2

LEMMA EndingKeeps ==
    ASSUME IInv, NEW w \in Workers, UNCHANGED setting,
           Complete(w) \/ Fail(w) \/ GiveUp(w)
    PROVE  IInv'
<1>1. /\ eval[w].pc # "idle" /\ End(w) /\ UNCHANGED <<request, process, board>>
      /\ \/ SetStatus(eval[w].run, "COMPLETED") \/ SetStatus(eval[w].run, "FAILED")
         \/ UNCHANGED run
  BY DEF Complete, Fail, GiveUp
<1>2. RunsOK' /\ SweepsOK'
  BY <1>1, SettingStatus, SameSweeps, BusyEvaluation
<1> QED
  BY <1>1, <1>2, EndKeeps DEF IInv

LEMMA StartingKeeps ==
    ASSUME IInv, NEW w \in Workers, UNCHANGED setting, Begin(w) \/ Claim(w) \/ Throws(w)
    PROVE  IInv'
<1>1. CASE Begin(w)
  <2>1. CASE Step(w, "claim") /\ UNCHANGED job
    BY <1>1, <2>1, StepKeeps, MovingKeeps DEF Begin, table, board, IInv, BoardOK
  <2>2. CASE End(w)
    BY <1>1, <2>2, EndKeeps, SameSweeps DEF Begin, IInv
  <2> QED
    BY <1>1, <2>1, <2>2 DEF Begin
<1>2. CASE Claim(w)
  <2>1. eval[w].run \in Runs /\ eval[w].pc # "idle"
    BY <1>2, BusyEvaluation DEF Claim
  <2>2. RunsOK' /\ SweepsOK' /\ JobsOK'
    BY <1>2, <2>1, SettingStatus, SameJobs DEF Claim
  <2>3. EvalsOK'
    BY <1>2, <2>1, StepKeeps, OneEvaluation DEF Claim, board
  <2> QED
    BY <1>2, <2>2, <2>3 DEF Claim, IInv, BoardOK, board
<1>3. CASE Throws(w)
  BY <1>3, StepKeeps, MovingKeeps DEF Throws, table, board, IInv, BoardOK
<1> QED
  BY <1>1, <1>2, <1>3
LEMMA ReadKeeps ==
    ASSUME IInv, NEW w \in Workers, UNCHANGED setting, Read(w)
    PROVE  IInv'
<1> DEFINE x == [eval[w] EXCEPT !.pc = "compare", !.facts = facts, !.calm = TRUE]
<1>1. eval[w].pc = "read" /\ eval' = [eval EXCEPT ![w] = x] /\ UNCHANGED <<table, process, board>>
  BY DEF Read
<1>2. eval[w] \in Evaluation /\ WellFormed(eval[w])
  BY <1>1, BusyEvaluation
<1>3. /\ x \in Evaluation /\ x.pc = "compare" /\ x.facts = facts
      /\ x.run = eval[w].run
  BY <1>2 DEF Evaluation, IInv, BoardOK
<1> HIDE DEF x
<1>4. WellFormed(x) /\ Undisturbed(x)
  BY <1>1, <1>2, <1>3 DEF WellFormed, Undisturbed
<1> QED
  BY <1>1, <1>3, <1>4, MovingKeeps DEF board, IInv, BoardOK

LEMMA CompareKeeps ==
    ASSUME IInv, NEW w \in Workers, UNCHANGED setting, Compare(w)
    PROVE  IInv'
<1> DEFINE reported == Reported(eval[w].facts)
<1> DEFINE x == [eval[w] EXCEPT !.pc = "alerts", !.keys = reported, !.todo = reported]
<1>1. /\ eval[w].pc = "compare" /\ UNCHANGED <<table, process, board>>
      /\ Step(w, "fail") \/ eval' = [eval EXCEPT ![w] = x]
  BY DEF Compare
<1>2. eval[w] \in Evaluation /\ WellFormed(eval[w]) /\ Undisturbed(eval[w])
  BY <1>1, BusyEvaluation
<1>3. CASE Step(w, "fail")
  BY <1>1, <1>3, StepKeeps, MovingKeeps DEF board, IInv, BoardOK
<1>4. CASE eval' = [eval EXCEPT ![w] = x]
  <2>1. eval[w].facts \in Facts
    BY <1>2 DEF Evaluation
  <2>2. reported \in SUBSET Keys /\ \A k \in Conditions : k \in reported <=> k \in eval[w].facts.holds
    BY <2>1, MonitoringConstants DEF Reported, Facts, Keys
  <2> HIDE DEF reported
  <2>3. /\ x \in Evaluation /\ x.pc = "alerts" /\ x.facts = eval[w].facts
        /\ x.keys = reported /\ x.todo = reported /\ x.run = eval[w].run /\ x.calm = eval[w].calm
    BY <1>2, <2>2 DEF Evaluation
  <2> HIDE DEF x
  <2>4. WellFormed(x)
    BY <1>1, <1>2, <2>3 DEF WellFormed
  <2>5. Undisturbed(x)
    BY <1>1, <1>2, <2>2, <2>3 DEF Undisturbed, Kept
  <2> QED
    BY <1>1, <1>4, <2>3, <2>4, <2>5, MovingKeeps DEF board, IInv, BoardOK
<1> QED
  BY <1>1, <1>3, <1>4

LEMMA FindKeeps ==
    ASSUME IInv, NEW w \in Workers, NEW k \in Keys, UNCHANGED setting, Find(w, k)
    PROVE  IInv'
<1> DEFINE rest == eval[w].todo \ {k}
<1> DEFINE x == [eval[w] EXCEPT !.pc = "write", !.key = k, !.was = alert[k], !.todo = rest]
<1>1. /\ eval[w].pc = "alerts" /\ k \in eval[w].todo /\ eval' = [eval EXCEPT ![w] = x]
      /\ UNCHANGED <<table, process, board>>
  BY DEF Find
<1>2. eval[w] \in Evaluation /\ WellFormed(eval[w]) /\ Undisturbed(eval[w])
  BY <1>1, BusyEvaluation
<1>3. rest \in SUBSET Keys /\ alert[k] \in {"NONE", "RESOLVED"} \cup Standing
  BY <1>2 DEF Evaluation, IInv, BoardOK
<1>4. rest \cup {k} = eval[w].todo
  BY <1>1
<1> HIDE DEF rest
<1>5. /\ x \in Evaluation /\ x.pc = "write" /\ x.facts = eval[w].facts /\ x.keys = eval[w].keys
      /\ x.todo = rest /\ x.run = eval[w].run /\ x.calm = eval[w].calm
      /\ x.key = k /\ x.was = alert[k]
  BY <1>2, <1>3 DEF Evaluation
<1> HIDE DEF x
<1>6. WellFormed(x)
  BY <1>1, <1>2, <1>4, <1>5 DEF WellFormed
<1>7. Undisturbed(x)
  BY <1>1, <1>2, <1>4, <1>5 DEF Undisturbed, Kept
<1> QED
  BY <1>1, <1>5, <1>6, <1>7, MovingKeeps DEF board, IInv, BoardOK

LEMMA ListKeeps ==
    ASSUME IInv, NEW w \in Workers, UNCHANGED setting, List(w)
    PROVE  IInv'
<1> DEFINE others == Unreported(w)
<1> DEFINE x == [eval[w] EXCEPT !.pc = "resolve", !.todo = others]
<1>1. /\ eval[w].pc = "alerts" /\ eval[w].todo = {} /\ eval' = [eval EXCEPT ![w] = x]
      /\ UNCHANGED <<table, process, board>>
  BY DEF List
<1>2. eval[w] \in Evaluation /\ WellFormed(eval[w]) /\ Undisturbed(eval[w])
  BY <1>1, BusyEvaluation
<1>3. /\ others \in SUBSET Keys /\ others \cap eval[w].keys = {}
      /\ \A k \in Keys : alert[k] \in Standing => k \in eval[w].keys \cup others
  BY DEF Unreported
<1> HIDE DEF others
<1>4. /\ x \in Evaluation /\ x.pc = "resolve" /\ x.facts = eval[w].facts /\ x.keys = eval[w].keys
      /\ x.todo = others /\ x.run = eval[w].run /\ x.calm = eval[w].calm
  BY <1>2, <1>3 DEF Evaluation
<1> HIDE DEF x
<1>5. WellFormed(x)
  BY <1>1, <1>2, <1>4 DEF WellFormed
<1>6. Undisturbed(x)
  BY <1>1, <1>2, <1>3, <1>4 DEF Undisturbed, Kept
<1> QED
  BY <1>1, <1>4, <1>5, <1>6, MovingKeeps DEF board, IInv, BoardOK

LEMMA PhotographKeeps ==
    ASSUME IInv, NEW w \in Workers, UNCHANGED setting, Photograph(w)
    PROVE  IInv'
<1> DEFINE x == [eval[w] EXCEPT !.pc = "complete"]
<1>1. /\ eval[w].pc = "resolve" /\ eval[w].todo = {} /\ eval' = [eval EXCEPT ![w] = x]
      /\ UNCHANGED <<table, process, facts, alert>>
  BY DEF Photograph, Step
<1>2. eval[w] \in Evaluation /\ WellFormed(eval[w]) /\ Undisturbed(eval[w])
  BY <1>1, BusyEvaluation
<1>3. snapshot' \in Snapshot \cup {None}
  BY <1>2 DEF Photograph, Snapshot, IInv, BoardOK, Facts, Evaluation
<1>4. /\ x \in Evaluation /\ x.pc = "complete" /\ x.facts = eval[w].facts /\ x.keys = eval[w].keys
      /\ x.run = eval[w].run /\ x.calm = eval[w].calm
  BY <1>2 DEF Evaluation
<1> HIDE DEF x
<1>5. WellFormed(x)
  BY <1>1, <1>2, <1>4 DEF WellFormed
<1>6. Undisturbed(x)
  BY <1>1, <1>2, <1>4 DEF Undisturbed, Kept, WellFormed, Evaluation
<1> QED
  BY <1>1, <1>3, <1>4, <1>5, <1>6, MovingKeeps
LEMMA WriteKeeps ==
    ASSUME IInv, NEW w \in Workers, UNCHANGED setting, Write(w)
    PROVE  IInv'
<1> DEFINE k == eval[w].key
<1> DEFINE x == [eval[w] EXCEPT !.pc = "alerts", !.key = None, !.was = "NONE"]
<1>1. eval[w].pc = "write" /\ UNCHANGED <<table, process, facts, snapshot>>
  BY DEF Write
<1>2. eval[w] \in Evaluation /\ WellFormed(eval[w]) /\ Undisturbed(eval[w])
  BY <1>1, BusyEvaluation
<1>3. k \in Keys /\ k \in eval[w].keys /\ ObservedStatus(eval[w].was) \in Standing
  BY <1>1, <1>2 DEF Evaluation, WellFormed, ObservedStatus, Standing
<1>4. CASE Step(w, "fail") /\ UNCHANGED alert
  BY <1>1, <1>4, StepKeeps, MovingKeeps DEF IInv, BoardOK
<1>5. CASE /\ alert' = [alert EXCEPT ![k] = ObservedStatus(eval[w].was)]
           /\ eval' = [Others(w) EXCEPT ![w] = [@ EXCEPT !.pc = "alerts", !.key = None,
                                                         !.was = "NONE"]]
  <2>1. eval' = [Others(w) EXCEPT ![w] = x]
    <3>1. Others(w)[w] = eval[w]
      BY DisturbedEvaluations DEF Others
    <3> QED
      BY <1>5, <3>1
  <2>2. /\ x \in Evaluation /\ x.pc = "alerts" /\ x.facts = eval[w].facts
        /\ x.keys = eval[w].keys /\ x.todo = eval[w].todo /\ x.run = eval[w].run
        /\ x.calm = eval[w].calm
    BY <1>2 DEF Evaluation
  <2> HIDE DEF x
  <2>3. WellFormed(x)
    BY <1>1, <1>2, <1>3, <2>2 DEF WellFormed, Evaluation
  <2>4. /\ alert' \in [Keys -> {"NONE", "RESOLVED"} \cup Standing]
        /\ \A q \in Keys : alert'[q] = IF q = k THEN ObservedStatus(eval[w].was) ELSE alert[q]
    BY <1>3, <1>5 DEF IInv, BoardOK
  <2>5. x.calm => \A q \in x.keys \ x.todo : alert'[q] \in Standing
    BY <1>1, <1>2, <1>3, <2>2, <2>4 DEF Undisturbed, Kept, Evaluation
  <2>6. x.calm => x.facts = facts' /\ \A q \in Conditions : q \in x.keys <=> q \in facts'.holds
    BY <1>1, <1>2, <2>2 DEF Undisturbed
  <2>7. EvalsOK'
    BY <2>1, <2>2, <2>3, <2>5, <2>6, WritingEvaluation
  <2> QED
    BY <1>1, <2>4, <2>7, SameSweeps, SameJobs DEF IInv, BoardOK, table
<1> QED
  BY <1>4, <1>5 DEF Write

LEMMA ResolveKeeps ==
    ASSUME IInv, NEW w \in Workers, NEW k \in Keys, UNCHANGED setting, Resolve(w, k)
    PROVE  IInv'
<1> DEFINE rest == eval[w].todo \ {k}
<1> DEFINE x == [eval[w] EXCEPT !.todo = rest]
<1>1. /\ eval[w].pc = "resolve" /\ k \in eval[w].todo /\ alert' = [alert EXCEPT ![k] = "RESOLVED"]
      /\ eval' = [Others(w) EXCEPT ![w].todo = @ \ {k}]
      /\ UNCHANGED <<table, process, facts, snapshot>>
  BY DEF Resolve
<1>2. eval[w] \in Evaluation /\ WellFormed(eval[w]) /\ Undisturbed(eval[w])
  BY <1>1, BusyEvaluation
<1>3. eval' = [Others(w) EXCEPT ![w] = x]
  <2>1. Others(w)[w] = eval[w]
    BY DisturbedEvaluations DEF Others
  <2> QED
    BY <1>1, <2>1
<1>4. rest \in SUBSET Keys /\ rest \cup {k} = eval[w].todo
  BY <1>1, <1>2 DEF Evaluation
<1> HIDE DEF rest
<1>5. /\ x \in Evaluation /\ x.pc = "resolve" /\ x.facts = eval[w].facts
      /\ x.keys = eval[w].keys /\ x.todo = rest /\ x.run = eval[w].run /\ x.calm = eval[w].calm
  BY <1>1, <1>2, <1>4 DEF Evaluation
<1> HIDE DEF x
<1>6. WellFormed(x)
  BY <1>1, <1>2, <1>5 DEF WellFormed
<1>7. /\ alert' \in [Keys -> {"NONE", "RESOLVED"} \cup Standing]
      /\ \A q \in Keys : alert'[q] = IF q = k THEN "RESOLVED" ELSE alert[q]
  BY <1>1 DEF IInv, BoardOK
<1>8. x.calm => x.facts = facts' /\ \A q \in Conditions : q \in x.keys <=> q \in facts'.holds
  BY <1>1, <1>2, <1>5 DEF Undisturbed
<1>9. x.calm => /\ \A q \in x.keys : alert'[q] \in Standing
                /\ x.todo \cap x.keys = {}
                /\ \A q \in Keys : alert'[q] \in Standing => q \in x.keys \cup x.todo
  <2> SUFFICES ASSUME x.calm
               PROVE  /\ \A q \in x.keys : alert'[q] \in Standing
                      /\ x.todo \cap x.keys = {}
                      /\ \A q \in Keys : alert'[q] \in Standing => q \in x.keys \cup x.todo
    OBVIOUS
  <2>1. /\ \A q \in eval[w].keys : alert[q] \in Standing
        /\ eval[w].todo \cap eval[w].keys = {}
        /\ \A q \in Keys : alert[q] \in Standing => q \in eval[w].keys \cup eval[w].todo
    BY <1>1, <1>2, <1>5 DEF Undisturbed, Kept
  <2>2. "RESOLVED" \notin Standing /\ k \notin eval[w].keys /\ eval[w].keys \subseteq Keys
    BY <1>1, <1>2, <2>1 DEF Standing, Evaluation
  <2> QED
    BY <1>4, <1>5, <1>7, <2>1, <2>2
<1>10. EvalsOK'
  BY <1>3, <1>5, <1>6, <1>8, <1>9, WritingEvaluation
<1> QED
  BY <1>1, <1>7, <1>10, SameSweeps, SameJobs DEF IInv, BoardOK, table

LEMMA SurroundingsKeep ==
    ASSUME IInv, UNCHANGED setting, FactsChange \/ \E k \in Keys : Acknowledge(k) \/ Dismiss(k)
    PROVE  IInv'
<1>1. eval' = Disturbed(Workers) /\ UNCHANGED <<table, process, snapshot>>
  BY DEF FactsChange, Acknowledge, Dismiss, UserSets
<1>2. facts' \in Facts /\ alert' \in [Keys -> {"NONE", "RESOLVED"} \cup Standing]
  BY DEF FactsChange, Acknowledge, Dismiss, UserSets, IInv, BoardOK, Standing
<1>3. EvalsOK'
  BY <1>1, AllDisturbed
<1> QED
  BY <1>1, <1>2, <1>3, SameSweeps, SameJobs DEF IInv, BoardOK, table

LEMMA NextKeeps == IInv /\ [Next]_vars => IInv'
<1> SUFFICES ASSUME IInv, [Next]_vars PROVE IInv'
  OBVIOUS
<1>1. CASE UNCHANGED vars
  BY <1>1, SameSweeps, SameJobs, SameEvals DEF vars, table, IInv
<1>2. ASSUME Next PROVE IInv'
  <2>1. UNCHANGED setting
    BY <1>2 DEF Next
  <2>2. ASSUME NEW r \in Runs, Request(r) \/ Stall(r) \/ Age(r) PROVE IInv'
    BY <2>1, <2>2, RequestKeeps, StallKeeps, AgeKeeps
  <2>3. ASSUME NEW w \in Workers, NEW r \in Runs, Deliver(w, r) PROVE IInv'
    BY <2>1, <2>3, DeliverKeeps
  <2>4. ASSUME NEW w \in Workers, Evaluate(w) PROVE IInv'
    BY <2>1, <2>4, StartingKeeps, ReadKeeps, CompareKeeps, FindKeeps, ListKeeps, WriteKeeps,
       ResolveKeeps, PhotographKeeps, EndingKeeps DEF Evaluate
  <2>5. ASSUME NEW w \in Workers, Crash(w) \/ Boot(w) \/ SweepStep(w) \/ SweepFails(w) PROVE IInv'
    BY <2>1, <2>5, ProcessKeeps, SweepKeeps
  <2>6. ASSUME FactsChange \/ \E k \in Keys : Acknowledge(k) \/ Dismiss(k) PROVE IInv'
    BY <2>1, <2>6, SurroundingsKeep
  <2> QED
    BY <1>2, <2>2, <2>3, <2>4, <2>5, <2>6 DEF Next
<1> QED
  BY <1>1, <1>2

LEMMA MonitoringInvariant == Spec => []IInv
  BY InitHolds, NextKeeps, PTL DEF Spec
-----------------------------------------------------------------------------
(* What follows.                                                            *)

\* Every row, job, evaluation, pass and alert is well formed.
THEOREM MonitoringTypes == Spec => []TypeOK
<1>1. IInv => TypeOK
  BY DEF IInv, RunsOK, JobsOK, SweepsOK, BoardOK, EvalsOK, WellFormed, TypeOK
<1> QED
  BY <1>1, MonitoringInvariant, PTL

\* The alert loop and the auto-resolution of evaluateMonitoring leave exactly
\* the alerts of the conditions that hold, unless somebody else changes facts
\* or alerts while they run.
THEOREM AccurateWhenAloneAlways == Spec => []AccurateWhenAlone
<1>1. IInv => AccurateWhenAlone
  <2> SUFFICES ASSUME IInv, NEW w \in Workers, eval[w].pc = "complete", eval[w].calm,
                      NEW k \in Conditions
               PROVE  alert[k] \in Standing <=> k \in facts.holds
    BY DEF AccurateWhenAlone
  <2>1. Undisturbed(eval[w]) /\ k \in Keys
    BY DEF IInv, EvalsOK, Keys
  <2> QED
    BY <2>1 DEF Undisturbed
<1> QED
  BY <1>1, MonitoringInvariant, PTL

\* An acknowledgement is undone only by an evaluation that had read the alert
\* before it was acknowledged.
THEOREM AcknowledgementStandsAlways == Spec => AcknowledgementStands
<1> DEFINE Kind == \A k \in Keys : (alert[k] = "ACKNOWLEDGED" /\ alert'[k] = "OPEN")
            => \E w \in Workers : eval[w].key = k /\ eval[w].was # "ACKNOWLEDGED"
<1>1. IInv /\ [Next]_vars => Kind
  <2> SUFFICES ASSUME IInv, [Next]_vars, NEW k \in Keys, alert[k] = "ACKNOWLEDGED",
                      alert'[k] = "OPEN"
               PROVE  \E w \in Workers : eval[w].key = k /\ eval[w].was # "ACKNOWLEDGED"
    OBVIOUS
  <2>1. alert' # alert /\ alert \in [Keys -> {"NONE", "RESOLVED"} \cup Standing]
    BY DEF IInv, BoardOK
  <2>2. Next
    BY <2>1 DEF vars, board
  <2>3. ASSUME NEW w \in Workers, Write(w)
        PROVE  eval[w].key = k /\ eval[w].was # "ACKNOWLEDGED"
    BY <2>1, <2>3 DEF Write, ObservedStatus
  <2>4. ASSUME NEW w \in Workers, NEW q \in Keys, Resolve(w, q) PROVE FALSE
    BY <2>1, <2>4 DEF Resolve
  <2>5. ASSUME NEW q \in Keys, Acknowledge(q) \/ Dismiss(q) PROVE FALSE
    BY <2>1, <2>5 DEF Acknowledge, Dismiss, UserSets
  <2>6. ASSUME NEW w \in Workers, Evaluate(w)
        PROVE  Write(w) \/ \E q \in Keys : Resolve(w, q)
    BY <2>1, <2>6 DEF Evaluate, Begin, Claim, Read, Compare, List, Find, Photograph, Complete,
                      Throws, Fail, GiveUp, board
  <2>7. \/ \E w \in Workers : Evaluate(w)
        \/ \E q \in Keys : Acknowledge(q) \/ Dismiss(q)
    BY <2>1, <2>2 DEF Next, Request, Check, Create, Add, Compensate, ApiDies, Reuse, Stall, Age,
                      Deliver, Crash, Boot, SweepStep, SweepRead, SweepWrite, SweepEnd,
                      SweepFails, FactsChange, board
  <2> QED
    BY <2>3, <2>4, <2>5, <2>6, <2>7
<1> QED
  BY <1>1, MonitoringInvariant, PTL DEF Spec, AcknowledgementStands

\* The start-up reconciliation fails a run only when it is active and past its
\* cutoff at that moment.
THEOREM SweepOnlyAbandonedAlways == Spec => SweepOnlyAbandoned
<1> DEFINE Abandoned == \A r \in Runs : (run'[r].swept /\ ~run[r].swept)
            => (run[r].status \in Active /\ run[r].old)
<1>1. IInv /\ [Next]_vars => Abandoned
  <2> SUFFICES ASSUME IInv, [Next]_vars, NEW r \in Runs, run'[r].swept, ~run[r].swept
               PROVE  run[r].status \in Active /\ run[r].old
    OBVIOUS
  <2>1. run \in [Runs -> Row] /\ run' # run
    BY DEF IInv, RunsOK
  <2>2. ASSUME NEW q \in Runs \cup {None}, NEW s \in {"QUEUED", "RUNNING", "COMPLETED", "FAILED"},
               SetStatus(q, s)
        PROVE  FALSE
    BY <2>1, <2>2 DEF SetStatus, Row
  <2>3. ASSUME NEW q \in Runs, Request(q) \/ Stall(q) \/ Age(q) PROVE FALSE
    <3>1. run' = run \/ Create(q) \/ Compensate(q) \/ Reuse(q) \/ Age(q)
      BY <2>3 DEF Request, Check, Add, ApiDies, Stall
    <3> QED
      BY <2>1, <2>2, <3>1 DEF Create, Compensate, Reuse, Age, NoRow, Row
  <2>4. ASSUME NEW w \in Workers, Evaluate(w) PROVE FALSE
    <3>1. eval[w].run \in Runs \cup {None}
      BY DEF IInv, EvalsOK, Evaluation
    <3>2. run' = run \/ Claim(w) \/ Complete(w) \/ Fail(w)
      BY <2>4 DEF Evaluate, Begin, Read, Compare, List, Find, Write, Resolve, Photograph, Throws,
                  GiveUp, table
    <3> QED
      BY <2>1, <2>2, <3>1, <3>2 DEF Claim, Complete, Fail
  <2>5. ASSUME NEW w \in Workers, NEW q \in Runs, SweepWrite(w, q)
        PROVE  run[r].status \in Active /\ run[r].old
    <3>1. q = r /\ run'[r] = Swept(run[r], sweep[w].found[r])
      BY <2>1, <2>5 DEF SweepWrite
    <3>2. StillThatRun(run[r], sweep[w].found[r])
      BY <3>1 DEF Swept
    <3>3. r \in DOMAIN sweep[w].found /\ sweep[w].found[r].status \in Active /\ run[r].old
      BY <2>5, <3>1 DEF SweepWrite, IInv, SweepsOK, IsSweep
    <3> QED
      BY <3>2, <3>3 DEF StillThatRun
  <2>6. CASE UNCHANGED vars
    BY <2>1, <2>6 DEF vars, table
  <2>7. CASE Next
    <3>1. ASSUME NEW w \in Workers,
                 Crash(w) \/ Boot(w) \/ SweepRead(w) \/ SweepEnd(w) \/ SweepFails(w)
          PROVE  FALSE
      BY <2>1, <3>1 DEF Crash, Boot, SweepRead, SweepEnd, SweepFails, table
    <3>2. ASSUME NEW w \in Workers, NEW q \in Runs, Deliver(w, q) PROVE FALSE
      BY <2>1, <3>2 DEF Deliver
    <3>3. ASSUME FactsChange \/ \E k \in Keys : Acknowledge(k) \/ Dismiss(k) PROVE FALSE
      BY <2>1, <3>3 DEF FactsChange, Acknowledge, Dismiss, UserSets, table
    <3> QED
      BY <2>3, <2>4, <2>5, <2>7, <3>1, <3>2, <3>3 DEF Next, SweepStep
  <2> QED
    BY <2>6, <2>7
<1> QED
  BY <1>1, MonitoringInvariant, PTL DEF Spec, SweepOnlyAbandoned
=============================================================================
