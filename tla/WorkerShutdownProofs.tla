------------------------ MODULE WorkerShutdownProofs ------------------------
(***************************************************************************)
(* What WorkerShutdown promises, for every number of workers and queues    *)
(* and whichever closes may throw.                                         *)
(***************************************************************************)
EXTENDS WorkerShutdown, TLAPS

\* A worker that is closed runs no job, the scheduler is stopped with the
\* first signal, a successful outcome is the one of a complete sequence, and
\* exit code 0 comes from a successful outcome.
Settled ==
    /\ \A w \in Workers : item[w] = "closed" => ~job[w]
    /\ at # 0 => batch.stopped
    /\ (result # None /\ result.ok) => \A i \in Items : item[i] = "closed"
    /\ exit = "zero" => (result # None /\ result.ok)

IInv == TypeOK /\ Settled

LEMMA ItemsAreNumbered ==
    /\ Database \in Nat /\ 1 \in Items /\ 1 \in Workers /\ Workers \subseteq Items
    /\ Database \notin Workers /\ Database \in Items /\ Items \subseteq Nat \ {0}
  BY ShutdownConstants DEF Database, Items, Workers

\* The first outcome is an outcome, whatever comes later.
LEMMA SnapshotType ==
    ASSUME NEW t \in BOOLEAN, NEW c \in SUBSET Items, NEW f \in SUBSET Items
    PROVE  /\ Snapshot(t, c, f) \in Result /\ Snapshot(t, c, f) # None
           /\ Snapshot(t, c, f).ok <=> (~t /\ f = {})
<1> DEFINE success == ~t /\ f = {}
<1>1. success \in BOOLEAN
  OBVIOUS
<1>2. Snapshot(t, c, f) = [ok |-> success, timedOut |-> t, closed |-> c, failed |-> f]
  BY DEF Snapshot
<1> HIDE DEF success
<1>3. Snapshot(t, c, f) \in Result /\ Snapshot(t, c, f).ok = success
  BY <1>1, <1>2 DEF Result
<1> QED
  BY <1>3, NoneIsNothingElse DEF success

LEMMA InitHolds == Init => IInv
  BY ItemsAreNumbered, NoneIsNothingElse DEF Init, IInv, TypeOK, Settled, State, Signals

\* The end of one close, successful or not, keeps types and the order of items.
LEMMA ProceedKeeps ==
    ASSUME IInv, NEW i \in Items, Running, at = i,
           NEW s \in {"closed", "failed"}, s = "closed" => Drained(i), Proceed(i, s)
    PROVE  IInv'
<1> DEFINE now == [item EXCEPT ![i] = s]
           all(t) == {j \in Items : now[j] = t}
<1>0. TypeOK /\ Settled /\ i \in Nat /\ Database \in Nat /\ i <= Database /\ i >= 1
  BY ItemsAreNumbered DEF IInv, Items
<1>1. now \in [Items -> State] /\ \A j \in Items : now[j] = IF j = i THEN s ELSE item[j]
  BY <1>0 DEF TypeOK, State
<1>2. CASE i = Database
  <2>1. item' = now /\ at' = Database + 1 /\ UNCHANGED <<job, batch, handler, exit>>
    BY <1>2 DEF Proceed
  <2>2. \A j \in Items : now[j] \in {"closed", "failed"}
    BY <1>0, <1>1, <1>2, ItemsAreNumbered DEF TypeOK, Items
  <2>3. /\ timer' = IF result = None THEN "cleared" ELSE timer
        /\ result' = FirstWins(Snapshot(FALSE, all("closed"), all("failed")))
    BY <1>2 DEF Proceed
  <2>4. /\ Snapshot(FALSE, all("closed"), all("failed")) \in Result \ {None}
        /\ Snapshot(FALSE, all("closed"), all("failed")).ok <=> all("failed") = {}
    BY SnapshotType
  <2>5. TypeOK'
    <3>1. /\ at' \in 0..(Database + 1) /\ item' \in [Items -> State]
          /\ \A j \in Items : /\ j < at' => item'[j] \in {"closed", "failed"}
                              /\ j = at' => item'[j] = "closing"
                              /\ j > at' => item'[j] = "open"
      BY <2>1, <2>2, <1>0, <1>1 DEF Items
    <3>2. /\ result' \in Result \cup {None} /\ result' # None
          /\ timer' \in {"fired", "cleared"}
      BY <2>3, <2>4, <1>0 DEF FirstWins, TypeOK
    <3> QED
      BY <3>1, <3>2, <2>1, <1>0 DEF TypeOK
  <2>6. Settled'
    <3>1. \A w \in Workers : item'[w] = "closed" => ~job'[w]
      BY <2>1, <1>0, <1>1, <1>2, ItemsAreNumbered DEF Settled
    <3>2. at' # 0 => batch'.stopped
      BY <2>1, <1>0, <1>2 DEF Settled
    <3>3. (result' # None /\ result'.ok) => \A j \in Items : item'[j] = "closed"
      <4>1. CASE result = None
        BY <4>1, <2>1, <2>2, <2>3, <2>4 DEF FirstWins
      <4>2. CASE result # None
        BY <4>2, <2>3, <1>0, <1>2, ItemsAreNumbered DEF FirstWins, Settled, TypeOK
      <4> QED BY <4>1, <4>2
    <3>4. exit' = "zero" => (result' # None /\ result'.ok)
      BY <2>1, <2>3, <1>0 DEF FirstWins, Settled
    <3> QED
      BY <3>1, <3>2, <3>3, <3>4 DEF Settled
  <2> QED
    BY <2>5, <2>6 DEF IInv
<1>3. CASE i # Database
  <2>1. /\ item' = [now EXCEPT ![i + 1] = "closing"] /\ at' = i + 1 /\ i + 1 \in Items
        /\ UNCHANGED <<job, batch, handler, exit, timer, result>>
    BY <1>0, <1>3 DEF Proceed, Items
  <2>2. /\ item' \in [Items -> State]
        /\ \A j \in Items : item'[j] = IF j = i THEN s ELSE IF j = i + 1 THEN "closing" ELSE item[j]
    BY <2>1, <1>0, <1>1 DEF State
  <2>3. TypeOK'
    <3>1. \A j \in Items : /\ j < at' => item'[j] \in {"closed", "failed"}
                           /\ j = at' => item'[j] = "closing"
                           /\ j > at' => item'[j] = "open"
      BY <2>1, <2>2, <1>0 DEF TypeOK, Items
    <3> QED
      BY <3>1, <2>1, <2>2, <1>0, <1>3 DEF TypeOK, Items
  <2>4. Settled'
    <3>1. \A w \in Workers : item'[w] = "closed" => ~job'[w]
      BY <2>1, <2>2, <1>0, ItemsAreNumbered DEF Settled, Drained
    <3>2. ~(result # None /\ result.ok)
      BY <1>0 DEF Settled, TypeOK
    <3>3. batch'.stopped /\ result' = result /\ exit' = exit
      BY <2>1, <1>0 DEF Settled
    <3>4. exit' # "zero"
      BY <3>2, <3>3, <1>0 DEF Settled
    <3> QED
      BY <3>1, <3>2, <3>3, <3>4 DEF Settled
  <2> QED
    BY <2>3, <2>4 DEF IInv
<1> QED
  BY <1>2, <1>3

LEMMA NextKeeps == IInv /\ [Next]_vars => IInv'
<1> SUFFICES ASSUME IInv, [Next]_vars PROVE IInv'
  OBVIOUS
<1>0. TypeOK /\ Settled
  BY DEF IInv
<1>1. ASSUME NEW w \in Workers, TakeJob(w) PROVE IInv'
  BY <1>0, <1>1 DEF TakeJob, IInv, TypeOK, Settled
<1>2. ASSUME NEW w \in Workers, JobEnds(w) PROVE IInv'
  BY <1>0, <1>2 DEF JobEnds, IInv, TypeOK, Settled
<1>3. CASE Tick \/ BatchEnds
  BY <1>0, <1>3, ZenonT(60) DEF Tick, BatchEnds, IInv, TypeOK, Settled
<1>4. ASSUME NEW s \in Signals, Begin(s) PROVE IInv'
  <2>1. /\ at' = 1 /\ item' \in [Items -> State] /\ item'[1] = "closing"
        /\ \A j \in Items : j # 1 => item'[j] = "open"
    BY <1>0, <1>4, ItemsAreNumbered DEF Begin, TypeOK, State
  <2>2. TypeOK'
    <3>1. /\ at' \in 0..(Database + 1)
          /\ \A j \in Items : /\ j < at' => item'[j] \in {"closed", "failed"}
                              /\ j = at' => item'[j] = "closing"
                              /\ j > at' => item'[j] = "open"
      BY <2>1, ItemsAreNumbered DEF Items
    <3>2. batch' \in [running : BOOLEAN, stopped : BOOLEAN]
          /\ handler' \in [Signals -> {"armed", "waiting"}]
      BY <1>0, <1>4 DEF Begin, TypeOK
    <3>3. result' = None /\ timer' = "armed" /\ at' # 0 /\ UNCHANGED <<job, exit>>
      BY <2>1, <1>0, <1>4 DEF Begin, TypeOK
    <3> QED
      BY <3>1, <3>2, <3>3, <2>1, <1>0 DEF TypeOK
  <2>3. result = None
    BY <1>0, <1>4 DEF Begin, TypeOK
  <2>4. Settled'
    BY <2>1, <2>3, <1>0, <1>4, ItemsAreNumbered DEF Begin, Settled, TypeOK
  <2> QED
    BY <2>2, <2>4 DEF IInv
<1>5. ASSUME NEW s \in Signals, Join(s) \/ Again(s) \/ Exit(s) PROVE IInv'
  BY <1>0, <1>5, NoneIsNothingElse DEF Join, Again, Exit, IInv, TypeOK, Settled
<1>6. ASSUME NEW i \in Items, Closed(i) \/ CloseFails(i) PROVE IInv'
  BY <1>6, ProceedKeeps DEF Closed, CloseFails
<1>7. CASE Deadline
  <2>1. Snapshot(TRUE, With("closed"), With("failed")) \in Result \ {None}
        /\ ~Snapshot(TRUE, With("closed"), With("failed")).ok
    BY SnapshotType DEF With
  <2>2. result = None
    BY <1>0, <1>7 DEF Deadline, TypeOK
  <2> QED
    BY <2>1, <2>2, <1>0, <1>7 DEF Deadline, FirstWins, IInv, TypeOK, Settled
<1>8. CASE UNCHANGED vars
  BY <1>0, <1>8 DEF vars, IInv, TypeOK, Settled
<1> QED
  BY <1>1, <1>2, <1>3, <1>4, <1>5, <1>6, <1>7, <1>8 DEF Next

THEOREM ShutdownInvariant == Spec => []IInv
  BY InitHolds, NextKeeps, PTL DEF Spec

\* The state of a shutdown is well formed (shutdownWorkerRuntime).
THEOREM ShutdownTypes == Spec => []TypeOK
  BY ShutdownInvariant, PTL DEF IInv

\* A job keeps the queue handles and the database client it uses until it has
\* ended, whichever worker it runs on (the order of closeSequence).
THEOREM JobsKeepTheirClientsAlways == Spec => []JobsKeepTheirClients
<1>1. IInv => JobsKeepTheirClients
  <2> SUFFICES ASSUME IInv, NEW w \in Workers, job[w], item[w] # "failed",
                      NEW i \in Items \ Workers
               PROVE  item[i] = "open"
    BY DEF JobsKeepTheirClients
  <2>1. item[w] # "closed"
    BY DEF IInv, Settled
  <2>2. w \in Items /\ w >= at /\ at \in Nat /\ w \in Nat
    BY <2>1, ItemsAreNumbered DEF IInv, TypeOK
  <2>3. i > w
    BY ShutdownConstants DEF Items, Workers, Database
  <2> QED
    BY <2>2, <2>3, ItemsAreNumbered DEF IInv, TypeOK
<1> QED
  BY <1>1, ShutdownInvariant, PTL

\* The process exits with code 0 only after a complete and undisturbed
\* shutdown (handleShutdown).
THEOREM CleanExitAlways == Spec => []CleanExit
<1>1. IInv => CleanExit
  <2> SUFFICES ASSUME IInv, exit = "zero"
               PROVE  /\ \A i \in Items : item[i] = "closed"
                      /\ \A w \in Workers : ~job[w]
                      /\ batch.stopped
    BY DEF CleanExit
  <2>1. \A i \in Items : item[i] = "closed"
    BY DEF IInv, Settled
  <2>2. at # 0
    BY <2>1, ItemsAreNumbered DEF IInv, TypeOK
  <2> QED
    BY <2>1, <2>2, ItemsAreNumbered DEF IInv, Settled
<1> QED
  BY <1>1, ShutdownInvariant, PTL

\* The first outcome is final (settled in shutdownWorkerRuntime).
THEOREM OutcomeIsFinalAlways == Spec => OutcomeIsFinal
<1>1. [Next]_vars => (result # None => result' = result)
  BY DEF Next, vars, TakeJob, JobEnds, Tick, BatchEnds, Begin, Join, Again, Exit, Closed,
         CloseFails, Proceed, Deadline, FirstWins
<1> QED
  BY <1>1, PTL DEF Spec, OutcomeIsFinal
=============================================================================
