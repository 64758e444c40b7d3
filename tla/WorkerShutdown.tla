---------------------------- MODULE WorkerShutdown --------------------------
(***************************************************************************)
(* The end of a worker process: SIGTERM or SIGINT starts one shutdown,     *)
(* which stops the reconciliation timer, closes the BullMQ workers one     *)
(* after the other, then the queue handles, then the database client,      *)
(* while a deadline runs.  The process exits with the first outcome.       *)
(*                                                                         *)
(* What is closed is numbered in the order of closing: the workers, the    *)
(* queues, the database client.                                            *)
(***************************************************************************)
EXTENDS Naturals

CONSTANTS
    NWorkers, NQueues,  \* 4 and 5 in the worker
    MayThrow,           \* the items whose close may throw
    None

ASSUME ShutdownConstants ==
    /\ NWorkers \in Nat \ {0} /\ NQueues \in Nat
    /\ MayThrow \subseteq 1..(NWorkers + NQueues + 1)

Workers == 1..NWorkers
Database == NWorkers + NQueues + 1
Items == 1..Database
Signals == {"SIGTERM", "SIGINT"}

VARIABLES
    at,       \* the item being closed; 0 before the first signal, Database + 1
              \* when the sequence is over
    item,     \* the state of each item
    job,      \* whether a worker runs a job
    batch,    \* the reconciliation scheduler and the batch it may have in flight
    timer,    \* the deadline
    result,   \* what shutdownWorkerRuntime resolves with
    handler,  \* what has come of each signal
    exit      \* the exit code of the process, in words, or "killed"

vars == <<at, item, job, batch, timer, result, handler, exit>>

State == {"open", "closing", "closed", "failed"}
Result == [ok : BOOLEAN, timedOut : BOOLEAN, closed : SUBSET Items, failed : SUBSET Items]

ASSUME NoneIsNothingElse == None \notin Result /\ None \notin {"zero", "one", "killed"}

With(state) == {i \in Items : item[i] = state}

Init ==
    /\ at = 0
    /\ item = [i \in Items |-> "open"]
    /\ job = [w \in Workers |-> FALSE]
    /\ batch = [running |-> FALSE, stopped |-> FALSE]
    /\ timer = "off"
    /\ result = None
    /\ handler = [s \in Signals |-> "armed"]
    /\ exit = None

Running == exit = None
-----------------------------------------------------------------------------
(* Jobs and reconciliation batches.                                         *)

\* A worker takes jobs until its own close is called.
TakeJob(w) ==
    /\ Running /\ item[w] = "open" /\ ~job[w]
    /\ job' = [job EXCEPT ![w] = TRUE]
    /\ UNCHANGED <<at, item, batch, timer, result, handler, exit>>

JobEnds(w) ==
    /\ Running /\ job[w]
    /\ job' = [job EXCEPT ![w] = FALSE]
    /\ UNCHANGED <<at, item, batch, timer, result, handler, exit>>

\* A tick of the scheduler starts a batch unless one runs or it was stopped.
Tick ==
    /\ Running /\ ~batch.running /\ ~batch.stopped
    /\ batch' = [batch EXCEPT !.running = TRUE]
    /\ UNCHANGED <<at, item, job, timer, result, handler, exit>>

BatchEnds ==
    /\ Running /\ batch.running
    /\ batch' = [batch EXCEPT !.running = FALSE]
    /\ UNCHANGED <<at, item, job, timer, result, handler, exit>>
-----------------------------------------------------------------------------
(* Signals.                                                                 *)

\* The first signal arms the deadline, stops the scheduler and calls the close
\* of the first worker, in one turn of the event loop.
Begin(s) ==
    /\ Running /\ handler[s] = "armed" /\ at = 0
    /\ handler' = [handler EXCEPT ![s] = "waiting"]
    /\ at' = 1 /\ item' = [item EXCEPT ![1] = "closing"]
    /\ timer' = "armed" /\ batch' = [batch EXCEPT !.stopped = TRUE]
    /\ UNCHANGED <<job, result, exit>>

\* The other signal waits for the same promise.
Join(s) ==
    /\ Running /\ handler[s] = "armed" /\ at # 0
    /\ handler' = [handler EXCEPT ![s] = "waiting"]
    /\ UNCHANGED <<at, item, job, batch, timer, result, exit>>

\* Each handler is installed once: the same signal again ends the process.
Again(s) ==
    /\ Running /\ handler[s] = "waiting"
    /\ exit' = "killed"
    /\ UNCHANGED <<at, item, job, batch, timer, result, handler>>

Exit(s) ==
    /\ Running /\ handler[s] = "waiting" /\ result # None
    /\ exit' = IF result.ok THEN "zero" ELSE "one"
    /\ UNCHANGED <<at, item, job, batch, timer, result, handler>>
-----------------------------------------------------------------------------
(* The shutdown.                                                            *)

\* Mutant: the deadline is not a failure.
SnapshotIgnoringTime(timedOut, closed, failed) ==
    [ok |-> failed = {}, timedOut |-> timedOut, closed |-> closed, failed |-> failed]

\* What has been closed and what has failed so far.
Snapshot(timedOut, closed, failed) ==
    [ok |-> ~timedOut /\ failed = {}, timedOut |-> timedOut, closed |-> closed, failed |-> failed]

\* The first outcome settles the promise, later ones are dropped.
FirstWins(outcome) == IF result = None THEN outcome ELSE result

\* Mutant: queue handles and the database are closed beside the last worker.
NotDraining(i) == TRUE

\* A worker is closed when its job has ended; a close may also never return.
Drained(i) == i \in Workers => ~job[i]

\* The close of the current item has returned or thrown: the next one is called, and
\* after the last one the sequence ends.
Proceed(i, state) ==
    LET now == [item EXCEPT ![i] = state]
        all(s) == {j \in Items : now[j] = s}
    IN /\ at' = i + 1
       /\ IF i = Database
          THEN /\ item' = now /\ timer' = IF result = None THEN "cleared" ELSE timer
               /\ result' = FirstWins(Snapshot(FALSE, all("closed"), all("failed")))
          ELSE /\ item' = [now EXCEPT ![i + 1] = "closing"]
               /\ UNCHANGED <<timer, result>>
       /\ UNCHANGED <<job, batch, handler, exit>>

Closed(i) == Running /\ at = i /\ Drained(i) /\ Proceed(i, "closed")
CloseFails(i) == Running /\ i \in MayThrow /\ at = i /\ Proceed(i, "failed")

\* Mutant: the deadline is forgotten once the last worker is closed.
WhileWorkersClose == at \in Workers

\* The deadline holds from the first signal to the end of the sequence.
Bounded == timer = "armed"

Deadline ==
    /\ Running /\ timer = "armed" /\ Bounded
    /\ timer' = "fired"
    /\ result' = FirstWins(Snapshot(TRUE, With("closed"), With("failed")))
    /\ UNCHANGED <<at, item, job, batch, handler, exit>>

Next ==
    \/ \E w \in Workers : TakeJob(w) \/ JobEnds(w)
    \/ Tick \/ BatchEnds
    \/ \E s \in Signals : Begin(s) \/ Join(s) \/ Again(s) \/ Exit(s)
    \/ \E i \in Items : Closed(i) \/ CloseFails(i)
    \/ Deadline

Spec == Init /\ [][Next]_vars

\* Time passes and a settled promise resumes its handlers.  Nothing is assumed
\* of jobs and of the calls that close something: they may hang.
Fairness ==
    /\ WF_vars(Deadline)
    /\ \A s \in Signals : WF_vars(Exit(s))

FairSpec == Spec /\ Fairness
-----------------------------------------------------------------------------
(* Properties.                                                              *)

\* Types: items before the current one are done with, the ones after it are
\* open; the deadline is armed until there is an outcome (shutdownWorkerRuntime).
TypeOK ==
    /\ at \in 0..(Database + 1)
    /\ item \in [Items -> State]
    /\ \A i \in Items : /\ i < at => item[i] \in {"closed", "failed"}
                        /\ i = at => item[i] = "closing"
                        /\ i > at => item[i] = "open"
    /\ job \in [Workers -> BOOLEAN]
    /\ batch \in [running : BOOLEAN, stopped : BOOLEAN]
    /\ timer \in {"off", "armed", "fired", "cleared"}
    /\ timer = "off" <=> at = 0
    /\ result \in Result \cup {None}
    /\ result # None <=> timer \in {"fired", "cleared"}
    /\ handler \in [Signals -> {"armed", "waiting"}]
    /\ exit \in {None, "zero", "one", "killed"}

\* A job that runs keeps the queue handles and the database client it uses,
\* unless the close of its worker threw (docs/WORKER_QUEUE_OPERATIONAL_
\* RELIABILITY.md, Graceful Shutdown: the order of closing).
JobsKeepTheirClients ==
    \A w \in Workers : (job[w] /\ item[w] # "failed")
        => \A i \in Items \ Workers : item[i] = "open"

\* Exit code 0 means that everything was closed, that no job was cut off and
\* that no batch will be started (handleShutdown, the ok of the snapshot).
CleanExit ==
    exit = "zero" => /\ \A i \in Items : item[i] = "closed"
                     /\ \A w \in Workers : ~job[w]
                     /\ batch.stopped

\* The outcome the handlers see is the first one: a sequence that comes to its
\* end after the deadline does not turn a timeout into a success.
OutcomeIsFinal == [][result # None => result' = result]_vars

\* After a signal the process exits, even if jobs and closes hang.
SignalEndsProcess == \A s \in Signals : handler[s] = "waiting" ~> exit # None
=============================================================================
