----------------------------- MODULE CheckQueue -----------------------------
(***************************************************************************)
(* The script-check thread pool of checkqueue.h: CCheckQueue<T> and its    *)
(* RAII guard CCheckQueueControl<T>.                                       *)
(*                                                                         *)
(* A master (ConnectBlock) takes the ControlMutex, pushes batches of       *)
(* checks, and then joins the pool in Wait() until every check is done.    *)
(* Workers run Loop() for the life of the process.  Every critical section *)
(* on the inner `mutex' is one action, because Loop() holds the mutex from *)
(* its acquisition to the batch hand-over or to cond.wait().               *)
(*                                                                         *)
(* Abstractions.  A check is a model value; Valid holds the checks whose   *)
(* operator() returns true.  The code keeps the queue as a LIFO vector and *)
(* says that its order does not matter, so a batch is any nNow of the      *)
(* queued checks.  fQuit is never set by the code and is left out.         *)
(***************************************************************************)
EXTENDS Integers, FiniteSets

CONSTANTS
    Workers,      \* threads running ThreadScriptCheck
    Masters,      \* threads that may construct a CCheckQueueControl
    Checks,       \* the verifications a session may add
    Valid,        \* the checks that succeed
    nBatchSize,   \* most checks handed out at once (128 in main.cpp)
    NoThread      \* the ControlMutex is free

ASSUME CheckQueueAssumption ==
    /\ IsFiniteSet(Workers) /\ IsFiniteSet(Masters) /\ IsFiniteSet(Checks)
    /\ Workers \cap Masters = {}
    /\ NoThread \notin Workers \cup Masters
    /\ Valid \subseteq Checks
    /\ nBatchSize \in Nat \ {0}

VARIABLES
    queue,        \* checks not handed out yet
    nTodo,        \* checks added and not accounted for by a clean-up
    nTotal,       \* threads inside Loop, master included
    nIdle,        \* threads inside cond.wait
    fAllOk,       \* the evaluation result so far
    vChecks,      \* the batch each thread holds
    fOk,          \* the local result of each thread's batch
    pc,           \* where each thread is
    control,      \* owner of ControlMutex
    call,         \* whether a master's Loop was called by Wait() or ~CCheckQueueControl
    verdict,      \* what the last explicit Wait() of a master returned
    intr,         \* boost interruption: none, pending or already thrown
    terminated,   \* std::terminate was called
    addedChecks         \* history: the checks added under the current control

vars == <<queue, nTodo, nTotal, nIdle, fAllOk, vChecks, fOk, pc, control, call,
          verdict, intr, terminated, addedChecks>>

Threads == Workers \cup Masters

\* start: about to enter Loop; waiting/woken: inside cond.wait, not yet or
\* already signalled; exec: running a batch; done: batch run, not cleaned up.
LoopStates == {"start", "waiting", "woken", "exec", "done"}
WorkerStates == LoopStates \cup {"exited"}
MasterStates == LoopStates \cup {"idle", "adding", "returned"}

Init ==
    /\ queue = {} /\ nTodo = 0 /\ nTotal = 0 /\ nIdle = 0 /\ fAllOk = TRUE
    /\ vChecks = [t \in Threads |-> {}]
    /\ fOk = [t \in Threads |-> TRUE]
    /\ pc = [t \in Threads |-> IF t \in Workers THEN "start" ELSE "idle"]
    /\ control = NoThread
    /\ call = [m \in Masters |-> "Wait"]
    /\ verdict = [m \in Masters |-> TRUE]
    /\ intr = [t \in Threads |-> "none"]
    /\ terminated = FALSE
    /\ addedChecks = {}

-----------------------------------------------------------------------------
(* Condition variables. *)

Waiting(S) == {t \in S : pc[t] = "waiting"}

\* notify_one on the condition the threads of S block on: the sets of threads
\* that one call may wake.
NotifyOne(S) == IF Waiting(S) = {} THEN {{}} ELSE {{t} : t \in Waiting(S)}

NotifyAll(S) == {Waiting(S)}

\* The threads of W leave cond.wait as soon as they get the mutex back.
Wake(W) == [t \in Threads |-> IF t \in W THEN "woken" ELSE pc[t]]

\* A condition variable may wake a waiter nobody signalled.
SpuriousWakeup(t) ==
    /\ pc[t] = "waiting"
    /\ pc' = [pc EXCEPT ![t] = "woken"]
    /\ UNCHANGED <<queue, nTodo, nTotal, nIdle, fAllOk, vChecks, fOk, control,
                   call, verdict, intr, terminated, addedChecks>>

-----------------------------------------------------------------------------
(* The master's side: CCheckQueueControl. *)

\* CCheckQueueControl(pqueue): take the ControlMutex.
Construct(m) ==
    /\ pc[m] = "idle"
    /\ control = NoThread
    /\ control' = m
    /\ pc' = [pc EXCEPT ![m] = "adding"]
    /\ addedChecks' = {}
    /\ UNCHANGED <<queue, nTodo, nTotal, nIdle, fAllOk, vChecks, fOk, call,
                   verdict, intr, terminated>>

\* Add(vChecks): one worker is woken for one check, all of them for more.
Add(m, S) ==
    /\ pc[m] = "adding"
    /\ S # {}
    /\ queue' = queue \cup S
    /\ nTodo' = nTodo + Cardinality(S)
    /\ \E W \in IF Cardinality(S) = 1 THEN NotifyOne(Workers) ELSE NotifyAll(Workers) :
          pc' = Wake(W)
    /\ addedChecks' = addedChecks \cup S
    /\ UNCHANGED <<nTotal, nIdle, fAllOk, vChecks, fOk, control, call, verdict,
                   intr, terminated>>

\* The explicit Wait(), or the one ~CCheckQueueControl makes when ConnectBlock
\* returns before it reached its own.
CallWait(m, by) ==
    /\ pc[m] = "adding"
    /\ pc' = [pc EXCEPT ![m] = "start"]
    /\ call' = [call EXCEPT ![m] = by]
    /\ UNCHANGED <<queue, nTodo, nTotal, nIdle, fAllOk, vChecks, fOk, control,
                   verdict, intr, terminated, addedChecks>>

\* ~CCheckQueueControl after an explicit Wait(): fDone, so only release.
Destruct(m) ==
    /\ pc[m] = "returned"
    /\ pc' = [pc EXCEPT ![m] = "idle"]
    /\ control' = NoThread
    /\ UNCHANGED <<queue, nTodo, nTotal, nIdle, fAllOk, vChecks, fOk, call,
                   verdict, intr, terminated, addedChecks>>

-----------------------------------------------------------------------------
(* Loop(): the critical section, from taking the mutex to releasing it.    *)
(* The first four operators are the values the clean-up of the previous    *)
(* iteration (or the first iteration, or cond.wait's return) leaves.       *)

\* Variant: the local result overwrites fAllOk instead of being and-ed in.
AllOkNow_Overwrites(t) == IF pc[t] = "done" THEN fOk[t] ELSE fAllOk

AllOkNow(t) == IF pc[t] = "done" THEN fAllOk /\ fOk[t] ELSE fAllOk

TodoNow(t) == IF pc[t] = "done" THEN nTodo - Cardinality(vChecks[t]) ELSE nTodo

TotalNow(t) == IF pc[t] = "start" THEN nTotal + 1 ELSE nTotal

IdleNow(t) == IF pc[t] = "woken" THEN nIdle - 1 ELSE nIdle

\* Variant: condMaster is never notified.
NotifiedMasters_None(t) == {{}}

\* A worker that cleaned up the last check notifies condMaster.
NotifiedMasters(t) ==
    IF pc[t] = "done" /\ TodoNow(t) = 0 /\ t \in Workers
    THEN NotifyOne(Masters) ELSE {{}}

\* cond.wait ends in an interruption point: a woken thread with a pending
\* interruption throws instead of going on.
CanEnter(t) == pc[t] \in {"start", "done"} \/ (pc[t] = "woken" /\ intr[t] # "pending")

\* queue.empty() and nothing left to do: the master leaves Loop.  From the
\* destructor it then releases the ControlMutex and drops the result.
Return(m) ==
    /\ CanEnter(m)
    /\ queue = {} /\ TodoNow(m) = 0
    /\ nTodo' = TodoNow(m)
    /\ nTotal' = TotalNow(m) - 1
    /\ nIdle' = IdleNow(m)
    /\ fAllOk' = TRUE
    /\ vChecks' = [vChecks EXCEPT ![m] = {}]
    /\ fOk' = [fOk EXCEPT ![m] = TRUE]
    /\ IF call[m] = "Wait"
       THEN /\ verdict' = [verdict EXCEPT ![m] = AllOkNow(m)]
            /\ pc' = [pc EXCEPT ![m] = "returned"]
            /\ UNCHANGED control
       ELSE /\ pc' = [pc EXCEPT ![m] = "idle"]
            /\ control' = NoThread
            /\ UNCHANGED verdict
    /\ UNCHANGED <<queue, call, intr, terminated, addedChecks>>

\* queue.empty() but checks are still out: block on the condition.
Block(t) ==
    /\ CanEnter(t)
    /\ queue = {} /\ ~(t \in Masters /\ TodoNow(t) = 0)
    /\ fAllOk' = AllOkNow(t)
    /\ nTodo' = TodoNow(t)
    /\ nTotal' = TotalNow(t)
    /\ nIdle' = IdleNow(t) + 1
    /\ vChecks' = [vChecks EXCEPT ![t] = {}]
    /\ fOk' = [fOk EXCEPT ![t] = TRUE]
    /\ \E W \in NotifiedMasters(t) : pc' = [Wake(W) EXCEPT ![t] = "waiting"]
    /\ UNCHANGED <<queue, control, call, verdict, intr, terminated, addedChecks>>

\* Between one check and nBatchSize of them, aiming at an even spread.
nNow(t) ==
    LET share == Cardinality(queue) \div (TotalNow(t) + IdleNow(t) + 1)
        capped == IF share < nBatchSize THEN share ELSE nBatchSize
    IN IF capped < 1 THEN 1 ELSE capped

\* Take a batch; the result so far decides whether its checks run at all.
TakeBatch(t, S) ==
    /\ CanEnter(t)
    /\ queue # {}
    /\ Cardinality(S) = nNow(t)
    /\ queue' = queue \ S
    /\ fAllOk' = AllOkNow(t)
    /\ nTodo' = TodoNow(t)
    /\ nTotal' = TotalNow(t)
    /\ nIdle' = IdleNow(t)
    /\ vChecks' = [vChecks EXCEPT ![t] = S]
    /\ fOk' = [fOk EXCEPT ![t] = AllOkNow(t)]
    /\ \E W \in NotifiedMasters(t) : pc' = [Wake(W) EXCEPT ![t] = "exec"]
    /\ UNCHANGED <<control, call, verdict, intr, terminated, addedChecks>>

\* Run the batch, outside the mutex; a failure skips the rest of it.
Execute(t) ==
    /\ pc[t] = "exec"
    /\ fOk' = [fOk EXCEPT ![t] = fOk[t] /\ vChecks[t] \subseteq Valid]
    /\ pc' = [pc EXCEPT ![t] = "done"]
    /\ UNCHANGED <<queue, nTodo, nTotal, nIdle, fAllOk, vChecks, control, call,
                   verdict, intr, terminated, addedChecks>>

-----------------------------------------------------------------------------
(* Shutdown: Interrupt() calls threadGroup.interrupt_all(). *)

Interrupt(t) ==
    /\ intr[t] = "none"
    /\ intr' = [intr EXCEPT ![t] = "pending"]
    /\ UNCHANGED <<queue, nTodo, nTotal, nIdle, fAllOk, vChecks, fOk, pc, control,
                   call, verdict, terminated, addedChecks>>

\* cond.wait throws thread_interrupted; nIdle-- and nTotal-- are skipped.  The
\* exception ends a worker.  In a master it leaves Wait() and the destructor of
\* the control calls Wait() again; thrown inside that (noexcept) destructor it
\* terminates the process.
ThrowInterrupted(t) ==
    /\ pc[t] \in {"waiting", "woken"}
    /\ intr[t] = "pending"
    /\ intr' = [intr EXCEPT ![t] = "thrown"]
    /\ \/ /\ t \in Workers
          /\ pc' = [pc EXCEPT ![t] = "exited"]
          /\ UNCHANGED <<call, terminated>>
       \/ /\ t \in Masters /\ call[t] = "Wait"
          /\ pc' = [pc EXCEPT ![t] = "start"]
          /\ call' = [call EXCEPT ![t] = "Destroy"]
          /\ UNCHANGED terminated
       \/ /\ t \in Masters /\ call[t] = "Destroy"
          /\ terminated' = TRUE
          /\ UNCHANGED <<pc, call>>
    /\ UNCHANGED <<queue, nTodo, nTotal, nIdle, fAllOk, vChecks, fOk, control,
                   verdict, addedChecks>>

-----------------------------------------------------------------------------
LoopStep(t) ==
    \/ t \in Masters /\ Return(t)
    \/ Block(t)
    \/ \E S \in SUBSET queue : TakeBatch(t, S)
    \/ Execute(t)
    \/ ThrowInterrupted(t)

MasterStep(m) ==
    \/ Construct(m)
    \/ \E S \in SUBSET (Checks \ addedChecks) : Add(m, S)
    \/ \E by \in {"Wait", "Destroy"} : CallWait(m, by)
    \/ Destruct(m)

Environment(t) == SpuriousWakeup(t) \/ Interrupt(t)

\* std::terminate ends the process: nothing happens any more.
Halted == terminated /\ UNCHANGED vars

Next ==
    \/ /\ ~terminated
       /\ \/ \E m \in Masters : MasterStep(m)
          \/ \E t \in Threads : LoopStep(t) \/ Environment(t)
    \/ Halted

Spec == Init /\ [][Next]_vars

\* The operating system runs every thread that can run, and a batch of script
\* checks ends; nothing is assumed of interruptions or of new sessions.
FairSpec ==
    /\ Spec
    /\ \A t \in Threads : WF_vars(~terminated /\ LoopStep(t))

-----------------------------------------------------------------------------
(* Properties. *)

(* Shape of the state; every thread of CCheckQueue is at a place of the     *)
(* loop it runs: Thread for a worker, Wait for a master.                    *)
TypeOK ==
    /\ queue \in SUBSET Checks
    /\ nTodo \in Int /\ nTotal \in Int /\ nIdle \in Int
    /\ fAllOk \in BOOLEAN
    /\ vChecks \in [Threads -> SUBSET Checks]
    /\ fOk \in [Threads -> BOOLEAN]
    /\ pc \in [Threads -> WorkerStates \cup MasterStates]
    /\ \A w \in Workers : pc[w] \in WorkerStates
    /\ \A m \in Masters : pc[m] \in MasterStates
    /\ control \in Masters \cup {NoThread}
    /\ call \in [Masters -> {"Wait", "Destroy"}]
    /\ verdict \in [Masters -> BOOLEAN]
    /\ intr \in [Threads -> {"none", "pending", "thrown"}]
    /\ terminated \in BOOLEAN
    /\ addedChecks \in SUBSET Checks

\* The checks some thread holds or the queue still has.
Outstanding == queue \cup UNION {vChecks[t] : t \in Threads}

\* Wait() tells ConnectBlock the truth: it returns true exactly when every
\* check added under this control is valid, whoever ran it and in whatever
\* order the workers merged their results into fAllOk.
VerdictIsExact ==
    \A m \in Masters : pc[m] = "returned" => (verdict[m] <=> addedChecks \subseteq Valid)

\* "guarantees the passed queue is finished before continuing": whenever the
\* ControlMutex is free, also after an early return of ConnectBlock or an
\* interrupted Wait(), no check is queued or held by a thread, and the result
\* of the last session is not left for the next one.
CleanBetweenSessions ==
    control = NoThread => /\ Outstanding = {}
                          /\ nTodo = 0
                          /\ fAllOk

\* nTodo is unsigned and is counted down by threads other than the one that
\* counted it up: it is always the number of checks not accounted for, so it
\* neither wraps below zero nor reaches zero early.
TodoIsExact == nTodo = Cardinality(Outstanding)

\* A blocked master is always waiting for some other thread that holds a batch
\* and will notify it: the notification of condMaster cannot be lost.
MasterWaitsForSomeone ==
    \A m \in Masters : pc[m] = "waiting" =>
        \E t \in Threads \ {m} : pc[t] \in {"exec", "done"} /\ vChecks[t] # {}

\* Wait() returns, with or without workers and through an interrupted pool,
\* unless the process terminates.
WaitReturns ==
    \A m \in Masters : pc[m] = "start" ~> (pc[m] \in {"returned", "idle"} \/ terminated)
=============================================================================
