---------------------------- MODULE AsyncRPCQueue ----------------------------
(***************************************************************************)
(* The queue of asynchronous wallet operations (asyncrpcqueue.cpp) with    *)
(* its operations (asyncrpcoperation.cpp) and everyone who touches them:   *)
(*   - workers in AsyncRPCQueue::run;                                      *)
(*   - RPC and notification threads that submit operations, collect the    *)
(*     results of finished ones (z_getoperationresult) and replace the     *)
(*     pending Sapling migration (RunSaplingMigration), each under         *)
(*     LOCK2(cs_main, cs_wallet);                                          *)
(*   - the thread that stops the queue with closeAndWait (StopRPC) or      *)
(*     finishAndWait.                                                      *)
(* closed_, finish_ and every operation's state_ are atomics read and      *)
(* written outside lock_, so each access of them is a step of its own.     *)
(***************************************************************************)
EXTENDS Naturals, Sequences, Functions

CONSTANTS Ops, Workers, Users, Nobody

(* The thread that calls closeAndWait or finishAndWait. *)
Stopper == "stopper"

(* StartRPC adds at least one worker. *)
ASSUME AsyncRPCAssumption ==
    /\ Workers # {} /\ Workers \cap Users = {}
    /\ Nobody \notin Ops \cup Workers \cup Users \cup {Stopper}
    /\ Stopper \notin Workers \cup Users

VARIABLES
    closed,      \* closed_
    finish,      \* finish_
    lock,        \* holder of AsyncRPCQueue::lock_
    opMap,       \* ids in operation_map_
    queue,       \* operation_id_queue_
    state,       \* AsyncRPCOperation::state_, "unborn" before the constructor
    wpc, cur,    \* a worker's place in run() and its `operation'
    wlock,       \* holder of cs_main and cs_wallet
    upc, ids,    \* a user's place in its call, and the ids it has yet to visit
    target,      \* the operation a user's call is at
    migration,   \* CWallet::saplingMigrationOperationId
    spc, toCancel, armed, \* the stopper, inside close() between isReady and set_state
    accepted,    \* history: operations addOperation put into the queue
    runs,        \* history: how often main_impl of an operation was begun
    delivered    \* history: how often a finished operation was reported and removed

queueVars == <<closed, finish, lock, opMap, queue>>
workerVars == <<wpc, cur>>
userVars == <<wlock, upc, ids, target, migration>>
stopVars == <<spc, toCancel, armed>>
history == <<accepted, runs, delivered>>
vars == <<queueVars, state, workerVars, userVars, stopVars, history>>

Settled == {"CANCELLED", "FAILED", "SUCCESS"}
States == {"unborn", "READY", "EXECUTING"} \cup Settled

Init ==
    /\ closed = FALSE /\ finish = FALSE /\ lock = Nobody
    /\ opMap = {} /\ queue = <<>>
    /\ state = [o \in Ops |-> "unborn"]
    /\ wpc = [w \in Workers |-> "lock"] /\ cur = [w \in Workers |-> Nobody]
    /\ wlock = Nobody /\ upc = [u \in Users |-> "idle"]
    /\ ids = [u \in Users |-> {}] /\ target = [u \in Users |-> Nobody]
    /\ migration = Nobody
    /\ spc = "idle" /\ toCancel = {} /\ armed = Nobody
    /\ accepted = {} /\ runs = [o \in Ops |-> 0] /\ delivered = [o \in Ops |-> 0]

----------------------------------------------------------------------------
(* AsyncRPCQueue::run *)

Goto(w, label) == wpc' = [wpc EXCEPT ![w] = label]

(* A worker takes lock_ at the top of the loop, or again when wait() returns. *)
Acquire(w) ==
    /\ wpc[w] = "lock" /\ lock = Nobody
    /\ lock' = w /\ Goto(w, "test")
    /\ UNCHANGED <<closed, finish, opMap, queue, state, cur, userVars, stopVars, history>>

(* The condition of the wait loop; waiting releases lock_ atomically. *)
WaitOrProceed(w) ==
    /\ wpc[w] = "test"
    /\ \/ queue = <<>> /\ ~closed /\ ~finish /\ lock' = Nobody /\ Goto(w, "waiting")
       \/ (queue # <<>> \/ closed \/ finish) /\ lock' = lock /\ Goto(w, "finishing?")
    /\ UNCHANGED <<closed, finish, opMap, queue, state, cur, userVars, stopVars, history>>

(* condition_.wait may return without a notification. *)
SpuriousWakeup(w) ==
    /\ wpc[w] = "waiting" /\ Goto(w, "lock")
    /\ UNCHANGED <<queueVars, state, cur, userVars, stopVars, history>>

ExitIfFinished(w) ==
    /\ wpc[w] = "finishing?"
    /\ \/ finish /\ queue = <<>> /\ lock' = Nobody /\ Goto(w, "exited")
       \/ (~finish \/ queue # <<>>) /\ lock' = lock /\ Goto(w, "closed?")
    /\ UNCHANGED <<closed, finish, opMap, queue, state, cur, userVars, stopVars, history>>

ExitIfClosed(w) ==
    /\ wpc[w] = "closed?"
    /\ \/ closed /\ lock' = Nobody /\ queue' = <<>> /\ Goto(w, "exited")
       \/ ~closed /\ UNCHANGED <<lock, queue>> /\ Goto(w, "take")
    /\ UNCHANGED <<closed, finish, opMap, state, cur, userVars, stopVars, history>>

(* front(), pop() and the lookup, then lock_ is released. *)
Take_WithoutPop(w) ==
    /\ wpc[w] = "take" /\ queue # <<>>
    /\ lock' = Nobody /\ queue' = queue
    /\ cur' = [cur EXCEPT ![w] = IF Head(queue) \in opMap THEN Head(queue) ELSE Nobody]
    /\ Goto(w, "cancelled?")
    /\ UNCHANGED <<closed, finish, opMap, state, userVars, stopVars, history>>
Take(w) ==
    /\ wpc[w] = "take" /\ queue # <<>>
    /\ lock' = Nobody /\ queue' = Tail(queue)
    /\ cur' = [cur EXCEPT ![w] = IF Head(queue) \in opMap THEN Head(queue) ELSE Nobody]
    /\ Goto(w, "cancelled?")
    /\ UNCHANGED <<closed, finish, opMap, state, userVars, stopVars, history>>

Skip(w) == Goto(w, "lock") /\ cur' = [cur EXCEPT ![w] = Nobody]

(* The worker skips a removed or cancelled operation, else enters main(). *)
SkipOrRun(w) ==
    /\ wpc[w] = "cancelled?"
    /\ \/ (cur[w] # Nobody => state[cur[w]] = "CANCELLED") /\ Skip(w)
       \/ cur[w] # Nobody /\ state[cur[w]] # "CANCELLED" /\ Goto(w, "main") /\ cur' = cur
    /\ UNCHANGED <<queueVars, state, userVars, stopVars, history>>

(* main() looks at the state once more ... *)
EnterMain(w) ==
    /\ wpc[w] = "main"
    /\ \/ state[cur[w]] = "CANCELLED" /\ Skip(w)
       \/ state[cur[w]] # "CANCELLED" /\ Goto(w, "begin") /\ cur' = cur
    /\ UNCHANGED <<queueVars, state, userVars, stopVars, history>>

(* ... and only then stores EXECUTING and starts main_impl(). *)
BeginMain(w) ==
    /\ wpc[w] = "begin"
    /\ state' = [state EXCEPT ![cur[w]] = "EXECUTING"]
    /\ runs' = [runs EXCEPT ![cur[w]] = @ + 1]
    /\ Goto(w, "impl")
    /\ UNCHANGED <<queueVars, cur, userVars, stopVars, accepted, delivered>>

(* main_impl() returned, or threw and was caught. *)
EndMain(w) ==
    /\ wpc[w] = "impl"
    /\ \E outcome \in {"SUCCESS", "FAILED"} : state' = [state EXCEPT ![cur[w]] = outcome]
    /\ Skip(w)
    /\ UNCHANGED <<queueVars, userVars, stopVars, history>>

Worker(w) ==
    \/ Acquire(w) \/ WaitOrProceed(w) \/ ExitIfFinished(w) \/ ExitIfClosed(w)
    \/ Take(w) \/ SkipOrRun(w) \/ EnterMain(w) \/ BeginMain(w) \/ EndMain(w)

(* notify_one wakes some waiting worker, if there is one. *)
NotifyOne ==
    \/ \E w \in Workers : wpc[w] = "waiting" /\ Goto(w, "lock")
    \/ (\A w \in Workers : wpc[w] # "waiting") /\ wpc' = wpc

NotifyAll == wpc' = [w \in Workers |-> IF wpc[w] = "waiting" THEN "lock" ELSE wpc[w]]

----------------------------------------------------------------------------
(* Threads that hold cs_main and cs_wallet for the length of a call *)

UserGoto(u, label) == upc' = [upc EXCEPT ![u] = label]
EndCall(u) == wlock' = Nobody /\ UserGoto(u, "idle") /\ target' = [target EXCEPT ![u] = Nobody]

(* An RPC constructs an operation to submit: its state_ is READY. *)
CallSubmit(u) ==
    /\ upc[u] = "idle" /\ wlock = Nobody
    /\ \E o \in Ops :
        /\ state[o] = "unborn"
        /\ state' = [state EXCEPT ![o] = "READY"]
        /\ target' = [target EXCEPT ![u] = o]
    /\ wlock' = u /\ UserGoto(u, "add")
    /\ UNCHANGED <<queueVars, workerVars, ids, migration, stopVars, history>>

(* addOperation, its lock_ taken: refused when closed or finishing. *)
AddTest_AcceptsAlways(u) ==
    /\ upc[u] = "add" /\ lock = Nobody
    /\ UserGoto(u, "push") /\ lock' = u /\ UNCHANGED <<wlock, target>>
    /\ UNCHANGED <<closed, finish, opMap, queue, state, workerVars, ids, migration, stopVars, history>>
AddTest(u) ==
    /\ upc[u] = "add" /\ lock = Nobody
    /\ \/ (closed \/ finish) /\ EndCall(u) /\ lock' = lock
       \/ ~closed /\ ~finish /\ UserGoto(u, "push") /\ lock' = u /\ UNCHANGED <<wlock, target>>
    /\ UNCHANGED <<closed, finish, opMap, queue, state, workerVars, ids, migration, stopVars, history>>

AddPush_NoNotify(u) ==
    /\ upc[u] = "push"
    /\ opMap' = opMap \cup {target[u]} /\ queue' = Append(queue, target[u])
    /\ lock' = Nobody /\ wpc' = wpc /\ EndCall(u)
    /\ accepted' = accepted \cup {target[u]}
    /\ UNCHANGED <<closed, finish, state, cur, ids, migration, stopVars, runs, delivered>>
AddPush(u) ==
    /\ upc[u] = "push"
    /\ opMap' = opMap \cup {target[u]} /\ queue' = Append(queue, target[u])
    /\ lock' = Nobody /\ NotifyOne /\ EndCall(u)
    /\ accepted' = accepted \cup {target[u]}
    /\ UNCHANGED <<closed, finish, state, cur, ids, migration, stopVars, runs, delivered>>

(* RunSaplingMigration at height 495 of 500: the last migration operation,  *)
(* if the map still has it, is cancelled and a new one submitted.           *)
CallMigrate(u) ==
    /\ upc[u] = "idle" /\ wlock = Nobody /\ lock = Nobody
    /\ \E o \in Ops : state[o] = "unborn"
    /\ wlock' = u
    /\ UserGoto(u, IF migration \in opMap THEN "cancel" ELSE "replace")
    /\ UNCHANGED <<queueVars, state, workerVars, ids, target, migration, stopVars, history>>

(* cancel() is two steps: isReady() ... *)
MigrateCancelTest(u) ==
    /\ upc[u] = "cancel"
    /\ UserGoto(u, IF state[migration] = "READY" THEN "set" ELSE "replace")
    /\ UNCHANGED <<queueVars, state, workerVars, wlock, ids, target, migration, stopVars, history>>

(* ... and set_state(CANCELLED). *)
MigrateCancelSet(u) ==
    /\ upc[u] = "set"
    /\ state' = [state EXCEPT ![migration] = "CANCELLED"]
    /\ UserGoto(u, "replace")
    /\ UNCHANGED <<queueVars, workerVars, wlock, ids, target, migration, stopVars, history>>

MigrateReplace(u) ==
    /\ upc[u] = "replace"
    /\ \E o \in Ops :
        /\ state[o] = "unborn"
        /\ state' = [state EXCEPT ![o] = "READY"]
        /\ target' = [target EXCEPT ![u] = o]
        /\ migration' = o
    /\ UserGoto(u, "add")
    /\ UNCHANGED <<queueVars, workerVars, wlock, ids, stopVars, history>>

(* z_getoperationresult: getAllOperationIds ... *)
CallResults(u) ==
    /\ upc[u] = "idle" /\ wlock = Nobody /\ lock = Nobody
    /\ ids' = [ids EXCEPT ![u] = opMap]
    /\ wlock' = u /\ UserGoto(u, "visit")
    /\ UNCHANGED <<queueVars, state, workerVars, target, migration, stopVars, history>>

(* ... then for each id still in the map its status; a settled one is       *)
(* reported and will be popped.                                             *)
VisitResult(u) ==
    /\ upc[u] = "visit" /\ lock = Nobody
    /\ \E o \in ids[u] :
        /\ ids' = [ids EXCEPT ![u] = @ \ {o}]
        /\ \/ /\ o \in opMap /\ state[o] \in Settled
              /\ UserGoto(u, "pop") /\ target' = [target EXCEPT ![u] = o]
              /\ delivered' = [delivered EXCEPT ![o] = @ + 1]
           \/ (o \notin opMap \/ state[o] \notin Settled) /\ UNCHANGED <<upc, target, delivered>>
    /\ UNCHANGED <<queueVars, state, workerVars, wlock, migration, stopVars, accepted, runs>>

PopResult(u) ==
    /\ upc[u] = "pop" /\ lock = Nobody
    /\ opMap' = opMap \ {target[u]}
    /\ UserGoto(u, "visit") /\ target' = [target EXCEPT ![u] = Nobody]
    /\ UNCHANGED <<closed, finish, lock, queue, state, workerVars, wlock, ids, migration, stopVars, history>>

EndResults(u) ==
    /\ upc[u] = "visit" /\ ids[u] = {}
    /\ EndCall(u)
    /\ UNCHANGED <<queueVars, state, workerVars, ids, migration, stopVars, history>>

InCall(u) ==
    \/ AddTest(u) \/ AddPush(u)
    \/ MigrateCancelTest(u) \/ MigrateCancelSet(u) \/ MigrateReplace(u)
    \/ VisitResult(u) \/ PopResult(u) \/ EndResults(u)

----------------------------------------------------------------------------
(* Stopping the queue *)

(* close(): closed_ is stored before lock_ is taken ... *)
StoreClosed ==
    /\ spc = "idle"
    /\ closed' = TRUE /\ spc' = "cancelAll"
    /\ UNCHANGED <<finish, lock, opMap, queue, state, workerVars, userVars, toCancel, armed, history>>

(* ... by cancelAllOperations, which calls cancel() on all of the map. *)
StartCancelAll ==
    /\ spc = "cancelAll" /\ lock = Nobody
    /\ lock' = Stopper /\ toCancel' = opMap /\ spc' = "cancelling"
    /\ UNCHANGED <<closed, finish, opMap, queue, state, workerVars, userVars, armed, history>>

CancelTest ==
    /\ spc = "cancelling" /\ armed = Nobody
    /\ \E o \in toCancel :
        /\ toCancel' = toCancel \ {o}
        /\ armed' = IF state[o] = "READY" THEN o ELSE Nobody
    /\ UNCHANGED <<queueVars, state, workerVars, userVars, spc, history>>

CancelSet ==
    /\ spc = "cancelling" /\ armed # Nobody
    /\ state' = [state EXCEPT ![armed] = "CANCELLED"] /\ armed' = Nobody
    /\ UNCHANGED <<queueVars, workerVars, userVars, spc, toCancel, history>>

EndCancelAll ==
    /\ spc = "cancelling" /\ armed = Nobody /\ toCancel = {}
    /\ NotifyAll /\ lock' = Nobody /\ spc' = "notify"
    /\ UNCHANGED <<closed, finish, opMap, queue, state, cur, userVars, toCancel, armed, history>>

(* finish() *)
StoreFinish ==
    /\ spc = "idle"
    /\ finish' = TRUE /\ spc' = "notify"
    /\ UNCHANGED <<closed, lock, opMap, queue, state, workerVars, userVars, toCancel, armed, history>>

(* wait_for_worker_threads: wake everybody under lock_, then join. *)
NotifyWorkers ==
    /\ spc = "notify" /\ lock = Nobody
    /\ NotifyAll /\ spc' = "join"
    /\ UNCHANGED <<queueVars, state, cur, userVars, toCancel, armed, history>>

JoinWorkers ==
    /\ spc = "join" /\ \A w \in Workers : wpc[w] = "exited"
    /\ spc' = "joined"
    /\ UNCHANGED <<queueVars, state, workerVars, userVars, toCancel, armed, history>>

Stopping ==
    \/ StartCancelAll \/ CancelTest \/ CancelSet \/ EndCancelAll
    \/ NotifyWorkers \/ JoinWorkers

Next ==
    \/ \E w \in Workers : Worker(w) \/ SpuriousWakeup(w)
    \/ \E u \in Users : CallSubmit(u) \/ CallMigrate(u) \/ CallResults(u) \/ InCall(u)
    \/ StoreClosed \/ StoreFinish \/ Stopping

Spec == Init /\ [][Next]_vars

----------------------------------------------------------------------------
(* Properties *)

(* Shape of the state; the queue and the map of AsyncRPCQueue hold only     *)
(* operations that addOperation accepted, none of them twice.               *)
TypeOK ==
    /\ closed \in BOOLEAN /\ finish \in BOOLEAN
    /\ lock \in Workers \cup Users \cup {Nobody, Stopper}
    /\ opMap \subseteq accepted /\ accepted \subseteq Ops
    /\ queue \in Seq(Ops) /\ IsInjective(queue)
    /\ state \in [Ops -> States]
    /\ cur \in [Workers -> Ops \cup {Nobody}]
    /\ wlock \in Users \cup {Nobody}
    /\ armed \in Ops \cup {Nobody}

(* However cancel(), removal and the workers interleave, main_impl() of an  *)
(* operation is begun at most once, so that a payment is not sent twice,    *)
(* and z_getoperationresult reports it once ("and then remove the operation *)
(* from memory").                                                           *)
AtMostOnce == TypeOK /\ \A o \in Ops : runs[o] <= 1 /\ delivered[o] <= 1

(* When closeAndWait or finishAndWait has returned, no accepted operation   *)
(* is left queued or executing: an addOperation racing with close() is      *)
(* either refused or cancelled, one racing with finish() refused or run,    *)
(* unless someone cancelled it.                                             *)
StoppedMeansSettled ==
    spc = "joined" => \A o \in accepted :
        /\ state[o] \in Settled
        /\ finish => state[o] = "CANCELLED" \/ runs[o] = 1

(* Workers sleep and wake with the queue, although closed_ and finish_ are  *)
(* stored without lock_.  The one notify_one of addOperation is enough: as  *)
(* long as an operation is queued some worker is on its way to it.  run()   *)
(* calls front() only if there is one.  When StopRPC or the destructor      *)
(* begins to join the workers none of them waits or will wait again.        *)
WorkersFollowQueue ==
    /\ queue # <<>> => \E w \in Workers : wpc[w] \notin {"waiting", "exited"}
    /\ \A w \in Workers : wpc[w] = "take" => queue # <<>>
    /\ spc \in {"join", "joined"} => \A w \in Workers : wpc[w] # "waiting"
=============================================================================
