------------------------ MODULE AsyncRPCQueueProofs ------------------------
(*****************************************************************************)
(* An inductive invariant of AsyncRPCQueue, for every set of operations,     *)
(* users and workers, and TLAPS proofs that every step keeps it: its types,  *)
(* who holds which lock, where each operation is and what it has done; and   *)
(* with it the safety properties of the queue.                               *)
(*****************************************************************************)
EXTENDS AsyncRPCQueue, DataFacts, TLAPS

WorkerPlaces == {"lock", "test", "waiting", "finishing?", "closed?", "take",
                 "cancelled?", "main", "begin", "impl", "exited"}
UserPlaces == {"idle", "add", "push", "cancel", "set", "replace", "visit", "pop"}
StopPlaces == {"idle", "cancelAll", "cancelling", "notify", "join", "joined"}

TypeInv ==
    /\ TypeOK
    /\ wpc \in [Workers -> WorkerPlaces] /\ upc \in [Users -> UserPlaces]
    /\ ids \in [Users -> SUBSET Ops] /\ target \in [Users -> Ops \cup {Nobody}]
    /\ migration \in Ops \cup {Nobody} /\ spc \in StopPlaces /\ toCancel \subseteq Ops
    /\ runs \in [Ops -> Nat] /\ delivered \in [Ops -> Nat]

\* Who holds lock_, and who cs_main and cs_wallet.
LockInv ==
    /\ \A w \in Workers : (wpc[w] \in {"test", "finishing?", "closed?", "take"}) <=> lock = w
    /\ \A u \in Users : (upc[u] = "push") <=> lock = u
    /\ (spc = "cancelling") <=> lock = Stopper
    /\ \A u \in Users : (upc[u] # "idle") <=> wlock = u

\* An operation is submitted, queued, or with one worker, but never two of it.
PlaceInv ==
    /\ \A o \in Ops : state[o] = "unborn" => o \notin accepted
    /\ \A u \in Users : upc[u] \in {"add", "push"} =>
          target[u] \in Ops \ accepted /\ state[target[u]] \in {"READY", "CANCELLED"}
    /\ Range(queue) \subseteq accepted
    /\ \A w \in Workers : cur[w] # Nobody => cur[w] \in accepted \ Range(queue)
    /\ \A v, w \in Workers : v # w /\ cur[v] = cur[w] => cur[v] = Nobody
    /\ \A w \in Workers : wpc[w] \in {"main", "begin", "impl"} => cur[w] \in Ops
    /\ \A w \in Workers :
          wpc[w] \notin {"cancelled?", "main", "begin", "impl"} => cur[w] = Nobody

\* What has not been taken has not run; what is in the map is not reported,
\* or by a call that is about to remove it.
OnceInv ==
    /\ \A o \in Ops : runs[o] <= 1 /\ delivered[o] <= 1
    /\ \A o \in Ops : o \notin accepted => runs[o] = 0 /\ delivered[o] = 0
    /\ \A o \in Range(queue) : runs[o] = 0
    /\ \A w \in Workers : cur[w] # Nobody /\ wpc[w] # "impl" => runs[cur[w]] = 0
    /\ \A w \in Workers : wpc[w] = "impl" => runs[cur[w]] = 1
    /\ \A o \in opMap : delivered[o] = 0 \/ \E u \in Users : upc[u] = "pop" /\ target[u] = o

\* The state of an operation follows its place, but for a late cancel().
StateInv ==
    /\ \A o \in Range(queue) : state[o] \in {"READY", "CANCELLED"}
    /\ \A w \in Workers : cur[w] # Nobody /\ wpc[w] # "impl" =>
          state[cur[w]] \in {"READY", "CANCELLED"}
    /\ \A o \in Ops : state[o] = "EXECUTING" =>
          \E w \in Workers : cur[w] = o /\ wpc[w] = "impl"
    /\ \A o \in accepted \ opMap : state[o] # "READY"
    /\ \A u \in Users : upc[u] = "pop" => target[u] \in Ops /\ state[target[u]] # "READY"
    /\ ~closed => \A o \in accepted :
          \/ o \in Range(queue) \/ \E w \in Workers : cur[w] = o
          \/ state[o] = "CANCELLED"
          \/ runs[o] = 1 /\ state[o] \in Settled

\* The progress of a stop, and what it has done to the operations.
StopInv ==
    /\ (spc = "idle") <=> ~closed /\ ~finish
    /\ ~(closed /\ finish)
    /\ spc \in {"cancelAll", "cancelling"} => closed
    /\ closed /\ spc \notin {"cancelAll", "cancelling"} => \A o \in accepted : state[o] # "READY"
    /\ spc = "cancelling" => \A o \in accepted :
          state[o] # "READY" \/ o \in toCancel \/ o = armed
    /\ closed /\ spc # "cancelAll" => \A u \in Users : upc[u] # "push"
    /\ armed # Nobody => spc = "cancelling"
    /\ spc = "joined" => \A w \in Workers : wpc[w] = "exited"

\* Workers leave only a queue that is being stopped, and nothing is added then.
WaitInv ==
    /\ WorkersFollowQueue
    /\ \A w \in Workers : wpc[w] = "exited" =>
          /\ closed \/ (finish /\ queue = <<>>)
          /\ \A u \in Users : upc[u] # "push"
    /\ \A w \in Workers : wpc[w] = "finishing?" => queue # <<>> \/ closed \/ finish
    /\ \A w \in Workers : wpc[w] = "closed?" => queue # <<>> \/ closed

IInv == TypeInv /\ LockInv /\ PlaceInv /\ OnceInv /\ StateInv /\ StopInv /\ WaitInv
-----------------------------------------------------------------------------
(* Steps. *)

\* lock_ and the wallet's locks are released by their holder only.
LEMMA LockStep ==
    ASSUME TypeInv, LockInv, Next
    PROVE  LockInv'
<1>1. ASSUME NEW w \in Workers, Acquire(w) PROVE LockInv'
  BY <1>1, AsyncRPCAssumption DEF TypeInv, LockInv, WorkerPlaces, UserPlaces,
      Acquire, Goto, userVars, stopVars, history
<1>2. ASSUME NEW w \in Workers, WaitOrProceed(w) PROVE LockInv'
  <2>1. wpc[w] = "test" /\ UNCHANGED <<wlock, upc, spc>>
    BY <1>2 DEF WaitOrProceed, Goto, userVars, stopVars, history
  <2>2. CASE queue = <<>> /\ ~closed /\ ~finish /\ lock' = Nobody
                /\ wpc' = [wpc EXCEPT ![w] = "waiting"]
    BY <2>2, <2>1, AsyncRPCAssumption DEF TypeInv, LockInv
  <2>3. CASE (queue # <<>> \/ closed \/ finish) /\ lock' = lock
                /\ wpc' = [wpc EXCEPT ![w] = "finishing?"]
    BY <2>3, <2>1, AsyncRPCAssumption DEF TypeInv, LockInv
  <2>4. QED
    BY <1>2, <2>2, <2>3 DEF WaitOrProceed, Goto
<1>3. ASSUME NEW w \in Workers, SpuriousWakeup(w) PROVE LockInv'
  BY <1>3, AsyncRPCAssumption DEF TypeInv, LockInv, WorkerPlaces, UserPlaces,
      SpuriousWakeup, Goto, queueVars, userVars, stopVars, history
<1>4. ASSUME NEW w \in Workers, ExitIfFinished(w) PROVE LockInv'
  <2>1. wpc[w] = "finishing?" /\ UNCHANGED <<wlock, upc, spc>>
    BY <1>4 DEF ExitIfFinished, Goto, userVars, stopVars, history
  <2>2. CASE finish /\ queue = <<>> /\ lock' = Nobody
                /\ wpc' = [wpc EXCEPT ![w] = "exited"]
    BY <2>2, <2>1, AsyncRPCAssumption DEF TypeInv, LockInv
  <2>3. CASE (~finish \/ queue # <<>>) /\ lock' = lock
                /\ wpc' = [wpc EXCEPT ![w] = "closed?"]
    BY <2>3, <2>1, AsyncRPCAssumption DEF TypeInv, LockInv
  <2>4. QED
    BY <1>4, <2>2, <2>3 DEF ExitIfFinished, Goto
<1>5. ASSUME NEW w \in Workers, ExitIfClosed(w) PROVE LockInv'
  <2>1. wpc[w] = "closed?" /\ UNCHANGED <<wlock, upc, spc>>
    BY <1>5 DEF ExitIfClosed, Goto, userVars, stopVars, history
  <2>2. CASE closed /\ lock' = Nobody /\ queue' = <<>>
                /\ wpc' = [wpc EXCEPT ![w] = "exited"]
    BY <2>2, <2>1, AsyncRPCAssumption DEF TypeInv, LockInv
  <2>3. CASE ~closed /\ lock' = lock /\ queue' = queue
                /\ wpc' = [wpc EXCEPT ![w] = "take"]
    BY <2>3, <2>1, AsyncRPCAssumption DEF TypeInv, LockInv
  <2>4. QED
    BY <1>5, <2>2, <2>3 DEF ExitIfClosed, Goto
<1>6. ASSUME NEW w \in Workers, Take(w) PROVE LockInv'
  BY <1>6, AsyncRPCAssumption DEF TypeInv, LockInv, WorkerPlaces, UserPlaces, Take,
      Goto, userVars, stopVars, history
<1>7. ASSUME NEW w \in Workers, SkipOrRun(w) PROVE LockInv'
  <2>1. wpc[w] = "cancelled?" /\ UNCHANGED <<lock, wlock, upc, spc>>
    BY <1>7 DEF SkipOrRun, Goto, Skip, queueVars, userVars, stopVars, history
  <2>2. CASE (cur[w] # Nobody => state[cur[w]] = "CANCELLED")
                /\ wpc' = [wpc EXCEPT ![w] = "lock"] /\ cur' = [cur EXCEPT ![w] = Nobody]
    BY <2>2, <2>1, AsyncRPCAssumption DEF TypeInv, LockInv
  <2>3. CASE cur[w] # Nobody /\ state[cur[w]] # "CANCELLED"
                /\ wpc' = [wpc EXCEPT ![w] = "main"] /\ cur' = cur
    BY <2>3, <2>1, AsyncRPCAssumption DEF TypeInv, LockInv
  <2>4. QED
    BY <1>7, <2>2, <2>3 DEF SkipOrRun, Goto, Skip
<1>8. ASSUME NEW w \in Workers, EnterMain(w) PROVE LockInv'
  <2>1. wpc[w] = "main" /\ UNCHANGED <<lock, wlock, upc, spc>>
    BY <1>8 DEF EnterMain, Goto, Skip, queueVars, userVars, stopVars, history
  <2>2. CASE state[cur[w]] = "CANCELLED"
                /\ wpc' = [wpc EXCEPT ![w] = "lock"] /\ cur' = [cur EXCEPT ![w] = Nobody]
    BY <2>2, <2>1, AsyncRPCAssumption DEF TypeInv, LockInv
  <2>3. CASE state[cur[w]] # "CANCELLED"
                /\ wpc' = [wpc EXCEPT ![w] = "begin"] /\ cur' = cur
    BY <2>3, <2>1, AsyncRPCAssumption DEF TypeInv, LockInv
  <2>4. QED
    BY <1>8, <2>2, <2>3 DEF EnterMain, Goto, Skip
<1>9. ASSUME NEW w \in Workers, BeginMain(w) PROVE LockInv'
  BY <1>9, AsyncRPCAssumption DEF TypeInv, LockInv, WorkerPlaces, UserPlaces,
      BeginMain, Goto, queueVars, userVars, stopVars
<1>10. ASSUME NEW w \in Workers, EndMain(w) PROVE LockInv'
  BY <1>10, AsyncRPCAssumption DEF TypeInv, LockInv, WorkerPlaces, UserPlaces,
      EndMain, Goto, Skip, queueVars, userVars, stopVars, history
<1>11. ASSUME NEW u \in Users, CallSubmit(u) PROVE LockInv'
  BY <1>11, AsyncRPCAssumption DEF TypeInv, LockInv, WorkerPlaces, UserPlaces,
      CallSubmit, UserGoto, queueVars, workerVars, stopVars, history
<1>12. ASSUME NEW u \in Users, CallMigrate(u) PROVE LockInv'
  BY <1>12, AsyncRPCAssumption DEF TypeInv, LockInv, WorkerPlaces, UserPlaces,
      CallMigrate, UserGoto, queueVars, workerVars, stopVars, history
<1>13. ASSUME NEW u \in Users, CallResults(u) PROVE LockInv'
  BY <1>13, AsyncRPCAssumption DEF TypeInv, LockInv, WorkerPlaces, UserPlaces,
      CallResults, UserGoto, queueVars, workerVars, stopVars, history
<1>14. ASSUME NEW u \in Users, AddTest(u) PROVE LockInv'
  BY <1>14, AsyncRPCAssumption DEF TypeInv, LockInv, WorkerPlaces, UserPlaces,
      AddTest, UserGoto, EndCall, workerVars, stopVars, history
<1>15. ASSUME NEW u \in Users, AddPush(u) PROVE LockInv'
  BY <1>15, AsyncRPCAssumption, ZenonT(60) DEF TypeInv, LockInv, WorkerPlaces, UserPlaces,
      AddPush, UserGoto, EndCall, NotifyOne, Goto, stopVars
<1>16. ASSUME NEW u \in Users, MigrateCancelTest(u) PROVE LockInv'
  BY <1>16, AsyncRPCAssumption DEF TypeInv, LockInv, WorkerPlaces, UserPlaces,
      MigrateCancelTest, UserGoto, queueVars, workerVars, stopVars, history
<1>17. ASSUME NEW u \in Users, MigrateCancelSet(u) PROVE LockInv'
  BY <1>17, AsyncRPCAssumption DEF TypeInv, LockInv, WorkerPlaces, UserPlaces,
      MigrateCancelSet, UserGoto, queueVars, workerVars, stopVars, history
<1>18. ASSUME NEW u \in Users, MigrateReplace(u) PROVE LockInv'
  BY <1>18, AsyncRPCAssumption DEF TypeInv, LockInv, WorkerPlaces, UserPlaces,
      MigrateReplace, UserGoto, queueVars, workerVars, stopVars, history
<1>19. ASSUME NEW u \in Users, VisitResult(u) PROVE LockInv'
  BY <1>19, AsyncRPCAssumption DEF TypeInv, LockInv, WorkerPlaces, UserPlaces,
      VisitResult, UserGoto, queueVars, workerVars, stopVars
<1>20. ASSUME NEW u \in Users, PopResult(u) PROVE LockInv'
  BY <1>20, AsyncRPCAssumption DEF TypeInv, LockInv, WorkerPlaces, UserPlaces,
      PopResult, UserGoto, workerVars, stopVars, history
<1>21. ASSUME NEW u \in Users, EndResults(u) PROVE LockInv'
  BY <1>21, AsyncRPCAssumption DEF TypeInv, LockInv, WorkerPlaces, UserPlaces,
      EndResults, UserGoto, EndCall, queueVars, workerVars, stopVars, history
<1>22. CASE StoreClosed
  BY <1>22, AsyncRPCAssumption DEF TypeInv, LockInv, WorkerPlaces, UserPlaces,
      StoreClosed, workerVars, userVars, history
<1>23. CASE StoreFinish
  BY <1>23, AsyncRPCAssumption DEF TypeInv, LockInv, WorkerPlaces, UserPlaces,
      StoreFinish, workerVars, userVars, history
<1>24. CASE StartCancelAll
  BY <1>24, AsyncRPCAssumption DEF TypeInv, LockInv, WorkerPlaces, UserPlaces,
      StartCancelAll, workerVars, userVars, history
<1>25. CASE CancelTest
  BY <1>25, AsyncRPCAssumption DEF TypeInv, LockInv, WorkerPlaces, UserPlaces,
      CancelTest, queueVars, workerVars, userVars, history
<1>26. CASE CancelSet
  BY <1>26, AsyncRPCAssumption DEF TypeInv, LockInv, WorkerPlaces, UserPlaces,
      CancelSet, queueVars, workerVars, userVars, history
<1>27. CASE EndCancelAll
  BY <1>27, AsyncRPCAssumption DEF TypeInv, LockInv, WorkerPlaces, UserPlaces,
      EndCancelAll, NotifyAll, userVars, history
<1>28. CASE NotifyWorkers
  BY <1>28, AsyncRPCAssumption DEF TypeInv, LockInv, WorkerPlaces, UserPlaces,
      NotifyWorkers, NotifyAll, queueVars, userVars, history
<1>29. CASE JoinWorkers
  BY <1>29, AsyncRPCAssumption DEF TypeInv, LockInv, WorkerPlaces, UserPlaces,
      JoinWorkers, queueVars, workerVars, userVars, history
<1>30. QED
  BY <1>1, <1>2, <1>3, <1>4, <1>5, <1>6, <1>7, <1>8, <1>9, <1>10, <1>11, <1>12,
      <1>13, <1>14, <1>15, <1>16, <1>17, <1>18, <1>19, <1>20, <1>21, <1>22, <1>23,
      <1>24, <1>25, <1>26, <1>27, <1>28, <1>29 DEF Next, Worker, InCall, Stopping

\* An operation moves from its submitter to the queue to one worker.
LEMMA PlaceStep ==
    ASSUME TypeInv, LockInv, PlaceInv, Next
    PROVE  PlaceInv'
<1>1. ASSUME NEW w \in Workers, Acquire(w) PROVE PlaceInv'
  BY <1>1, AsyncRPCAssumption DEF TypeInv, TypeOK, PlaceInv, LockInv, Acquire, Goto,
      userVars, stopVars, history
<1>2. ASSUME NEW w \in Workers, WaitOrProceed(w) PROVE PlaceInv'
  <2>1. wpc[w] = "test" /\ UNCHANGED <<queue, state, cur, upc, target, accepted>>
    BY <1>2 DEF WaitOrProceed, Goto, userVars, stopVars, history
  <2>2. CASE queue = <<>> /\ ~closed /\ ~finish /\ lock' = Nobody
                /\ wpc' = [wpc EXCEPT ![w] = "waiting"]
    BY <2>2, <2>1, AsyncRPCAssumption DEF TypeInv, TypeOK, PlaceInv
  <2>3. CASE (queue # <<>> \/ closed \/ finish) /\ lock' = lock
                /\ wpc' = [wpc EXCEPT ![w] = "finishing?"]
    BY <2>3, <2>1, AsyncRPCAssumption DEF TypeInv, TypeOK, PlaceInv
  <2>4. QED
    BY <1>2, <2>2, <2>3 DEF WaitOrProceed, Goto
<1>3. ASSUME NEW w \in Workers, SpuriousWakeup(w) PROVE PlaceInv'
  BY <1>3, AsyncRPCAssumption DEF TypeInv, TypeOK, PlaceInv, LockInv,
      SpuriousWakeup, Goto, queueVars, userVars, stopVars, history
<1>4. ASSUME NEW w \in Workers, ExitIfFinished(w) PROVE PlaceInv'
  <2>1. wpc[w] = "finishing?" /\ UNCHANGED <<queue, state, cur, upc, target,
            accepted>>
    BY <1>4 DEF ExitIfFinished, Goto, userVars, stopVars, history
  <2>2. CASE finish /\ queue = <<>> /\ lock' = Nobody
                /\ wpc' = [wpc EXCEPT ![w] = "exited"]
    BY <2>2, <2>1, AsyncRPCAssumption DEF TypeInv, TypeOK, PlaceInv
  <2>3. CASE (~finish \/ queue # <<>>) /\ lock' = lock
                /\ wpc' = [wpc EXCEPT ![w] = "closed?"]
    BY <2>3, <2>1, AsyncRPCAssumption DEF TypeInv, TypeOK, PlaceInv
  <2>4. QED
    BY <1>4, <2>2, <2>3 DEF ExitIfFinished, Goto
<1>5. ASSUME NEW w \in Workers, ExitIfClosed(w) PROVE PlaceInv'
  <2>1. wpc[w] = "closed?" /\ UNCHANGED <<state, cur, upc, target, accepted>>
    BY <1>5 DEF ExitIfClosed, Goto, userVars, stopVars, history
  <2>2. CASE closed /\ lock' = Nobody /\ queue' = <<>>
                /\ wpc' = [wpc EXCEPT ![w] = "exited"]
    BY <2>2, <2>1, AsyncRPCAssumption, EmptyQueue DEF TypeInv, TypeOK, PlaceInv
  <2>3. CASE ~closed /\ lock' = lock /\ queue' = queue
                /\ wpc' = [wpc EXCEPT ![w] = "take"]
    BY <2>3, <2>1, AsyncRPCAssumption, EmptyQueue DEF TypeInv, TypeOK, PlaceInv
  <2>4. QED
    BY <1>5, <2>2, <2>3 DEF ExitIfClosed, Goto
<1>6. ASSUME NEW w \in Workers, Take(w) PROVE PlaceInv'
  <2>1. /\ Tail(queue) \in Seq(Ops) /\ IsInjective(Tail(queue)) /\ Head(queue) \in Ops
        /\ Range(queue) = Range(Tail(queue)) \cup {Head(queue)}
        /\ Head(queue) \notin Range(Tail(queue))
    BY <1>6, PopFacts DEF Take, TypeInv, TypeOK
  <2>2. wpc[w] = "take" /\ queue # <<>> /\ lock' = Nobody /\ queue' = Tail(queue) /\ wpc' = [wpc EXCEPT ![w] = "cancelled?"] /\ UNCHANGED <<
            state, upc, target, accepted>>
    BY <1>6 DEF Take, Goto, userVars, stopVars, history
  <2>3. CASE Head(queue) \in opMap /\ cur' = [cur EXCEPT ![w] = Head(queue)]
    BY <2>3, <2>1, <2>2, AsyncRPCAssumption DEF TypeInv, TypeOK, PlaceInv
  <2>4. CASE Head(queue) \notin opMap /\ cur' = [cur EXCEPT ![w] = Nobody]
    BY <2>4, <2>1, <2>2, AsyncRPCAssumption DEF TypeInv, TypeOK, PlaceInv
  <2>5. QED
    BY <1>6, <2>3, <2>4 DEF Take, Goto
<1>7. ASSUME NEW w \in Workers, SkipOrRun(w) PROVE PlaceInv'
  <2>1. wpc[w] = "cancelled?" /\ UNCHANGED <<queue, state, upc, target, accepted>>
    BY <1>7 DEF SkipOrRun, Goto, Skip, queueVars, userVars, stopVars, history
  <2>2. CASE (cur[w] # Nobody => state[cur[w]] = "CANCELLED")
                /\ wpc' = [wpc EXCEPT ![w] = "lock"] /\ cur' = [cur EXCEPT ![w] = Nobody]
    BY <2>2, <2>1, AsyncRPCAssumption DEF TypeInv, TypeOK, PlaceInv
  <2>3. CASE cur[w] # Nobody /\ state[cur[w]] # "CANCELLED"
                /\ wpc' = [wpc EXCEPT ![w] = "main"] /\ cur' = cur
    BY <2>3, <2>1, AsyncRPCAssumption DEF TypeInv, TypeOK, PlaceInv
  <2>4. QED
    BY <1>7, <2>2, <2>3 DEF SkipOrRun, Goto, Skip
<1>8. ASSUME NEW w \in Workers, EnterMain(w) PROVE PlaceInv'
  <2>1. wpc[w] = "main" /\ UNCHANGED <<queue, state, upc, target, accepted>>
    BY <1>8 DEF EnterMain, Goto, Skip, queueVars, userVars, stopVars, history
  <2>2. CASE state[cur[w]] = "CANCELLED"
                /\ wpc' = [wpc EXCEPT ![w] = "lock"] /\ cur' = [cur EXCEPT ![w] = Nobody]
    BY <2>2, <2>1, AsyncRPCAssumption DEF TypeInv, TypeOK, PlaceInv
  <2>3. CASE state[cur[w]] # "CANCELLED"
                /\ wpc' = [wpc EXCEPT ![w] = "begin"] /\ cur' = cur
    BY <2>3, <2>1, AsyncRPCAssumption DEF TypeInv, TypeOK, PlaceInv
  <2>4. QED
    BY <1>8, <2>2, <2>3 DEF EnterMain, Goto, Skip
<1>9. ASSUME NEW w \in Workers, BeginMain(w) PROVE PlaceInv'
  BY <1>9, AsyncRPCAssumption DEF TypeInv, TypeOK, PlaceInv, LockInv, BeginMain,
      Goto, queueVars, userVars, stopVars
<1>10. ASSUME NEW w \in Workers, EndMain(w) PROVE PlaceInv'
  BY <1>10, AsyncRPCAssumption DEF TypeInv, TypeOK, PlaceInv, LockInv, EndMain,
      Goto, Skip, queueVars, userVars, stopVars, history
<1>11. ASSUME NEW u \in Users, CallSubmit(u) PROVE PlaceInv'
  BY <1>11, AsyncRPCAssumption DEF TypeInv, TypeOK, PlaceInv, LockInv, CallSubmit,
      UserGoto, queueVars, workerVars, stopVars, history
<1>12. ASSUME NEW u \in Users, CallMigrate(u) PROVE PlaceInv'
  BY <1>12, AsyncRPCAssumption DEF TypeInv, TypeOK, PlaceInv, LockInv, CallMigrate,
      UserGoto, queueVars, workerVars, stopVars, history
<1>13. ASSUME NEW u \in Users, CallResults(u) PROVE PlaceInv'
  BY <1>13, AsyncRPCAssumption DEF TypeInv, TypeOK, PlaceInv, LockInv, CallResults,
      UserGoto, queueVars, workerVars, stopVars, history
<1>14. ASSUME NEW u \in Users, AddTest(u) PROVE PlaceInv'
  BY <1>14, AsyncRPCAssumption DEF TypeInv, TypeOK, PlaceInv, LockInv, AddTest,
      UserGoto, EndCall, workerVars, stopVars, history
<1>15. ASSUME NEW u \in Users, AddPush(u) PROVE PlaceInv'
  <2>1. /\ Append(queue, target[u]) \in Seq(Ops) /\ IsInjective(Append(queue, target[u]))
        /\ Append(queue, target[u]) # <<>>
        /\ Range(Append(queue, target[u])) = Range(queue) \cup {target[u]}
    <3>1. target[u] \in Ops /\ target[u] \notin Range(queue)
      BY <1>15 DEF AddPush, PlaceInv
    <3>2. QED
      BY <3>1, PushFacts DEF TypeInv, TypeOK
  <2>2. \A w \in Workers : wpc'[w] = wpc[w] \/ (wpc[w] = "waiting" /\ wpc'[w] = "lock")
    BY <1>15 DEF AddPush, NotifyOne, Goto, TypeInv
  <2>3. /\ upc[u] = "push" /\ upc' = [upc EXCEPT ![u] = "idle"]
        /\ queue' = Append(queue, target[u]) /\ accepted' = accepted \cup {target[u]}
        /\ target' = [target EXCEPT ![u] = Nobody] /\ UNCHANGED <<state, cur>>
    BY <1>15 DEF AddPush, EndCall, UserGoto
  <2>4. /\ target[u] \in Ops \ accepted /\ state[target[u]] \in {"READY", "CANCELLED"}
        /\ \A v \in Users : v # u => upc[v] = "idle"
    BY <2>3 DEF PlaceInv, LockInv
  <2>5. (\A v \in Users : upc[v] \in {"add", "push"} =>
            target[v] \in Ops \ accepted /\ state[target[v]] \in {"READY", "CANCELLED"})'
    BY <2>3, <2>4 DEF TypeInv
  <2>6. (\A w \in Workers : cur[w] # Nobody => cur[w] \in accepted \ Range(queue))'
    BY <2>1, <2>3, <2>4 DEF PlaceInv
  <2>7. (\A o \in Ops : state[o] = "unborn" => o \notin accepted)' /\ (Range(queue) \subseteq accepted)'
    BY <2>1, <2>3, <2>4 DEF PlaceInv
  <2>8. \A w \in Workers : /\ wpc'[w] \in {"main", "begin", "impl"} => cur[w] \in Ops
                           /\ wpc'[w] \notin {"cancelled?", "main", "begin", "impl"} => cur[w] = Nobody
    BY <2>2 DEF PlaceInv
  <2>9. QED
    BY <2>3, <2>5, <2>6, <2>7, <2>8 DEF PlaceInv
<1>16. ASSUME NEW u \in Users, MigrateCancelTest(u) PROVE PlaceInv'
  BY <1>16, AsyncRPCAssumption DEF TypeInv, TypeOK, PlaceInv, LockInv,
      MigrateCancelTest, UserGoto, queueVars, workerVars, stopVars, history
<1>17. ASSUME NEW u \in Users, MigrateCancelSet(u) PROVE PlaceInv'
  BY <1>17, AsyncRPCAssumption DEF TypeInv, TypeOK, PlaceInv, LockInv,
      MigrateCancelSet, UserGoto, queueVars, workerVars, stopVars, history
<1>18. ASSUME NEW u \in Users, MigrateReplace(u) PROVE PlaceInv'
  BY <1>18, AsyncRPCAssumption DEF TypeInv, TypeOK, PlaceInv, LockInv,
      MigrateReplace, UserGoto, queueVars, workerVars, stopVars, history
<1>19. ASSUME NEW u \in Users, VisitResult(u) PROVE PlaceInv'
  <2>1. UNCHANGED <<queue, state, accepted, wpc, cur>>
    BY <1>19 DEF VisitResult, queueVars, workerVars
  <2>2. \A v \in Users : upc'[v] \in {"add", "push"} => upc'[v] = upc[v] /\ target'[v] = target[v]
    BY <1>19 DEF VisitResult, UserGoto, TypeInv
  <2>3. QED
    BY <2>1, <2>2 DEF PlaceInv
<1>20. ASSUME NEW u \in Users, PopResult(u) PROVE PlaceInv'
  BY <1>20, AsyncRPCAssumption DEF TypeInv, TypeOK, PlaceInv, LockInv, PopResult,
      UserGoto, workerVars, stopVars, history
<1>21. ASSUME NEW u \in Users, EndResults(u) PROVE PlaceInv'
  BY <1>21, AsyncRPCAssumption DEF TypeInv, TypeOK, PlaceInv, LockInv, EndResults,
      UserGoto, EndCall, queueVars, workerVars, stopVars, history
<1>22. CASE StoreClosed
  BY <1>22, AsyncRPCAssumption DEF TypeInv, TypeOK, PlaceInv, LockInv, StoreClosed,
      workerVars, userVars, history
<1>23. CASE StoreFinish
  BY <1>23, AsyncRPCAssumption DEF TypeInv, TypeOK, PlaceInv, LockInv, StoreFinish,
      workerVars, userVars, history
<1>24. CASE StartCancelAll
  BY <1>24, AsyncRPCAssumption DEF TypeInv, TypeOK, PlaceInv, LockInv,
      StartCancelAll, workerVars, userVars, history
<1>25. CASE CancelTest
  BY <1>25, AsyncRPCAssumption DEF TypeInv, TypeOK, PlaceInv, LockInv, CancelTest,
      queueVars, workerVars, userVars, history
<1>26. CASE CancelSet
  BY <1>26, AsyncRPCAssumption DEF TypeInv, TypeOK, PlaceInv, LockInv, CancelSet,
      queueVars, workerVars, userVars, history
<1>27. CASE EndCancelAll
  BY <1>27, AsyncRPCAssumption DEF TypeInv, TypeOK, PlaceInv, LockInv, EndCancelAll,
      NotifyAll, userVars, history
<1>28. CASE NotifyWorkers
  BY <1>28, AsyncRPCAssumption DEF TypeInv, TypeOK, PlaceInv, LockInv,
      NotifyWorkers, NotifyAll, queueVars, userVars, history
<1>29. CASE JoinWorkers
  BY <1>29, AsyncRPCAssumption DEF TypeInv, TypeOK, PlaceInv, LockInv, JoinWorkers,
      queueVars, workerVars, userVars, history
<1>30. QED
  BY <1>1, <1>2, <1>3, <1>4, <1>5, <1>6, <1>7, <1>8, <1>9, <1>10, <1>11, <1>12,
      <1>13, <1>14, <1>15, <1>16, <1>17, <1>18, <1>19, <1>20, <1>21, <1>22, <1>23,
      <1>24, <1>25, <1>26, <1>27, <1>28, <1>29 DEF Next, Worker, InCall, Stopping

\* Every step keeps the types.
LEMMA TypeStep ==
    ASSUME TypeInv, LockInv, PlaceInv, Next
    PROVE  TypeInv'
<1>1. ASSUME NEW w \in Workers, Acquire(w) PROVE TypeInv'
  BY <1>1 DEF TypeInv, TypeOK, WorkerPlaces, UserPlaces, StopPlaces, States,
      Settled, Acquire, Goto, userVars, stopVars, history
<1>2. ASSUME NEW w \in Workers, WaitOrProceed(w) PROVE TypeInv'
  <2>1. wpc[w] = "test" /\ UNCHANGED <<closed, finish, opMap, queue, state, cur,
            wlock, upc, ids, target, migration, spc, toCancel, armed, accepted,
            runs, delivered>>
    BY <1>2 DEF WaitOrProceed, Goto, userVars, stopVars, history
  <2>2. CASE queue = <<>> /\ ~closed /\ ~finish /\ lock' = Nobody
                /\ wpc' = [wpc EXCEPT ![w] = "waiting"]
    BY <2>2, <2>1 DEF TypeInv, TypeOK, WorkerPlaces, UserPlaces, StopPlaces, States,
        Settled
  <2>3. CASE (queue # <<>> \/ closed \/ finish) /\ lock' = lock
                /\ wpc' = [wpc EXCEPT ![w] = "finishing?"]
    BY <2>3, <2>1 DEF TypeInv, TypeOK, WorkerPlaces, UserPlaces, StopPlaces, States,
        Settled
  <2>4. QED
    BY <1>2, <2>2, <2>3 DEF WaitOrProceed, Goto
<1>3. ASSUME NEW w \in Workers, SpuriousWakeup(w) PROVE TypeInv'
  BY <1>3 DEF TypeInv, TypeOK, WorkerPlaces, UserPlaces, StopPlaces, States,
      Settled, SpuriousWakeup, Goto, queueVars, userVars, stopVars, history
<1>4. ASSUME NEW w \in Workers, ExitIfFinished(w) PROVE TypeInv'
  <2>1. wpc[w] = "finishing?" /\ UNCHANGED <<closed, finish, opMap, queue, state,
            cur, wlock, upc, ids, target, migration, spc, toCancel, armed, accepted,
            runs, delivered>>
    BY <1>4 DEF ExitIfFinished, Goto, userVars, stopVars, history
  <2>2. CASE finish /\ queue = <<>> /\ lock' = Nobody
                /\ wpc' = [wpc EXCEPT ![w] = "exited"]
    BY <2>2, <2>1 DEF TypeInv, TypeOK, WorkerPlaces, UserPlaces, StopPlaces, States,
        Settled
  <2>3. CASE (~finish \/ queue # <<>>) /\ lock' = lock
                /\ wpc' = [wpc EXCEPT ![w] = "closed?"]
    BY <2>3, <2>1 DEF TypeInv, TypeOK, WorkerPlaces, UserPlaces, StopPlaces, States,
        Settled
  <2>4. QED
    BY <1>4, <2>2, <2>3 DEF ExitIfFinished, Goto
<1>5. ASSUME NEW w \in Workers, ExitIfClosed(w) PROVE TypeInv'
  <2>1. wpc[w] = "closed?" /\ UNCHANGED <<closed, finish, opMap, state, cur, wlock,
            upc, ids, target, migration, spc, toCancel, armed, accepted, runs,
            delivered>>
    BY <1>5 DEF ExitIfClosed, Goto, userVars, stopVars, history
  <2>2. CASE closed /\ lock' = Nobody /\ queue' = <<>>
                /\ wpc' = [wpc EXCEPT ![w] = "exited"]
    BY <2>2, <2>1, EmptyQueue DEF TypeInv, TypeOK, WorkerPlaces, UserPlaces,
        StopPlaces, States, Settled
  <2>3. CASE ~closed /\ lock' = lock /\ queue' = queue
                /\ wpc' = [wpc EXCEPT ![w] = "take"]
    BY <2>3, <2>1, EmptyQueue DEF TypeInv, TypeOK, WorkerPlaces, UserPlaces,
        StopPlaces, States, Settled
  <2>4. QED
    BY <1>5, <2>2, <2>3 DEF ExitIfClosed, Goto
<1>6. ASSUME NEW w \in Workers, Take(w) PROVE TypeInv'
  <2>1. /\ Tail(queue) \in Seq(Ops) /\ IsInjective(Tail(queue)) /\ Head(queue) \in Ops
        /\ Range(queue) = Range(Tail(queue)) \cup {Head(queue)}
        /\ Head(queue) \notin Range(Tail(queue))
    BY <1>6, PopFacts DEF Take, TypeInv, TypeOK
  <2>2. wpc[w] = "take" /\ queue # <<>> /\ lock' = Nobody /\ queue' = Tail(queue) /\ wpc' = [wpc EXCEPT ![w] = "cancelled?"] /\ UNCHANGED <<
            closed, finish, opMap, state, wlock, upc, ids, target, migration, spc,
            toCancel, armed, accepted, runs, delivered>>
    BY <1>6 DEF Take, Goto, userVars, stopVars, history
  <2>3. CASE Head(queue) \in opMap /\ cur' = [cur EXCEPT ![w] = Head(queue)]
    BY <2>3, <2>1, <2>2 DEF TypeInv, TypeOK, WorkerPlaces, UserPlaces, StopPlaces,
        States, Settled
  <2>4. CASE Head(queue) \notin opMap /\ cur' = [cur EXCEPT ![w] = Nobody]
    BY <2>4, <2>1, <2>2 DEF TypeInv, TypeOK, WorkerPlaces, UserPlaces, StopPlaces,
        States, Settled
  <2>5. QED
    BY <1>6, <2>3, <2>4 DEF Take, Goto
<1>7. ASSUME NEW w \in Workers, SkipOrRun(w) PROVE TypeInv'
  <2>1. wpc[w] = "cancelled?" /\ UNCHANGED <<closed, finish, lock, opMap, queue,
            state, wlock, upc, ids, target, migration, spc, toCancel, armed,
            accepted, runs, delivered>>
    BY <1>7 DEF SkipOrRun, Goto, Skip, queueVars, userVars, stopVars, history
  <2>2. CASE (cur[w] # Nobody => state[cur[w]] = "CANCELLED")
                /\ wpc' = [wpc EXCEPT ![w] = "lock"] /\ cur' = [cur EXCEPT ![w] = Nobody]
    BY <2>2, <2>1 DEF TypeInv, TypeOK, WorkerPlaces, UserPlaces, StopPlaces, States,
        Settled
  <2>3. CASE cur[w] # Nobody /\ state[cur[w]] # "CANCELLED"
                /\ wpc' = [wpc EXCEPT ![w] = "main"] /\ cur' = cur
    BY <2>3, <2>1 DEF TypeInv, TypeOK, WorkerPlaces, UserPlaces, StopPlaces, States,
        Settled
  <2>4. QED
    BY <1>7, <2>2, <2>3 DEF SkipOrRun, Goto, Skip
<1>8. ASSUME NEW w \in Workers, EnterMain(w) PROVE TypeInv'
  <2>1. wpc[w] = "main" /\ UNCHANGED <<closed, finish, lock, opMap, queue, state,
            wlock, upc, ids, target, migration, spc, toCancel, armed, accepted,
            runs, delivered>>
    BY <1>8 DEF EnterMain, Goto, Skip, queueVars, userVars, stopVars, history
  <2>2. CASE state[cur[w]] = "CANCELLED"
                /\ wpc' = [wpc EXCEPT ![w] = "lock"] /\ cur' = [cur EXCEPT ![w] = Nobody]
    BY <2>2, <2>1 DEF TypeInv, TypeOK, WorkerPlaces, UserPlaces, StopPlaces, States,
        Settled
  <2>3. CASE state[cur[w]] # "CANCELLED"
                /\ wpc' = [wpc EXCEPT ![w] = "begin"] /\ cur' = cur
    BY <2>3, <2>1 DEF TypeInv, TypeOK, WorkerPlaces, UserPlaces, StopPlaces, States,
        Settled
  <2>4. QED
    BY <1>8, <2>2, <2>3 DEF EnterMain, Goto, Skip
<1>9. ASSUME NEW w \in Workers, BeginMain(w) PROVE TypeInv'
  <2>1. state' \in [Ops -> States]
    BY <1>9 DEF BeginMain, TypeInv, TypeOK, States
  <2>2. runs' \in [Ops -> Nat]
    <3>1. cur[w] \in Ops
      BY <1>9 DEF BeginMain, PlaceInv
    <3>2. QED
      BY <1>9, <3>1 DEF BeginMain, TypeInv
  <2>3. wpc' \in [Workers -> WorkerPlaces]
    BY <1>9 DEF BeginMain, Goto, TypeInv, WorkerPlaces
  <2>4. QED
    BY <1>9, <2>1, <2>2, <2>3 DEF TypeInv, TypeOK, BeginMain, queueVars, userVars, stopVars
<1>10. ASSUME NEW w \in Workers, EndMain(w) PROVE TypeInv'
  <2>1. state' \in [Ops -> States]
    BY <1>10 DEF EndMain, TypeInv, TypeOK, States, Settled
  <2>2. wpc' \in [Workers -> WorkerPlaces] /\ cur' \in [Workers -> Ops \cup {Nobody}]
    BY <1>10 DEF EndMain, Skip, Goto, TypeInv, TypeOK, WorkerPlaces
  <2>3. QED
    BY <1>10, <2>1, <2>2 DEF TypeInv, TypeOK, EndMain, queueVars, userVars, stopVars, history
<1>11. ASSUME NEW u \in Users, CallSubmit(u) PROVE TypeInv'
  BY <1>11 DEF TypeInv, TypeOK, WorkerPlaces, UserPlaces, StopPlaces, States,
      Settled, CallSubmit, UserGoto, queueVars, workerVars, stopVars, history
<1>12. ASSUME NEW u \in Users, CallMigrate(u) PROVE TypeInv'
  BY <1>12 DEF TypeInv, TypeOK, WorkerPlaces, UserPlaces, StopPlaces, States,
      Settled, CallMigrate, UserGoto, queueVars, workerVars, stopVars, history
<1>13. ASSUME NEW u \in Users, CallResults(u) PROVE TypeInv'
  BY <1>13 DEF TypeInv, TypeOK, WorkerPlaces, UserPlaces, StopPlaces, States,
      Settled, CallResults, UserGoto, queueVars, workerVars, stopVars, history
<1>14. ASSUME NEW u \in Users, AddTest(u) PROVE TypeInv'
  BY <1>14 DEF TypeInv, TypeOK, WorkerPlaces, UserPlaces, StopPlaces, States,
      Settled, AddTest, UserGoto, EndCall, workerVars, stopVars, history
<1>15. ASSUME NEW u \in Users, AddPush(u) PROVE TypeInv'
  <2>1. /\ Append(queue, target[u]) \in Seq(Ops) /\ IsInjective(Append(queue, target[u]))
        /\ Append(queue, target[u]) # <<>>
        /\ Range(Append(queue, target[u])) = Range(queue) \cup {target[u]}
    <3>1. target[u] \in Ops /\ target[u] \notin Range(queue)
      BY <1>15 DEF AddPush, PlaceInv
    <3>2. QED
      BY <3>1, PushFacts DEF TypeInv, TypeOK
  <2>2. \A w \in Workers : wpc'[w] = wpc[w] \/ (wpc[w] = "waiting" /\ wpc'[w] = "lock")
    BY <1>15 DEF AddPush, NotifyOne, Goto, TypeInv
  <2>3. wpc' \in [Workers -> WorkerPlaces]
    BY <1>15 DEF AddPush, NotifyOne, Goto, TypeInv, WorkerPlaces
  <2>4. target[u] \in Ops
    BY <1>15 DEF AddPush, PlaceInv
  <2>5. QED
    BY <1>15, <2>1, <2>3, <2>4 DEF TypeInv, TypeOK, WorkerPlaces, UserPlaces,
        StopPlaces, States, Settled, AddPush, UserGoto, EndCall, stopVars
<1>16. ASSUME NEW u \in Users, MigrateCancelTest(u) PROVE TypeInv'
  BY <1>16 DEF TypeInv, TypeOK, WorkerPlaces, UserPlaces, StopPlaces, States,
      Settled, MigrateCancelTest, UserGoto, queueVars, workerVars, stopVars, history
<1>17. ASSUME NEW u \in Users, MigrateCancelSet(u) PROVE TypeInv'
  BY <1>17 DEF TypeInv, TypeOK, WorkerPlaces, UserPlaces, StopPlaces, States,
      Settled, MigrateCancelSet, UserGoto, queueVars, workerVars, stopVars, history
<1>18. ASSUME NEW u \in Users, MigrateReplace(u) PROVE TypeInv'
  BY <1>18 DEF TypeInv, TypeOK, WorkerPlaces, UserPlaces, StopPlaces, States,
      Settled, MigrateReplace, UserGoto, queueVars, workerVars, stopVars, history
<1>19. ASSUME NEW u \in Users, VisitResult(u) PROVE TypeInv'
  <2>1. ids' \in [Users -> SUBSET Ops] /\ upc' \in [Users -> UserPlaces]
    BY <1>19 DEF VisitResult, UserGoto, TypeInv, UserPlaces
  <2>2. target' \in [Users -> Ops \cup {Nobody}]
    BY <1>19 DEF VisitResult, TypeInv
  <2>3. delivered' \in [Ops -> Nat]
    BY <1>19 DEF VisitResult, TypeInv
  <2>4. QED
    BY <1>19, <2>1, <2>2, <2>3 DEF TypeInv, TypeOK, VisitResult, queueVars, workerVars, stopVars
<1>20. ASSUME NEW u \in Users, PopResult(u) PROVE TypeInv'
  BY <1>20 DEF TypeInv, TypeOK, WorkerPlaces, UserPlaces, StopPlaces, States,
      Settled, PopResult, UserGoto, workerVars, stopVars, history
<1>21. ASSUME NEW u \in Users, EndResults(u) PROVE TypeInv'
  BY <1>21 DEF TypeInv, TypeOK, WorkerPlaces, UserPlaces, StopPlaces, States,
      Settled, EndResults, UserGoto, EndCall, queueVars, workerVars, stopVars,
      history
<1>22. CASE StoreClosed
  BY <1>22 DEF TypeInv, TypeOK, WorkerPlaces, UserPlaces, StopPlaces, States,
      Settled, StoreClosed, workerVars, userVars, history
<1>23. CASE StoreFinish
  BY <1>23 DEF TypeInv, TypeOK, WorkerPlaces, UserPlaces, StopPlaces, States,
      Settled, StoreFinish, workerVars, userVars, history
<1>24. CASE StartCancelAll
  BY <1>24 DEF TypeInv, TypeOK, WorkerPlaces, UserPlaces, StopPlaces, States,
      Settled, StartCancelAll, workerVars, userVars, history
<1>25. CASE CancelTest
  BY <1>25 DEF TypeInv, TypeOK, WorkerPlaces, UserPlaces, StopPlaces, States,
      Settled, CancelTest, queueVars, workerVars, userVars, history
<1>26. CASE CancelSet
  BY <1>26 DEF TypeInv, TypeOK, WorkerPlaces, UserPlaces, StopPlaces, States,
      Settled, CancelSet, queueVars, workerVars, userVars, history
<1>27. CASE EndCancelAll
  BY <1>27 DEF TypeInv, TypeOK, WorkerPlaces, UserPlaces, StopPlaces, States,
      Settled, EndCancelAll, NotifyAll, userVars, history
<1>28. CASE NotifyWorkers
  BY <1>28 DEF TypeInv, TypeOK, WorkerPlaces, UserPlaces, StopPlaces, States,
      Settled, NotifyWorkers, NotifyAll, queueVars, userVars, history
<1>29. CASE JoinWorkers
  BY <1>29 DEF TypeInv, TypeOK, WorkerPlaces, UserPlaces, StopPlaces, States,
      Settled, JoinWorkers, queueVars, workerVars, userVars, history
<1>30. QED
  BY <1>1, <1>2, <1>3, <1>4, <1>5, <1>6, <1>7, <1>8, <1>9, <1>10, <1>11, <1>12,
      <1>13, <1>14, <1>15, <1>16, <1>17, <1>18, <1>19, <1>20, <1>21, <1>22, <1>23,
      <1>24, <1>25, <1>26, <1>27, <1>28, <1>29 DEF Next, Worker, InCall, Stopping


\* A step that moves no operation, enters or leaves no main() and keeps a
\* caller at its pop keeps OnceInv.
LEMMA OnceFrame ==
    ASSUME OnceInv, UNCHANGED <<queue, opMap, cur, accepted, runs, delivered>>,
           \A w \in Workers : (wpc'[w] = "impl") <=> (wpc[w] = "impl"),
           \A v \in Users : upc[v] = "pop" => upc'[v] = "pop" /\ target'[v] = target[v]
    PROVE  OnceInv'
<1>1. ASSUME NEW o \in opMap', delivered'[o] # 0
      PROVE  \E v \in Users : upc'[v] = "pop" /\ target'[v] = o
  <2>1. PICK v \in Users : upc[v] = "pop" /\ target[v] = o
    BY <1>1 DEF OnceInv
  <2>2. QED
    BY <2>1
<1>2. /\ \A o \in Ops : runs'[o] <= 1 /\ delivered'[o] <= 1
      /\ \A o \in Ops : o \notin accepted' => runs'[o] = 0 /\ delivered'[o] = 0
      /\ \A o \in Range(queue') : runs'[o] = 0
  BY DEF OnceInv
<1>3. /\ \A w \in Workers : cur'[w] # Nobody /\ wpc'[w] # "impl" => runs'[cur'[w]] = 0
      /\ \A w \in Workers : wpc'[w] = "impl" => runs'[cur'[w]] = 1
  BY DEF OnceInv
<1>4. QED
  BY <1>1, <1>2, <1>3 DEF OnceInv

-----------------------------------------------------------------------------
\* Only a worker that holds an operation begins it, and only a call that is
\* about to remove it reports it.
LEMMA OnceStep ==
    ASSUME TypeInv, LockInv, PlaceInv, OnceInv, Next
    PROVE  OnceInv'
<1>1. ASSUME NEW w \in Workers, Acquire(w) PROVE OnceInv'
  BY <1>1, AsyncRPCAssumption DEF TypeInv, TypeOK, PlaceInv, OnceInv, LockInv,
      Acquire, Goto, userVars, stopVars, history
<1>2. ASSUME NEW w \in Workers, WaitOrProceed(w) PROVE OnceInv'
  <2>1. wpc[w] = "test" /\ UNCHANGED <<opMap, queue, cur, upc, target, accepted,
            runs, delivered>>
    BY <1>2 DEF WaitOrProceed, Goto, userVars, stopVars, history
  <2>2. CASE queue = <<>> /\ ~closed /\ ~finish /\ lock' = Nobody
                /\ wpc' = [wpc EXCEPT ![w] = "waiting"]
    BY <2>2, <2>1, AsyncRPCAssumption DEF TypeInv, TypeOK, PlaceInv, OnceInv
  <2>3. CASE (queue # <<>> \/ closed \/ finish) /\ lock' = lock
                /\ wpc' = [wpc EXCEPT ![w] = "finishing?"]
    BY <2>3, <2>1, AsyncRPCAssumption DEF TypeInv, TypeOK, PlaceInv, OnceInv
  <2>4. QED
    BY <1>2, <2>2, <2>3 DEF WaitOrProceed, Goto
<1>3. ASSUME NEW w \in Workers, SpuriousWakeup(w) PROVE OnceInv'
  BY <1>3, AsyncRPCAssumption DEF TypeInv, TypeOK, PlaceInv, OnceInv, LockInv,
      SpuriousWakeup, Goto, queueVars, userVars, stopVars, history
<1>4. ASSUME NEW w \in Workers, ExitIfFinished(w) PROVE OnceInv'
  <2>1. wpc[w] = "finishing?" /\ UNCHANGED <<opMap, queue, cur, upc, target,
            accepted, runs, delivered>>
    BY <1>4 DEF ExitIfFinished, Goto, userVars, stopVars, history
  <2>2. CASE finish /\ queue = <<>> /\ lock' = Nobody
                /\ wpc' = [wpc EXCEPT ![w] = "exited"]
    BY <2>2, <2>1, AsyncRPCAssumption DEF TypeInv, TypeOK, PlaceInv, OnceInv
  <2>3. CASE (~finish \/ queue # <<>>) /\ lock' = lock
                /\ wpc' = [wpc EXCEPT ![w] = "closed?"]
    BY <2>3, <2>1, AsyncRPCAssumption DEF TypeInv, TypeOK, PlaceInv, OnceInv
  <2>4. QED
    BY <1>4, <2>2, <2>3 DEF ExitIfFinished, Goto
<1>5. ASSUME NEW w \in Workers, ExitIfClosed(w) PROVE OnceInv'
  <2>1. wpc[w] = "closed?" /\ UNCHANGED <<opMap, cur, upc, target, accepted, runs,
            delivered>>
    BY <1>5 DEF ExitIfClosed, Goto, userVars, stopVars, history
  <2>2. CASE closed /\ lock' = Nobody /\ queue' = <<>>
                /\ wpc' = [wpc EXCEPT ![w] = "exited"]
    BY <2>2, <2>1, AsyncRPCAssumption, EmptyQueue DEF TypeInv, TypeOK, PlaceInv,
        OnceInv
  <2>3. CASE ~closed /\ lock' = lock /\ queue' = queue
                /\ wpc' = [wpc EXCEPT ![w] = "take"]
    BY <2>3, <2>1, AsyncRPCAssumption, EmptyQueue DEF TypeInv, TypeOK, PlaceInv,
        OnceInv
  <2>4. QED
    BY <1>5, <2>2, <2>3 DEF ExitIfClosed, Goto
<1>6. ASSUME NEW w \in Workers, Take(w) PROVE OnceInv'
  <2>1. /\ Tail(queue) \in Seq(Ops) /\ IsInjective(Tail(queue)) /\ Head(queue) \in Ops
        /\ Range(queue) = Range(Tail(queue)) \cup {Head(queue)}
        /\ Head(queue) \notin Range(Tail(queue))
    BY <1>6, PopFacts DEF Take, TypeInv, TypeOK
  <2>2. wpc[w] = "take" /\ queue # <<>> /\ lock' = Nobody /\ queue' = Tail(queue) /\ wpc' = [wpc EXCEPT ![w] = "cancelled?"] /\ UNCHANGED <<
            opMap, upc, target, accepted, runs, delivered>>
    BY <1>6 DEF Take, Goto, userVars, stopVars, history
  <2>3. CASE Head(queue) \in opMap /\ cur' = [cur EXCEPT ![w] = Head(queue)]
    BY <2>3, <2>1, <2>2, AsyncRPCAssumption DEF TypeInv, TypeOK, PlaceInv, OnceInv
  <2>4. CASE Head(queue) \notin opMap /\ cur' = [cur EXCEPT ![w] = Nobody]
    BY <2>4, <2>1, <2>2, AsyncRPCAssumption DEF TypeInv, TypeOK, PlaceInv, OnceInv
  <2>5. QED
    BY <1>6, <2>3, <2>4 DEF Take, Goto
<1>7. ASSUME NEW w \in Workers, SkipOrRun(w) PROVE OnceInv'
  <2>1. wpc[w] = "cancelled?" /\ UNCHANGED <<opMap, queue, upc, target, accepted,
            runs, delivered>>
    BY <1>7 DEF SkipOrRun, Goto, Skip, queueVars, userVars, stopVars, history
  <2>2. CASE (cur[w] # Nobody => state[cur[w]] = "CANCELLED")
                /\ wpc' = [wpc EXCEPT ![w] = "lock"] /\ cur' = [cur EXCEPT ![w] = Nobody]
    BY <2>2, <2>1, AsyncRPCAssumption DEF TypeInv, TypeOK, PlaceInv, OnceInv
  <2>3. CASE cur[w] # Nobody /\ state[cur[w]] # "CANCELLED"
                /\ wpc' = [wpc EXCEPT ![w] = "main"] /\ cur' = cur
    BY <2>3, <2>1, AsyncRPCAssumption DEF TypeInv, TypeOK, PlaceInv, OnceInv
  <2>4. QED
    BY <1>7, <2>2, <2>3 DEF SkipOrRun, Goto, Skip
<1>8. ASSUME NEW w \in Workers, EnterMain(w) PROVE OnceInv'
  <2>1. wpc[w] = "main" /\ UNCHANGED <<opMap, queue, upc, target, accepted, runs,
            delivered>>
    BY <1>8 DEF EnterMain, Goto, Skip, queueVars, userVars, stopVars, history
  <2>2. CASE state[cur[w]] = "CANCELLED"
                /\ wpc' = [wpc EXCEPT ![w] = "lock"] /\ cur' = [cur EXCEPT ![w] = Nobody]
    BY <2>2, <2>1, AsyncRPCAssumption DEF TypeInv, TypeOK, PlaceInv, OnceInv
  <2>3. CASE state[cur[w]] # "CANCELLED"
                /\ wpc' = [wpc EXCEPT ![w] = "begin"] /\ cur' = cur
    BY <2>3, <2>1, AsyncRPCAssumption DEF TypeInv, TypeOK, PlaceInv, OnceInv
  <2>4. QED
    BY <1>8, <2>2, <2>3 DEF EnterMain, Goto, Skip
<1>9. ASSUME NEW w \in Workers, BeginMain(w) PROVE OnceInv'
  BY <1>9, AsyncRPCAssumption DEF TypeInv, TypeOK, PlaceInv, OnceInv, LockInv,
      BeginMain, Goto, queueVars, userVars, stopVars
<1>10. ASSUME NEW w \in Workers, EndMain(w) PROVE OnceInv'
  BY SMTT(30), <1>10, AsyncRPCAssumption DEF TypeInv, TypeOK, PlaceInv, OnceInv, LockInv,
      EndMain, Goto, Skip, queueVars, userVars, stopVars, history
<1>11. ASSUME NEW u \in Users, CallSubmit(u) PROVE OnceInv'
  <2>1. UNCHANGED <<queue, opMap, wpc, cur, accepted, runs, delivered>> /\ upc[u] # "pop"
    BY <1>11 DEF CallSubmit, queueVars, workerVars, history
  <2>2. \A v \in Users : upc[v] = "pop" => upc'[v] = "pop" /\ target'[v] = target[v]
    BY <1>11, <2>1 DEF CallSubmit, UserGoto, TypeInv
  <2>3. QED
    BY <2>1, <2>2, OnceFrame
<1>12. ASSUME NEW u \in Users, CallMigrate(u) PROVE OnceInv'
  <2>1. UNCHANGED <<queue, opMap, wpc, cur, accepted, runs, delivered>> /\ upc[u] # "pop"
    BY <1>12 DEF CallMigrate, queueVars, workerVars, history
  <2>2. \A v \in Users : upc[v] = "pop" => upc'[v] = "pop" /\ target'[v] = target[v]
    BY <1>12, <2>1 DEF CallMigrate, UserGoto, TypeInv
  <2>3. QED
    BY <2>1, <2>2, OnceFrame
<1>13. ASSUME NEW u \in Users, CallResults(u) PROVE OnceInv'
  <2>1. UNCHANGED <<queue, opMap, wpc, cur, accepted, runs, delivered>> /\ upc[u] # "pop"
    BY <1>13 DEF CallResults, queueVars, workerVars, history
  <2>2. \A v \in Users : upc[v] = "pop" => upc'[v] = "pop" /\ target'[v] = target[v]
    BY <1>13, <2>1 DEF CallResults, UserGoto, TypeInv
  <2>3. QED
    BY <2>1, <2>2, OnceFrame
<1>14. ASSUME NEW u \in Users, AddTest(u) PROVE OnceInv'
  <2>1. UNCHANGED <<queue, opMap, wpc, cur, accepted, runs, delivered>> /\ upc[u] # "pop"
    BY <1>14 DEF AddTest, queueVars, workerVars, history
  <2>2. \A v \in Users : upc[v] = "pop" => upc'[v] = "pop" /\ target'[v] = target[v]
    BY <1>14, <2>1 DEF AddTest, EndCall, UserGoto, TypeInv
  <2>3. QED
    BY <2>1, <2>2, OnceFrame
<1>15. ASSUME NEW u \in Users, AddPush(u) PROVE OnceInv'
  <2>1. /\ Append(queue, target[u]) \in Seq(Ops) /\ IsInjective(Append(queue, target[u]))
        /\ Append(queue, target[u]) # <<>>
        /\ Range(Append(queue, target[u])) = Range(queue) \cup {target[u]}
    <3>1. target[u] \in Ops /\ target[u] \notin Range(queue)
      BY <1>15 DEF AddPush, PlaceInv
    <3>2. QED
      BY <3>1, PushFacts DEF TypeInv, TypeOK
  <2>2. \A w \in Workers : wpc'[w] = wpc[w] \/ (wpc[w] = "waiting" /\ wpc'[w] = "lock")
    BY <1>15 DEF AddPush, NotifyOne, Goto, TypeInv
  <2>3. /\ upc[u] = "push" /\ upc' = [upc EXCEPT ![u] = "idle"]
        /\ target' = [target EXCEPT ![u] = Nobody] /\ opMap' = opMap \cup {target[u]}
        /\ queue' = Append(queue, target[u]) /\ accepted' = accepted \cup {target[u]}
        /\ UNCHANGED <<cur, runs, delivered>>
    BY <1>15 DEF AddPush, EndCall, UserGoto
  <2>4. target[u] \in Ops \ accepted
    BY <2>3 DEF PlaceInv
  <2>5. runs[target[u]] = 0 /\ delivered[target[u]] = 0
    BY <2>4 DEF OnceInv
  <2>6. \A w \in Workers : (wpc'[w] = "impl") <=> (wpc[w] = "impl")
    BY <2>2
  <2>7. (\A o \in opMap : delivered[o] = 0 \/ \E v \in Users : upc[v] = "pop" /\ target[v] = o)'
    BY <2>3, <2>5 DEF OnceInv, TypeInv
  <2>8. (\A o \in Range(queue) : runs[o] = 0)'
    BY <2>1, <2>3, <2>5 DEF OnceInv
  <2>9. QED
    BY <2>3, <2>6, <2>7, <2>8 DEF OnceInv
<1>16. ASSUME NEW u \in Users, MigrateCancelTest(u) PROVE OnceInv'
  <2>1. UNCHANGED <<queue, opMap, wpc, cur, accepted, runs, delivered>> /\ upc[u] # "pop"
    BY <1>16 DEF MigrateCancelTest, queueVars, workerVars, history
  <2>2. \A v \in Users : upc[v] = "pop" => upc'[v] = "pop" /\ target'[v] = target[v]
    BY <1>16, <2>1 DEF MigrateCancelTest, UserGoto, TypeInv
  <2>3. QED
    BY <2>1, <2>2, OnceFrame
<1>17. ASSUME NEW u \in Users, MigrateCancelSet(u) PROVE OnceInv'
  <2>1. UNCHANGED <<queue, opMap, wpc, cur, accepted, runs, delivered>> /\ upc[u] # "pop"
    BY <1>17 DEF MigrateCancelSet, queueVars, workerVars, history
  <2>2. \A v \in Users : upc[v] = "pop" => upc'[v] = "pop" /\ target'[v] = target[v]
    BY <1>17, <2>1 DEF MigrateCancelSet, UserGoto, TypeInv
  <2>3. QED
    BY <2>1, <2>2, OnceFrame
<1>18. ASSUME NEW u \in Users, MigrateReplace(u) PROVE OnceInv'
  <2>1. UNCHANGED <<queue, opMap, wpc, cur, accepted, runs, delivered>> /\ upc[u] # "pop"
    BY <1>18 DEF MigrateReplace, queueVars, workerVars, history
  <2>2. \A v \in Users : upc[v] = "pop" => upc'[v] = "pop" /\ target'[v] = target[v]
    BY <1>18, <2>1 DEF MigrateReplace, UserGoto, TypeInv
  <2>3. QED
    BY <2>1, <2>2, OnceFrame
<1>19. ASSUME NEW u \in Users, VisitResult(u) PROVE OnceInv'
  <2>1. \A v \in Users : upc[v] # "pop"
    BY <1>19 DEF VisitResult, LockInv
  <2>2. \A o \in opMap : delivered[o] = 0
    BY <2>1 DEF OnceInv
  <2>3. UNCHANGED <<queue, opMap, wpc, cur, accepted, runs>>
    BY <1>19 DEF VisitResult, queueVars, workerVars
  <2>4. CASE delivered' = delivered
    BY <2>2, <2>3, <2>4 DEF OnceInv
  <2>5. CASE \E o \in opMap : /\ upc' = [upc EXCEPT ![u] = "pop"] /\ target' = [target EXCEPT ![u] = o]
                             /\ delivered' = [delivered EXCEPT ![o] = @ + 1]
    <3>1. PICK o \in opMap : /\ upc' = [upc EXCEPT ![u] = "pop"] /\ target' = [target EXCEPT ![u] = o]
                             /\ delivered' = [delivered EXCEPT ![o] = @ + 1]
      BY <2>5
    <3>2. o \in Ops /\ o \in accepted /\ delivered[o] = 0
      BY <2>2 DEF TypeInv, TypeOK
    <3>3. \A x \in Ops : delivered'[x] = IF x = o THEN 1 ELSE delivered[x]
      BY <3>1, <3>2 DEF TypeInv
    <3>4. upc'[u] = "pop" /\ target'[u] = o
      BY <3>1 DEF TypeInv
    <3>5. (\A x \in opMap : delivered[x] = 0 \/ \E v \in Users : upc[v] = "pop" /\ target[v] = x)'
      BY <2>2, <2>3, <3>3, <3>4 DEF TypeInv, TypeOK
    <3>6. (\A x \in Ops : runs[x] <= 1 /\ delivered[x] <= 1)'
      BY <2>3, <3>3 DEF OnceInv
    <3>7. (\A x \in Ops : x \notin accepted => runs[x] = 0 /\ delivered[x] = 0)'
      BY <2>3, <3>2, <3>3 DEF OnceInv
    <3>8. QED
      BY <2>3, <3>5, <3>6, <3>7 DEF OnceInv
  <2>6. QED
    BY <1>19, <2>4, <2>5 DEF VisitResult, UserGoto
<1>20. ASSUME NEW u \in Users, PopResult(u) PROVE OnceInv'
  BY <1>20, AsyncRPCAssumption DEF TypeInv, TypeOK, PlaceInv, OnceInv, LockInv,
      PopResult, UserGoto, workerVars, stopVars, history
<1>21. ASSUME NEW u \in Users, EndResults(u) PROVE OnceInv'
  <2>1. UNCHANGED <<queue, opMap, wpc, cur, accepted, runs, delivered>> /\ upc[u] # "pop"
    BY <1>21 DEF EndResults, queueVars, workerVars, history
  <2>2. \A v \in Users : upc[v] = "pop" => upc'[v] = "pop" /\ target'[v] = target[v]
    BY <1>21, <2>1 DEF EndResults, EndCall, UserGoto, TypeInv
  <2>3. QED
    BY <2>1, <2>2, OnceFrame
<1>22. CASE StoreClosed
  BY <1>22, AsyncRPCAssumption DEF TypeInv, TypeOK, PlaceInv, OnceInv, LockInv,
      StoreClosed, workerVars, userVars, history
<1>23. CASE StoreFinish
  BY <1>23, AsyncRPCAssumption DEF TypeInv, TypeOK, PlaceInv, OnceInv, LockInv,
      StoreFinish, workerVars, userVars, history
<1>24. CASE StartCancelAll
  BY <1>24, AsyncRPCAssumption DEF TypeInv, TypeOK, PlaceInv, OnceInv, LockInv,
      StartCancelAll, workerVars, userVars, history
<1>25. CASE CancelTest
  BY <1>25, AsyncRPCAssumption DEF TypeInv, TypeOK, PlaceInv, OnceInv, LockInv,
      CancelTest, queueVars, workerVars, userVars, history
<1>26. CASE CancelSet
  BY <1>26, AsyncRPCAssumption DEF TypeInv, TypeOK, PlaceInv, OnceInv, LockInv,
      CancelSet, queueVars, workerVars, userVars, history
<1>27. CASE EndCancelAll
  BY <1>27, AsyncRPCAssumption DEF TypeInv, TypeOK, PlaceInv, OnceInv, LockInv,
      EndCancelAll, NotifyAll, userVars, history
<1>28. CASE NotifyWorkers
  BY <1>28, AsyncRPCAssumption DEF TypeInv, TypeOK, PlaceInv, OnceInv, LockInv,
      NotifyWorkers, NotifyAll, queueVars, userVars, history
<1>29. CASE JoinWorkers
  BY <1>29, AsyncRPCAssumption DEF TypeInv, TypeOK, PlaceInv, OnceInv, LockInv,
      JoinWorkers, queueVars, workerVars, userVars, history
<1>30. QED
  BY <1>1, <1>2, <1>3, <1>4, <1>5, <1>6, <1>7, <1>8, <1>9, <1>10, <1>11, <1>12,
      <1>13, <1>14, <1>15, <1>16, <1>17, <1>18, <1>19, <1>20, <1>21, <1>22, <1>23,
      <1>24, <1>25, <1>26, <1>27, <1>28, <1>29 DEF Next, Worker, InCall, Stopping

\* StateInv is about accepted operations, and about who is inside main_impl() or
\* about to remove a result.
LEMMA StateFrame ==
    ASSUME TypeInv, PlaceInv, StateInv,
           UNCHANGED <<cur, accepted, runs>>,
           Range(queue') \subseteq Range(queue),
           closed' \/ (~closed /\ queue' = queue),
           \A o \in accepted \ opMap' : o \notin opMap \/ state[o] # "READY",
           \A w \in Workers : (wpc'[w] = "impl") <=> (wpc[w] = "impl"),
           \A o \in accepted : state'[o] = state[o],
           \A o \in Ops : state'[o] = "EXECUTING" => state[o] = "EXECUTING",
           \A u \in Users : upc'[u] = "pop" =>
              \/ upc[u] = "pop" /\ target'[u] = target[u] /\ state' = state
              \/ target'[u] \in Ops /\ state'[target'[u]] # "READY"
    PROVE  StateInv'
<1>1. Range(queue) \subseteq accepted /\ accepted \subseteq Ops
  BY DEF TypeInv, TypeOK, PlaceInv
<1>2. \A w \in Workers : cur[w] # Nobody => cur[w] \in accepted
  BY DEF PlaceInv
<1>3. \A o \in Range(queue') : state'[o] \in {"READY", "CANCELLED"}
  BY <1>1 DEF StateInv
<1>4. \A w \in Workers : cur'[w] # Nobody /\ wpc'[w] # "impl" =>
          state'[cur'[w]] \in {"READY", "CANCELLED"}
  BY <1>2 DEF StateInv
<1>5. \A o \in Ops : state'[o] = "EXECUTING" =>
          \E w \in Workers : cur'[w] = o /\ wpc'[w] = "impl"
  BY DEF StateInv
<1>6. \A o \in accepted' \ opMap' : state'[o] # "READY"
  BY DEF StateInv
<1>7. \A u \in Users : upc'[u] = "pop" => target'[u] \in Ops /\ state'[target'[u]] # "READY"
  BY DEF StateInv
<1>8. ~closed' => \A o \in accepted' :
          \/ o \in Range(queue') \/ \E w \in Workers : cur'[w] = o
          \/ state'[o] = "CANCELLED" \/ (runs'[o] = 1 /\ state'[o] \in Settled)
  BY DEF StateInv
<1>9. QED
  BY <1>3, <1>4, <1>5, <1>6, <1>7, <1>8 DEF StateInv

\* Cancelling operations, and leaving the place before a removal, disturbs nothing.
LEMMA CancelFrame ==
    ASSUME TypeInv, PlaceInv, StateInv,
           UNCHANGED <<queue, opMap, closed, cur, accepted, runs, wpc, target>>,
           \A o \in Ops : state'[o] \in {state[o], "CANCELLED"},
           \A u \in Users : upc'[u] = "pop" => upc[u] = "pop"
    PROVE  StateInv'
<1>1. Range(queue) \subseteq Ops /\ accepted \subseteq Ops
  BY DEF TypeInv, TypeOK, PlaceInv
<1>2. \A w \in Workers : cur[w] # Nobody => cur[w] \in Ops
  BY <1>1 DEF PlaceInv
<1>3. \A o \in Range(queue)' : state'[o] \in {"READY", "CANCELLED"}
  BY <1>1 DEF StateInv
<1>4. \A w \in Workers : cur'[w] # Nobody /\ wpc'[w] # "impl" =>
          state'[cur'[w]] \in {"READY", "CANCELLED"}
  BY <1>2 DEF StateInv
<1>5. \A o \in Ops : state'[o] = "EXECUTING" =>
          \E w \in Workers : cur'[w] = o /\ wpc'[w] = "impl"
  BY DEF StateInv
<1>6. \A o \in accepted' \ opMap' : state'[o] # "READY"
  BY <1>1 DEF StateInv
<1>7. \A u \in Users : upc'[u] = "pop" =>
          target'[u] \in Ops /\ state'[target'[u]] # "READY"
  BY DEF StateInv
<1>8. ~closed' => \A o \in accepted' :
          \/ o \in Range(queue)' \/ \E w \in Workers : cur'[w] = o
          \/ state'[o] = "CANCELLED"
          \/ runs'[o] = 1 /\ state'[o] \in Settled
  BY <1>1 DEF StateInv
<1>9. QED
  BY <1>3, <1>4, <1>5, <1>6, <1>7, <1>8 DEF StateInv

\* A worker lets go of an operation that was cancelled, or that has run and settled.
LEMMA LeaveFrame ==
    ASSUME TypeInv, PlaceInv, StateInv, NEW w \in Workers,
           UNCHANGED <<queue, opMap, closed, accepted, runs, upc, target>>,
           cur' = [cur EXCEPT ![w] = Nobody], wpc' = [wpc EXCEPT ![w] = "lock"],
           \A o \in Ops : o # cur[w] => state'[o] = state[o],
           cur[w] # Nobody => \/ state'[cur[w]] = "CANCELLED"
                              \/ runs[cur[w]] = 1 /\ state'[cur[w]] \in Settled
    PROVE  StateInv'
<1>1. Range(queue) \subseteq Ops /\ accepted \subseteq Ops /\ Nobody \notin Ops
  BY AsyncRPCAssumption DEF TypeInv, TypeOK, PlaceInv
<1>2. \A v \in Workers : cur[v] # Nobody => cur[v] \in Ops /\ cur[v] \notin Range(queue)
  BY <1>1 DEF PlaceInv
<1>3. /\ cur'[w] = Nobody /\ wpc'[w] = "lock"
      /\ \A v \in Workers : v # w => cur'[v] = cur[v] /\ wpc'[v] = wpc[v]
  BY DEF TypeInv, TypeOK
<1>4. cur[w] # Nobody => state'[cur[w]] \in Settled
  BY DEF Settled
<1>5. \A o \in Ops : state'[o] = "READY" => state[o] = "READY"
  <2>1. SUFFICES ASSUME NEW o \in Ops, state'[o] = "READY" PROVE o # cur[w]
    OBVIOUS
  <2>2. QED
    BY <1>1, <1>4, <2>1 DEF Settled
<1>6. \A o \in Range(queue') : state'[o] \in {"READY", "CANCELLED"}
  <2>1. \A o \in Range(queue) : o \in Ops /\ o # cur[w]
    BY <1>1, <1>2
  <2>2. QED
    BY <2>1 DEF StateInv
<1>7. \A v \in Workers : cur'[v] # Nobody /\ wpc'[v] # "impl" =>
          state'[cur'[v]] \in {"READY", "CANCELLED"}
  <2>1. SUFFICES ASSUME NEW v \in Workers, cur'[v] # Nobody, wpc'[v] # "impl"
                 PROVE  state'[cur'[v]] \in {"READY", "CANCELLED"}
    OBVIOUS
  <2>2. v # w /\ cur'[v] = cur[v] /\ wpc'[v] = wpc[v]
    BY <1>3, <2>1
  <2>3. cur[v] \in Ops /\ cur[v] # cur[w]
    BY <1>2, <2>1, <2>2 DEF PlaceInv
  <2>4. QED
    BY <2>1, <2>2, <2>3 DEF StateInv
<1>8. \A o \in Ops : state'[o] = "EXECUTING" =>
          \E v \in Workers : cur'[v] = o /\ wpc'[v] = "impl"
  <2>1. SUFFICES ASSUME NEW o \in Ops, state'[o] = "EXECUTING"
                 PROVE  \E v \in Workers : cur'[v] = o /\ wpc'[v] = "impl"
    OBVIOUS
  <2>2. o # cur[w]
    BY <1>1, <1>4, <2>1 DEF Settled
  <2>3. PICK v \in Workers : cur[v] = o /\ wpc[v] = "impl"
    BY <2>1, <2>2 DEF StateInv
  <2>4. QED
    BY <1>3, <2>2, <2>3
<1>9. /\ \A o \in accepted' \ opMap' : state'[o] # "READY"
      /\ \A u \in Users : upc'[u] = "pop" =>
            target'[u] \in Ops /\ state'[target'[u]] # "READY"
  BY <1>1, <1>5 DEF StateInv
<1>10. ASSUME ~closed', NEW o \in accepted'
       PROVE  \/ o \in Range(queue') \/ \E v \in Workers : cur'[v] = o
              \/ state'[o] = "CANCELLED" \/ (runs'[o] = 1 /\ state'[o] \in Settled)
  <2>1. o \in Ops /\ o # Nobody /\ o \in accepted /\ ~closed
    BY <1>1, <1>10
  <2>2. CASE o = cur[w]
    BY <2>1, <2>2
  <2>3. CASE o # cur[w]
    <3>1. state'[o] = state[o]
      BY <2>1, <2>3
    <3>2. ASSUME NEW v \in Workers, cur[v] = o PROVE cur'[v] = o
      BY <1>3, <2>3, <3>2
    <3>3. QED
      BY <2>1, <3>1, <3>2 DEF StateInv
  <2>4. QED
    BY <2>2, <2>3
<1>11. QED
  BY <1>6, <1>7, <1>8, <1>9, <1>10 DEF StateInv

\* cancel() and the workers leave every operation in a state that fits its place.
LEMMA StateStep ==
    ASSUME TypeInv, LockInv, PlaceInv, OnceInv, StateInv, Next
    PROVE  StateInv'
<1>1. ASSUME NEW w \in Workers, Acquire(w) PROVE StateInv'
  <2>1. UNCHANGED <<queue, opMap, closed, cur, accepted, runs, state>>
    BY <1>1 DEF Acquire, history
  <2>2. \A v \in Workers : (wpc'[v] = "impl") <=> (wpc[v] = "impl")
    BY <1>1 DEF Acquire, Goto, TypeInv
  <2>3. UNCHANGED <<upc, target>>
    BY <1>1 DEF Acquire, userVars
  <2>4. QED
    BY <2>1, <2>2, <2>3, StateFrame
<1>2. ASSUME NEW w \in Workers, WaitOrProceed(w) PROVE StateInv'
  <2>1. UNCHANGED <<queue, opMap, closed, cur, accepted, runs, state>>
    BY <1>2 DEF WaitOrProceed, history
  <2>2. \A v \in Workers : (wpc'[v] = "impl") <=> (wpc[v] = "impl")
    BY <1>2 DEF WaitOrProceed, Goto, TypeInv
  <2>3. UNCHANGED <<upc, target>>
    BY <1>2 DEF WaitOrProceed, userVars
  <2>4. QED
    BY <2>1, <2>2, <2>3, StateFrame
<1>3. ASSUME NEW w \in Workers, SpuriousWakeup(w) PROVE StateInv'
  <2>1. UNCHANGED <<queue, opMap, closed, cur, accepted, runs, state>>
    BY <1>3 DEF SpuriousWakeup, queueVars, history
  <2>2. \A v \in Workers : (wpc'[v] = "impl") <=> (wpc[v] = "impl")
    BY <1>3 DEF SpuriousWakeup, Goto, TypeInv
  <2>3. UNCHANGED <<upc, target>>
    BY <1>3 DEF SpuriousWakeup, userVars
  <2>4. QED
    BY <2>1, <2>2, <2>3, StateFrame
<1>4. ASSUME NEW w \in Workers, ExitIfFinished(w) PROVE StateInv'
  <2>1. UNCHANGED <<queue, opMap, closed, cur, accepted, runs, state>>
    BY <1>4 DEF ExitIfFinished, history
  <2>2. \A v \in Workers : (wpc'[v] = "impl") <=> (wpc[v] = "impl")
    BY <1>4 DEF ExitIfFinished, Goto, TypeInv
  <2>3. UNCHANGED <<upc, target>>
    BY <1>4 DEF ExitIfFinished, userVars
  <2>4. QED
    BY <2>1, <2>2, <2>3, StateFrame
<1>5. ASSUME NEW w \in Workers, ExitIfClosed(w) PROVE StateInv'
  <2>1. UNCHANGED <<opMap, closed, cur, accepted, runs, state, upc, target>>
    BY <1>5 DEF ExitIfClosed, userVars, history
  <2>2. \A v \in Workers : (wpc'[v] = "impl") <=> (wpc[v] = "impl")
    BY <1>5 DEF ExitIfClosed, Goto, TypeInv
  <2>3. (closed /\ queue' = <<>>) \/ (~closed /\ queue' = queue)
    BY <1>5 DEF ExitIfClosed
  <2>4. Range(queue') \subseteq Range(queue)
    BY <2>3, EmptyQueue
  <2>5. QED
    BY <2>1, <2>2, <2>3, <2>4, StateFrame
<1>6. ASSUME NEW w \in Workers, Take(w) PROVE StateInv'
  <2>1. /\ Tail(queue) \in Seq(Ops) /\ IsInjective(Tail(queue)) /\ Head(queue) \in Ops
        /\ Range(queue) = Range(Tail(queue)) \cup {Head(queue)}
        /\ Head(queue) \notin Range(Tail(queue))
    BY <1>6, PopFacts DEF Take, TypeInv, TypeOK
  <2>2. /\ wpc[w] = "take" /\ queue' = Tail(queue)
        /\ UNCHANGED <<opMap, closed, state, upc, target, accepted, runs>>
    BY <1>6 DEF Take, userVars, history
  <2>3. /\ cur[w] = Nobody /\ wpc'[w] = "cancelled?"
        /\ \A v \in Workers : v # w => cur'[v] = cur[v] /\ wpc'[v] = wpc[v]
        /\ Head(queue) \in opMap => cur'[w] = Head(queue)
        /\ Head(queue) \notin opMap => cur'[w] = Nobody
    BY <1>6 DEF Take, Goto, TypeInv, TypeOK, PlaceInv
  <2>4. /\ state[Head(queue)] \in {"READY", "CANCELLED"}
        /\ Head(queue) \notin opMap => state[Head(queue)] = "CANCELLED"
    BY <2>1 DEF StateInv, PlaceInv
  <2>5. \A o \in Range(queue') : state[o] \in {"READY", "CANCELLED"}
    BY <2>1, <2>2 DEF StateInv
  <2>6. \A v \in Workers : cur'[v] # Nobody /\ wpc'[v] # "impl" => state[cur'[v]] \in {"READY", "CANCELLED"}
    <3>1. TAKE v \in Workers
    <3>2. CASE v = w
      BY Zenon, <2>3, <2>4, <3>2
    <3>3. CASE v # w
      BY Zenon, <2>3, <3>3 DEF StateInv
    <3>4. QED
      BY <3>2, <3>3
  <2>7. \A o \in Ops : state[o] = "EXECUTING" => \E v \in Workers : cur'[v] = o /\ wpc'[v] = "impl"
    <3>1. SUFFICES ASSUME NEW o \in Ops, state[o] = "EXECUTING"
                   PROVE  \E v \in Workers : cur'[v] = o /\ wpc'[v] = "impl"
      OBVIOUS
    <3>2. PICK v \in Workers : cur[v] = o /\ wpc[v] = "impl"
      BY <3>1 DEF StateInv
    <3>3. v # w
      BY <2>2, <3>2
    <3>4. QED
      BY <2>3, <3>2, <3>3
  <2>8. ASSUME ~closed, NEW o \in accepted
        PROVE  \/ o \in Range(queue') \/ \E v \in Workers : cur'[v] = o
               \/ state[o] = "CANCELLED" \/ (runs[o] = 1 /\ state[o] \in Settled)
    <3>1. CASE o = Head(queue)
      BY <2>3, <2>4, <3>1
    <3>2. CASE o \in Range(queue) /\ o # Head(queue)
      BY <2>1, <2>2, <3>2
    <3>3. ASSUME NEW v \in Workers, cur[v] = o PROVE \E x \in Workers : cur'[x] = o
      <4>1. o # Nobody
        BY AsyncRPCAssumption DEF TypeInv, TypeOK
      <4>2. v # w
        BY <2>3, <3>3, <4>1
      <4>3. QED
        BY <2>3, <3>3, <4>2
    <3>4. QED
      BY <2>8, <3>1, <3>2, <3>3 DEF StateInv
  <2>9. QED
    BY <2>2, <2>5, <2>6, <2>7, <2>8 DEF StateInv
<1>7. ASSUME NEW w \in Workers, SkipOrRun(w) PROVE StateInv'
  <2>1. /\ wpc[w] = "cancelled?"
        /\ UNCHANGED <<closed, opMap, queue, state, upc, target, accepted, runs>>
    BY <1>7 DEF SkipOrRun, queueVars, userVars, history
  <2>2. CASE /\ (cur[w] # Nobody => state[cur[w]] = "CANCELLED")
             /\ wpc' = [wpc EXCEPT ![w] = "lock"] /\ cur' = [cur EXCEPT ![w] = Nobody]
    BY <2>1, <2>2, LeaveFrame
  <2>3. CASE wpc' = [wpc EXCEPT ![w] = "main"] /\ cur' = cur
    <3>1. \A v \in Workers : (wpc'[v] = "impl") <=> (wpc[v] = "impl")
      BY <2>1, <2>3 DEF TypeInv
    <3>2. QED
      BY <2>1, <2>3, <3>1, StateFrame
  <2>4. QED
    BY <1>7, <2>2, <2>3 DEF SkipOrRun, Goto, Skip
<1>8. ASSUME NEW w \in Workers, EnterMain(w) PROVE StateInv'
  <2>1. /\ wpc[w] = "main"
        /\ UNCHANGED <<closed, opMap, queue, state, upc, target, accepted, runs>>
    BY <1>8 DEF EnterMain, queueVars, userVars, history
  <2>2. CASE /\ state[cur[w]] = "CANCELLED"
             /\ wpc' = [wpc EXCEPT ![w] = "lock"] /\ cur' = [cur EXCEPT ![w] = Nobody]
    BY <2>1, <2>2, LeaveFrame
  <2>3. CASE wpc' = [wpc EXCEPT ![w] = "begin"] /\ cur' = cur
    <3>1. \A v \in Workers : (wpc'[v] = "impl") <=> (wpc[v] = "impl")
      BY <2>1, <2>3 DEF TypeInv
    <3>2. QED
      BY <2>1, <2>3, <3>1, StateFrame
  <2>4. QED
    BY <1>8, <2>2, <2>3 DEF EnterMain, Goto, Skip
<1>9. ASSUME NEW w \in Workers, BeginMain(w) PROVE StateInv'
  <2>1. /\ wpc[w] = "begin" /\ cur[w] \in Ops /\ cur[w] \in accepted \ Range(queue)
        /\ accepted \subseteq Ops /\ Range(queue) \subseteq Ops /\ Nobody \notin Ops
    <3>1. accepted \subseteq Ops /\ Nobody \notin Ops
      BY AsyncRPCAssumption DEF TypeInv, TypeOK
    <3>2. wpc[w] = "begin" /\ cur[w] \in Ops /\ Range(queue) \subseteq accepted
      BY <1>9 DEF BeginMain, PlaceInv
    <3>3. cur[w] # Nobody
      BY <3>1, <3>2
    <3>4. cur[w] \in accepted \ Range(queue)
      BY Zenon, <3>3 DEF PlaceInv
    <3>5. QED
      BY <3>1, <3>2, <3>4
  <2>2. /\ state'[cur[w]] = "EXECUTING"
        /\ \A o \in Ops : o # cur[w] => state'[o] = state[o] /\ runs'[o] = runs[o]
    BY <1>9, <2>1 DEF BeginMain, TypeInv, TypeOK
  <2>3. wpc'[w] = "impl" /\ \A v \in Workers : v # w => wpc'[v] = wpc[v]
    BY <1>9 DEF BeginMain, Goto, TypeInv
  <2>4. UNCHANGED <<closed, opMap, queue, cur, upc, target, accepted>>
    BY <1>9 DEF BeginMain, queueVars, userVars
  <2>5. \A o \in Range(queue') : state'[o] \in {"READY", "CANCELLED"}
    BY <2>1, <2>2, <2>4 DEF StateInv
  <2>6. \A v \in Workers : cur'[v] # Nobody /\ wpc'[v] # "impl" =>
            state'[cur'[v]] \in {"READY", "CANCELLED"}
    <3>1. \A v \in Workers : v # w /\ cur[v] # Nobody => cur[v] \in Ops /\ cur[v] # cur[w]
      BY <2>1 DEF PlaceInv
    <3>2. QED
      BY <2>2, <2>3, <2>4, <3>1 DEF StateInv
  <2>7. \A o \in Ops : state'[o] = "EXECUTING" =>
            \E v \in Workers : cur'[v] = o /\ wpc'[v] = "impl"
    <3>1. SUFFICES ASSUME NEW o \in Ops, state'[o] = "EXECUTING", o # cur[w]
                   PROVE  \E v \in Workers : cur'[v] = o /\ wpc'[v] = "impl"
      BY <2>3, <2>4
    <3>2. PICK v \in Workers : cur[v] = o /\ wpc[v] = "impl"
      BY <2>2, <3>1 DEF StateInv
    <3>3. QED
      BY <2>3, <2>4, <3>1, <3>2
  <2>8. /\ \A o \in accepted' \ opMap' : state'[o] # "READY"
        /\ \A u \in Users : upc'[u] = "pop" =>
              target'[u] \in Ops /\ state'[target'[u]] # "READY"
    <3>1. \A o \in Ops : state[o] # "READY" => state'[o] # "READY"
      BY <2>2
    <3>2. /\ \A o \in accepted \ opMap : o \in Ops /\ state[o] # "READY"
          /\ \A u \in Users : upc[u] = "pop" => target[u] \in Ops /\ state[target[u]] # "READY"
      BY <2>1 DEF StateInv
    <3>3. QED
      BY <2>4, <3>1, <3>2
  <2>9. ASSUME ~closed', NEW o \in accepted'
        PROVE  \/ o \in Range(queue') \/ \E v \in Workers : cur'[v] = o
               \/ state'[o] = "CANCELLED" \/ (runs'[o] = 1 /\ state'[o] \in Settled)
    <3>1. CASE o = cur[w]
      BY <2>4, <3>1
    <3>2. CASE o # cur[w]
      <4>1. ~closed /\ o \in accepted /\ state'[o] = state[o] /\ runs'[o] = runs[o]
        BY <2>1, <2>2, <2>4, <2>9, <3>2
      <4>2. QED
        BY <2>4, <4>1 DEF StateInv
    <3>3. QED
      BY <3>1, <3>2
  <2>10. QED
    BY <2>5, <2>6, <2>7, <2>8, <2>9 DEF StateInv
<1>10. ASSUME NEW w \in Workers, EndMain(w) PROVE StateInv'
  <2>1. wpc[w] = "impl" /\ cur[w] \in Ops /\ runs[cur[w]] = 1
    BY <1>10 DEF EndMain, PlaceInv, OnceInv
  <2>2. /\ state'[cur[w]] \in Settled
        /\ \A o \in Ops : o # cur[w] => state'[o] = state[o]
    BY <1>10, <2>1 DEF EndMain, Settled, TypeInv, TypeOK
  <2>3. /\ cur' = [cur EXCEPT ![w] = Nobody] /\ wpc' = [wpc EXCEPT ![w] = "lock"]
        /\ UNCHANGED <<queue, opMap, closed, accepted, runs, upc, target>>
    BY <1>10 DEF EndMain, Skip, Goto, queueVars, userVars, history
  <2>4. QED
    BY <2>1, <2>2, <2>3, LeaveFrame
<1>11. ASSUME NEW u \in Users, CallSubmit(u) PROVE StateInv'
  <2>1. UNCHANGED <<queue, opMap, closed, cur, accepted, runs>>
    BY <1>11 DEF CallSubmit, queueVars, workerVars, history
  <2>2. \A w \in Workers : (wpc'[w] = "impl") <=> (wpc[w] = "impl")
    BY <1>11 DEF CallSubmit, workerVars
  <2>3. \A v \in Users : upc'[v] # "pop"
    BY <1>11, AsyncRPCAssumption DEF CallSubmit, UserGoto, LockInv, TypeInv
  <2>4. /\ \A o \in accepted : state'[o] = state[o]
        /\ \A o \in Ops : state'[o] = "EXECUTING" => state[o] = "EXECUTING"
    BY <1>11 DEF CallSubmit, PlaceInv, TypeInv, TypeOK
  <2>5. QED
    BY <2>1, <2>2, <2>3, <2>4, StateFrame
<1>12. ASSUME NEW u \in Users, CallMigrate(u) PROVE StateInv'
  <2>1. UNCHANGED <<queue, opMap, closed, cur, accepted, runs, state>>
    BY <1>12 DEF CallMigrate, queueVars, workerVars, history
  <2>2. \A w \in Workers : (wpc'[w] = "impl") <=> (wpc[w] = "impl")
    BY <1>12 DEF CallMigrate, workerVars
  <2>3. \A v \in Users : upc'[v] # "pop"
    BY <1>12, AsyncRPCAssumption DEF CallMigrate, UserGoto, LockInv, TypeInv
  <2>4. QED
    BY <2>1, <2>2, <2>3, StateFrame
<1>13. ASSUME NEW u \in Users, CallResults(u) PROVE StateInv'
  <2>1. UNCHANGED <<queue, opMap, closed, cur, accepted, runs, state>>
    BY <1>13 DEF CallResults, queueVars, workerVars, history
  <2>2. \A w \in Workers : (wpc'[w] = "impl") <=> (wpc[w] = "impl")
    BY <1>13 DEF CallResults, workerVars
  <2>3. \A v \in Users : upc'[v] # "pop"
    BY <1>13, AsyncRPCAssumption DEF CallResults, UserGoto, LockInv, TypeInv
  <2>4. QED
    BY <2>1, <2>2, <2>3, StateFrame
<1>14. ASSUME NEW u \in Users, AddTest(u) PROVE StateInv'
  <2>1. UNCHANGED <<queue, opMap, closed, cur, accepted, runs, state>>
    BY <1>14 DEF AddTest, workerVars, history
  <2>2. \A w \in Workers : (wpc'[w] = "impl") <=> (wpc[w] = "impl")
    BY <1>14 DEF AddTest, workerVars
  <2>3. \A v \in Users : upc'[v] # "pop"
    BY <1>14, AsyncRPCAssumption DEF AddTest, EndCall, UserGoto, LockInv, TypeInv
  <2>4. QED
    BY <2>1, <2>2, <2>3, StateFrame
<1>15. ASSUME NEW u \in Users, AddPush(u) PROVE StateInv'
  <2>1. /\ Append(queue, target[u]) \in Seq(Ops) /\ IsInjective(Append(queue, target[u]))
        /\ Append(queue, target[u]) # <<>>
        /\ Range(Append(queue, target[u])) = Range(queue) \cup {target[u]}
    <3>1. target[u] \in Ops /\ target[u] \notin Range(queue)
      BY <1>15 DEF AddPush, PlaceInv
    <3>2. QED
      BY <3>1, PushFacts DEF TypeInv, TypeOK
  <2>2. \A w \in Workers : wpc'[w] = wpc[w] \/ (wpc[w] = "waiting" /\ wpc'[w] = "lock")
    BY <1>15 DEF AddPush, NotifyOne, Goto, TypeInv
  <2>3. /\ upc[u] = "push" /\ upc' = [upc EXCEPT ![u] = "idle"]
        /\ target' = [target EXCEPT ![u] = Nobody] /\ opMap' = opMap \cup {target[u]}
        /\ queue' = Append(queue, target[u]) /\ accepted' = accepted \cup {target[u]}
        /\ UNCHANGED <<closed, state, cur, runs>>
    BY <1>15 DEF AddPush, EndCall, UserGoto
  <2>4. state[target[u]] \in {"READY", "CANCELLED"}
    BY <2>3 DEF PlaceInv
  <2>5. \A w \in Workers : (wpc'[w] = "impl") <=> (wpc[w] = "impl")
    BY <2>2
  <2>6. \A v \in Users : upc'[v] = "pop" => upc[v] = "pop" /\ target'[v] = target[v]
    BY <2>3 DEF TypeInv
  <2>7. \A o \in Range(queue') : state[o] \in {"READY", "CANCELLED"}
    BY <2>1, <2>3, <2>4 DEF StateInv
  <2>8. (~closed => \A o \in accepted :
            \/ o \in Range(queue) \/ \E w \in Workers : cur[w] = o
            \/ state[o] = "CANCELLED"
            \/ runs[o] = 1 /\ state[o] \in Settled)'
    BY <2>1, <2>3 DEF StateInv
  <2>9. \A w \in Workers : cur'[w] # Nobody /\ wpc'[w] # "impl" =>
            state'[cur'[w]] \in {"READY", "CANCELLED"}
    BY <2>3, <2>5 DEF StateInv
  <2>10. \A o \in Ops : state'[o] = "EXECUTING" =>
            \E w \in Workers : cur'[w] = o /\ wpc'[w] = "impl"
    BY <2>3, <2>5 DEF StateInv
  <2>11. \A o \in accepted' \ opMap' : state'[o] # "READY"
    BY <2>3 DEF StateInv
  <2>12. \A v \in Users : upc'[v] = "pop" =>
            target'[v] \in Ops /\ state'[target'[v]] # "READY"
    <3>1. state' = state
      BY <2>3
    <3>2. QED
      BY <2>6, <3>1 DEF StateInv
  <2>13. QED
    BY <2>3, <2>7, <2>8, <2>9, <2>10, <2>11, <2>12 DEF StateInv
<1>16. ASSUME NEW u \in Users, MigrateCancelTest(u) PROVE StateInv'
  <2>1. UNCHANGED <<queue, opMap, closed, cur, accepted, runs, state>>
    BY <1>16 DEF MigrateCancelTest, queueVars, workerVars, history
  <2>2. \A w \in Workers : (wpc'[w] = "impl") <=> (wpc[w] = "impl")
    BY <1>16 DEF MigrateCancelTest, workerVars
  <2>3. \A v \in Users : upc'[v] # "pop"
    BY <1>16, AsyncRPCAssumption DEF MigrateCancelTest, UserGoto, LockInv, TypeInv
  <2>4. QED
    BY <2>1, <2>2, <2>3, StateFrame
<1>17. ASSUME NEW u \in Users, MigrateCancelSet(u) PROVE StateInv'
  <2>1. UNCHANGED <<queue, opMap, closed, cur, accepted, runs, wpc, target>>
    BY <1>17 DEF MigrateCancelSet, queueVars, workerVars, history
  <2>2. \A o \in Ops : state'[o] \in {state[o], "CANCELLED"}
    BY <1>17 DEF MigrateCancelSet, TypeInv, TypeOK
  <2>3. \A v \in Users : upc'[v] = "pop" => upc[v] = "pop"
    BY <1>17 DEF MigrateCancelSet, UserGoto, TypeInv, TypeOK
  <2>4. QED
    BY <2>1, <2>2, <2>3, CancelFrame
<1>18. ASSUME NEW u \in Users, MigrateReplace(u) PROVE StateInv'
  <2>1. UNCHANGED <<queue, opMap, closed, cur, accepted, runs>>
    BY <1>18 DEF MigrateReplace, queueVars, workerVars, history
  <2>2. \A w \in Workers : (wpc'[w] = "impl") <=> (wpc[w] = "impl")
    BY <1>18 DEF MigrateReplace, workerVars
  <2>3. \A v \in Users : upc'[v] # "pop"
    BY <1>18, AsyncRPCAssumption DEF MigrateReplace, UserGoto, LockInv, TypeInv
  <2>4. /\ \A o \in accepted : state'[o] = state[o]
        /\ \A o \in Ops : state'[o] = "EXECUTING" => state[o] = "EXECUTING"
    BY <1>18 DEF MigrateReplace, PlaceInv, TypeInv, TypeOK
  <2>5. QED
    BY <2>1, <2>2, <2>3, <2>4, StateFrame
<1>19. ASSUME NEW u \in Users, VisitResult(u) PROVE StateInv'
  <2>1. UNCHANGED <<queue, opMap, closed, cur, wpc, accepted, runs, state>>
    BY <1>19 DEF VisitResult, queueVars, workerVars
  <2>2. \A v \in Users : v # u => upc[v] # "pop"
    BY <1>19, AsyncRPCAssumption DEF VisitResult, LockInv
  <2>3. \A v \in Users : upc'[v] = "pop" => target'[v] \in Ops /\ state'[target'[v]] # "READY"
    <3>1. PICK o \in ids[u] :
            \/ /\ o \in opMap /\ state[o] \in Settled
               /\ UserGoto(u, "pop") /\ target' = [target EXCEPT ![u] = o]
            \/ UNCHANGED <<upc, target>>
      BY <1>19 DEF VisitResult
    <3>2. o \in Ops /\ upc[u] = "visit"
      BY <1>19 DEF VisitResult, TypeInv
    <3>3. QED
      BY <2>1, <2>2, <3>1, <3>2 DEF UserGoto, Settled, TypeInv
  <2>4. QED
    BY <2>1, <2>3, StateFrame
<1>20. ASSUME NEW u \in Users, PopResult(u) PROVE StateInv'
  <2>1. UNCHANGED <<queue, closed, cur, wpc, accepted, runs, state>>
    BY <1>20 DEF PopResult, workerVars, history
  <2>2. opMap' = opMap \ {target[u]} /\ state[target[u]] # "READY"
    BY <1>20 DEF PopResult, StateInv
  <2>3. \A v \in Users : upc'[v] # "pop"
    BY <1>20, AsyncRPCAssumption DEF PopResult, UserGoto, LockInv, TypeInv
  <2>4. QED
    BY <2>1, <2>2, <2>3, StateFrame
<1>21. ASSUME NEW u \in Users, EndResults(u) PROVE StateInv'
  <2>1. UNCHANGED <<queue, opMap, closed, cur, accepted, runs, state>>
    BY <1>21 DEF EndResults, queueVars, workerVars, history
  <2>2. \A w \in Workers : (wpc'[w] = "impl") <=> (wpc[w] = "impl")
    BY <1>21 DEF EndResults, workerVars
  <2>3. \A v \in Users : upc'[v] # "pop"
    BY <1>21, AsyncRPCAssumption DEF EndResults, EndCall, UserGoto, LockInv, TypeInv
  <2>4. QED
    BY <2>1, <2>2, <2>3, StateFrame
<1>22. CASE StoreClosed
  <2>1. UNCHANGED <<queue, opMap, cur, wpc, accepted, runs, state, upc, target>> /\ closed'
    BY <1>22 DEF StoreClosed, workerVars, userVars, history
  <2>2. QED
    BY <2>1, StateFrame
<1>23. CASE StoreFinish
  <2>1. UNCHANGED <<queue, opMap, closed, cur, accepted, runs, state>>
    BY <1>23 DEF StoreFinish, workerVars, history
  <2>2. \A w \in Workers : (wpc'[w] = "impl") <=> (wpc[w] = "impl")
    BY <1>23 DEF StoreFinish, workerVars
  <2>3. UNCHANGED <<upc, target>>
    BY <1>23, AsyncRPCAssumption DEF StoreFinish, userVars
  <2>4. QED
    BY <2>1, <2>2, <2>3, StateFrame
<1>24. CASE StartCancelAll
  <2>1. UNCHANGED <<queue, opMap, closed, cur, accepted, runs, state>>
    BY <1>24 DEF StartCancelAll, workerVars, history
  <2>2. \A w \in Workers : (wpc'[w] = "impl") <=> (wpc[w] = "impl")
    BY <1>24 DEF StartCancelAll, workerVars
  <2>3. UNCHANGED <<upc, target>>
    BY <1>24, AsyncRPCAssumption DEF StartCancelAll, userVars
  <2>4. QED
    BY <2>1, <2>2, <2>3, StateFrame
<1>25. CASE CancelTest
  <2>1. UNCHANGED <<queue, opMap, closed, cur, accepted, runs, state>>
    BY <1>25 DEF CancelTest, queueVars, workerVars, history
  <2>2. \A w \in Workers : (wpc'[w] = "impl") <=> (wpc[w] = "impl")
    BY <1>25 DEF CancelTest, workerVars
  <2>3. UNCHANGED <<upc, target>>
    BY <1>25, AsyncRPCAssumption DEF CancelTest, userVars
  <2>4. QED
    BY <2>1, <2>2, <2>3, StateFrame
<1>26. CASE CancelSet
  <2>1. UNCHANGED <<queue, opMap, closed, cur, accepted, runs, wpc, target, upc>>
    BY <1>26 DEF CancelSet, queueVars, workerVars, userVars, history
  <2>2. \A o \in Ops : state'[o] \in {state[o], "CANCELLED"}
    BY <1>26 DEF CancelSet, TypeInv, TypeOK
  <2>3. QED
    BY <2>1, <2>2, CancelFrame
<1>27. CASE EndCancelAll
  <2>1. UNCHANGED <<queue, opMap, closed, cur, accepted, runs, state>>
    BY <1>27 DEF EndCancelAll, history
  <2>2. \A w \in Workers : (wpc'[w] = "impl") <=> (wpc[w] = "impl")
    BY <1>27 DEF EndCancelAll, NotifyAll
  <2>3. UNCHANGED <<upc, target>>
    BY <1>27, AsyncRPCAssumption DEF EndCancelAll, userVars
  <2>4. QED
    BY <2>1, <2>2, <2>3, StateFrame
<1>28. CASE NotifyWorkers
  <2>1. UNCHANGED <<queue, opMap, closed, cur, accepted, runs, state>>
    BY <1>28 DEF NotifyWorkers, queueVars, history
  <2>2. \A w \in Workers : (wpc'[w] = "impl") <=> (wpc[w] = "impl")
    BY <1>28 DEF NotifyWorkers, NotifyAll
  <2>3. UNCHANGED <<upc, target>>
    BY <1>28, AsyncRPCAssumption DEF NotifyWorkers, userVars
  <2>4. QED
    BY <2>1, <2>2, <2>3, StateFrame
<1>29. CASE JoinWorkers
  <2>1. UNCHANGED <<queue, opMap, closed, cur, accepted, runs, state>>
    BY <1>29 DEF JoinWorkers, queueVars, workerVars, history
  <2>2. \A w \in Workers : (wpc'[w] = "impl") <=> (wpc[w] = "impl")
    BY <1>29 DEF JoinWorkers, workerVars
  <2>3. UNCHANGED <<upc, target>>
    BY <1>29, AsyncRPCAssumption DEF JoinWorkers, userVars
  <2>4. QED
    BY <2>1, <2>2, <2>3, StateFrame
<1>30. QED
  BY <1>1, <1>2, <1>3, <1>4, <1>5, <1>6, <1>7, <1>8, <1>9, <1>10, <1>11, <1>12,
      <1>13, <1>14, <1>15, <1>16, <1>17, <1>18, <1>19, <1>20, <1>21, <1>22, <1>23,
      <1>24, <1>25, <1>26, <1>27, <1>28, <1>29 DEF Next, Worker, InCall, Stopping

\* What a stop has done is undone by no step that leaves the stop where it is, adds
\* no operation, makes none READY and no exited worker return, and lets nobody start
\* to push after the close.
LEMMA StopFrame ==
    ASSUME StopInv,
           UNCHANGED <<closed, finish, spc, toCancel, armed, accepted>>,
           \A o \in accepted : state'[o] = "READY" => state[o] = "READY",
           \A u \in Users : upc'[u] = "push" => upc[u] = "push" \/ ~closed,
           \A w \in Workers : wpc[w] = "exited" => wpc'[w] = "exited"
    PROVE  StopInv'
<1>1. closed' /\ spc' \notin {"cancelAll", "cancelling"} =>
          \A o \in accepted' : state'[o] # "READY"
  BY DEF StopInv
<1>2. spc' = "cancelling" => \A o \in accepted' :
          state'[o] # "READY" \/ o \in toCancel' \/ o = armed'
  BY DEF StopInv
<1>3. closed' /\ spc' # "cancelAll" => \A u \in Users : upc'[u] # "push"
  BY DEF StopInv
<1>4. spc' = "joined" => \A w \in Workers : wpc'[w] = "exited"
  BY DEF StopInv
<1>5. QED
  BY <1>1, <1>2, <1>3, <1>4 DEF StopInv

\* Once closed_ is stored nothing is added any more, and cancelAllOperations
\* leaves nothing READY.
LEMMA StopStep ==
    ASSUME TypeInv, LockInv, PlaceInv, StateInv, StopInv, Next
    PROVE  StopInv'
<1>1. ASSUME NEW w \in Workers, Acquire(w) PROVE StopInv'
  <2>1. UNCHANGED <<closed, finish, state, upc, spc, toCancel, armed, accepted>>
    BY <1>1 DEF Acquire, userVars, stopVars, history
  <2>2. \A v \in Workers : wpc[v] = "exited" => wpc'[v] = "exited"
    BY <1>1 DEF Acquire, TypeInv, Goto
  <2>3. QED
    BY <2>1, <2>2, StopFrame
<1>2. ASSUME NEW w \in Workers, WaitOrProceed(w) PROVE StopInv'
  <2>1. UNCHANGED <<closed, finish, state, upc, spc, toCancel, armed, accepted>>
    BY <1>2 DEF WaitOrProceed, userVars, stopVars, history
  <2>2. \A v \in Workers : wpc[v] = "exited" => wpc'[v] = "exited"
    BY <1>2 DEF WaitOrProceed, TypeInv, Goto
  <2>3. QED
    BY <2>1, <2>2, StopFrame
<1>3. ASSUME NEW w \in Workers, SpuriousWakeup(w) PROVE StopInv'
  <2>1. UNCHANGED <<closed, finish, state, upc, spc, toCancel, armed, accepted>>
    BY <1>3 DEF SpuriousWakeup, queueVars, userVars, stopVars, history
  <2>2. \A v \in Workers : wpc[v] = "exited" => wpc'[v] = "exited"
    BY <1>3 DEF SpuriousWakeup, TypeInv, Goto
  <2>3. QED
    BY <2>1, <2>2, StopFrame
<1>4. ASSUME NEW w \in Workers, ExitIfFinished(w) PROVE StopInv'
  <2>1. UNCHANGED <<closed, finish, state, upc, spc, toCancel, armed, accepted>>
    BY <1>4 DEF ExitIfFinished, userVars, stopVars, history
  <2>2. \A v \in Workers : wpc[v] = "exited" => wpc'[v] = "exited"
    BY <1>4 DEF ExitIfFinished, TypeInv, Goto
  <2>3. QED
    BY <2>1, <2>2, StopFrame
<1>5. ASSUME NEW w \in Workers, ExitIfClosed(w) PROVE StopInv'
  <2>1. UNCHANGED <<closed, finish, state, upc, spc, toCancel, armed, accepted>>
    BY <1>5 DEF ExitIfClosed, userVars, stopVars, history
  <2>2. \A v \in Workers : wpc[v] = "exited" => wpc'[v] = "exited"
    BY <1>5 DEF ExitIfClosed, TypeInv, Goto
  <2>3. QED
    BY <2>1, <2>2, StopFrame
<1>6. ASSUME NEW w \in Workers, Take(w) PROVE StopInv'
  <2>1. UNCHANGED <<closed, finish, state, upc, spc, toCancel, armed, accepted>>
    BY <1>6 DEF Take, userVars, stopVars, history
  <2>2. \A v \in Workers : wpc[v] = "exited" => wpc'[v] = "exited"
    BY <1>6 DEF Take, TypeInv, Goto
  <2>3. QED
    BY <2>1, <2>2, StopFrame
<1>7. ASSUME NEW w \in Workers, SkipOrRun(w) PROVE StopInv'
  <2>1. UNCHANGED <<closed, finish, state, upc, spc, toCancel, armed, accepted>>
    BY <1>7 DEF SkipOrRun, queueVars, userVars, stopVars, history
  <2>2. \A v \in Workers : wpc[v] = "exited" => wpc'[v] = "exited"
    BY <1>7 DEF SkipOrRun, TypeInv, Goto, Skip
  <2>3. QED
    BY <2>1, <2>2, StopFrame
<1>8. ASSUME NEW w \in Workers, EnterMain(w) PROVE StopInv'
  <2>1. UNCHANGED <<closed, finish, state, upc, spc, toCancel, armed, accepted>>
    BY <1>8 DEF EnterMain, queueVars, userVars, stopVars, history
  <2>2. \A v \in Workers : wpc[v] = "exited" => wpc'[v] = "exited"
    BY <1>8 DEF EnterMain, TypeInv, Goto, Skip
  <2>3. QED
    BY <2>1, <2>2, StopFrame
<1>9. ASSUME NEW w \in Workers, BeginMain(w) PROVE StopInv'
  <2>1. UNCHANGED <<closed, finish, upc, spc, toCancel, armed, accepted>>
    BY <1>9 DEF BeginMain, queueVars, userVars, stopVars
  <2>2. \A o \in Ops : state'[o] = "READY" => state[o] = "READY"
    BY <1>9 DEF BeginMain, TypeInv, TypeOK
  <2>3. \A v \in Workers : wpc[v] = "exited" => wpc'[v] = "exited"
    BY <1>9 DEF BeginMain, TypeInv, Goto
  <2>4. accepted \subseteq Ops
    BY DEF TypeInv, TypeOK
  <2>5. QED
    BY <2>1, <2>2, <2>3, <2>4, StopFrame
<1>10. ASSUME NEW w \in Workers, EndMain(w) PROVE StopInv'
  <2>1. UNCHANGED <<closed, finish, upc, spc, toCancel, armed, accepted>>
    BY <1>10 DEF EndMain, queueVars, userVars, stopVars, history
  <2>2. \A o \in Ops : state'[o] = "READY" => state[o] = "READY"
    BY <1>10 DEF EndMain, TypeInv, TypeOK
  <2>3. \A v \in Workers : wpc[v] = "exited" => wpc'[v] = "exited"
    BY <1>10 DEF EndMain, TypeInv, Goto, Skip
  <2>4. accepted \subseteq Ops
    BY DEF TypeInv, TypeOK
  <2>5. QED
    BY <2>1, <2>2, <2>3, <2>4, StopFrame
<1>11. ASSUME NEW u \in Users, CallSubmit(u) PROVE StopInv'
  <2>1. UNCHANGED <<closed, finish, wpc, spc, toCancel, armed, accepted>>
    BY <1>11 DEF CallSubmit, queueVars, workerVars, stopVars, history
  <2>2. \A v \in Users : upc'[v] = "push" => upc[v] = "push"
    BY <1>11 DEF CallSubmit, UserGoto, TypeInv
  <2>3. \A o \in accepted : state'[o] = state[o]
    BY <1>11 DEF CallSubmit, PlaceInv, TypeInv, TypeOK
  <2>4. QED
    BY <2>1, <2>2, <2>3, StopFrame
<1>12. ASSUME NEW u \in Users, CallMigrate(u) PROVE StopInv'
  <2>1. UNCHANGED <<closed, finish, state, wpc, spc, toCancel, armed, accepted>>
    BY <1>12 DEF CallMigrate, queueVars, workerVars, stopVars, history
  <2>2. \A v \in Users : upc'[v] = "push" => upc[v] = "push"
    BY <1>12 DEF CallMigrate, UserGoto, TypeInv
  <2>3. QED
    BY <2>1, <2>2, StopFrame
<1>13. ASSUME NEW u \in Users, CallResults(u) PROVE StopInv'
  <2>1. UNCHANGED <<closed, finish, state, wpc, spc, toCancel, armed, accepted>>
    BY <1>13 DEF CallResults, queueVars, workerVars, stopVars, history
  <2>2. \A v \in Users : upc'[v] = "push" => upc[v] = "push"
    BY <1>13 DEF CallResults, UserGoto, TypeInv
  <2>3. QED
    BY <2>1, <2>2, StopFrame
<1>14. ASSUME NEW u \in Users, AddTest(u) PROVE StopInv'
  <2>1. UNCHANGED <<closed, finish, state, wpc, spc, toCancel, armed, accepted>>
    BY <1>14 DEF AddTest, workerVars, stopVars, history
  <2>2. \A v \in Users : upc'[v] = "push" => upc[v] = "push" \/ ~closed
    BY <1>14 DEF AddTest, UserGoto, EndCall, TypeInv
  <2>3. QED
    BY <2>1, <2>2, StopFrame
<1>15. ASSUME NEW u \in Users, AddPush(u) PROVE StopInv'
  BY <1>15, AsyncRPCAssumption DEF TypeInv, TypeOK, StopInv, PlaceInv, LockInv,
      AddPush, UserGoto, EndCall, NotifyOne, Goto, stopVars
<1>16. ASSUME NEW u \in Users, MigrateCancelTest(u) PROVE StopInv'
  <2>1. UNCHANGED <<closed, finish, state, wpc, spc, toCancel, armed, accepted>>
    BY <1>16 DEF MigrateCancelTest, queueVars, workerVars, stopVars, history
  <2>2. \A v \in Users : upc'[v] = "push" => upc[v] = "push"
    BY <1>16 DEF MigrateCancelTest, UserGoto, TypeInv
  <2>3. QED
    BY <2>1, <2>2, StopFrame
<1>17. ASSUME NEW u \in Users, MigrateCancelSet(u) PROVE StopInv'
  <2>1. UNCHANGED <<closed, finish, wpc, spc, toCancel, armed, accepted>>
    BY <1>17 DEF MigrateCancelSet, queueVars, workerVars, stopVars, history
  <2>2. \A v \in Users : upc'[v] = "push" => upc[v] = "push"
    BY <1>17 DEF MigrateCancelSet, UserGoto, TypeInv
  <2>3. \A o \in accepted : state'[o] = "READY" => state[o] = "READY"
    BY <1>17 DEF MigrateCancelSet, TypeInv, TypeOK
  <2>4. QED
    BY <2>1, <2>2, <2>3, StopFrame
<1>18. ASSUME NEW u \in Users, MigrateReplace(u) PROVE StopInv'
  <2>1. UNCHANGED <<closed, finish, wpc, spc, toCancel, armed, accepted>>
    BY <1>18 DEF MigrateReplace, queueVars, workerVars, stopVars, history
  <2>2. \A v \in Users : upc'[v] = "push" => upc[v] = "push"
    BY <1>18 DEF MigrateReplace, UserGoto, TypeInv
  <2>3. \A o \in accepted : state'[o] = state[o]
    BY <1>18 DEF MigrateReplace, PlaceInv, TypeInv, TypeOK
  <2>4. QED
    BY <2>1, <2>2, <2>3, StopFrame
<1>19. ASSUME NEW u \in Users, VisitResult(u) PROVE StopInv'
  <2>1. UNCHANGED <<closed, finish, state, wpc, spc, toCancel, armed, accepted>>
    BY <1>19 DEF VisitResult, queueVars, workerVars, stopVars
  <2>2. \A v \in Users : upc'[v] = "push" => upc[v] = "push"
    BY <1>19 DEF VisitResult, UserGoto, TypeInv
  <2>3. QED
    BY <2>1, <2>2, StopFrame
<1>20. ASSUME NEW u \in Users, PopResult(u) PROVE StopInv'
  <2>1. UNCHANGED <<closed, finish, state, wpc, spc, toCancel, armed, accepted>>
    BY <1>20 DEF PopResult, workerVars, stopVars, history
  <2>2. \A v \in Users : upc'[v] = "push" => upc[v] = "push"
    BY <1>20 DEF PopResult, UserGoto, TypeInv
  <2>3. QED
    BY <2>1, <2>2, StopFrame
<1>21. ASSUME NEW u \in Users, EndResults(u) PROVE StopInv'
  <2>1. UNCHANGED <<closed, finish, state, wpc, spc, toCancel, armed, accepted>>
    BY <1>21 DEF EndResults, queueVars, workerVars, stopVars, history
  <2>2. \A v \in Users : upc'[v] = "push" => upc[v] = "push"
    BY <1>21 DEF EndResults, UserGoto, EndCall, TypeInv
  <2>3. QED
    BY <2>1, <2>2, StopFrame
<1>22. CASE StoreClosed
  BY <1>22, AsyncRPCAssumption DEF TypeInv, TypeOK, StopInv, PlaceInv, LockInv,
      StoreClosed, workerVars, userVars, history
<1>23. CASE StoreFinish
  BY <1>23, AsyncRPCAssumption DEF TypeInv, TypeOK, StopInv, PlaceInv, LockInv,
      StoreFinish, workerVars, userVars, history
<1>24. CASE StartCancelAll
  BY <1>24, AsyncRPCAssumption DEF TypeInv, TypeOK, StopInv, PlaceInv, LockInv,
      StateInv, StartCancelAll, workerVars, userVars, history
<1>25. CASE CancelTest
  <2>1. /\ spc = "cancelling" /\ armed = Nobody
        /\ UNCHANGED <<closed, finish, state, wpc, upc, spc, accepted>>
    BY <1>25 DEF CancelTest, queueVars, workerVars, userVars, history
  <2>2. PICK o \in toCancel : /\ toCancel' = toCancel \ {o}
                              /\ armed' = IF state[o] = "READY" THEN o ELSE Nobody
    BY <1>25 DEF CancelTest
  <2>3. \A a \in accepted : a # Nobody
    BY AsyncRPCAssumption DEF TypeInv, TypeOK
  <2>4. \A a \in accepted' : state'[a] # "READY" \/ a \in toCancel' \/ a = armed'
    BY <2>1, <2>2, <2>3 DEF StopInv
  <2>5. QED
    BY <2>1, <2>4 DEF StopInv
<1>26. CASE CancelSet
  BY <1>26, AsyncRPCAssumption DEF TypeInv, TypeOK, StopInv, PlaceInv, LockInv,
      CancelSet, queueVars, workerVars, userVars, history
<1>27. CASE EndCancelAll
  <2>1. /\ spc = "cancelling" /\ armed = Nobody /\ toCancel = {} /\ spc' = "notify"
        /\ UNCHANGED <<closed, finish, state, upc, armed, accepted>>
    BY <1>27 DEF EndCancelAll, userVars, history
  <2>2. \A o \in accepted : state[o] # "READY"
    BY <2>1, AsyncRPCAssumption DEF StopInv, TypeInv, TypeOK
  <2>3. QED
    BY <2>1, <2>2 DEF StopInv
<1>28. CASE NotifyWorkers
  BY <1>28, AsyncRPCAssumption DEF TypeInv, TypeOK, StopInv, PlaceInv, LockInv,
      NotifyWorkers, NotifyAll, queueVars, userVars, history
<1>29. CASE JoinWorkers
  BY <1>29, AsyncRPCAssumption DEF TypeInv, TypeOK, StopInv, PlaceInv, LockInv,
      JoinWorkers, queueVars, workerVars, userVars, history
<1>30. QED
  BY <1>1, <1>2, <1>3, <1>4, <1>5, <1>6, <1>7, <1>8, <1>9, <1>10, <1>11, <1>12,
      <1>13, <1>14, <1>15, <1>16, <1>17, <1>18, <1>19, <1>20, <1>21, <1>22, <1>23,
      <1>24, <1>25, <1>26, <1>27, <1>28, <1>29 DEF Next, Worker, InCall, Stopping

\* Nobody sleeps past work or past a stop.
LEMMA WaitStep ==
    ASSUME TypeInv, LockInv, PlaceInv, StopInv, WaitInv, Next
    PROVE  WaitInv'
<1>1. ASSUME NEW w \in Workers, Acquire(w) PROVE WaitInv'
  BY <1>1, AsyncRPCAssumption DEF TypeInv, LockInv, StopInv, WaitInv,
      WorkersFollowQueue, Acquire, Goto, userVars, stopVars, history
<1>2. ASSUME NEW w \in Workers, WaitOrProceed(w) PROVE WaitInv'
  <2>1. wpc[w] = "test" /\ UNCHANGED <<closed, finish, queue, upc, spc>>
    BY <1>2 DEF WaitOrProceed, Goto, userVars, stopVars, history
  <2>2. CASE queue = <<>> /\ ~closed /\ ~finish /\ lock' = Nobody
                /\ wpc' = [wpc EXCEPT ![w] = "waiting"]
    BY <2>2, <2>1, AsyncRPCAssumption DEF TypeInv, LockInv, StopInv, WaitInv,
        WorkersFollowQueue
  <2>3. CASE (queue # <<>> \/ closed \/ finish) /\ lock' = lock
                /\ wpc' = [wpc EXCEPT ![w] = "finishing?"]
    BY <2>3, <2>1, AsyncRPCAssumption DEF TypeInv, LockInv, StopInv, WaitInv,
        WorkersFollowQueue
  <2>4. QED
    BY <1>2, <2>2, <2>3 DEF WaitOrProceed, Goto
<1>3. ASSUME NEW w \in Workers, SpuriousWakeup(w) PROVE WaitInv'
  BY <1>3, AsyncRPCAssumption DEF TypeInv, LockInv, StopInv, WaitInv,
      WorkersFollowQueue, SpuriousWakeup, Goto, queueVars, userVars, stopVars,
      history
<1>4. ASSUME NEW w \in Workers, ExitIfFinished(w) PROVE WaitInv'
  <2>1. wpc[w] = "finishing?" /\ UNCHANGED <<closed, finish, queue, upc, spc>>
    BY <1>4 DEF ExitIfFinished, Goto, userVars, stopVars, history
  <2>2. CASE finish /\ queue = <<>> /\ lock' = Nobody
                /\ wpc' = [wpc EXCEPT ![w] = "exited"]
    BY <2>2, <2>1, AsyncRPCAssumption DEF TypeInv, LockInv, StopInv, WaitInv,
        WorkersFollowQueue
  <2>3. CASE (~finish \/ queue # <<>>) /\ lock' = lock
                /\ wpc' = [wpc EXCEPT ![w] = "closed?"]
    BY <2>3, <2>1, AsyncRPCAssumption DEF TypeInv, LockInv, StopInv, WaitInv,
        WorkersFollowQueue
  <2>4. QED
    BY <1>4, <2>2, <2>3 DEF ExitIfFinished, Goto
<1>5. ASSUME NEW w \in Workers, ExitIfClosed(w) PROVE WaitInv'
  <2>1. wpc[w] = "closed?" /\ UNCHANGED <<closed, finish, upc, spc>>
    BY <1>5 DEF ExitIfClosed, Goto, userVars, stopVars, history
  <2>2. CASE closed /\ lock' = Nobody /\ queue' = <<>>
                /\ wpc' = [wpc EXCEPT ![w] = "exited"]
    BY <2>2, <2>1, AsyncRPCAssumption, EmptyQueue DEF TypeInv, LockInv, StopInv,
        WaitInv, WorkersFollowQueue
  <2>3. CASE ~closed /\ lock' = lock /\ queue' = queue
                /\ wpc' = [wpc EXCEPT ![w] = "take"]
    BY <2>3, <2>1, AsyncRPCAssumption, EmptyQueue DEF TypeInv, LockInv, StopInv,
        WaitInv, WorkersFollowQueue
  <2>4. QED
    BY <1>5, <2>2, <2>3 DEF ExitIfClosed, Goto
<1>6. ASSUME NEW w \in Workers, Take(w) PROVE WaitInv'
  BY <1>6, AsyncRPCAssumption DEF TypeInv, LockInv, StopInv, WaitInv,
      WorkersFollowQueue, Take, Goto, userVars, stopVars, history
<1>7. ASSUME NEW w \in Workers, SkipOrRun(w) PROVE WaitInv'
  <2>1. wpc[w] = "cancelled?" /\ UNCHANGED <<closed, finish, lock, queue, upc, spc>>
    BY <1>7 DEF SkipOrRun, Goto, Skip, queueVars, userVars, stopVars, history
  <2>2. CASE (cur[w] # Nobody => state[cur[w]] = "CANCELLED")
                /\ wpc' = [wpc EXCEPT ![w] = "lock"] /\ cur' = [cur EXCEPT ![w] = Nobody]
    BY <2>2, <2>1, AsyncRPCAssumption DEF TypeInv, LockInv, StopInv, WaitInv,
        WorkersFollowQueue
  <2>3. CASE cur[w] # Nobody /\ state[cur[w]] # "CANCELLED"
                /\ wpc' = [wpc EXCEPT ![w] = "main"] /\ cur' = cur
    BY <2>3, <2>1, AsyncRPCAssumption DEF TypeInv, LockInv, StopInv, WaitInv,
        WorkersFollowQueue
  <2>4. QED
    BY <1>7, <2>2, <2>3 DEF SkipOrRun, Goto, Skip
<1>8. ASSUME NEW w \in Workers, EnterMain(w) PROVE WaitInv'
  <2>1. wpc[w] = "main" /\ UNCHANGED <<closed, finish, lock, queue, upc, spc>>
    BY <1>8 DEF EnterMain, Goto, Skip, queueVars, userVars, stopVars, history
  <2>2. CASE state[cur[w]] = "CANCELLED"
                /\ wpc' = [wpc EXCEPT ![w] = "lock"] /\ cur' = [cur EXCEPT ![w] = Nobody]
    BY <2>2, <2>1, AsyncRPCAssumption DEF TypeInv, LockInv, StopInv, WaitInv,
        WorkersFollowQueue
  <2>3. CASE state[cur[w]] # "CANCELLED"
                /\ wpc' = [wpc EXCEPT ![w] = "begin"] /\ cur' = cur
    BY <2>3, <2>1, AsyncRPCAssumption DEF TypeInv, LockInv, StopInv, WaitInv,
        WorkersFollowQueue
  <2>4. QED
    BY <1>8, <2>2, <2>3 DEF EnterMain, Goto, Skip
<1>9. ASSUME NEW w \in Workers, BeginMain(w) PROVE WaitInv'
  BY <1>9, AsyncRPCAssumption DEF TypeInv, LockInv, StopInv, WaitInv,
      WorkersFollowQueue, BeginMain, Goto, queueVars, userVars, stopVars
<1>10. ASSUME NEW w \in Workers, EndMain(w) PROVE WaitInv'
  BY <1>10, AsyncRPCAssumption DEF TypeInv, LockInv, StopInv, WaitInv,
      WorkersFollowQueue, EndMain, Goto, Skip, queueVars, userVars, stopVars,
      history
<1>11. ASSUME NEW u \in Users, CallSubmit(u) PROVE WaitInv'
  BY <1>11, AsyncRPCAssumption DEF TypeInv, LockInv, StopInv, WaitInv,
      WorkersFollowQueue, CallSubmit, UserGoto, queueVars, workerVars, stopVars,
      history
<1>12. ASSUME NEW u \in Users, CallMigrate(u) PROVE WaitInv'
  BY <1>12, AsyncRPCAssumption DEF TypeInv, LockInv, StopInv, WaitInv,
      WorkersFollowQueue, CallMigrate, UserGoto, queueVars, workerVars, stopVars,
      history
<1>13. ASSUME NEW u \in Users, CallResults(u) PROVE WaitInv'
  BY <1>13, AsyncRPCAssumption DEF TypeInv, LockInv, StopInv, WaitInv,
      WorkersFollowQueue, CallResults, UserGoto, queueVars, workerVars, stopVars,
      history
<1>14. ASSUME NEW u \in Users, AddTest(u) PROVE WaitInv'
  BY <1>14, AsyncRPCAssumption DEF TypeInv, LockInv, StopInv, WaitInv,
      WorkersFollowQueue, AddTest, UserGoto, EndCall, workerVars, stopVars, history
<1>15. ASSUME NEW u \in Users, AddPush(u) PROVE WaitInv'
  BY <1>15, AsyncRPCAssumption, ZenonT(60) DEF TypeInv, LockInv, StopInv, WaitInv,
      WorkersFollowQueue, AddPush, UserGoto, EndCall, NotifyOne, Goto, stopVars
<1>16. ASSUME NEW u \in Users, MigrateCancelTest(u) PROVE WaitInv'
  BY <1>16, AsyncRPCAssumption DEF TypeInv, LockInv, StopInv, WaitInv,
      WorkersFollowQueue, MigrateCancelTest, UserGoto, queueVars, workerVars,
      stopVars, history
<1>17. ASSUME NEW u \in Users, MigrateCancelSet(u) PROVE WaitInv'
  BY <1>17, AsyncRPCAssumption DEF TypeInv, LockInv, StopInv, WaitInv,
      WorkersFollowQueue, MigrateCancelSet, UserGoto, queueVars, workerVars,
      stopVars, history
<1>18. ASSUME NEW u \in Users, MigrateReplace(u) PROVE WaitInv'
  BY <1>18, AsyncRPCAssumption DEF TypeInv, LockInv, StopInv, WaitInv,
      WorkersFollowQueue, MigrateReplace, UserGoto, queueVars, workerVars, stopVars,
      history
<1>19. ASSUME NEW u \in Users, VisitResult(u) PROVE WaitInv'
  <2>1. UNCHANGED <<closed, finish, queue, wpc, spc>>
    BY <1>19 DEF VisitResult, queueVars, workerVars, stopVars
  <2>2. \A v \in Users : upc'[v] = "push" => upc[v] = "push"
    BY <1>19 DEF VisitResult, UserGoto, TypeInv
  <2>3. QED
    BY <2>1, <2>2 DEF WaitInv, WorkersFollowQueue
<1>20. ASSUME NEW u \in Users, PopResult(u) PROVE WaitInv'
  BY <1>20, AsyncRPCAssumption DEF TypeInv, LockInv, StopInv, WaitInv,
      WorkersFollowQueue, PopResult, UserGoto, workerVars, stopVars, history
<1>21. ASSUME NEW u \in Users, EndResults(u) PROVE WaitInv'
  BY <1>21, AsyncRPCAssumption DEF TypeInv, LockInv, StopInv, WaitInv,
      WorkersFollowQueue, EndResults, UserGoto, EndCall, queueVars, workerVars,
      stopVars, history
<1>22. CASE StoreClosed
  BY <1>22, AsyncRPCAssumption DEF TypeInv, LockInv, StopInv, WaitInv,
      WorkersFollowQueue, StoreClosed, workerVars, userVars, history
<1>23. CASE StoreFinish
  BY <1>23, AsyncRPCAssumption DEF TypeInv, LockInv, StopInv, WaitInv,
      WorkersFollowQueue, StoreFinish, workerVars, userVars, history
<1>24. CASE StartCancelAll
  BY <1>24, AsyncRPCAssumption DEF TypeInv, LockInv, StopInv, WaitInv,
      WorkersFollowQueue, StartCancelAll, workerVars, userVars, history
<1>25. CASE CancelTest
  BY <1>25, AsyncRPCAssumption DEF TypeInv, LockInv, StopInv, WaitInv,
      WorkersFollowQueue, CancelTest, queueVars, workerVars, userVars, history
<1>26. CASE CancelSet
  BY <1>26, AsyncRPCAssumption DEF TypeInv, LockInv, StopInv, WaitInv,
      WorkersFollowQueue, CancelSet, queueVars, workerVars, userVars, history
<1>27. CASE EndCancelAll
  BY <1>27, AsyncRPCAssumption DEF TypeInv, LockInv, StopInv, WaitInv,
      WorkersFollowQueue, EndCancelAll, NotifyAll, userVars, history
<1>28. CASE NotifyWorkers
  BY <1>28, AsyncRPCAssumption DEF TypeInv, LockInv, StopInv, WaitInv,
      WorkersFollowQueue, NotifyWorkers, NotifyAll, queueVars, userVars, history
<1>29. CASE JoinWorkers
  BY <1>29, AsyncRPCAssumption DEF TypeInv, LockInv, StopInv, WaitInv,
      WorkersFollowQueue, JoinWorkers, queueVars, workerVars, userVars, history
<1>30. QED
  BY <1>1, <1>2, <1>3, <1>4, <1>5, <1>6, <1>7, <1>8, <1>9, <1>10, <1>11, <1>12,
      <1>13, <1>14, <1>15, <1>16, <1>17, <1>18, <1>19, <1>20, <1>21, <1>22, <1>23,
      <1>24, <1>25, <1>26, <1>27, <1>28, <1>29 DEF Next, Worker, InCall, Stopping

\* A stuttering step keeps the invariant.
LEMMA Stutter ==
    ASSUME IInv, UNCHANGED vars
    PROVE  IInv'
<1>1. UNCHANGED <<closed, finish, lock, opMap, queue, state, wpc, cur, wlock, upc, ids,
                  target, migration, spc, toCancel, armed, accepted, runs, delivered>>
  BY DEF vars, queueVars, workerVars, userVars, stopVars, history
<1>2. TypeInv'
  BY <1>1 DEF IInv, TypeInv, TypeOK
<1>3. LockInv'
  BY <1>1 DEF IInv, LockInv
<1>4. PlaceInv'
  BY <1>1 DEF IInv, PlaceInv
<1>5. OnceInv'
  BY <1>1 DEF IInv, OnceInv
<1>6. StateInv'
  BY <1>1 DEF IInv, StateInv
<1>7. StopInv'
  BY <1>1 DEF IInv, StopInv
<1>8. WaitInv'
  BY <1>1 DEF IInv, WaitInv, WorkersFollowQueue
<1>9. QED
  BY <1>2, <1>3, <1>4, <1>5, <1>6, <1>7, <1>8 DEF IInv

\* A queue just constructed, before any call.
LEMMA InitInv ==
    ASSUME Init
    PROVE  IInv
<1>1. TypeInv
  BY EmptyQueue DEF Init, TypeInv, TypeOK, WorkerPlaces, UserPlaces, StopPlaces, States
<1>2. LockInv
  BY AsyncRPCAssumption DEF Init, LockInv
<1>3. PlaceInv
  BY EmptyQueue DEF Init, PlaceInv
<1>4. OnceInv
  BY EmptyQueue DEF Init, OnceInv
<1>5. StateInv
  BY EmptyQueue DEF Init, StateInv
<1>6. StopInv
  BY DEF Init, StopInv
<1>7. WaitInv
  BY DEF Init, WaitInv, WorkersFollowQueue
<1>8. QED
  BY <1>1, <1>2, <1>3, <1>4, <1>5, <1>6, <1>7 DEF IInv

-----------------------------------------------------------------------------

\* IInv is an inductive invariant of the queue.
THEOREM Invariance == Spec => []IInv
<1>1. Init => IInv
  BY InitInv
<1>2. IInv /\ [Next]_vars => IInv'
  <2>1. ASSUME IInv, Next PROVE IInv'
    BY <2>1, TypeStep, LockStep, PlaceStep, OnceStep, StateStep, StopStep, WaitStep DEF IInv
  <2>2. QED
    BY <2>1, Stutter
<1>3. QED
  BY <1>1, <1>2, PTL DEF Spec

\* For any number of operations, workers and users, main_impl() of an operation
\* is begun at most once and its result reported at most once.
THEOREM OnlyOnce == Spec => []AtMostOnce
<1>1. IInv => AtMostOnce
  BY DEF IInv, TypeInv, OnceInv, AtMostOnce
<1>2. QED
  BY <1>1, Invariance, PTL

\* No notification of AsyncRPCQueue is lost: a queued operation has a worker on
\* its way, and no worker waits when its join() has begun.
THEOREM NobodyOversleeps == Spec => []WorkersFollowQueue
<1>1. IInv => WorkersFollowQueue
  BY DEF IInv, WaitInv
<1>2. QED
  BY <1>1, Invariance, PTL

\* closeAndWait and finishAndWait return with every accepted operation settled:
\* the argument is that the last worker leaves an empty queue (finish), or that
\* cancelAllOperations has seen all that will ever be accepted (close).
THEOREM StopSettles == Spec => []StoppedMeansSettled
<1>1. IInv => StoppedMeansSettled
  <2> SUFFICES ASSUME IInv, spc = "joined", NEW o \in accepted
               PROVE  /\ state[o] \in Settled
                      /\ finish => state[o] = "CANCELLED" \/ runs[o] = 1
    BY DEF StoppedMeansSettled
  <2>1. \A w \in Workers : wpc[w] = "exited"
    BY DEF IInv, StopInv
  <2>2. o \in Ops /\ o # Nobody /\ state[o] \in States /\ state[o] # "unborn"
    <3>1. TypeOK /\ PlaceInv
      BY DEF IInv, TypeInv
    <3>2. o \in Ops /\ state[o] \in States
      BY <3>1 DEF TypeOK
    <3>3. state[o] # "unborn"
      BY Zenon, <3>1, <3>2 DEF PlaceInv
    <3>4. QED
      BY <3>2, <3>3, AsyncRPCAssumption
  <2>3. state[o] # "EXECUTING"
    BY <2>1, <2>2 DEF IInv, StateInv
  <2>4. CASE closed
    <3>1. state[o] # "READY" /\ ~finish
      BY <2>1, <2>4 DEF IInv, StopInv
    <3>2. QED
      BY <2>2, <2>3, <3>1 DEF States
  <2>5. CASE ~closed
    <3>1. queue = <<>>
      BY <2>1, <2>5, AsyncRPCAssumption DEF IInv, WaitInv
    <3>2. o \notin Range(queue)
      BY <3>1, EmptyQueue
    <3>3. \A w \in Workers : cur[w] # o
      BY <2>1, <2>2 DEF IInv, PlaceInv
    <3>4. state[o] = "CANCELLED" \/ (runs[o] = 1 /\ state[o] \in Settled)
      BY <2>1, <2>5, <3>2, <3>3 DEF IInv, StateInv
    <3>5. QED
      BY <3>4 DEF Settled
  <2>6. QED
    BY <2>4, <2>5
<1>2. QED
  BY <1>1, Invariance, PTL
=============================================================================
