--------------------------- MODULE HandoverProofs ---------------------------
(***************************************************************************)
(* TLAPS proofs about threads that hand work over to others: the script    *)
(* checks (CheckQueue), the requests of the HTTP server (HTTPServer) and   *)
(* what the wallets are told of the chain (NotifyWallets).  CheckInv,      *)
(* HTTPInv and NotifyInv are their inductive invariants.                   *)
(***************************************************************************)
EXTENDS CheckQueue, HTTPServer, NotifyWallets, DataFacts, TLAPS

-----------------------------------------------------------------------------
(* Script checks *)

Holding == {"exec", "done"}

\* A master is past "idle" exactly while it owns the ControlMutex.
ControlInv == \A m \in Masters : (pc[m] # "idle") <=> (control = m)

\* Who holds which check: only running threads hold a batch, batches are not
\* empty, and no check is in two places.
BatchInv ==
    /\ \A t \in Threads : (pc[t] \in Holding) <=> (vChecks[t] # {})
    /\ \A t \in Threads : vChecks[t] \cap queue = {}
    /\ \A t, u \in Threads : t # u => vChecks[t] \cap vChecks[u] = {}

\* A session is under way: added to, or waited for.
Active == \E m \in Masters : pc[m] \notin {"idle", "returned"}

\* Outside a session nothing is outstanding and the result is reset.
SessionInv ==
    /\ Outstanding \subseteq addedChecks
    /\ ~Active => Outstanding = {} /\ fAllOk

\* fAllOk is the verdict on the checks accounted for so far, and a thread's fOk
\* differs from the verdict on its batch only when fAllOk is false already.
ResultInv ==
    /\ Active => (fAllOk <=> (addedChecks \ Outstanding) \subseteq Valid)
    /\ \A t \in Threads :
          /\ pc[t] = "exec" => (fOk[t] \/ ~fAllOk)
          /\ pc[t] = "done" /\ fOk[t] => vChecks[t] \subseteq Valid
          /\ pc[t] = "done" /\ ~fOk[t] => ~fAllOk \/ ~(vChecks[t] \subseteq Valid)

\* A master blocks only while checks are out, and never with its own.
BlockedInv == \A m \in Masters : pc[m] = "waiting" => queue = {} /\ Outstanding # {}

CheckInv ==
    /\ TypeOK /\ ControlInv /\ BatchInv /\ SessionInv /\ ResultInv /\ BlockedInv
    /\ TodoIsExact /\ VerdictIsExact

-----------------------------------------------------------------------------
(* Facts about the outstanding checks. *)

\* Only checks are outstanding, so there are finitely many of them.
LEMMA OutstandingFinite ==
    ASSUME TypeOK
    PROVE  Outstanding \in SUBSET Checks /\ IsFiniteSet(Outstanding)
<1>1. Outstanding \in SUBSET Checks
  BY DEF TypeOK, Outstanding
<1>2. QED
  BY Zenon, <1>1, FS_Subset, CheckQueueAssumption

\* A thread outside its batch holds nothing, so the clean-up of Loop() always
\* subtracts exactly the size of the thread's batch.
LEMMA TodoNowIsExact ==
    ASSUME CheckInv, NEW t \in Threads, CanEnter(t)
    PROVE  /\ pc[t] # "done" => vChecks[t] = {}
           /\ TodoNow(t) = Cardinality(Outstanding \ vChecks[t])
           /\ TodoNow(t) = 0 <=> Outstanding \ vChecks[t] = {}
<1>1. pc[t] # "done" => vChecks[t] = {}
  BY Zenon DEF CheckInv, BatchInv, Holding, CanEnter
<1>2. IsFiniteSet(Outstanding) /\ Outstanding \in SUBSET Checks
  BY Zenon, OutstandingFinite DEF CheckInv
<1>3. IsFiniteSet(vChecks[t])
  BY Zenon, FS_Subset, CheckQueueAssumption DEF CheckInv, TypeOK
<1>4. vChecks[t] \subseteq Outstanding
  BY Zenon DEF Outstanding
<1>5. Cardinality(Outstanding \ vChecks[t]) = Cardinality(Outstanding) - Cardinality(vChecks[t])
  <2>1. Cardinality(Outstanding \ vChecks[t])
            = Cardinality(Outstanding) - Cardinality(Outstanding \cap vChecks[t])
    BY Zenon, <1>2, FS_Difference
  <2>2. Outstanding \cap vChecks[t] = vChecks[t]
    BY Zenon, <1>4
  <2>3. QED
    BY Zenon, <2>1, <2>2
<1>6. TodoNow(t) = Cardinality(Outstanding \ vChecks[t])
  <2>1. CASE pc[t] = "done"
    BY Zenon, <2>1, <1>5 DEF TodoNow, CheckInv, TodoIsExact
  <2>2. CASE pc[t] # "done"
    <3>1. Outstanding \ vChecks[t] = Outstanding
      BY Zenon, <2>2, <1>1
    <3>2. QED
      BY Zenon, <2>2, <3>1 DEF TodoNow, CheckInv, TodoIsExact
  <2>3. QED
    BY Zenon, <2>1, <2>2
<1>7. IsFiniteSet(Outstanding \ vChecks[t])
  BY Zenon, <1>2, FS_Subset
<1>8. QED
  BY Zenon, <1>1, <1>6, <1>7, FS_EmptySet

\* Moving the batch S from the queue to thread t in place of t's old batch
\* removes exactly the old batch from the outstanding checks.
LEMMA OutstandingAfterHandOver ==
    ASSUME CheckInv, NEW t \in Threads, NEW S \in SUBSET queue,
           queue' = queue \ S, vChecks' = [vChecks EXCEPT ![t] = S]
    PROVE  /\ Outstanding' = Outstanding \ vChecks[t]
           /\ \A u \in Threads : vChecks'[u] \cap queue' = {}
           /\ \A u, w \in Threads : u # w => vChecks'[u] \cap vChecks'[w] = {}
<1>1. vChecks \in [Threads -> SUBSET Checks]
  BY Zenon DEF CheckInv, TypeOK
<1>2. \A u \in Threads : vChecks'[u] = IF u = t THEN S ELSE vChecks[u]
  BY Zenon, <1>1
<1>3. \A u \in Threads : vChecks[u] \cap queue = {}
  BY Zenon DEF CheckInv, BatchInv
<1>4. \A u, w \in Threads : u # w => vChecks[u] \cap vChecks[w] = {}
  BY Zenon DEF CheckInv, BatchInv
<1>5. \A u \in Threads : vChecks'[u] \cap queue' = {}
  BY Zenon, <1>2, <1>3
<1>6. \A u, w \in Threads : u # w => vChecks'[u] \cap vChecks'[w] = {}
  BY <1>2, <1>3, <1>4
<1>7. ASSUME NEW c PROVE c \in Outstanding' <=> c \in Outstanding \ vChecks[t]
  <2>1. c \in Outstanding' <=> c \in queue' \/ \E u \in Threads : c \in vChecks'[u]
    BY Zenon DEF Outstanding
  <2>2. c \in Outstanding <=> c \in queue \/ \E u \in Threads : c \in vChecks[u]
    BY Zenon DEF Outstanding
  <2>3. QED
    BY <2>1, <2>2, <1>2, <1>3, <1>4
<1>8. QED
  BY Zenon, <1>5, <1>6, <1>7

-----------------------------------------------------------------------------
(* The inductive invariant. *)

\* Every behaviour of the pool starts in the invariant.
LEMMA InitCheckInv == Init => CheckInv
<1> SUFFICES ASSUME Init PROVE CheckInv
  BY Zenon
<1>1. Outstanding = {}
  BY Zenon DEF Init, Outstanding
<1>2. TypeOK
  <2>1. pc \in [Threads -> WorkerStates \cup MasterStates]
    BY Zenon DEF Init, WorkerStates, MasterStates, LoopStates
  <2>2. (\A w \in Workers : pc[w] \in WorkerStates) /\ (\A m \in Masters : pc[m] \in MasterStates)
    BY Zenon, CheckQueueAssumption DEF Init, Threads, WorkerStates, MasterStates, LoopStates
  <2>3. /\ fAllOk \in BOOLEAN /\ terminated \in BOOLEAN
        /\ fOk \in [Threads -> BOOLEAN] /\ verdict \in [Masters -> BOOLEAN]
        /\ call \in [Masters -> {"Wait", "Destroy"}]
        /\ intr \in [Threads -> {"none", "pending", "thrown"}]
    BY Zenon DEF Init
  <2>4. /\ queue \in SUBSET Checks /\ addedChecks \in SUBSET Checks
        /\ vChecks \in [Threads -> SUBSET Checks]
        /\ nTodo \in Int /\ nTotal \in Int /\ nIdle \in Int
        /\ control \in Masters \cup {NoThread}
    BY DEF Init
  <2>5. QED
    BY Zenon, <2>1, <2>2, <2>3, <2>4 DEF TypeOK
<1>3. ControlInv
  BY Zenon, CheckQueueAssumption DEF Init, ControlInv, Threads
<1>4. ~Active
  BY Zenon, CheckQueueAssumption DEF Init, Active, Threads
<1>5. BatchInv /\ BlockedInv /\ VerdictIsExact
  BY Zenon, CheckQueueAssumption
  DEF Init, BatchInv, BlockedInv, VerdictIsExact, Threads, Holding
<1>6. SessionInv /\ ResultInv
  BY Zenon, <1>1, <1>4, CheckQueueAssumption DEF Init, SessionInv, ResultInv, Threads
<1>7. TodoIsExact
  BY Zenon, <1>1, FS_EmptySet DEF Init, TodoIsExact
<1>8. QED
  BY Zenon, <1>2, <1>3, <1>5, <1>6, <1>7 DEF CheckInv

\* A step that moves no check and neither adds nor merges a result keeps the
\* invariant when it keeps the types, the owner and who runs a batch.
LEMMA QuietStep ==
    ASSUME CheckInv, TypeOK', ControlInv', BlockedInv', VerdictIsExact',
           Active' <=> Active,
           \A t \in Threads : pc'[t] \in Holding \/ pc[t] \in Holding => pc'[t] = pc[t],
           UNCHANGED <<queue, vChecks, nTodo, fAllOk, fOk, addedChecks>>
    PROVE  CheckInv'
<1>1. Outstanding' = Outstanding
  BY Zenon DEF Outstanding
<1>2. BatchInv'
  BY Zenon DEF CheckInv, BatchInv
<1>3. SessionInv'
  BY Zenon, <1>1 DEF CheckInv, SessionInv
<1>4. ResultInv'
  BY Zenon, <1>1 DEF CheckInv, ResultInv, Holding
<1>5. TodoIsExact'
  BY Zenon, <1>1 DEF CheckInv, TodoIsExact
<1>6. QED
  BY Zenon, <1>2, <1>3, <1>4, <1>5 DEF CheckInv

\* Construct: the new owner starts from a clean pool.
LEMMA ConstructStep ==
    ASSUME CheckInv, NEW m \in Masters, Construct(m)
    PROVE  CheckInv'
<1> USE DEF Construct, Threads
<1>1. TypeOK'
  BY Zenon DEF CheckInv, TypeOK, MasterStates, WorkerStates, LoopStates
<1>2. pc' = [pc EXCEPT ![m] = "adding"] /\ pc \in [Threads -> WorkerStates \cup MasterStates]
  BY Zenon DEF CheckInv, TypeOK
<1>3. \A n \in Masters : pc[n] = "idle"
  BY Zenon, CheckQueueAssumption DEF CheckInv, ControlInv
<1>4. ControlInv'
  BY Zenon, <1>2, <1>3 DEF ControlInv
<1>5. ~Active /\ Outstanding = {} /\ fAllOk
  BY Zenon, <1>3 DEF Active, CheckInv, SessionInv
<1>6. Outstanding' = Outstanding
  BY Zenon DEF Outstanding
<1>7. BatchInv'
  BY Zenon, <1>2 DEF CheckInv, BatchInv, Holding
<1>8. SessionInv'
  BY Zenon, <1>5, <1>6 DEF SessionInv
<1>9. ResultInv'
  BY Zenon, <1>2, <1>5, <1>6 DEF CheckInv, ResultInv
<1>10. BlockedInv' /\ VerdictIsExact'
  BY Zenon, <1>2, <1>3 DEF BlockedInv, VerdictIsExact
<1>11. TodoIsExact'
  BY Zenon, <1>6 DEF CheckInv, TodoIsExact
<1>12. QED
  BY Zenon, <1>1, <1>4, <1>7, <1>8, <1>9, <1>10, <1>11 DEF CheckInv

\* Add: the new checks are in no batch yet, so nTodo grows by their number.
LEMMA AddStep ==
    ASSUME CheckInv, NEW m \in Masters, NEW S \in SUBSET (Checks \ addedChecks), Add(m, S)
    PROVE  CheckInv'
<1>1. PICK W \in SUBSET Waiting(Workers) : pc' = Wake(W)
  BY DEF Add, NotifyOne, NotifyAll, Waiting
<1>2. /\ \A t \in Threads : pc'[t] = IF t \in W THEN "woken" ELSE pc[t]
      /\ \A n \in Masters : pc'[n] = pc[n]
      /\ \A t \in W : t \in Workers /\ pc[t] = "waiting"
  BY Zenon, <1>1, CheckQueueAssumption DEF Wake, Waiting, Threads
<1>3. IsFiniteSet(S) /\ IsFiniteSet(Outstanding) /\ S \cap Outstanding = {}
  BY Zenon, OutstandingFinite, FS_Subset, CheckQueueAssumption DEF CheckInv, SessionInv
<1>4. Cardinality(S) \in Nat /\ nTodo \in Int
  BY Zenon, <1>3, FS_CardinalityType DEF CheckInv, TypeOK
<1>5. TypeOK'
  <2>1. pc' \in [Threads -> WorkerStates \cup MasterStates]
    BY Zenon, <1>1, <1>2 DEF CheckInv, TypeOK, Wake, WorkerStates, LoopStates
  <2>2. \A w \in Workers : pc'[w] \in WorkerStates
    BY Zenon, <1>2 DEF CheckInv, TypeOK, WorkerStates, LoopStates, Threads
  <2>3. \A n \in Masters : pc'[n] \in MasterStates
    BY Zenon, <1>2 DEF CheckInv, TypeOK
  <2>4. nTodo' \in Int
    BY <1>4 DEF Add
  <2>5. QED
    BY Zenon, <2>1, <2>2, <2>3, <2>4 DEF CheckInv, TypeOK, Add
<1>6. ControlInv'
  BY Zenon, <1>2 DEF CheckInv, ControlInv, Add
<1>7. Outstanding' = Outstanding \cup S
  BY Zenon DEF Outstanding, Add
<1>8. BatchInv'
  <2>1. \A t \in Threads : pc'[t] \in Holding <=> pc[t] \in Holding
    BY Zenon, <1>2 DEF Holding
  <2>2. \A t \in Threads : vChecks[t] \cap S = {}
    BY Zenon, <1>3 DEF Outstanding
  <2>3. QED
    BY Zenon, <2>1, <2>2 DEF CheckInv, BatchInv, Add
<1>9. Active /\ Active'
  BY Zenon, <1>2 DEF Active, Add
<1>10. SessionInv'
  BY Zenon, <1>7, <1>9 DEF CheckInv, SessionInv, Add
<1>11. ResultInv'
  <2>1. addedChecks' \ Outstanding' = addedChecks \ Outstanding
    BY Zenon, <1>7 DEF Add, CheckInv, SessionInv
  <2>2. \A t \in Threads : pc'[t] \in Holding => pc[t] = pc'[t]
    BY Zenon, <1>2 DEF Holding
  <2>3. QED
    BY Zenon, <1>9, <2>1, <2>2 DEF CheckInv, ResultInv, Add, Holding
<1>12. \A n \in Masters : pc[n] \notin {"waiting", "returned"}
  BY Zenon DEF CheckInv, ControlInv, Add
<1>13. BlockedInv' /\ VerdictIsExact'
  BY Zenon, <1>2, <1>12 DEF BlockedInv, VerdictIsExact
<1>14. TodoIsExact'
  <2>1. Cardinality(Outstanding \cup S)
          = Cardinality(Outstanding) + Cardinality(S) - Cardinality(Outstanding \cap S)
    BY Zenon, <1>3, FS_Union
  <2>2. Cardinality(Outstanding \cap S) = 0
    BY Zenon, <1>3, FS_EmptySet
  <2>3. QED
    BY <1>3, <1>4, <1>7, <2>1, <2>2, FS_CardinalityType DEF CheckInv, TodoIsExact, Add
<1>15. QED
  BY Zenon, <1>5, <1>6, <1>8, <1>10, <1>11, <1>13, <1>14 DEF CheckInv

\* A thread re-enters Loop()'s critical section, merges the result of its old
\* batch and leaves with the batch S (empty when it blocks): the part of the
\* invariant about checks and results is kept.
LEMMA EnterStep ==
    ASSUME CheckInv, NEW t \in Threads, CanEnter(t), NEW S \in SUBSET queue, Active' <=> Active,
           queue' = queue \ S, vChecks' = [vChecks EXCEPT ![t] = S],
           nTodo' = TodoNow(t), fAllOk' = AllOkNow(t), addedChecks' = addedChecks,
           \A u \in Threads \ {t} : /\ fOk'[u] = fOk[u]
                                    /\ pc'[u] \in Holding \/ pc[u] \in Holding => pc'[u] = pc[u],
           pc'[t] # "done",
           pc'[t] \in Holding <=> S # {},
           pc'[t] = "exec" => (fOk'[t] <=> AllOkNow(t))
    PROVE  BatchInv' /\ SessionInv' /\ ResultInv' /\ TodoIsExact'
<1>1. /\ Outstanding' = Outstanding \ vChecks[t]
      /\ \A u \in Threads : vChecks'[u] \cap queue' = {}
      /\ \A u, w \in Threads : u # w => vChecks'[u] \cap vChecks'[w] = {}
  BY Zenon, OutstandingAfterHandOver
<1>2. \A u \in Threads : vChecks'[u] = IF u = t THEN S ELSE vChecks[u]
  BY Zenon DEF CheckInv, TypeOK
<1>3. BatchInv'
  <2>1. ASSUME NEW u \in Threads PROVE (pc'[u] \in Holding) <=> (vChecks'[u] # {})
    <3>1. CASE u = t
      BY Zenon, <3>1, <1>2
    <3>2. CASE u # t
      <4>1. vChecks'[u] = vChecks[u] /\ (pc'[u] \in Holding <=> pc[u] \in Holding)
        BY Zenon, <3>2, <1>2
      <4>2. QED
        BY Zenon, <4>1 DEF CheckInv, BatchInv
    <3>3. QED
      BY Zenon, <3>1, <3>2
  <2>2. QED
    BY Zenon, <1>1, <2>1 DEF BatchInv
<1>4. TodoIsExact'
  BY Zenon, <1>1, TodoNowIsExact DEF TodoIsExact
<1>5. SessionInv'
  BY <1>1, TodoNowIsExact DEF CheckInv, SessionInv, BatchInv, Holding, AllOkNow, Outstanding
<1>6. vChecks[t] \subseteq Outstanding /\ Outstanding \subseteq addedChecks
  BY Zenon DEF Outstanding, CheckInv, SessionInv
<1>7. (pc[t] # "done" => vChecks[t] = {}) /\ (pc[t] = "done" => vChecks[t] # {})
  BY Zenon, TodoNowIsExact DEF CheckInv, BatchInv, Holding
<1>8. /\ fAllOk \in BOOLEAN /\ fOk[t] \in BOOLEAN
      /\ fAllOk' => fAllOk
  BY Zenon DEF CheckInv, TypeOK, AllOkNow
<1>9. Active => (fAllOk <=> (addedChecks \ Outstanding) \subseteq Valid)
  BY Zenon DEF CheckInv, ResultInv
<1>10. Active' => (fAllOk' <=> (addedChecks' \ Outstanding') \subseteq Valid)
  <2>1. addedChecks' \ Outstanding' = (addedChecks \ Outstanding) \cup vChecks[t]
    BY Zenon, <1>1, <1>6
  <2>2. CASE pc[t] = "done"
    BY Zenon, <2>1, <2>2, <1>8, <1>9 DEF AllOkNow, CheckInv, ResultInv
  <2>3. CASE pc[t] # "done"
    BY Zenon, <2>1, <2>3, <1>7, <1>9 DEF AllOkNow
  <2>4. QED
    BY Zenon, <2>2, <2>3
<1>11. ASSUME NEW u \in Threads
       PROVE  /\ pc'[u] = "exec" => (fOk'[u] \/ ~fAllOk')
              /\ pc'[u] = "done" /\ fOk'[u] => vChecks'[u] \subseteq Valid
              /\ pc'[u] = "done" /\ ~fOk'[u] => ~fAllOk' \/ ~(vChecks'[u] \subseteq Valid)
  <2>1. CASE u = t
    BY Zenon, <2>1
  <2>2. CASE u # t
    BY Zenon, <2>2, <1>2, <1>8 DEF CheckInv, ResultInv, Holding
  <2>3. QED
    BY Zenon, <2>1, <2>2
<1>12. ResultInv'
  BY Zenon, <1>10, <1>11 DEF ResultInv
<1>13. QED
  BY Zenon, <1>3, <1>4, <1>5, <1>12

\* Return: the last check is accounted for, so the verdict covers all of them.
LEMMA ReturnStep ==
    ASSUME CheckInv, NEW m \in Masters, Return(m)
    PROVE  CheckInv'
<1>0. /\ m \in Threads /\ m # NoThread
      /\ pc \in [Threads -> WorkerStates \cup MasterStates]
      /\ CanEnter(m) /\ pc[m] \in {"start", "woken", "done"}
  BY Zenon, CheckQueueAssumption DEF CheckInv, TypeOK, Threads, Return, CanEnter
<1>1. TodoNow(m) = 0 /\ queue = {} /\ queue' = {} /\ Outstanding \ vChecks[m] = {}
  BY Zenon, <1>0, TodoNowIsExact DEF Return
<1>2. /\ Outstanding' = {}
      /\ \A u \in Threads : vChecks'[u] \cap queue' = {}
      /\ \A u, w \in Threads : u # w => vChecks'[u] \cap vChecks'[w] = {}
  BY Zenon, <1>0, <1>1, OutstandingAfterHandOver DEF Return
<1>3. \A u \in Threads : vChecks'[u] = {}
  BY Zenon, <1>2 DEF Outstanding
<1>4. \A u \in Threads : u # m => pc'[u] = pc[u]
  BY Zenon, <1>0 DEF Return
<1>5. pc'[m] \in {"returned", "idle"} /\ (pc'[m] = "returned" <=> call[m] = "Wait")
  BY Zenon, <1>0 DEF Return
<1>6. control = m /\ \A n \in Masters : n # m => pc[n] = "idle"
  BY Zenon, <1>0 DEF CheckInv, ControlInv
<1>7. \A u \in Threads : pc'[u] \notin Holding
  <2>1. ASSUME NEW u \in Threads, u # m PROVE pc[u] \notin Holding
    <3>1. vChecks[u] = vChecks'[u]
      BY Zenon, <2>1 DEF Return, CheckInv, TypeOK
    <3>2. QED
      BY Zenon, <3>1, <1>3 DEF CheckInv, BatchInv
  <2>2. QED
    BY Zenon, <2>1, <1>4, <1>5 DEF Holding
<1>8. ~Active'
  BY Zenon, <1>4, <1>5, <1>6 DEF Active, Threads
<1>9. fAllOk' = TRUE /\ addedChecks' = addedChecks /\ nTodo' = 0
  BY Zenon, <1>1 DEF Return
<1>10. AllOkNow(m) <=> addedChecks \subseteq Valid
  <2>1. Active
    BY Zenon, <1>0 DEF Active
  <2>2. fAllOk <=> (addedChecks \ Outstanding) \subseteq Valid
    BY Zenon, <2>1 DEF CheckInv, ResultInv
  <2>3. addedChecks = (addedChecks \ Outstanding) \cup vChecks[m]
    <3>1. vChecks[m] \subseteq Outstanding
      BY Zenon, <1>0 DEF Outstanding
    <3>2. QED
      BY Zenon, <1>1, <3>1 DEF CheckInv, SessionInv
  <2>4. CASE pc[m] = "done"
    <3>1. fAllOk \in BOOLEAN /\ fOk[m] \in BOOLEAN
      BY Zenon, <1>0 DEF CheckInv, TypeOK
    <3>2. QED
      BY Zenon, <1>0, <2>2, <2>3, <2>4, <3>1 DEF AllOkNow, CheckInv, ResultInv
  <2>5. CASE pc[m] # "done"
    BY Zenon, <1>0, <2>2, <2>3, <2>5, TodoNowIsExact DEF AllOkNow
  <2>6. QED
    BY Zenon, <2>4, <2>5
<1>11. TypeOK'
  <2>1. /\ pc' \in [Threads -> WorkerStates \cup MasterStates]
        /\ \A w \in Workers : pc'[w] \in WorkerStates
        /\ \A n \in Masters : pc'[n] \in MasterStates
    <3>1. pc' \in [Threads -> WorkerStates \cup MasterStates]
      BY Zenon, <1>0 DEF Return, MasterStates
    <3>2. \A w \in Workers : w # m
      BY Zenon, CheckQueueAssumption
    <3>3. QED
      BY Zenon, <3>1, <3>2, <1>4, <1>5 DEF CheckInv, TypeOK, MasterStates, Threads
  <2>2. nTodo' \in Int /\ nTotal' \in Int /\ nIdle' \in Int
    BY <1>9 DEF Return, TotalNow, IdleNow, CheckInv, TypeOK
  <2>3. /\ fAllOk' \in BOOLEAN /\ fOk' \in [Threads -> BOOLEAN]
        /\ vChecks' \in [Threads -> SUBSET Checks]
    BY Zenon DEF Return, CheckInv, TypeOK
  <2>4. verdict' \in [Masters -> BOOLEAN]
    <3>1. AllOkNow(m) \in BOOLEAN
      BY Zenon, <1>0 DEF AllOkNow, CheckInv, TypeOK
    <3>2. QED
      BY Zenon, <3>1 DEF Return, CheckInv, TypeOK
  <2>5. QED
    BY Zenon, <2>1, <2>2, <2>3, <2>4 DEF Return, CheckInv, TypeOK
<1>12. ControlInv'
  <2>1. CASE call[m] = "Wait"
    BY Zenon, <2>1, <1>0, <1>4, <1>5, <1>6 DEF ControlInv, CheckInv, Return, Threads
  <2>2. CASE call[m] # "Wait"
    <3>1. control' = NoThread /\ \A n \in Masters : pc'[n] = "idle"
      BY Zenon, <2>2, <1>4, <1>5, <1>6 DEF Return, Threads
    <3>2. QED
      BY Zenon, <3>1, CheckQueueAssumption DEF ControlInv
  <2>3. QED
    BY Zenon, <2>1, <2>2
<1>13. BatchInv'
  BY Zenon, <1>2, <1>3, <1>7 DEF BatchInv
<1>14. SessionInv' /\ TodoIsExact'
  BY Zenon, <1>2, <1>9, FS_EmptySet DEF SessionInv, TodoIsExact
<1>15. ResultInv'
  BY Zenon, <1>7, <1>8 DEF ResultInv, Holding
<1>16. BlockedInv'
  BY Zenon, <1>4, <1>5, <1>6 DEF BlockedInv, Threads
<1>17. VerdictIsExact'
  <2>1. ASSUME NEW n \in Masters, pc'[n] = "returned" PROVE n = m /\ verdict'[n] = AllOkNow(m)
    BY Zenon, <2>1, <1>4, <1>5, <1>6 DEF Threads, Return, CheckInv, TypeOK
  <2>2. QED
    BY Zenon, <2>1, <1>9, <1>10 DEF VerdictIsExact
<1>18. QED
  BY Zenon, <1>11, <1>12, <1>13, <1>14, <1>15, <1>16, <1>17 DEF CheckInv

\* The clean-up that accounts for the last check wakes the only master that
\* can be blocked.
LEMMA LastCleanUpNotifies ==
    ASSUME TypeOK, NEW t \in Workers, NEW W \in NotifiedMasters(t), TodoNow(t) = 0, pc[t] = "done",
           pc' = [Wake(W) EXCEPT ![t] = "waiting"],
           NEW m \in Masters, \A n \in Masters \ {m} : pc[n] = "idle"
    PROVE  pc'[m] # "waiting"
<1>1. m # t /\ m \in Threads /\ t \in Threads
  BY Zenon, CheckQueueAssumption DEF Threads
<1>2. pc'[m] = IF m \in W THEN "woken" ELSE pc[m]
  BY Zenon, <1>1 DEF Wake
<1>3. W \in NotifyOne(Masters)
  BY Zenon DEF NotifiedMasters
<1>4. CASE pc[m] = "waiting"
  <2>1. Waiting(Masters) = {m}
    BY Zenon, <1>4 DEF Waiting
  <2>2. W = {m}
    BY Zenon, <1>3, <2>1 DEF NotifyOne
  <2>3. QED
    BY <2>2, <1>2
<1>5. CASE pc[m] # "waiting"
  BY <1>5, <1>2
<1>6. QED
  BY Zenon, <1>4, <1>5

\* Types after one pass through Loop()'s critical section.
LEMMA EnterTypes ==
    ASSUME CheckInv, NEW t \in Threads, CanEnter(t), NEW S \in SUBSET queue, NEW b \in BOOLEAN,
           queue' = queue \ S, vChecks' = [vChecks EXCEPT ![t] = S],
           nTodo' = TodoNow(t), nTotal' = TotalNow(t), nIdle' \in {IdleNow(t), IdleNow(t) + 1},
           fAllOk' = AllOkNow(t), fOk' = [fOk EXCEPT ![t] = b],
           NEW W \in NotifiedMasters(t), NEW s \in {"waiting", "exec"},
           pc' = [Wake(W) EXCEPT ![t] = s],
           UNCHANGED <<control, call, verdict, intr, terminated, addedChecks>>
    PROVE  TypeOK'
<1>1. IsFiniteSet(vChecks[t])
  BY Zenon, FS_Subset, CheckQueueAssumption DEF CheckInv, TypeOK
<1>2. nTodo' \in Int
  BY <1>1, FS_CardinalityType DEF TodoNow, CheckInv, TypeOK
<1>3. nTotal' \in Int /\ nIdle' \in Int
  BY DEF TotalNow, IdleNow, CheckInv, TypeOK
<1>4. fAllOk' \in BOOLEAN
  BY Zenon DEF AllOkNow, CheckInv, TypeOK
<1>5. fOk' \in [Threads -> BOOLEAN]
  BY Zenon DEF CheckInv, TypeOK
<1>6. queue' \in SUBSET Checks /\ vChecks' \in [Threads -> SUBSET Checks]
  BY Zenon DEF CheckInv, TypeOK
<1>7. pc' \in [Threads -> WorkerStates \cup MasterStates]
  BY Zenon DEF CheckInv, TypeOK, Wake, WorkerStates, LoopStates
<1>8. \A u \in Threads : pc'[u] \in {pc[u], "woken", "waiting", "exec"}
  BY Zenon DEF Wake
<1>9. (\A w \in Workers : pc'[w] \in WorkerStates) /\ (\A m \in Masters : pc'[m] \in MasterStates)
  BY Zenon, <1>8 DEF CheckInv, TypeOK, Threads, WorkerStates, MasterStates, LoopStates
<1>10. QED
  BY Zenon, <1>2, <1>3, <1>4, <1>5, <1>6, <1>7, <1>9 DEF CheckInv, TypeOK

\* Control, blocking and verdicts after one pass through the critical section.
LEMMA EnterControl ==
    ASSUME CheckInv, NEW t \in Threads, CanEnter(t), NEW W \in NotifiedMasters(t),
           NEW s \in {"waiting", "exec"}, pc' = [Wake(W) EXCEPT ![t] = s],
           UNCHANGED <<control, verdict, addedChecks>>
    PROVE  ControlInv' /\ VerdictIsExact' /\ (Active' <=> Active)
<1>1. TypeOK /\ pc[t] \in {"start", "done", "woken"}
  BY Zenon DEF CheckInv, CanEnter
<1>2. \A u \in Threads : \/ pc'[u] = pc[u]
                         \/ /\ pc[u] \in {"start", "done", "woken", "waiting"}
                            /\ pc'[u] \in {"waiting", "exec", "woken"}
  <2>1. /\ pc'[t] = s
        /\ \A u \in Threads \ {t} : pc'[u] = IF u \in W THEN "woken" ELSE pc[u]
        /\ \A u \in W : pc[u] = "waiting"
    BY Zenon DEF Wake, NotifiedMasters, NotifyOne, Waiting
  <2>2. QED
    BY Zenon, <1>1, <2>1
<1>3. ControlInv'
  BY Zenon, <1>2 DEF CheckInv, ControlInv, Threads
<1>4. VerdictIsExact'
  BY Zenon, <1>2 DEF CheckInv, VerdictIsExact, Threads
<1>5. Active' <=> Active
  BY Zenon, <1>2 DEF Active, Threads
<1>6. QED
  BY Zenon, <1>3, <1>4, <1>5

\* TakeBatch: a batch moves from the queue to the thread.
LEMMA TakeBatchStep ==
    ASSUME CheckInv, NEW t \in Threads, NEW S \in SUBSET queue, TakeBatch(t, S)
    PROVE  CheckInv'
<1>1. PICK W \in NotifiedMasters(t) : pc' = [Wake(W) EXCEPT ![t] = "exec"]
  BY Zenon DEF TakeBatch
<1>2. TypeOK /\ CanEnter(t) /\ pc[t] # "waiting" /\ AllOkNow(t) \in BOOLEAN
  BY Zenon DEF CheckInv, TypeOK, TakeBatch, CanEnter, AllOkNow
<1>3. S # {}
  <2>1. IsFiniteSet(queue) /\ Cardinality(queue) \in Nat
    BY Zenon, FS_Subset, FS_CardinalityType, CheckQueueAssumption DEF CheckInv, TypeOK
  <2>2. nNow(t) # 0
    BY <2>1, CheckQueueAssumption DEF nNow
  <2>3. QED
    BY Zenon, <2>2, FS_EmptySet DEF TakeBatch
<1>4. /\ pc'[t] = "exec"
      /\ \A u \in Threads \ {t} : pc'[u] = pc[u] \/ (pc[u] = "waiting" /\ pc'[u] = "woken")
      /\ \A u \in Threads \ {t} : pc'[u] \in Holding \/ pc[u] \in Holding => pc'[u] = pc[u]
  <2>1. /\ pc'[t] = "exec"
        /\ \A u \in Threads \ {t} : pc'[u] = IF u \in W THEN "woken" ELSE pc[u]
        /\ \A u \in W : pc[u] = "waiting"
    BY Zenon, <1>1 DEF Wake, NotifiedMasters, NotifyOne, Waiting
  <2>2. QED
    BY Zenon, <2>1 DEF Holding
<1>5. TypeOK'
  BY Zenon, <1>1, <1>2, EnterTypes DEF TakeBatch
<1>6. ControlInv' /\ VerdictIsExact' /\ (Active' <=> Active)
  BY Zenon, <1>1, <1>2, EnterControl DEF TakeBatch
<1>7. BatchInv' /\ SessionInv' /\ ResultInv' /\ TodoIsExact'
  <2>1. \A u \in Threads \ {t} : fOk'[u] = fOk[u]
    BY Zenon DEF TakeBatch, CheckInv, TypeOK
  <2>2. fOk'[t] <=> AllOkNow(t)
    BY Zenon DEF TakeBatch, CheckInv, TypeOK
  <2>3. QED
    BY Zenon, <1>2, <1>3, <1>4, <1>6, <2>1, <2>2, EnterStep DEF TakeBatch, Holding
<1>8. BlockedInv'
  <2>1. \A m \in Masters : pc[m] # "waiting"
    BY Zenon DEF CheckInv, BlockedInv, TakeBatch
  <2>2. QED
    BY Zenon, <2>1, <1>4 DEF BlockedInv, Threads
<1>9. QED
  BY Zenon, <1>5, <1>6, <1>7, <1>8 DEF CheckInv

\* Block: a master that stays blocked has a thread to wait for, because the
\* clean-up that accounts for the last check notifies it.
LEMMA BlockStep ==
    ASSUME CheckInv, NEW t \in Threads, Block(t)
    PROVE  CheckInv'
<1>1. PICK W \in NotifiedMasters(t) : pc' = [Wake(W) EXCEPT ![t] = "waiting"]
  BY Zenon DEF Block
<1>2. /\ TypeOK /\ CanEnter(t) /\ pc[t] # "waiting"
      /\ {} \in SUBSET queue /\ queue = {} /\ queue' = queue \ {}
  BY Zenon DEF CheckInv, Block, CanEnter
<1>3. /\ pc'[t] = "waiting"
      /\ \A u \in Threads \ {t} : pc'[u] = pc[u] \/ (pc[u] = "waiting" /\ pc'[u] = "woken")
      /\ \A u \in Threads \ {t} : pc'[u] \in Holding \/ pc[u] \in Holding => pc'[u] = pc[u]
  <2>1. /\ pc'[t] = "waiting"
        /\ \A u \in Threads \ {t} : pc'[u] = IF u \in W THEN "woken" ELSE pc[u]
        /\ \A u \in W : pc[u] = "waiting"
    BY Zenon, <1>1 DEF Wake, NotifiedMasters, NotifyOne, Waiting
  <2>2. QED
    BY Zenon, <2>1 DEF Holding
<1>4. TypeOK'
  <2>1. TRUE \in BOOLEAN /\ nIdle' \in {IdleNow(t), IdleNow(t) + 1}
    BY Zenon DEF Block
  <2>2. QED
    BY Zenon, <1>1, <1>2, <2>1, EnterTypes DEF Block
<1>5. ControlInv' /\ VerdictIsExact' /\ (Active' <=> Active)
  BY Zenon, <1>1, <1>2, EnterControl DEF Block
<1>6. BatchInv' /\ SessionInv' /\ ResultInv' /\ TodoIsExact'
  <2>1. \A u \in Threads \ {t} : fOk'[u] = fOk[u]
    BY Zenon DEF Block, CheckInv, TypeOK
  <2>2. QED
    BY Zenon, <1>2, <1>3, <1>5, <2>1, EnterStep DEF Block, Holding
<1>7. BlockedInv'
  <2>1. /\ Outstanding' = Outstanding \ vChecks[t]
        /\ TodoNow(t) = 0 <=> Outstanding \ vChecks[t] = {}
        /\ pc[t] # "done" => vChecks[t] = {}
    BY Zenon, <1>2, TodoNowIsExact, OutstandingAfterHandOver DEF Block
  <2>2. ASSUME NEW m \in Masters, pc'[m] = "waiting" PROVE Outstanding' # {}
    <3>1. CASE m = t
      BY Zenon, <3>1, <2>1 DEF Block
    <3>2. CASE m # t
      <4>1. pc[m] = "waiting" /\ m \in Threads
        BY Zenon, <2>2, <3>2, <1>3 DEF Threads
      <4>2. Outstanding # {} /\ \A n \in Masters \ {m} : pc[n] = "idle"
        BY Zenon, <4>1 DEF CheckInv, BlockedInv, ControlInv
      <4>3. t \in Workers
        BY <3>2, <4>2, <1>2 DEF CanEnter, Threads
      <4>4. QED
        BY Zenon, <2>1, <2>2, <4>2, <4>3, <1>1, <1>2, LastCleanUpNotifies
    <3>3. QED
      BY Zenon, <3>1, <3>2
  <2>3. QED
    BY Zenon, <2>2, <1>2 DEF BlockedInv
<1>8. QED
  BY Zenon, <1>4, <1>5, <1>6, <1>7 DEF CheckInv

\* Execute: the local result becomes the verdict on the batch, unless the
\* session has failed already.
LEMMA ExecuteStep ==
    ASSUME CheckInv, NEW t \in Threads, Execute(t)
    PROVE  CheckInv'
<1>1. /\ pc[t] = "exec" /\ fOk[t] \in BOOLEAN
      /\ \A u \in Threads : pc'[u] = IF u = t THEN "done" ELSE pc[u]
      /\ \A u \in Threads : u # t => fOk'[u] = fOk[u]
      /\ fOk'[t] <=> (fOk[t] /\ vChecks[t] \subseteq Valid)
  BY Zenon DEF Execute, CheckInv, TypeOK
<1>2. TypeOK'
  <2>1. pc' \in [Threads -> WorkerStates \cup MasterStates] /\ fOk' \in [Threads -> BOOLEAN]
    BY Zenon DEF Execute, CheckInv, TypeOK, WorkerStates, LoopStates
  <2>2. \A w \in Workers : pc'[w] \in WorkerStates
    BY Zenon, <1>1 DEF CheckInv, TypeOK, WorkerStates, LoopStates, Threads
  <2>3. \A m \in Masters : pc'[m] \in MasterStates
    BY Zenon, <1>1 DEF CheckInv, TypeOK, MasterStates, LoopStates, Threads
  <2>4. QED
    BY Zenon, <2>1, <2>2, <2>3 DEF Execute, CheckInv, TypeOK
<1>3. Outstanding' = Outstanding /\ (Active' <=> Active)
  BY <1>1 DEF Outstanding, Active, Execute, Threads
<1>4. ControlInv' /\ BlockedInv' /\ VerdictIsExact'
  BY <1>1, <1>3 DEF Execute, CheckInv, ControlInv, BlockedInv, VerdictIsExact, Threads
<1>5. BatchInv'
  BY Zenon, <1>1 DEF Execute, CheckInv, BatchInv, Holding
<1>6. SessionInv' /\ TodoIsExact'
  BY Zenon, <1>3 DEF Execute, CheckInv, SessionInv, TodoIsExact
<1>7. ResultInv'
  <2>1. Active' => (fAllOk' <=> (addedChecks' \ Outstanding') \subseteq Valid)
    BY Zenon, <1>3 DEF Execute, CheckInv, ResultInv
  <2>2. fAllOk' = fAllOk /\ vChecks' = vChecks
    BY Zenon DEF Execute
  <2>3. ASSUME NEW u \in Threads
        PROVE  /\ pc'[u] = "exec" => (fOk'[u] \/ ~fAllOk')
               /\ pc'[u] = "done" /\ fOk'[u] => vChecks'[u] \subseteq Valid
               /\ pc'[u] = "done" /\ ~fOk'[u] => ~fAllOk' \/ ~(vChecks'[u] \subseteq Valid)
    <3>1. CASE u = t
      BY Zenon, <3>1, <1>1, <2>2 DEF CheckInv, ResultInv
    <3>2. CASE u # t
      BY Zenon, <3>2, <1>1, <2>2 DEF CheckInv, ResultInv
    <3>3. QED
      BY Zenon, <3>1, <3>2
  <2>4. QED
    BY Zenon, <2>1, <2>3 DEF ResultInv
<1>8. QED
  BY Zenon, <1>2, <1>4, <1>5, <1>6, <1>7 DEF CheckInv

\* Signals, interruptions and calls that touch neither checks nor results.
LEMMA QuietActions ==
    ASSUME CheckInv, NEW t \in Threads,
           \/ SpuriousWakeup(t) \/ Interrupt(t) \/ ThrowInterrupted(t)
           \/ t \in Masters /\ (Destruct(t) \/ \E by \in {"Wait", "Destroy"} : CallWait(t, by))
    PROVE  CheckInv'
<1> DEFINE Quiet == UNCHANGED <<queue, vChecks, nTodo, nTotal, nIdle, fAllOk, fOk, addedChecks, verdict>>
<1>1. CASE SpuriousWakeup(t) \/ Interrupt(t)
  <2>1. /\ Quiet /\ UNCHANGED <<control, call, terminated>>
        /\ intr' \in [Threads -> {"none", "pending", "thrown"}]
        /\ pc' \in [Threads -> WorkerStates \cup MasterStates]
        /\ \A u \in Threads : pc'[u] = pc[u] \/ (pc[u] = "waiting" /\ pc'[u] = "woken")
    <3>1. CASE SpuriousWakeup(t)
      BY Zenon, <3>1 DEF SpuriousWakeup, CheckInv, TypeOK, WorkerStates, LoopStates
    <3>2. CASE Interrupt(t)
      BY Zenon, <3>2 DEF Interrupt, CheckInv, TypeOK
    <3>3. QED
      BY Zenon, <1>1, <3>1, <3>2
  <2>2. TypeOK'
    BY Zenon, <2>1 DEF CheckInv, TypeOK, WorkerStates, MasterStates, LoopStates, Threads
  <2>3. ControlInv' /\ VerdictIsExact' /\ (Active' <=> Active)
    BY Zenon, <2>1 DEF CheckInv, ControlInv, VerdictIsExact, Active, Threads
  <2>4. BlockedInv'
    <3>1. Outstanding' = Outstanding
      BY Zenon, <2>1 DEF Outstanding
    <3>2. QED
      BY Zenon, <2>1, <3>1 DEF CheckInv, BlockedInv, Threads
  <2>5. QED
    BY Zenon, <2>1, <2>2, <2>3, <2>4, QuietStep DEF Holding
<1>2. CASE ThrowInterrupted(t)
  <2>1. /\ Quiet /\ UNCHANGED control
        /\ intr' \in [Threads -> {"none", "pending", "thrown"}]
        /\ call' \in [Masters -> {"Wait", "Destroy"}]
        /\ terminated' \in BOOLEAN
        /\ pc[t] \in {"waiting", "woken"}
    <3>1. /\ pc[t] \in {"waiting", "woken"} /\ Quiet /\ UNCHANGED control
          /\ intr' \in [Threads -> {"none", "pending", "thrown"}]
      BY Zenon, <1>2 DEF ThrowInterrupted, CheckInv, TypeOK
    <3>2. call' \in [Masters -> {"Wait", "Destroy"}]
      BY Zenon, <1>2 DEF ThrowInterrupted, CheckInv, TypeOK
    <3>3. terminated' \in BOOLEAN
      BY <1>2, Zenon DEF ThrowInterrupted, CheckInv, TypeOK
    <3>4. QED
      BY Zenon, <3>1, <3>2, <3>3
  <2>2. /\ pc' \in [Threads -> WorkerStates \cup MasterStates]
        /\ \A u \in Threads \ {t} : pc'[u] = pc[u]
        /\ \/ t \in Workers /\ pc'[t] = "exited"
           \/ t \in Masters /\ pc'[t] \in {"start", pc[t]}
    BY Zenon, <1>2 DEF ThrowInterrupted, CheckInv, TypeOK, WorkerStates, LoopStates
  <2>3. TypeOK'
    <3>1. \A w \in Workers : pc'[w] \in WorkerStates
      BY Zenon, <2>2, CheckQueueAssumption DEF CheckInv, TypeOK, WorkerStates, LoopStates, Threads
    <3>2. \A m \in Masters : pc'[m] \in MasterStates
      BY Zenon, <2>2, CheckQueueAssumption DEF CheckInv, TypeOK, MasterStates, LoopStates, Threads
    <3>3. QED
      BY Zenon, <2>1, <2>2, <3>1, <3>2 DEF CheckInv, TypeOK
  <2>4. ControlInv' /\ VerdictIsExact' /\ (Active' <=> Active)
    BY Zenon, <2>1, <2>2, CheckQueueAssumption DEF CheckInv, ControlInv, VerdictIsExact, Active, Threads
  <2>5. BlockedInv'
    <3>1. Outstanding' = Outstanding
      BY Zenon, <2>1 DEF Outstanding
    <3>2. \A m \in Masters : pc'[m] = "waiting" => pc[m] = "waiting"
      BY Zenon, <2>2, CheckQueueAssumption DEF Threads
    <3>3. QED
      BY Zenon, <2>1, <3>1, <3>2 DEF CheckInv, BlockedInv
  <2>6. QED
    BY Zenon, <2>1, <2>2, <2>3, <2>4, <2>5, QuietStep DEF Holding
<1>3. CASE t \in Masters /\ \E by \in {"Wait", "Destroy"} : CallWait(t, by)
  <2>1. /\ Quiet /\ UNCHANGED <<control, intr, terminated>>
        /\ call' \in [Masters -> {"Wait", "Destroy"}]
        /\ pc[t] = "adding"
        /\ pc' \in [Threads -> WorkerStates \cup MasterStates]
        /\ \A u \in Threads : pc'[u] = IF u = t THEN "start" ELSE pc[u]
    <3>1. PICK by \in {"Wait", "Destroy"} : CallWait(t, by)
      BY Zenon, <1>3
    <3>2. /\ pc' \in [Threads -> WorkerStates \cup MasterStates]
          /\ \A u \in Threads : pc'[u] = IF u = t THEN "start" ELSE pc[u]
      BY Zenon, <3>1 DEF CallWait, CheckInv, TypeOK, WorkerStates, LoopStates
    <3>3. QED
      BY Zenon, <3>1, <3>2 DEF CallWait, CheckInv, TypeOK
  <2>2. TypeOK'
    BY Zenon, <2>1 DEF CheckInv, TypeOK, WorkerStates, MasterStates, LoopStates, Threads
  <2>3. ControlInv' /\ VerdictIsExact' /\ (Active' <=> Active)
    BY Zenon, <2>1, <1>3 DEF CheckInv, ControlInv, VerdictIsExact, Active, Threads
  <2>4. BlockedInv'
    <3>1. Outstanding' = Outstanding
      BY Zenon, <2>1 DEF Outstanding
    <3>2. QED
      BY Zenon, <2>1, <3>1 DEF CheckInv, BlockedInv, Threads
  <2>5. QED
    BY Zenon, <2>1, <2>2, <2>3, <2>4, QuietStep DEF Holding
<1>4. CASE t \in Masters /\ Destruct(t)
  <2>1. /\ Quiet /\ UNCHANGED <<call, intr, terminated>>
        /\ control' = NoThread
        /\ pc[t] = "returned"
        /\ pc' \in [Threads -> WorkerStates \cup MasterStates]
        /\ \A u \in Threads : pc'[u] = IF u = t THEN "idle" ELSE pc[u]
    BY Zenon, <1>4 DEF Destruct, CheckInv, TypeOK, MasterStates
  <2>2. TypeOK'
    <3>1. t \notin Workers
      BY Zenon, <1>4, CheckQueueAssumption
    <3>2. QED
      BY Zenon, <2>1, <3>1 DEF CheckInv, TypeOK, WorkerStates, MasterStates, LoopStates, Threads
  <2>3. \A m \in Masters : pc'[m] = "idle"
    BY Zenon, <2>1, <1>4 DEF CheckInv, ControlInv, Threads
  <2>4. ControlInv' /\ VerdictIsExact' /\ BlockedInv'
    BY Zenon, <2>1, <2>3, CheckQueueAssumption DEF ControlInv, VerdictIsExact, BlockedInv
  <2>5. ~Active' /\ ~Active
    BY Zenon, <2>1, <2>3, <1>4 DEF Active, Threads, CheckInv, ControlInv
  <2>6. QED
    BY Zenon, <2>1, <2>2, <2>4, <2>5, QuietStep DEF Holding
<1>5. QED
  BY Zenon, <1>1, <1>2, <1>3, <1>4

\* Every step of every thread keeps the invariant.
LEMMA NextCheckInv == CheckInv /\ [Next]_vars => CheckInv'
<1> SUFFICES ASSUME CheckInv, [Next]_vars PROVE CheckInv'
  BY Zenon
<1>1. CASE UNCHANGED vars
  <2>1. Outstanding' = Outstanding /\ (Active' <=> Active)
    BY Zenon, <1>1 DEF vars, Outstanding, Active
  <2>2. TypeOK' /\ ControlInv' /\ VerdictIsExact'
    BY Zenon, <1>1 DEF vars, CheckInv, TypeOK, ControlInv, VerdictIsExact
  <2>3. BlockedInv'
    BY Zenon, <1>1, <2>1 DEF vars, CheckInv, BlockedInv
  <2>4. QED
    BY Zenon, <1>1, <2>1, <2>2, <2>3, QuietStep DEF vars
<1>2. ASSUME NEW m \in Masters, MasterStep(m) PROVE CheckInv'
  BY Zenon, <1>2, ConstructStep, AddStep, QuietActions DEF MasterStep, Threads
<1>3. ASSUME NEW t \in Threads, LoopStep(t) PROVE CheckInv'
  BY Zenon, <1>3, ReturnStep, BlockStep, TakeBatchStep, ExecuteStep, QuietActions DEF LoopStep
<1>4. ASSUME NEW t \in Threads, Environment(t) PROVE CheckInv'
  BY Zenon, <1>4, QuietActions DEF Environment
<1>5. QED
  BY Zenon, <1>1, <1>2, <1>3, <1>4 DEF Next, Halted

-----------------------------------------------------------------------------
(* The theorems. *)

\* The invariant holds in every reachable state of the pool.
THEOREM CheckInvariance == Spec => []CheckInv
BY InitCheckInv, NextCheckInv, PTL DEF Spec

\* Type correctness of the pool's state.
THEOREM TypeCorrect == Spec => []TypeOK
<1>1. CheckInv => TypeOK
  BY Zenon DEF CheckInv
<1>2. QED
  BY <1>1, CheckInvariance, PTL

\* CCheckQueueControl::Wait returns the conjunction of all added checks.
THEOREM VerdictCorrect == Spec => []VerdictIsExact
<1>1. CheckInv => VerdictIsExact
  BY Zenon DEF CheckInv
<1>2. QED
  BY <1>1, CheckInvariance, PTL

\* nTodo counts the outstanding checks exactly, so the unsigned counter of
\* CCheckQueue::Loop never wraps and never reaches zero early.
THEOREM TodoCorrect == Spec => []TodoIsExact
<1>1. CheckInv => TodoIsExact
  BY Zenon DEF CheckInv
<1>2. QED
  BY <1>1, CheckInvariance, PTL

\* When ControlMutex is free the pool is empty and its result is reset, however
\* the last session ended.
THEOREM SessionsAreClean == Spec => []CleanBetweenSessions
<1>1. CheckInv => CleanBetweenSessions
  <2> SUFFICES ASSUME CheckInv, control = NoThread PROVE Outstanding = {} /\ nTodo = 0 /\ fAllOk
    BY Zenon DEF CleanBetweenSessions
  <2>1. ~Active
    BY Zenon, CheckQueueAssumption DEF CheckInv, ControlInv, Active
  <2>2. Outstanding = {} /\ fAllOk
    BY Zenon, <2>1 DEF CheckInv, SessionInv
  <2>3. QED
    BY Zenon, <2>2, FS_EmptySet DEF CheckInv, TodoIsExact
<1>2. QED
  BY <1>1, CheckInvariance, PTL

\* A blocked master always has a thread that holds a batch to wait for: the
\* notification of condMaster in the clean-up of Loop() is never lost.
THEOREM NoLostWakeup == Spec => []MasterWaitsForSomeone
<1>1. CheckInv => MasterWaitsForSomeone
  <2> SUFFICES ASSUME CheckInv, NEW m \in Masters, pc[m] = "waiting"
               PROVE  \E t \in Threads \ {m} : pc[t] \in {"exec", "done"} /\ vChecks[t] # {}
    BY Zenon DEF MasterWaitsForSomeone
  <2>1. queue = {} /\ Outstanding # {}
    BY Zenon DEF CheckInv, BlockedInv
  <2>2. PICK t \in Threads : vChecks[t] # {}
    BY Zenon, <2>1 DEF Outstanding
  <2>3. pc[t] \in {"exec", "done"}
    BY Zenon, <2>2 DEF CheckInv, BatchInv, Holding
  <2>4. QED
    BY Zenon, <2>2, <2>3
<1>2. QED
  BY <1>1, CheckInvariance, PTL

-----------------------------------------------------------------------------
(* HTTP requests *)

\* replySent is what was answered with WriteReply, as seen by who may answer:
\* a worker that holds an answered request knows it from replySent.
ReplyInv ==
    /\ Range(events) \subseteq replySent /\ replySent \subseteq Replied
    /\ \A w \in HTTPWorkers : item[w] \in Replied => item[w] \in replySent
    /\ \A w \in HTTPWorkers : (worker[w] = "working") <=> (item[w] # NoRequest)

\* How far StopHTTPServer has come.
StopInv ==
    /\ mainThread # "run" => rejecting
    /\ mainThread \in {"delete", "wait", "stopped"} =>
          callback = NoRequest /\ \A w \in HTTPWorkers : worker[w] = "exited"
    /\ mainThread \in {"wait", "stopped"} => workQueue = <<>>

HTTPInv == OneOwner /\ ReplyInv /\ StopInv
-----------------------------------------------------------------------------

\* A request that is answered, and was not before, goes to the events.
LEMMA ReplyFacts ==
    ASSUME HTTPInv, NEW r \in received \ Replied, WriteReply(r)
    PROVE  /\ events' \in Seq(Requests) /\ IsInjective(events')
           /\ Range(events)' = Range(events) \cup {r}
           /\ replySent' = replySent \cup {r} /\ replySent' \subseteq received
<1>1. r \in Requests /\ r \notin Range(events)
  BY Zenon DEF HTTPInv, OneOwner, HTTPTypeOK, Replied
<1>2. QED
  BY <1>1, PushFacts DEF WriteReply, HTTPInv, OneOwner, HTTPTypeOK

\* The event thread accepts or rejects a request that nobody has seen.
LEMMA ReceiveStep ==
    ASSUME HTTPInv, NEW r \in Requests, Receive(r)
    PROVE  HTTPInv'
<1>1. /\ r \notin Replied \cup Range(workQueue) \cup {callback} /\ r # NoRequest
      /\ \A w \in HTTPWorkers : item[w] # r
  BY Zenon, HTTPAssumption DEF Receive, HTTPInv, OneOwner
<1>2. /\ callback = NoRequest /\ received' = received \cup {r}
      /\ UNCHANGED <<events, workQueue, running, worker, item, replySent, rejecting, mainThread, loop>>
  BY Zenon DEF Receive, queueVars, stopVars
<1>3. CASE rejecting /\ sent' = Append(sent, r) /\ callback' = callback
  <2>1. /\ sent' \in Seq(Requests) /\ IsInjective(sent')
        /\ Range(sent)' = Range(sent) \cup {r}
    BY <1>1, <1>3, PushFacts DEF HTTPInv, OneOwner, HTTPTypeOK, Replied
  <2>2. HTTPTypeOK'
    BY Zenon, <1>2, <1>3, <2>1 DEF HTTPInv, OneOwner, HTTPTypeOK
  <2>3. OneOwner'
    BY <1>1, <1>2, <1>3, <2>1, <2>2 DEF HTTPInv, OneOwner, Replied
  <2>4. ReplyInv' /\ StopInv'
    BY Zenon, <1>1, <1>2, <1>3, <2>1 DEF HTTPInv, ReplyInv, StopInv, Replied
  <2>5. QED
    BY Zenon, <2>3, <2>4 DEF HTTPInv
<1>4. CASE ~rejecting /\ callback' = r /\ sent' = sent
  <2>1. HTTPTypeOK'
    BY Zenon, <1>2, <1>4 DEF HTTPInv, OneOwner, HTTPTypeOK
  <2>2. OneOwner'
    BY Zenon, <1>1, <1>2, <1>4, <2>1 DEF HTTPInv, OneOwner, Replied
  <2>3. ReplyInv' /\ StopInv'
    BY Zenon, <1>2, <1>4 DEF HTTPInv, ReplyInv, StopInv, OneOwner, HTTPTypeOK, Replied
  <2>4. QED
    BY Zenon, <2>2, <2>3 DEF HTTPInv
<1>5. QED
  BY Zenon, <1>3, <1>4 DEF Receive

\* The request of the callback is answered at once.
LEMMA AnswerCallback ==
    ASSUME HTTPInv, callback # NoRequest, WriteReply(callback), callback' = NoRequest,
           UNCHANGED <<received, sent, queueVars, stopVars>>
    PROVE  HTTPInv'
<1>1. /\ UNCHANGED <<received, sent, workQueue, running, worker, item, rejecting, mainThread, loop>>
      /\ callback \in received \ Replied
  BY Zenon DEF queueVars, stopVars, HTTPInv, OneOwner, HTTPTypeOK
<1>2. /\ events' \in Seq(Requests) /\ IsInjective(events')
      /\ Range(events)' = Range(events) \cup {callback}
      /\ replySent' = replySent \cup {callback} /\ replySent' \subseteq received
  BY Zenon, <1>1, ReplyFacts
<1>3. HTTPTypeOK'
  BY Zenon, <1>1, <1>2 DEF HTTPInv, OneOwner, HTTPTypeOK
<1>4. NoRequest \notin Replied \cup Range(workQueue) \cup {callback}
  BY HTTPAssumption DEF HTTPInv, OneOwner, HTTPTypeOK, Replied, Range
<1>5. OneOwner'
  BY <1>1, <1>2, <1>3, <1>4 DEF HTTPInv, OneOwner, Replied
<1>6. ReplyInv' /\ StopInv'
  BY Zenon, <1>1, <1>2 DEF HTTPInv, ReplyInv, StopInv, OneOwner, Replied
<1>7. QED
  BY Zenon, <1>5, <1>6 DEF HTTPInv

\* The request of the callback goes to the queue.
LEMMA EnqueueStep ==
    ASSUME HTTPInv, callback # NoRequest, Enqueue, callback' = NoRequest,
           UNCHANGED <<received, sent, running, item, stopVars>>
    PROVE  HTTPInv'
<1>1. /\ UNCHANGED <<received, sent, running, item, events, replySent>>
      /\ UNCHANGED <<rejecting, mainThread, loop>>
      /\ Len(workQueue) < MaxDepth /\ workQueue' = Append(workQueue, callback)
  BY Zenon DEF Enqueue, stopVars
<1>2. /\ workQueue' \in Seq(Requests) /\ IsInjective(workQueue') /\ Len(workQueue') = Len(workQueue) + 1
      /\ Range(workQueue)' = Range(workQueue) \cup {callback}
  BY <1>1, PushFacts DEF HTTPInv, OneOwner, HTTPTypeOK
<1>3. /\ worker' \in [HTTPWorkers -> {"check", "waiting", "working", "exited"}]
      /\ \A w \in HTTPWorkers : (worker'[w] = "working") <=> (worker[w] = "working")
  BY Zenon DEF Enqueue, Asleep, HTTPInv, OneOwner, HTTPTypeOK
<1>4. Len(workQueue) \in Nat /\ Len(workQueue') <= MaxDepth
  BY <1>1, <1>2, HTTPAssumption DEF HTTPInv, OneOwner, HTTPTypeOK
<1>5. HTTPTypeOK'
  BY Zenon, <1>1, <1>2, <1>3, <1>4 DEF HTTPInv, OneOwner, HTTPTypeOK
<1>6. NoRequest \notin Replied \cup Range(workQueue) \cup {callback}
  BY HTTPAssumption DEF HTTPInv, OneOwner, HTTPTypeOK, Replied, Range
<1>7. OneOwner'
  BY <1>1, <1>2, <1>5, <1>6 DEF HTTPInv, OneOwner, Replied
<1>8. ReplyInv'
  BY Zenon, <1>1, <1>3 DEF HTTPInv, ReplyInv, Replied
<1>9. StopInv'
  BY Zenon, <1>1 DEF HTTPInv, StopInv
<1>10. QED
  BY Zenon, <1>7, <1>8, <1>9 DEF HTTPInv

\* A reply leaves the events.
LEMMA SendReplyStep ==
    ASSUME HTTPInv, SendReply
    PROVE  HTTPInv'
<1>1. /\ UNCHANGED <<received, callback, workQueue, running, worker, item, replySent>>
      /\ UNCHANGED <<rejecting, mainThread, loop>>
      /\ events # <<>> /\ events' = Tail(events) /\ sent' = Append(sent, Head(events))
  BY Zenon DEF SendReply, queueVars, stopVars
<1>2. /\ events' \in Seq(Requests) /\ IsInjective(events') /\ Head(events) \in Requests
      /\ Range(events) = Range(events)' \cup {Head(events)}
      /\ Head(events) \notin Range(events)'
  BY Zenon, <1>1, PopFacts DEF HTTPInv, OneOwner, HTTPTypeOK
<1>3. /\ sent' \in Seq(Requests) /\ IsInjective(sent')
      /\ Range(sent)' = Range(sent) \cup {Head(events)}
  BY <1>1, <1>2, PushFacts DEF HTTPInv, OneOwner, HTTPTypeOK
<1>4. HTTPTypeOK'
  BY Zenon, <1>1, <1>2, <1>3 DEF HTTPInv, OneOwner, HTTPTypeOK
<1>5. Replied' = Replied /\ Range(sent)' \cap Range(events)' = {}
  BY Zenon, <1>2, <1>3 DEF Replied, HTTPInv, OneOwner
<1>6. OneOwner'
  BY Zenon, <1>1, <1>2, <1>3, <1>4, <1>5 DEF HTTPInv, OneOwner
<1>7. ReplyInv' /\ StopInv'
  BY Zenon, <1>1, <1>2, <1>5 DEF HTTPInv, ReplyInv, StopInv
<1>8. QED
  BY Zenon, <1>6, <1>7 DEF HTTPInv

\* A worker takes a request, waits or leaves.
LEMMA CheckStep ==
    ASSUME HTTPInv, NEW w \in HTTPWorkers, Check(w)
    PROVE  HTTPInv'
<1>1. /\ UNCHANGED <<received, callback, sent, events, replySent, running>>
      /\ UNCHANGED <<rejecting, mainThread, loop>>
      /\ worker[w] = "check" /\ item[w] = NoRequest /\ Replied' = Replied
      /\ mainThread \notin {"delete", "wait", "stopped"}
  BY Zenon DEF Check, eventVars, stopVars, HTTPInv, ReplyInv, StopInv, Replied
<1>2. ASSUME NEW place \in {"exited", "waiting"}, UNCHANGED <<workQueue, item>>,
             worker' = [worker EXCEPT ![w] = place]
      PROVE  HTTPInv'
  <2>1. HTTPTypeOK'
    BY Zenon, <1>1, <1>2 DEF HTTPInv, OneOwner, HTTPTypeOK
  <2>2. OneOwner'
    BY Zenon, <1>1, <1>2, <2>1 DEF HTTPInv, OneOwner
  <2>3. ReplyInv' /\ StopInv'
    BY Zenon, <1>1, <1>2 DEF HTTPInv, OneOwner, HTTPTypeOK, ReplyInv, StopInv
  <2>4. QED
    BY Zenon, <2>2, <2>3 DEF HTTPInv
<1>3. CASE /\ workQueue # <<>> /\ workQueue' = Tail(workQueue)
           /\ worker' = [worker EXCEPT ![w] = "working"]
           /\ item' = [item EXCEPT ![w] = Head(workQueue)]
  <2>1. /\ workQueue' \in Seq(Requests) /\ IsInjective(workQueue') /\ Head(workQueue) \in Requests
        /\ Range(workQueue) = Range(workQueue)' \cup {Head(workQueue)}
        /\ Head(workQueue) \notin Range(workQueue)'
        /\ Len(workQueue') = Len(workQueue) - 1 /\ Len(workQueue) \in Nat
    BY Zenon, <1>3, PopFacts DEF HTTPInv, OneOwner, HTTPTypeOK
  <2>2. /\ item'[w] = Head(workQueue) /\ Head(workQueue) # NoRequest
        /\ \A v \in HTTPWorkers : v # w => item'[v] = item[v] /\ worker'[v] = worker[v]
        /\ worker'[w] = "working"
    BY <1>3, <2>1, HTTPAssumption DEF HTTPInv, OneOwner, HTTPTypeOK
  <2>3. HTTPTypeOK'
    BY <1>1, <1>3, <2>1, HTTPAssumption DEF HTTPInv, OneOwner, HTTPTypeOK
  <2>4. received = (Replied \cup Range(workQueue)' \cup {callback} \cup {item'[v] : v \in HTTPWorkers})
                       \ {NoRequest}
    BY <1>1, <2>1, <2>2 DEF HTTPInv, OneOwner
  <2>5. OneOwner'
    BY <1>1, <2>1, <2>2, <2>3, <2>4 DEF HTTPInv, OneOwner
  <2>6. Head(workQueue) \notin Replied
    BY Zenon, <2>1 DEF HTTPInv, OneOwner
  <2>7. ReplyInv'
    BY Zenon, <1>1, <2>2, <2>6 DEF HTTPInv, ReplyInv
  <2>8. StopInv'
    BY Zenon, <1>1 DEF HTTPInv, StopInv
  <2>9. QED
    BY Zenon, <2>5, <2>7, <2>8 DEF HTTPInv
<1>4. QED
  BY Zenon, <1>2, <1>3 DEF Check

\* A worker answers the request it holds, and goes on or has destroyed it.
LEMMA HandleStep ==
    ASSUME HTTPInv, NEW w \in HTTPWorkers, Handle(w)
    PROVE  HTTPInv'
<1>1. /\ UNCHANGED <<received, callback, sent, workQueue, running, worker, item>>
      /\ UNCHANGED <<rejecting, mainThread, loop>>
      /\ worker[w] = "working" /\ item[w] # NoRequest
  BY Zenon DEF Handle, eventVars, queueVars, stopVars, HTTPInv, ReplyInv
<1>2. item[w] \in received \ Replied
  BY Zenon, <1>1 DEF Handle, HTTPInv, OneOwner, ReplyInv
<1>3. /\ events' \in Seq(Requests) /\ IsInjective(events')
      /\ Range(events)' = Range(events) \cup {item[w]}
      /\ replySent' = replySent \cup {item[w]} /\ replySent' \subseteq received
  BY Zenon, <1>2, ReplyFacts DEF Handle
<1>4. HTTPTypeOK'
  BY Zenon, <1>1, <1>3 DEF HTTPInv, OneOwner, HTTPTypeOK
<1>5. Replied' = Replied \cup {item[w]}
  BY Zenon, <1>1, <1>3 DEF Replied
<1>6. OneOwner'
  BY <1>1, <1>2, <1>3, <1>4, <1>5 DEF HTTPInv, OneOwner, Replied
<1>7. ReplyInv' /\ StopInv'
  BY Zenon, <1>1, <1>3, <1>5 DEF HTTPInv, ReplyInv, StopInv
<1>8. QED
  BY Zenon, <1>6, <1>7 DEF HTTPInv

\* What a destructor does to a request that is answered if replySent says so.
LEMMA DestroyFacts ==
    ASSUME HTTPInv, NEW r \in received, r \in Replied => r \in replySent,
           DestroyRequest(r), UNCHANGED sent
    PROVE  /\ events' \in Seq(Requests) /\ IsInjective(events')
           /\ Range(sent) \cap Range(events)' = {}
           /\ Replied' = Replied \cup {r}
           /\ replySent' = replySent \cup {r} /\ replySent' \subseteq received
           /\ Range(events)' \subseteq replySent'
<1>1. CASE r \notin replySent /\ WriteReply(r)
  <2>1. /\ events' \in Seq(Requests) /\ IsInjective(events')
        /\ Range(events)' = Range(events) \cup {r} /\ r \notin Replied
        /\ replySent' = replySent \cup {r} /\ replySent' \subseteq received
    BY Zenon, <1>1, ReplyFacts
  <2>2. QED
    BY <2>1 DEF HTTPInv, OneOwner, ReplyInv, Replied
<1>2. CASE r \in replySent /\ UNCHANGED <<replySent, events>>
  BY <1>2 DEF HTTPInv, OneOwner, HTTPTypeOK, ReplyInv, Replied
<1>3. QED
  BY Zenon, <1>1, <1>2 DEF DestroyRequest

LEMMA DestroyItemStep ==
    ASSUME HTTPInv, NEW w \in HTTPWorkers, DestroyItem(w)
    PROVE  HTTPInv'
<1>1. /\ UNCHANGED <<received, callback, sent, workQueue, running, rejecting, mainThread, loop>>
      /\ worker[w] = "working" /\ item[w] # NoRequest /\ DestroyRequest(item[w])
      /\ worker' = [worker EXCEPT ![w] = "check"]
      /\ item' = [item EXCEPT ![w] = NoRequest]
  BY Zenon DEF DestroyItem, eventVars, stopVars, HTTPInv, ReplyInv
<1>2. /\ item[w] \in received /\ (item[w] \in Replied => item[w] \in replySent)
      /\ item[w] \notin Range(workQueue) \cup {callback}
  BY Zenon, <1>1 DEF HTTPInv, OneOwner, ReplyInv
<1>3. /\ events' \in Seq(Requests) /\ IsInjective(events')
      /\ Range(sent) \cap Range(events)' = {}
      /\ Replied' = Replied \cup {item[w]}
      /\ replySent' = replySent \cup {item[w]} /\ replySent' \subseteq received
      /\ Range(events)' \subseteq replySent'
  BY Zenon, <1>1, <1>2, DestroyFacts
<1>4. /\ item'[w] = NoRequest /\ worker'[w] = "check"
      /\ \A v \in HTTPWorkers : v # w => item'[v] = item[v] /\ worker'[v] = worker[v]
  BY <1>1 DEF HTTPInv, OneOwner, HTTPTypeOK
<1>5. HTTPTypeOK'
  BY Zenon, <1>1, <1>3 DEF HTTPInv, OneOwner, HTTPTypeOK
<1>6. received = (Replied' \cup Range(workQueue) \cup {callback} \cup {item'[v] : v \in HTTPWorkers})
                     \ {NoRequest}
  BY <1>1, <1>3, <1>4 DEF HTTPInv, OneOwner
<1>7. OneOwner'
  BY <1>1, <1>2, <1>3, <1>4, <1>5, <1>6 DEF HTTPInv, OneOwner
<1>8. NoRequest \notin Replied'
  BY <1>5, HTTPAssumption DEF HTTPTypeOK, Replied, Range
<1>9. ReplyInv'
  BY Zenon, <1>3, <1>4, <1>8 DEF HTTPInv, ReplyInv
<1>10. StopInv'
  BY Zenon, <1>1, <1>4 DEF HTTPInv, StopInv
<1>11. QED
  BY Zenon, <1>7, <1>9, <1>10 DEF HTTPInv

\* The queue is deleted: each request left in it is answered.
LEMMA DeleteQueuedStep ==
    ASSUME HTTPInv, DeleteQueued
    PROVE  HTTPInv'
<1>1. /\ UNCHANGED <<received, callback, sent, running, worker, item>>
      /\ UNCHANGED <<rejecting, mainThread, loop>>
      /\ mainThread = "delete" /\ workQueue # <<>>
      /\ workQueue' = Tail(workQueue) /\ DestroyRequest(Head(workQueue))
  BY Zenon DEF DeleteQueued, eventVars, stopVars
<1>2. /\ workQueue' \in Seq(Requests) /\ IsInjective(workQueue') /\ Head(workQueue) \in Requests
      /\ Range(workQueue) = Range(workQueue)' \cup {Head(workQueue)}
      /\ Head(workQueue) \notin Range(workQueue)'
      /\ Len(workQueue') = Len(workQueue) - 1 /\ Len(workQueue) \in Nat
  BY Zenon, <1>1, PopFacts DEF HTTPInv, OneOwner, HTTPTypeOK
<1>3. Head(workQueue) # NoRequest
  BY Zenon, <1>2, HTTPAssumption
<1>4. Head(workQueue) \in received /\ Head(workQueue) \notin Replied /\ Head(workQueue) # callback
  BY Zenon, <1>2, <1>3 DEF HTTPInv, OneOwner
<1>5. /\ events' \in Seq(Requests) /\ IsInjective(events')
      /\ Range(sent) \cap Range(events)' = {}
      /\ Replied' = Replied \cup {Head(workQueue)}
      /\ replySent' = replySent \cup {Head(workQueue)} /\ replySent' \subseteq received
      /\ Range(events)' \subseteq replySent'
  BY Zenon, <1>1, <1>4, DestroyFacts
<1>6. Len(workQueue') <= MaxDepth
  BY <1>2, HTTPAssumption DEF HTTPInv, OneOwner, HTTPTypeOK
<1>7. HTTPTypeOK'
  BY Zenon, <1>1, <1>2, <1>5, <1>6 DEF HTTPInv, OneOwner, HTTPTypeOK
<1>8. OneOwner'
  BY <1>1, <1>2, <1>4, <1>5, <1>7 DEF HTTPInv, OneOwner
<1>9. ReplyInv' /\ StopInv'
  BY Zenon, <1>1, <1>5 DEF HTTPInv, ReplyInv, StopInv
<1>10. QED
  BY Zenon, <1>8, <1>9 DEF HTTPInv

\* A step that moves no request and answers none.
LEMMA RequestFrame ==
    ASSUME HTTPInv, UNCHANGED <<received, callback, sent, events, replySent, workQueue, item>>,
           HTTPTypeOK', \A w \in HTTPWorkers : (worker'[w] = "working") <=> (worker[w] = "working")
    PROVE  OneOwner' /\ ReplyInv'
<1>1. OneOwner'
  BY Zenon DEF HTTPInv, OneOwner, Replied
<1>2. ReplyInv'
  BY Zenon DEF HTTPInv, ReplyInv, Replied
<1>3. QED
  BY Zenon, <1>1, <1>2

LEMMA QuietHTTP ==
    ASSUME HTTPInv,
           \/ ExitLoop \/ SetReject \/ InterruptWorkers \/ JoinWorkers \/ LoopExit
           \/ LoopBreak \/ Joined \/ \E w \in HTTPWorkers : WakeupForNothing(w)
           \/ UNCHANGED httpVars
    PROVE  HTTPInv'
<1>1. UNCHANGED <<received, callback, sent, events, replySent, workQueue, item>>
  BY Zenon DEF ExitLoop, SetReject, InterruptWorkers, JoinWorkers, LoopExit, LoopBreak, Joined,
         WakeupForNothing, httpVars, eventVars, queueVars, stopVars
<1>2. /\ worker' \in [HTTPWorkers -> {"check", "waiting", "working", "exited"}]
      /\ \A w \in HTTPWorkers : (worker'[w] = "working") <=> (worker[w] = "working")
      /\ \A w \in HTTPWorkers : worker[w] = "exited" => worker'[w] = "exited"
  <2>1. CASE InterruptWorkers
    BY Zenon, <2>1 DEF InterruptWorkers, Asleep, HTTPInv, OneOwner, HTTPTypeOK
  <2>2. CASE \E w \in HTTPWorkers : WakeupForNothing(w)
    BY Zenon, <2>2 DEF WakeupForNothing, HTTPInv, OneOwner, HTTPTypeOK
  <2>3. CASE UNCHANGED worker
    BY Zenon, <2>3 DEF HTTPInv, OneOwner, HTTPTypeOK
  <2>4. QED
    BY Zenon, <2>1, <2>2, <2>3 DEF ExitLoop, SetReject, JoinWorkers, LoopExit, LoopBreak, Joined,
                            httpVars, queueVars
<1>3. /\ {rejecting', running'} \subseteq BOOLEAN
      /\ mainThread' \in {"run", "interrupt", "join", "delete", "wait", "stopped"}
      /\ loop' \in {"on", "exit", "break", "off"}
  BY Zenon DEF ExitLoop, SetReject, InterruptWorkers, JoinWorkers, LoopExit, LoopBreak, Joined,
         WakeupForNothing, httpVars, queueVars, stopVars, HTTPInv, OneOwner, HTTPTypeOK
<1>4. HTTPTypeOK'
  BY Zenon, <1>1, <1>2, <1>3 DEF HTTPInv, OneOwner, HTTPTypeOK
<1>5. OneOwner' /\ ReplyInv'
  BY Zenon, <1>1, <1>2, <1>4, RequestFrame
<1>6. /\ mainThread' # "run" => rejecting'
      /\ mainThread' \in {"delete", "wait", "stopped"} =>
            \/ mainThread \in {"delete", "wait", "stopped"}
            \/ callback = NoRequest /\ \A w \in HTTPWorkers : worker[w] = "exited"
      /\ mainThread' \in {"wait", "stopped"} =>
            mainThread \in {"wait", "stopped"} \/ workQueue = <<>>
  BY Zenon DEF ExitLoop, SetReject, InterruptWorkers, JoinWorkers, LoopExit, LoopBreak, Joined,
         WakeupForNothing, httpVars, queueVars, stopVars, HTTPInv, StopInv
<1>7. StopInv'
  BY Zenon, <1>1, <1>2, <1>6 DEF HTTPInv, StopInv
<1>8. QED
  BY Zenon, <1>5, <1>7 DEF HTTPInv

LEMMA Initially == InitHTTP => HTTPInv
<1> SUFFICES ASSUME InitHTTP PROVE HTTPInv
  BY Zenon
<1>1. <<>> \in Seq(Requests) /\ IsInjective(<<>>) /\ Range(<<>>) = {} /\ Len(<<>>) = 0
  BY Zenon, EmptyQueue
<1>2. HTTPTypeOK
  <2>1. Len(workQueue) <= MaxDepth
    BY <1>1, HTTPAssumption DEF InitHTTP
  <2>2. /\ events \in Seq(Requests) /\ sent \in Seq(Requests) /\ workQueue \in Seq(Requests)
        /\ worker \in [HTTPWorkers -> {"check", "waiting", "working", "exited"}]
        /\ item \in [HTTPWorkers -> Requests \cup {NoRequest}]
    BY Zenon, <1>1 DEF InitHTTP
  <2>3. /\ received \subseteq Requests /\ replySent \subseteq received
        /\ {rejecting, running} \subseteq BOOLEAN
    BY Zenon DEF InitHTTP
  <2>4. QED
    BY Zenon, <2>1, <2>2, <2>3 DEF InitHTTP, HTTPTypeOK
<1>3. Replied = {} /\ \A w \in HTTPWorkers : item[w] = NoRequest
  BY Zenon, <1>1 DEF InitHTTP, Replied
<1>4. OneOwner
  BY Zenon, <1>1, <1>2, <1>3, HTTPAssumption DEF InitHTTP, OneOwner
<1>5. ReplyInv /\ StopInv
  BY Zenon, <1>1, <1>3 DEF InitHTTP, ReplyInv, StopInv
<1>6. QED
  BY Zenon, <1>4, <1>5 DEF HTTPInv

LEMMA NextStep == HTTPInv /\ [NextHTTP]_httpVars => HTTPInv'
<1> SUFFICES ASSUME HTTPInv, [NextHTTP]_httpVars PROVE HTTPInv'
  BY Zenon
<1>1. CASE Refuse
  BY Zenon, <1>1, AnswerCallback DEF Refuse
<1>2. CASE Dispatch
  <2>1. CASE Enqueue
    BY Zenon, <1>2, <2>1, EnqueueStep DEF Dispatch
  <2>2. CASE WriteReply(callback) /\ UNCHANGED <<workQueue, worker>>
    BY Zenon, <1>2, <2>2, AnswerCallback DEF Dispatch, queueVars
  <2>3. QED
    BY Zenon, <1>2, <2>1, <2>2 DEF Dispatch
<1>3. CASE \E w \in HTTPWorkers : Worker(w)
  BY Zenon, <1>3, CheckStep, HandleStep, DestroyItemStep DEF Worker
<1>4. CASE \E r \in Requests : Receive(r)
  BY Zenon, <1>4, ReceiveStep
<1>5. CASE SendReply \/ DeleteQueued
  BY Zenon, <1>5, SendReplyStep, DeleteQueuedStep
<1>6. QED
  BY Zenon, <1>1, <1>2, <1>3, <1>4, <1>5, QuietHTTP DEF NextHTTP, EventThread, MainThread
-----------------------------------------------------------------------------

\* HTTPInv is an invariant of the server.
THEOREM HTTPInvariance == SpecHTTP => []HTTPInv
<1>1. QED
  BY Initially, NextStep, PTL DEF SpecHTTP

\* For every number of requests, workers and places in the queue, a request is
\* in one place at a time and is answered once: WriteReply and the destructor of
\* HTTPRequest, the refusals of http_request_cb and StopHTTPServer share the
\* work without a double reply and without losing one.
THEOREM AnsweredOnce == SpecHTTP => []OneOwner
<1>1. HTTPInv => OneOwner
  BY Zenon DEF HTTPInv
<1>2. QED
  BY <1>1, HTTPInvariance, PTL

\* A server whose event loop ended by itself has answered whatever it received:
\* StopHTTPServer leaves nothing in the queue, in a worker or in the callback.
THEOREM StopForgetsNobody == SpecHTTP => []NobodyForgotten
<1>1. ASSUME HTTPInv PROVE NobodyForgotten
  <2> SUFFICES ASSUME mainThread = "stopped", events = <<>> PROVE received = Range(sent)
    BY Zenon DEF NobodyForgotten
  <2>1. /\ workQueue = <<>> /\ callback = NoRequest /\ \A w \in HTTPWorkers : item[w] = NoRequest
    BY Zenon, <1>1 DEF HTTPInv, StopInv, ReplyInv
  <2>2. Range(workQueue) = {} /\ Range(events) = {}
    BY Zenon, <2>1, EmptyQueue
  <2>3. NoRequest \notin Range(sent)
    BY <1>1, HTTPAssumption DEF HTTPInv, OneOwner, HTTPTypeOK, Range
  <2>4. QED
    BY Zenon, <1>1, <2>1, <2>2, <2>3 DEF HTTPInv, OneOwner, Replied
<1>2. QED
  BY <1>1, HTTPInvariance, PTL

-----------------------------------------------------------------------------
(* Wallet notifications *)

\* An entry of blockStack.
BlockData == [pindex : Blocks, txConflicted : SUBSET Txs]

\* Where this cycle of the thread leads to: the tip it collected.
Target ==
    IF blockStack # <<>> THEN blockStack[1].pindex
    ELSE IF phase = "disconnect" THEN pindexFork ELSE pindexLastTip

\* Where the blocks to connect are attached.
Base == IF phase = "disconnect" THEN pindexFork ELSE pindexLastTip

\* blockStack is a path in the tree that ends in the base, the last block to
\* connect first.
StackInv ==
    /\ blockStack \in Seq(BlockData)
    /\ phase = "asleep" => blockStack = <<>> /\ added = {}
    /\ added \subseteq Txs
    /\ phase = "disconnect" => pindexFork \in Chain(pindexLastTip)
    /\ \A i \in 1 .. Len(blockStack) : blockStack[i].pindex # Genesis
    /\ \A i \in 1 .. Len(blockStack) - 1 : Parent[blockStack[i].pindex] = blockStack[i + 1].pindex
    /\ blockStack # <<>> => Parent[blockStack[Len(blockStack)].pindex] = Base

\* The conflicts of every block that the next cycle has to connect are kept.
ConflictInv ==
    /\ \A b \in DOMAIN recentlyConflicted : recentlyConflicted[b] \in SUBSET Txs
    /\ DOMAIN recentlyConflicted \subseteq connected
    /\ Chain(tip) \subseteq connected \cup {Genesis}
    /\ Chain(Target) \subseteq connected \cup {Genesis}
    /\ Chain(tip) \ Chain(Target) \subseteq DOMAIN recentlyConflicted

\* hashBlock names a block that holds the transaction, and the block of the
\* chain down from the last notified block if one does.
WalletInv ==
    /\ \A t \in Txs : hashBlock[t] \in Blocks => t \in TxsOf[hashBlock[t]]
    /\ \A b \in Chain(pindexLastTip) : \A t \in TxsOf[b] : hashBlock[t] = b

\* A chain that was not extended since the last cycle collected it has only got
\* shorter.
SequenceInv ==
    /\ sequence \in Nat /\ notifiedSequence \in Nat /\ drainedSequence \in Nat
    /\ notifiedSequence <= sequence
    /\ phase # "asleep" => notifiedSequence <= drainedSequence /\ drainedSequence <= sequence
    /\ phase # "asleep" /\ sequence = drainedSequence => tip \in Chain(Target)
    /\ sequence = notifiedSequence => blockStack = <<>> /\ tip \in Chain(Target)

\* What a block of the active chain threw out of the mempool when it was first
\* connected waits for the next cycle, which has to connect the block, or for
\* this one.
UntoldInv ==
    \A u \in untold :
        /\ u \in Txs \X Blocks /\ u[2] \in Chain(tip) \ {Genesis}
        /\ \/ /\ u[2] \in DOMAIN recentlyConflicted \ Chain(Target)
              /\ u[1] \in recentlyConflicted[u[2]]
           \/ \E i \in 1 .. Len(blockStack) :
                blockStack[i].pindex = u[2] /\ u[1] \in blockStack[i].txConflicted

PoolInv == recentlyAdded \subseteq mempool /\ mempool \subseteq known \cup recentlyAdded \cup added

NotifyInv == NeverThrows /\ StackInv /\ ConflictInv /\ WalletInv /\ SequenceInv /\ UntoldInv /\ PoolInv
-----------------------------------------------------------------------------

\* The blocks with their pprev links are a tree, and Chain is the chain in it.
LEMMA BlocksAreATree ==
    /\ Tree(Blocks, Genesis, Parent) /\ Chained(Chains, Blocks, Genesis, Parent)
<1>1. Tree(Blocks, Genesis, Parent)
  BY Zenon, BlockTreeAssumption DEF Tree
<1>2. Chains = ChainsOf(Blocks, Genesis, Parent)
  BY Zenon DEF Chains, ChainsOf
<1>3. QED
  BY Zenon, <1>1, <1>2, ChainsExist

\* A chain is its last block and the chain to its pprev, which it is not in.
LEMMA ChainFacts ==
    /\ Genesis \in Blocks /\ Chain(Genesis) = {Genesis}
    /\ \A b \in Blocks \ {Genesis} :
         Chain(b) = {b} \cup Chain(Parent[b]) /\ Parent[b] \in Blocks /\ b \notin Chain(Parent[b])
    /\ \A b \in Blocks : Chain(b) \subseteq Blocks /\ b \in Chain(b) /\ Genesis \in Chain(b)
  BY Zenon, BlocksAreATree, BlockTreeAssumption, ChainEndPoints DEF Chain, Chained

\* nHeight counts the links down to the genesis block: an ancestor is lower, and
\* the lower of two blocks of a chain is an ancestor of the higher one.
LEMMA HeightFacts ==
    /\ \A b \in Blocks : Height(b) \in Nat
    /\ Height(Genesis) = 0
    /\ \A b \in Blocks \ {Genesis} : Height(b) = Height(Parent[b]) + 1
    /\ \A b \in Blocks : \A a \in Chain(b) : Chain(a) \subseteq Chain(b)
    /\ \A b \in Blocks : \A a \in Chain(b) \ {b} : Height(a) < Height(b)
    /\ \A b \in Blocks : \A a, c \in Chain(b) : Height(a) <= Height(c) => a \in Chain(c)
<1> DEFINE len(b) == Cardinality(Chains[b])
<1>1. \A b \in Blocks : Height(b) = len(b) - 1
  BY Zenon DEF Height, Heights
<1>2. /\ \A b \in Blocks : len(b) \in Nat \ {0}
      /\ len(Genesis) = 1
      /\ \A b \in Blocks \ {Genesis} : len(b) = len(Parent[b]) + 1
      /\ \A b \in Blocks : \A a \in Chains[b] : Chains[a] \subseteq Chains[b]
      /\ \A b \in Blocks : \A a \in Chains[b] \ {b} : len(a) < len(b)
      /\ \A b \in Blocks : \A a, c \in Chains[b] : len(a) <= len(c) => a \in Chains[c]
  BY BlocksAreATree, ChainLengths
<1> HIDE DEF len
<1>3. \A b \in Blocks : Chains[b] \subseteq Blocks
  BY Zenon, ChainFacts DEF Chain
<1>4. \A b \in Blocks : Height(b) \in Nat
  BY <1>1, <1>2
<1>5. Height(Genesis) = 0 /\ \A b \in Blocks \ {Genesis} : Height(b) = Height(Parent[b]) + 1
  BY <1>1, <1>2, ChainFacts
<1>6. \A b \in Blocks : \A a \in Chains[b] \ {b} : Height(a) < Height(b)
  BY <1>1, <1>2, <1>3
<1>7. \A b \in Blocks : \A a, c \in Chains[b] : Height(a) <= Height(c) => a \in Chains[c]
  <2>1. ASSUME NEW b \in Blocks, NEW a \in Chains[b], NEW c \in Chains[b], Height(a) <= Height(c)
        PROVE  len(a) <= len(c)
    BY <1>1, <1>2, <1>3, <2>1
  <2>2. QED
    BY Zenon, <1>2, <2>1
<1>8. QED
  BY Zenon, <1>2, <1>4, <1>5, <1>6, <1>7 DEF Chain


\* CChain::FindFork: the chains to two blocks are one chain up to the fork.
LEMMA ForkFacts ==
    ASSUME NEW b \in Blocks, NEW t \in Blocks
    PROVE  /\ Fork(b, t) \in Chain(b) \cap Chain(t) /\ Fork(b, t) \in Blocks
           /\ Chain(Fork(b, t)) = Chain(b) \cap Chain(t)
<1> DEFINE C == Chain(b) \cap Chain(t)
           h == [c \in Blocks |-> Height(b) - Height(c)]
<1>1. C \subseteq Blocks /\ C # {}
  BY Zenon, ChainFacts
<1>2. ASSUME NEW c \in C PROVE Height(c) \in Nat /\ Height(b) \in Nat /\ h[c] \in Nat /\ h[c] = Height(b) - Height(c)
  <2>1. Height(c) \in Nat /\ Height(b) \in Nat /\ Height(c) <= Height(b)
    BY <1>1, HeightFacts
  <2>2. QED
    BY <1>1, <2>1
<1>3. PICK g \in C : \A c \in C : h[g] <= h[c]
  <2> HIDE DEF h, C
  <2>1. QED
    BY Zenon, <1>1, <1>2, LeastElement
<1>4. \A c \in C : Height(c) <= Height(g)
  <2> HIDE DEF h, C
  <2>1. QED
    BY <1>2, <1>3
<1> DEFINE f == Fork(b, t)
<1>5. f \in C /\ \A c \in C : Height(c) <= Height(f)
  <2>1. f = CHOOSE x \in C : \A c \in C : Height(c) <= Height(x)
    BY Zenon DEF Fork
  <2> HIDE DEF f, C
  <2>2. QED
    BY Zenon, <1>3, <1>4, <2>1
<1> HIDE DEF f
<1>6. Chain(f) \subseteq C
  BY Zenon, <1>5, HeightFacts
<1>7. C \subseteq Chain(f)
  BY Zenon, <1>5, HeightFacts
<1>8. QED
  BY Zenon, <1>1, <1>5, <1>6, <1>7 DEF f

\* A sequence with an element put in front of it.
LEMMA FrontFacts ==
    ASSUME NEW S, NEW s \in Seq(S), NEW c \in S
    PROVE  /\ <<c>> \o s \in Seq(S) /\ Len(<<c>> \o s) = Len(s) + 1 /\ (<<c>> \o s)[1] = c
           /\ \A i \in 1 .. Len(s) : (<<c>> \o s)[i + 1] = s[i]
           /\ Range(<<c>> \o s) = {c} \cup Range(s)
<1> DEFINE r == <<c>> \o s
<1>1. /\ r \in Seq(S) /\ Len(r) = Len(s) + 1 /\ r[1] = c
      /\ \A i \in 1 .. Len(s) : r[i + 1] = s[i]
  OBVIOUS
<1>2. DOMAIN r = 1 .. Len(s) + 1 /\ DOMAIN s = 1 .. Len(s) /\ Len(s) \in Nat
  BY <1>1
<1> HIDE DEF r
<1>3. \A i \in DOMAIN r : r[i] \in {c} \cup Range(s)
  <2>1. SUFFICES ASSUME NEW i \in DOMAIN r, i # 1 PROVE r[i] \in Range(s)
    BY Zenon, <1>1
  <2>2. i - 1 \in DOMAIN s /\ r[i] = s[i - 1]
    BY <1>1, <1>2, <2>1
  <2>3. QED
    BY Zenon, <2>2 DEF Range
<1>4. \A i \in DOMAIN s : i + 1 \in DOMAIN r /\ r[i + 1] = s[i]
  BY <1>1, <1>2
<1>5. 1 \in DOMAIN r
  BY <1>2
<1>6. Range(r) = {c} \cup Range(s)
  BY <1>1, <1>3, <1>4, <1>5 DEF Range
<1>7. QED
  BY Zenon, <1>1, <1>6 DEF r

\* A stack without its last element.
LEMMA PopBackFacts ==
    ASSUME NEW S, NEW s \in Seq(S), s # <<>>
    PROVE  /\ SubSeq(s, 1, Len(s) - 1) \in Seq(S) /\ Len(SubSeq(s, 1, Len(s) - 1)) = Len(s) - 1
           /\ \A i \in 1 .. Len(s) - 1 : SubSeq(s, 1, Len(s) - 1)[i] = s[i]
           /\ SubSeq(s, 1, Len(s) - 1) = <<>> <=> Len(s) = 1
<1> DEFINE n == Len(s) - 1
           q == SubSeq(s, 1, n)
<1>1. Len(s) \in Nat /\ n \in Nat /\ \A i \in 1 .. n : s[i] \in S
  OBVIOUS
<1>2. q = [i \in 1 .. n |-> s[i]]
  BY <1>1
<1> HIDE DEF q
<1>3. q \in Seq(S) /\ Len(q) = n /\ \A i \in 1 .. n : q[i] = s[i]
  <2> HIDE DEF n
  <2>1. QED
    BY <1>1, <1>2
<1>4. q = <<>> <=> n = 0
  BY <1>1, <1>3
<1>5. QED
  BY <1>1, <1>3, <1>4 DEF q

\* The loop over pprev that fills blockStack stacks the blocks of the new chain
\* that are above the fork, each on its parent.
Path(p, f, b) ==
    /\ p \in Seq(Blocks) /\ Range(p) = Chain(b) \ Chain(f)
    /\ p = <<>> <=> b \in Chain(f)
    /\ p # <<>> => p[1] = b
    /\ p # <<>> /\ f \in Chain(b) => Parent[p[Len(p)]] = f
    /\ \A i \in 1 .. Len(p) : p[i] # Genesis
    /\ \A i \in 1 .. Len(p) - 1 : Parent[p[i]] = p[i + 1]
LEMMA PathFacts ==
    ASSUME NEW f \in Blocks, NEW b \in Blocks
    PROVE  Path(PathFrom(f, b), f, b)
<1> DEFINE V == Seq(Blocks)
           step == [x \in Blocks \X V |-> IF x[1] \in Chain(f) THEN <<>> ELSE <<x[1]>> \o x[2]]
           v0 == <<>>
           IsPath(g) == g = [c \in Blocks |-> IF c \in Chain(f) THEN <<>> ELSE <<c>> \o g[Parent[c]]]
           P == CHOOSE g : IsPath(g)
<1>1. step \in [Blocks \X V -> V] /\ v0 \in V
  <2>1. ASSUME NEW x \in Blocks \X V PROVE step[x] \in V
    <3>1. x[1] \in Blocks /\ x[2] \in Seq(Blocks)
      BY Zenon
    <3>2. <<x[1]>> \o x[2] \in Seq(Blocks) /\ <<>> \in Seq(Blocks)
      BY <3>1
    <3>3. QED
      BY Zenon, <3>2
  <2>2. QED
    BY <2>1
<1>2. PICK g \in [Blocks -> V] : AlongLinks(g, Blocks, Genesis, Parent, v0, step)
  <2> HIDE DEF step, V, v0
  <2>1. QED
    BY Zenon, <1>1, BlocksAreATree, TreeRecursion
<1>3. ASSUME NEW c \in Blocks \ {Genesis}
      PROVE  g[c] = IF c \in Chain(f) THEN <<>> ELSE <<c>> \o g[Parent[c]]
  <2>1. g[c] = step[<<c, g[Parent[c]]>>] /\ <<c, g[Parent[c]]>> \in Blocks \X V
    BY Zenon, <1>2, ChainFacts DEF AlongLinks
  <2>2. QED
    BY Zenon, <2>1
<1>4. g[Genesis] = <<>> /\ Genesis \in Chain(f)
  BY Zenon, <1>2, ChainFacts DEF AlongLinks
<1>5. IsPath(g)
  BY Zenon, <1>2, <1>3, <1>4
<1>6. IsPath(P)
  <2> HIDE DEF IsPath
  <2>1. QED
    BY Zenon, <1>5
<1>7. PathFrom(f, b) = P[b]
  BY Zenon DEF PathFrom
<1> HIDE DEF P
<1>8. \A c \in Blocks : P[c] = IF c \in Chain(f) THEN <<>> ELSE <<c>> \o P[Parent[c]]
  BY Zenon, <1>6
<1> DEFINE S == {c \in Blocks : Path(P[c], f, c)}
<1>9. ASSUME NEW c \in Blocks, c \in Chain(f) PROVE Path(P[c], f, c)
  <2>1. P[c] = <<>> /\ Chain(c) \subseteq Chain(f)
    BY Zenon, <1>8, <1>9, HeightFacts
  <2>2. Range(<<>>) = {} /\ <<>> \in Seq(Blocks) /\ Len(<<>>) = 0
    BY Zenon, EmptyQueue
  <2>3. QED
    BY <1>9, <2>1, <2>2 DEF Path
<1>10. ASSUME NEW c \in Blocks \ {Genesis}, Parent[c] \in S, c \notin Chain(f)
       PROVE  Path(P[c], f, c)
  <2> DEFINE p == P[Parent[c]]
             q == P[c]
  <2>1. /\ Path(p, f, Parent[c]) /\ p \in Seq(Blocks) /\ q = <<c>> \o p /\ Parent[c] \in Blocks
        /\ Len(p) \in Nat
    <3>1. Parent[c] \in Blocks /\ Path(p, f, Parent[c]) /\ q = <<c>> \o p
      BY Zenon, <1>8, <1>10
    <3> HIDE DEF p, q
    <3>2. p \in Seq(Blocks)
      BY Zenon, <3>1 DEF Path
    <3>3. QED
      BY <3>1, <3>2
  <2>2. /\ q \in Seq(Blocks) /\ Len(q) = Len(p) + 1 /\ q[1] = c
        /\ \A i \in 1 .. Len(p) : q[i + 1] = p[i]
        /\ Range(q) = {c} \cup Range(p)
    BY <2>1, FrontFacts
  <2> HIDE DEF p, q
  <2>3. Range(q) = Chain(c) \ Chain(f)
    <3>1. Range(p) = Chain(Parent[c]) \ Chain(f)
      BY Zenon, <2>1 DEF Path
    <3>2. Chain(c) = {c} \cup Chain(Parent[c])
      BY Zenon, <1>10, ChainFacts
    <3>3. QED
      BY Zenon, <1>10, <2>2, <3>1, <3>2
  <2>4. q # <<>>
    BY <2>1, <2>2
  <2>5. ASSUME f \in Chain(c) PROVE Parent[q[Len(q)]] = f
    <3>1. f \in Chain(Parent[c])
      BY <1>10, <2>5, ChainFacts
    <3>2. CASE p = <<>>
      <4>1. Parent[c] \in Chain(f) /\ Len(q) = 1
        BY <2>1, <2>2, <3>2 DEF Path
      <4>2. Parent[c] = f
        BY <2>1, <3>1, <4>1, HeightFacts
      <4>3. QED
        BY Zenon, <2>2, <4>1, <4>2
    <3>3. CASE p # <<>>
      <4>1. Parent[p[Len(p)]] = f /\ Len(p) \in 1 .. Len(p)
        BY <2>1, <3>1, <3>3 DEF Path
      <4>2. QED
        BY Zenon, <2>2, <4>1
    <3>4. QED
      BY Zenon, <3>2, <3>3
  <2>6. ASSUME NEW i \in 1 .. Len(q) PROVE q[i] # Genesis
    <3>1. CASE i = 1
      BY Zenon, <1>10, <2>2, <3>1
    <3>2. CASE i # 1
      <4>1. i - 1 \in 1 .. Len(p) /\ q[i] = p[i - 1]
        BY <2>1, <2>2, <3>2
      <4>2. QED
        BY Zenon, <2>1, <4>1 DEF Path
    <3>3. QED
      BY Zenon, <3>1, <3>2
  <2>7. ASSUME NEW i \in 1 .. Len(q) - 1 PROVE Parent[q[i]] = q[i + 1]
    <3>1. CASE i = 1
      <4>1. p # <<>> /\ q[2] = p[1]
        BY <2>1, <2>2, <2>7, <3>1
      <4>2. p[1] = Parent[c]
        BY Zenon, <2>1, <4>1 DEF Path
      <4>3. QED
        BY <2>2, <3>1, <4>1, <4>2
    <3>2. CASE i # 1
      <4>1. i - 1 \in 1 .. Len(p) - 1 /\ q[i] = p[i - 1] /\ q[i + 1] = p[i]
        BY <2>1, <2>2, <3>2
      <4>2. Parent[p[i - 1]] = p[i]
        BY <2>1, <4>1 DEF Path
      <4>3. QED
        BY Zenon, <4>1, <4>2
    <3>3. QED
      BY Zenon, <3>1, <3>2
  <2>8. QED
    BY Zenon, <1>10, <2>2, <2>3, <2>4, <2>5, <2>6, <2>7 DEF Path, q
<1>11. S \in SUBSET Blocks /\ Genesis \in S /\ \A c \in Blocks \ {Genesis} : Parent[c] \in S => c \in S
  BY Zenon, <1>4, <1>9, <1>10, ChainFacts
<1>12. S = Blocks
  <2> HIDE DEF S
  <2>1. QED
    BY <1>11, BlocksAreATree, TreeInduction
<1>13. QED
  BY Zenon, <1>7, <1>12
-----------------------------------------------------------------------------
\* The transactions of a chain: those of its last block and, none of them, those
\* of the chain before it.
LEMMA ContentsFacts ==
    /\ \A b \in Blocks : TxsOf[b] \subseteq Txs /\ TxsIn(b) \subseteq Txs
    /\ \A b \in Blocks \ {Genesis} :
         /\ TxsIn(b) = TxsOf[b] \cup TxsIn(Parent[b]) /\ TxsOf[b] \cap TxsIn(Parent[b]) = {}
         /\ \A c \in Chain(Parent[b]) : TxsOf[b] \cap TxsOf[c] = {}
    /\ \A b \in Blocks : \A c \in Chain(b) : TxsOf[c] \subseteq TxsIn(b)
<1>1. \A b \in Blocks : TxsOf[b] \subseteq Txs /\ Chain(b) \subseteq Blocks
  BY Zenon, ContentsAssumption, ChainFacts
<1>2. \A b \in Blocks : TxsIn(b) \subseteq Txs /\ \A c \in Chain(b) : TxsOf[c] \subseteq TxsIn(b)
  BY Zenon, <1>1 DEF TxsIn
<1>3. ASSUME NEW b \in Blocks \ {Genesis}
      PROVE  /\ TxsIn(b) = TxsOf[b] \cup TxsIn(Parent[b]) /\ TxsOf[b] \cap TxsIn(Parent[b]) = {}
             /\ \A c \in Chain(Parent[b]) : TxsOf[b] \cap TxsOf[c] = {}
  <2>1. Chain(b) = {b} \cup Chain(Parent[b]) /\ Parent[b] \in Blocks
    BY Zenon, ChainFacts
  <2>2. TxsIn(b) = TxsOf[b] \cup TxsIn(Parent[b])
    BY Zenon, <2>1 DEF TxsIn
  <2>3. TxsOf[b] \cap TxsIn(Parent[b]) = {}
    BY Zenon, ContentsAssumption
  <2>4. QED
    BY Zenon, <1>2, <2>1, <2>2, <2>3
<1>4. QED
  BY Zenon, <1>1, <1>2, <1>3

\* A path in the stack: its blocks, and where it leads to.
LEMMA TargetFacts ==
    ASSUME NotifyTypeOK, StackInv
    PROVE  /\ Target \in Blocks /\ Base \in Blocks /\ Len(blockStack) \in Nat
           /\ \A i \in 1 .. Len(blockStack) :
                /\ blockStack[i].pindex \in Blocks \ {Genesis}
                /\ blockStack[i].txConflicted \in SUBSET Txs
           /\ blockStack = <<>> <=> Len(blockStack) = 0
<1>1. blockStack \in Seq(BlockData)
  BY Zenon DEF StackInv
<1>2. \A i \in 1 .. Len(blockStack) : blockStack[i] \in BlockData
  BY <1>1
<1>3. Len(blockStack) \in Nat /\ (blockStack = <<>> <=> Len(blockStack) = 0)
  BY <1>1
<1>4. \A i \in 1 .. Len(blockStack) : /\ blockStack[i].pindex \in Blocks \ {Genesis}
                                      /\ blockStack[i].txConflicted \in SUBSET Txs
  BY Zenon, <1>2 DEF StackInv, BlockData
<1>5. Base \in Blocks
  BY Zenon DEF Base, NotifyTypeOK
<1>6. Target \in Blocks
  BY <1>3, <1>4, <1>5 DEF Target, Base
<1>7. QED
  BY Zenon, <1>3, <1>4, <1>5, <1>6

\* What the threads that move the chain leave alone.
LEMMA ThreadFrame ==
    ASSUME UNCHANGED threadVars
    PROVE  Target' = Target /\ Base' = Base /\ (StackInv => StackInv')
  BY Zenon DEF threadVars, Target, Base, StackInv

\* The thread starts with nothing to tell.
LEMMA InitNotifyInv == InitNotify => NotifyInv
<1> SUFFICES ASSUME InitNotify PROVE NotifyInv
  BY Zenon
<1>1. Target = Genesis /\ Base = Genesis /\ Chain(Genesis) = {Genesis} /\ Genesis \in Blocks
  BY Zenon, ChainFacts DEF InitNotify, Target, Base
<1>2. NotifyTypeOK
  BY Zenon, <1>1, ContentsAssumption DEF InitNotify, NotifyTypeOK, EmptyMap
<1>3. StackInv
  BY <1>1 DEF InitNotify, StackInv
<1>4. ConflictInv
  BY Zenon, <1>1 DEF InitNotify, ConflictInv, EmptyMap
<1>5. WalletInv
  BY Zenon, <1>1, ContentsAssumption DEF InitNotify, WalletInv
<1>6. SequenceInv
  BY <1>1 DEF InitNotify, SequenceInv
<1>7. UntoldInv /\ PoolInv
  BY Zenon DEF InitNotify, UntoldInv, PoolInv
<1>8. QED
  BY Zenon, <1>2, <1>3, <1>4, <1>5, <1>6, <1>7 DEF NotifyInv, NeverThrows, InitNotify

\* A transaction that enters the mempool is one of those the thread will drain.
LEMMA AcceptStep ==
    ASSUME NotifyInv, NEW t \in Txs, AcceptToMemoryPool(t)
    PROVE  NotifyInv'
<1>1. /\ UNCHANGED <<tip, recentlyConflicted, sequence, connected, untold, notifiedSequence, known, hashBlock>>
      /\ UNCHANGED threadVars
  BY Zenon DEF AcceptToMemoryPool, walletVars
<1>2. /\ UNCHANGED <<phase, pindexLastTip, pindexFork, blockStack, added, drainedSequence>>
      /\ Target' = Target /\ Base' = Base /\ StackInv'
  BY Zenon, <1>1, ThreadFrame DEF threadVars, NotifyInv
<1>3. NotifyTypeOK'
  BY Zenon, <1>1, <1>2 DEF NotifyInv, NeverThrows, NotifyTypeOK, AcceptToMemoryPool, TxsIn
<1>4. PoolInv'
  BY Zenon, <1>1, <1>2 DEF NotifyInv, PoolInv, AcceptToMemoryPool
<1>5. ConflictInv' /\ WalletInv'
  BY Zenon, <1>1, <1>2 DEF NotifyInv, ConflictInv, WalletInv
<1>6. SequenceInv'
  BY Zenon, <1>1, <1>2 DEF NotifyInv, SequenceInv
<1>7. UntoldInv'
  BY Zenon, <1>1, <1>2 DEF NotifyInv, UntoldInv
<1>8. QED
  BY Zenon, <1>2, <1>3, <1>4, <1>5, <1>6, <1>7 DEF NotifyInv, NeverThrows

\* ConnectTip keeps what a block threw out, unless an entry is there: then the
\* block is not connected for the first time.
LEMMA ConnectStep ==
    ASSUME NotifyInv, NEW b \in Blocks, ConnectTip(b)
    PROVE  NotifyInv'
<1> DEFINE txConflicted == mempool \cap Rivals(TxsOf[b])
           left == TxsOf[b] \cup txConflicted
<1>1. /\ b \in Blocks \ {Genesis} /\ Parent[b] = tip /\ tip' = b /\ sequence' = sequence + 1
      /\ mempool' = mempool \ left /\ recentlyAdded' = recentlyAdded \ left
      /\ recentlyConflicted' = IF b \in DOMAIN recentlyConflicted THEN recentlyConflicted
                               ELSE [c \in DOMAIN recentlyConflicted \cup {b} |->
                                       IF c = b THEN txConflicted ELSE recentlyConflicted[c]]
      /\ untold' = untold \cup (txConflicted \X ({b} \ connected))
      /\ connected' = connected \cup {b}
      /\ UNCHANGED <<notifiedSequence, known, hashBlock>> /\ UNCHANGED threadVars
  BY Zenon DEF ConnectTip, walletVars
<1>2. /\ UNCHANGED <<phase, pindexLastTip, pindexFork, blockStack, added, drainedSequence>>
      /\ Target' = Target /\ Base' = Base /\ StackInv'
  BY Zenon, <1>1, ThreadFrame DEF threadVars, NotifyInv
<1>3. NotifyTypeOK /\ tip \in Blocks /\ mempool \subseteq Txs \ TxsIn(tip) /\ Target \in Blocks
  BY Zenon, TargetFacts DEF NotifyInv, NeverThrows, NotifyTypeOK
<1>4. Chain(b) = {b} \cup Chain(tip) /\ TxsIn(b) = TxsOf[b] \cup TxsIn(tip) /\ TxsIn(b) \subseteq Txs
  BY Zenon, <1>1, ChainFacts, ContentsFacts
<1>5. /\ DOMAIN recentlyConflicted' = DOMAIN recentlyConflicted \cup {b}
      /\ \A c \in DOMAIN recentlyConflicted : recentlyConflicted'[c] = recentlyConflicted[c]
      /\ b \notin DOMAIN recentlyConflicted => recentlyConflicted'[b] = txConflicted
  <2> HIDE DEF txConflicted, left
  <2>1. CASE b \in DOMAIN recentlyConflicted
    BY Zenon, <1>1, <2>1
  <2>2. CASE b \notin DOMAIN recentlyConflicted
    BY Zenon, <1>1, <2>2
  <2>3. QED
    BY Zenon, <2>1, <2>2
<1>6. txConflicted \subseteq Txs
  BY Zenon, <1>3
<1> HIDE DEF txConflicted
<1>7. NotifyTypeOK'
  <2>1. TxsIn(tip)' = TxsIn(b)
    BY Zenon, <1>1 DEF TxsIn
  <2>2. mempool' \subseteq Txs \ TxsIn(b) /\ recentlyAdded' \subseteq Txs
    BY Zenon, <1>1, <1>3, <1>4 DEF NotifyTypeOK
  <2>3. QED
    BY Zenon, <1>1, <1>2, <1>3, <1>5, <2>1, <2>2 DEF NotifyTypeOK
<1>8. PoolInv'
  BY Zenon, <1>1, <1>2 DEF NotifyInv, PoolInv
<1>9. ConflictInv'
  <2>1. \A c \in DOMAIN recentlyConflicted' : recentlyConflicted'[c] \in SUBSET Txs
    BY Zenon, <1>5, <1>6 DEF NotifyInv, ConflictInv
  <2>2. DOMAIN recentlyConflicted' \subseteq connected'
    BY Zenon, <1>1, <1>5 DEF NotifyInv, ConflictInv
  <2>3. Chain(tip)' \subseteq connected' \cup {Genesis} /\ Chain(Target)' \subseteq connected' \cup {Genesis}
    BY Zenon, <1>1, <1>2, <1>4 DEF NotifyInv, ConflictInv
  <2>4. Chain(tip)' \ Chain(Target)' \subseteq DOMAIN recentlyConflicted'
    BY Zenon, <1>1, <1>2, <1>4, <1>5 DEF NotifyInv, ConflictInv
  <2>5. QED
    BY Zenon, <2>1, <2>2, <2>3, <2>4 DEF ConflictInv
<1>10. WalletInv'
  BY Zenon, <1>1, <1>2 DEF NotifyInv, WalletInv
<1>11. SequenceInv'
  BY <1>1, <1>2 DEF NotifyInv, SequenceInv
<1>12. UntoldInv'
  <2>1. ASSUME NEW u \in untold'
        PROVE  /\ u \in Txs \X Blocks /\ u[2] \in Chain(b) \ {Genesis}
               /\ \/ /\ u[2] \in DOMAIN recentlyConflicted' \ Chain(Target)
                     /\ u[1] \in recentlyConflicted'[u[2]]
                  \/ \E i \in 1 .. Len(blockStack) :
                       blockStack[i].pindex = u[2] /\ u[1] \in blockStack[i].txConflicted
    <3>1. CASE u \in untold
      BY Zenon, <1>4, <1>5, <3>1 DEF NotifyInv, UntoldInv
    <3>2. CASE u \in txConflicted \X ({b} \ connected)
      <4>1. u[2] = b /\ u[1] \in txConflicted /\ b \notin connected
        BY Zenon, <3>2
      <4>2. b \notin DOMAIN recentlyConflicted /\ b \notin Chain(Target)
        BY Zenon, <1>1, <4>1 DEF NotifyInv, ConflictInv
      <4>3. QED
        BY Zenon, <1>1, <1>4, <1>5, <1>6, <3>2, <4>1, <4>2
    <3>3. QED
      BY Zenon, <1>1, <2>1, <3>1, <3>2
  <2>2. QED
    BY Zenon, <1>1, <1>2, <2>1 DEF UntoldInv
<1>13. QED
  BY Zenon, <1>2, <1>7, <1>8, <1>9, <1>10, <1>11, <1>12 DEF NotifyInv, NeverThrows

\* DisconnectTip shortens the chain; what its block threw out may come back.
LEMMA DisconnectStep == ASSUME NotifyInv, DisconnectTip PROVE NotifyInv'
<1>1. PICK back \in SUBSET {t \in TxsOf[tip] : Rival[t] \cap mempool = {}} :
        mempool' = mempool \cup back /\ recentlyAdded' = recentlyAdded \cup back
  BY Zenon DEF DisconnectTip
<1>2. /\ tip # Genesis /\ tip' = Parent[tip] /\ untold' = {r \in untold : r[2] # tip}
      /\ UNCHANGED <<recentlyConflicted, sequence, connected, notifiedSequence, known, hashBlock>>
      /\ UNCHANGED threadVars
  BY Zenon DEF DisconnectTip, walletVars
<1>3. /\ UNCHANGED <<phase, pindexLastTip, pindexFork, blockStack, added, drainedSequence>>
      /\ Target' = Target /\ Base' = Base /\ StackInv'
  BY Zenon, <1>2, ThreadFrame DEF threadVars, NotifyInv
<1>4. NotifyTypeOK /\ tip \in Blocks \ {Genesis} /\ mempool \subseteq Txs \ TxsIn(tip) /\ Target \in Blocks
  BY Zenon, <1>2, TargetFacts DEF NotifyInv, NeverThrows, NotifyTypeOK
<1>5. /\ Chain(tip) = {tip} \cup Chain(Parent[tip]) /\ Parent[tip] \in Blocks
      /\ TxsIn(tip) = TxsOf[tip] \cup TxsIn(Parent[tip]) /\ TxsIn(tip) \subseteq Txs
      /\ TxsOf[tip] \cap TxsIn(Parent[tip]) = {} /\ TxsOf[tip] \subseteq Txs
  BY Zenon, <1>4, ChainFacts, ContentsFacts
<1>6. NotifyTypeOK'
  <2>1. TxsIn(tip)' = TxsIn(Parent[tip])
    BY Zenon, <1>2 DEF TxsIn
  <2>2. mempool' \subseteq Txs \ TxsIn(Parent[tip]) /\ recentlyAdded' \subseteq Txs
    BY Zenon, <1>1, <1>4, <1>5 DEF NotifyTypeOK
  <2>3. QED
    BY Zenon, <1>2, <1>3, <1>4, <1>5, <2>1, <2>2 DEF NotifyTypeOK
<1>7. PoolInv'
  BY Zenon, <1>1, <1>2, <1>3 DEF NotifyInv, PoolInv
<1>8. ConflictInv' /\ WalletInv'
  BY Zenon, <1>2, <1>3, <1>5 DEF NotifyInv, ConflictInv, WalletInv
<1>9. SequenceInv'
  <2>1. tip \in Chain(Target) => Parent[tip] \in Chain(Target)
    <3>1. \A c \in Blocks : c \in Chain(c)
      BY Zenon, ChainFacts
    <3>2. Parent[tip] \in Chain(tip)
      BY Zenon, <1>5, <3>1
    <3>3. QED
      BY Zenon, <1>4, <3>2, HeightFacts
  <2>2. QED
    BY Zenon, <1>2, <1>3, <2>1 DEF NotifyInv, SequenceInv
<1>10. UntoldInv'
  BY Zenon, <1>2, <1>3, <1>5 DEF NotifyInv, UntoldInv
<1>11. QED
  BY Zenon, <1>3, <1>6, <1>7, <1>8, <1>9, <1>10 DEF NotifyInv, NeverThrows

\* The thread finds an entry for every block it has to connect, and what it
\* drained is in the stack.
LEMMA CollectStep == ASSUME NotifyInv, Collect PROVE NotifyInv'
<1> DEFINE f == Fork(pindexLastTip, tip)
           p == PathFrom(f, tip)
<1>1. NotifyTypeOK /\ tip \in Blocks /\ pindexLastTip \in Blocks /\ phase = "asleep"
  BY Zenon DEF NotifyInv, NeverThrows, NotifyTypeOK, Collect
<1>2. blockStack = <<>> /\ added = {} /\ Target = pindexLastTip
  BY Zenon, <1>1 DEF NotifyInv, StackInv, Target
<1>3. f \in Blocks /\ f \in Chain(pindexLastTip) \cap Chain(tip) /\ Chain(f) = Chain(pindexLastTip) \cap Chain(tip)
  BY Zenon, <1>1, ForkFacts
<1>4. Path(p, f, tip)
  BY Zenon, <1>1, <1>3, PathFacts
<1>5. /\ pindexFork' = f /\ drainedSequence' = sequence /\ recentlyConflicted' = EmptyMap
      /\ added' = recentlyAdded /\ recentlyAdded' = {}
      /\ UNCHANGED <<tip, mempool, sequence, connected, untold, notifiedSequence, pindexLastTip, known, hashBlock>>
      /\ Range(p) \subseteq DOMAIN recentlyConflicted =>
           /\ blockStack' = [i \in DOMAIN p |->
                               [pindex |-> p[i], txConflicted |-> recentlyConflicted[p[i]]]]
           /\ phase' = "disconnect"
  BY Zenon DEF Collect, walletVars
<1> HIDE DEF f, p
<1>6. Range(p) = Chain(tip) \ Chain(pindexLastTip) /\ Range(p) \subseteq DOMAIN recentlyConflicted
  BY Zenon, <1>2, <1>3, <1>4 DEF Path, NotifyInv, ConflictInv
<1>7. /\ p \in Seq(Blocks) /\ DOMAIN p = 1 .. Len(p) /\ Len(p) \in Nat
      /\ \A i \in 1 .. Len(p) : p[i] \in Blocks /\ p[i] \in DOMAIN recentlyConflicted
  <2>1. p \in Seq(Blocks)
    BY Zenon, <1>4 DEF Path
  <2>2. QED
    BY <1>6, <2>1 DEF Range
<1>8. /\ phase' = "disconnect" /\ blockStack' \in Seq(BlockData) /\ Len(blockStack') = Len(p)
      /\ \A i \in 1 .. Len(p) :
           blockStack'[i].pindex = p[i] /\ blockStack'[i].txConflicted = recentlyConflicted[p[i]]
      /\ blockStack' = <<>> <=> p = <<>>
  <2>1. /\ phase' = "disconnect"
        /\ blockStack' = [i \in 1 .. Len(p) |->
                            [pindex |-> p[i], txConflicted |-> recentlyConflicted[p[i]]]]
    BY Zenon, <1>5, <1>6, <1>7
  <2>2. ASSUME NEW i \in 1 .. Len(p)
        PROVE  [pindex |-> p[i], txConflicted |-> recentlyConflicted[p[i]]] \in BlockData
    BY Zenon, <1>7 DEF BlockData, NotifyInv, ConflictInv
  <2>3. blockStack' \in Seq(BlockData) /\ Len(blockStack') = Len(p)
    BY <1>7, <2>1, <2>2
  <2>4. blockStack' = <<>> <=> p = <<>>
    BY <1>7, <2>3
  <2>5. QED
    BY Zenon, <2>1, <2>3, <2>4
<1>9. Base' = f /\ Target' = tip
  <2>1. Base' = f
    BY Zenon, <1>5, <1>8 DEF Base
  <2>2. CASE p = <<>>
    <3>1. tip \in Chain(f) /\ f \in Chain(tip)
      BY Zenon, <1>3, <1>4, <2>2 DEF Path
    <3>2. tip = f
      BY <1>1, <1>3, <3>1, HeightFacts
    <3>3. QED
      BY Zenon, <1>5, <1>8, <2>1, <2>2, <3>2 DEF Target
  <2>3. CASE p # <<>>
    <3>1. p[1] = tip /\ 1 \in 1 .. Len(p)
      BY <1>4, <1>7, <2>3 DEF Path
    <3>2. QED
      BY Zenon, <1>8, <2>1, <2>3, <3>1 DEF Target
  <2>4. QED
    BY Zenon, <2>2, <2>3
<1>10. StackInv'
  <2>1. \A i \in 1 .. Len(p) : p[i] # Genesis
    BY Zenon, <1>4 DEF Path
  <2>2. \A i \in 1 .. Len(p) - 1 : Parent[p[i]] = p[i + 1]
    BY Zenon, <1>4 DEF Path
  <2>3. p # <<>> => Parent[p[Len(p)]] = f /\ Len(p) \in 1 .. Len(p)
    BY <1>3, <1>4, <1>7 DEF Path
  <2>4. \A i \in 1 .. Len(blockStack') : blockStack'[i].pindex # Genesis
    BY Zenon, <1>8, <2>1
  <2>5. \A i \in 1 .. Len(blockStack') - 1 : Parent[blockStack'[i].pindex] = blockStack'[i + 1].pindex
    BY <1>7, <1>8, <2>2
  <2>6. blockStack' # <<>> => Parent[blockStack'[Len(blockStack')].pindex] = Base'
    BY Zenon, <1>8, <1>9, <2>3
  <2>7. QED
    BY Zenon, <1>1, <1>3, <1>5, <1>8, <2>4, <2>5, <2>6 DEF StackInv, NotifyTypeOK
<1>11. NotifyTypeOK'
  BY Zenon, <1>1, <1>3, <1>5, <1>8 DEF NotifyTypeOK, EmptyMap, TxsIn
<1>12. ConflictInv'
  BY Zenon, <1>5, <1>9 DEF ConflictInv, NotifyInv, EmptyMap
<1>13. WalletInv' /\ PoolInv'
  BY Zenon, <1>2, <1>5 DEF WalletInv, PoolInv, NotifyInv
<1>14. SequenceInv'
  <2>1. tip \in Chain(tip)
    BY Zenon, <1>1, ChainFacts
  <2>2. ASSUME sequence = notifiedSequence PROVE blockStack' = <<>>
    <3>1. tip \in Chain(pindexLastTip)
      BY Zenon, <1>2, <2>2 DEF NotifyInv, SequenceInv
    <3>2. tip \in Chain(f)
      BY Zenon, <1>3, <2>1, <3>1
    <3>3. QED
      BY Zenon, <1>4, <1>8, <3>2 DEF Path
  <2>3. QED
    BY <1>5, <1>8, <1>9, <2>1, <2>2 DEF NotifyInv, SequenceInv
<1>15. UntoldInv'
  <2>1. ASSUME NEW u \in untold
        PROVE  /\ u \in Txs \X Blocks /\ u[2] \in Chain(tip) \ {Genesis}
               /\ \E i \in 1 .. Len(p) :
                    blockStack'[i].pindex = u[2] /\ u[1] \in blockStack'[i].txConflicted
    <3>1. /\ u \in Txs \X Blocks /\ u[2] \in Chain(tip) \ {Genesis} /\ u[2] \notin Chain(pindexLastTip)
          /\ u[1] \in recentlyConflicted[u[2]]
      <4>1. Len(blockStack) = 0
        BY Zenon, <1>2
      <4>2. QED
        BY <1>2, <4>1 DEF NotifyInv, UntoldInv
    <3>2. PICK i \in DOMAIN p : p[i] = u[2]
      BY Zenon, <1>6, <3>1 DEF Range
    <3>3. QED
      BY <1>7, <1>8, <3>1, <3>2
  <2>2. QED
    BY Zenon, <1>5, <1>8, <2>1 DEF UntoldInv
<1>16. QED
  BY Zenon, <1>8, <1>10, <1>11, <1>12, <1>13, <1>14, <1>15 DEF NotifyInv, NeverThrows

\* Going down to the fork the wallets are told of the blocks of the old chain.
LEMMA NotifyDisconnectStep == ASSUME NotifyInv, NotifyDisconnect PROVE NotifyInv'
<1>1. /\ phase = "disconnect" /\ pindexLastTip # pindexFork /\ pindexLastTip' = Parent[pindexLastTip]
      /\ known' = known \cup TxsOf[pindexLastTip]
      /\ UNCHANGED <<tip, mempool, recentlyAdded, recentlyConflicted, sequence, connected, untold,
                     notifiedSequence, phase, pindexFork, blockStack, added, drainedSequence, hashBlock>>
  BY Zenon DEF NotifyDisconnect, chainVars, SyncWithoutBlock
<1>2. Target' = Target /\ Base' = Base
  BY Zenon, <1>1 DEF Target, Base
<1>3. NotifyTypeOK /\ pindexLastTip \in Blocks /\ pindexFork \in Chain(pindexLastTip)
  BY Zenon, <1>1 DEF NotifyInv, NeverThrows, NotifyTypeOK, StackInv
<1>4. pindexLastTip # Genesis
  BY Zenon, <1>1, <1>3, ChainFacts
<1>5. /\ Chain(pindexLastTip) = {pindexLastTip} \cup Chain(Parent[pindexLastTip])
      /\ Parent[pindexLastTip] \in Blocks /\ TxsOf[pindexLastTip] \subseteq Txs
  BY Zenon, <1>3, <1>4, ChainFacts, ContentsFacts
<1>6. StackInv'
  BY Zenon, <1>1, <1>2, <1>3, <1>5 DEF NotifyInv, StackInv
<1>7. NotifyTypeOK'
  BY Zenon, <1>1, <1>3, <1>5 DEF NotifyTypeOK, TxsIn
<1>8. ConflictInv' /\ PoolInv'
  BY Zenon, <1>1, <1>2 DEF NotifyInv, ConflictInv, PoolInv
<1>9. WalletInv'
  BY Zenon, <1>1, <1>5 DEF NotifyInv, WalletInv
<1>10. SequenceInv'
  BY Zenon, <1>1, <1>2 DEF NotifyInv, SequenceInv
<1>11. UntoldInv'
  BY Zenon, <1>1, <1>2 DEF NotifyInv, UntoldInv
<1>12. QED
  BY Zenon, <1>1, <1>6, <1>7, <1>8, <1>9, <1>10, <1>11 DEF NotifyInv, NeverThrows

\* At the fork the thread turns to the blocks to connect.
LEMMA DisconnectsDoneStep == ASSUME NotifyInv, DisconnectsDone PROVE NotifyInv'
<1>1. /\ phase = "disconnect" /\ pindexLastTip = pindexFork /\ phase' = "connect" /\ pindexFork' = Genesis
      /\ UNCHANGED <<tip, mempool, recentlyAdded, recentlyConflicted, sequence, connected, untold,
                     notifiedSequence, pindexLastTip, blockStack, added, drainedSequence, known, hashBlock>>
  BY Zenon DEF DisconnectsDone, chainVars, walletVars
<1>2. Target' = Target /\ Base' = Base
  BY Zenon, <1>1 DEF Target, Base
<1>3. StackInv'
  BY Zenon, <1>1, <1>2 DEF NotifyInv, StackInv
<1>4. NotifyTypeOK'
  BY Zenon, <1>1, ChainFacts DEF NotifyInv, NeverThrows, NotifyTypeOK, TxsIn
<1>5. ConflictInv' /\ PoolInv' /\ WalletInv'
  BY Zenon, <1>1, <1>2 DEF NotifyInv, ConflictInv, PoolInv, WalletInv
<1>6. SequenceInv'
  BY Zenon, <1>1, <1>2 DEF NotifyInv, SequenceInv
<1>7. UntoldInv'
  BY Zenon, <1>1, <1>2 DEF NotifyInv, UntoldInv
<1>8. QED
  BY Zenon, <1>1, <1>3, <1>4, <1>5, <1>6, <1>7 DEF NotifyInv, NeverThrows

\* The block on top of the stack is notified with its conflicts, and becomes the
\* last block the wallets know of.
LEMMA NotifyConnectStep == ASSUME NotifyInv, NotifyConnect PROVE NotifyInv'
<1> DEFINE n == Len(blockStack)
           top == blockStack[n]
           b == top.pindex
<1>1. NotifyTypeOK /\ StackInv /\ phase = "connect" /\ blockStack # <<>> /\ pindexLastTip \in Blocks
  BY Zenon DEF NotifyInv, NeverThrows, NotifyConnect, NotifyTypeOK
<1>2. /\ n \in Nat /\ n \in 1 .. n /\ n >= 1 /\ blockStack \in Seq(BlockData)
      /\ b \in Blocks \ {Genesis} /\ top.txConflicted \subseteq Txs
      /\ \A i \in 1 .. n : blockStack[i].pindex \in Blocks \ {Genesis}
  <2>1. n \in Nat /\ n # 0 /\ blockStack \in Seq(BlockData)
    BY Zenon, <1>1, TargetFacts DEF StackInv
  <2>2. n \in 1 .. n /\ n >= 1
    BY <2>1
  <2>3. QED
    BY Zenon, <1>1, <2>1, <2>2, TargetFacts
<1>3. Parent[b] = pindexLastTip
  BY Zenon, <1>1 DEF StackInv, Base
<1>4. /\ known' = known \cup top.txConflicted \cup TxsOf[b]
      /\ hashBlock' = [t \in Txs |-> IF t \in TxsOf[b] THEN b ELSE hashBlock[t]]
      /\ untold' = untold \ (top.txConflicted \X {b})
      /\ pindexLastTip' = b /\ blockStack' = SubSeq(blockStack, 1, n - 1)
      /\ UNCHANGED <<tip, mempool, recentlyAdded, recentlyConflicted, sequence, connected,
                     notifiedSequence, phase, pindexFork, added, drainedSequence>>
  BY Zenon DEF NotifyConnect
<1> HIDE DEF n
<1>5. /\ blockStack' \in Seq(BlockData) /\ Len(blockStack') = n - 1
      /\ \A i \in 1 .. n - 1 : blockStack'[i] = blockStack[i]
      /\ blockStack' = <<>> <=> n = 1
  BY Zenon, <1>1, <1>2, <1>4, PopBackFacts DEF n
<1> HIDE DEF top
<1>6. Target' = Target /\ Base' = b
  <2>1. Base' = b
    BY Zenon, <1>1, <1>4 DEF Base
  <2>2. CASE n = 1
    <3>1. blockStack' = <<>> /\ phase' # "disconnect"
      BY Zenon, <1>1, <1>4, <1>5, <2>2
    <3>2. Target' = pindexLastTip'
      BY Zenon, <3>1 DEF Target
    <3>3. Target = blockStack[1].pindex
      BY Zenon, <1>1 DEF Target
    <3>4. QED
      BY Zenon, <1>4, <2>1, <2>2, <3>2, <3>3 DEF top
  <2>3. CASE n # 1
    <3>1. 1 \in 1 .. n - 1
      BY <1>2, <2>3
    <3>2. blockStack' # <<>> /\ blockStack'[1] = blockStack[1]
      BY Zenon, <1>5, <2>3, <3>1
    <3>3. QED
      BY Zenon, <1>1, <2>1, <3>2 DEF Target
  <2>4. QED
    BY Zenon, <2>1, <2>2, <2>3
<1>7. StackInv'
  <2>1. \A i \in 1 .. Len(blockStack') : blockStack'[i].pindex # Genesis
    BY <1>2, <1>5
  <2>2. ASSUME NEW i \in 1 .. Len(blockStack') - 1
        PROVE  Parent[blockStack'[i].pindex] = blockStack'[i + 1].pindex
    <3>1. i \in 1 .. n - 1 /\ i + 1 \in 1 .. n - 1
      BY <1>2, <1>5
    <3>2. QED
      BY Zenon, <1>1, <1>5, <3>1 DEF StackInv, n
  <2>3. ASSUME blockStack' # <<>> PROVE Parent[blockStack'[Len(blockStack')].pindex] = Base'
    <3>1. n - 1 \in 1 .. n - 1 /\ Len(blockStack') = n - 1 /\ (n - 1) + 1 = n
      BY <1>2, <1>5, <2>3
    <3>2. Parent[blockStack[n - 1].pindex] = blockStack[n].pindex
      BY Zenon, <1>1, <3>1 DEF StackInv, n
    <3>3. QED
      BY Zenon, <1>5, <1>6, <3>1, <3>2 DEF top
  <2>4. QED
    BY Zenon, <1>1, <1>4, <1>5, <2>1, <2>2, <2>3 DEF StackInv
<1>8. NotifyTypeOK'
  <2>1. known' \subseteq Txs /\ hashBlock' \in [Txs -> Blocks \cup {NoBlock}]
    BY Zenon, <1>1, <1>2, <1>4, ContentsFacts DEF NotifyTypeOK
  <2>2. QED
    BY Zenon, <1>1, <1>2, <1>4, <2>1 DEF NotifyTypeOK, TxsIn
<1>9. ConflictInv' /\ PoolInv'
  BY Zenon, <1>4, <1>6 DEF NotifyInv, ConflictInv, PoolInv
<1>10. WalletInv'
  <2>1. Chain(b) = {b} \cup Chain(pindexLastTip) /\ Chain(pindexLastTip) \subseteq Blocks
    BY Zenon, <1>1, <1>2, <1>3, ChainFacts
  <2>2. \A t \in Txs : hashBlock'[t] \in Blocks => t \in TxsOf[hashBlock'[t]]
    BY Zenon, <1>4 DEF NotifyInv, WalletInv
  <2>3. ASSUME NEW c \in Chain(b), NEW t \in TxsOf[c] PROVE hashBlock'[t] = c
    <3>1. t \in Txs
      BY Zenon, <1>2, <2>1, ContentsFacts
    <3>2. CASE c = b
      BY Zenon, <1>4, <3>1, <3>2
    <3>3. CASE c \in Chain(pindexLastTip)
      <4>1. t \notin TxsOf[b]
        BY Zenon, <1>2, <1>3, <3>3, ContentsFacts
      <4>2. hashBlock[t] = c
        BY Zenon, <3>3 DEF NotifyInv, WalletInv
      <4>3. QED
        BY Zenon, <1>4, <3>1, <4>1, <4>2
    <3>4. QED
      BY Zenon, <2>1, <3>2, <3>3
  <2>4. QED
    BY Zenon, <1>4, <2>2, <2>3 DEF WalletInv
<1>11. SequenceInv'
  <2>1. sequence # notifiedSequence
    BY Zenon, <1>1 DEF NotifyInv, SequenceInv
  <2>2. QED
    BY Zenon, <1>4, <1>6, <2>1 DEF NotifyInv, SequenceInv
<1>12. UntoldInv'
  <2>1. ASSUME NEW u \in untold, u \notin top.txConflicted \X {b}
        PROVE  /\ u \in Txs \X Blocks /\ u[2] \in Chain(tip) \ {Genesis}
               /\ \/ /\ u[2] \in DOMAIN recentlyConflicted \ Chain(Target)
                     /\ u[1] \in recentlyConflicted[u[2]]
                  \/ \E i \in 1 .. n - 1 :
                       blockStack[i].pindex = u[2] /\ u[1] \in blockStack[i].txConflicted
    <3>1. u \in Txs \X Blocks /\ u[2] \in Chain(tip) \ {Genesis}
      BY Zenon DEF NotifyInv, UntoldInv
    <3>2. SUFFICES ASSUME NEW i \in 1 .. n, blockStack[i].pindex = u[2], u[1] \in blockStack[i].txConflicted
                   PROVE  i # n
      BY <1>2, <3>1 DEF NotifyInv, UntoldInv, n
    <3>3. SUFFICES ASSUME i = n PROVE FALSE
      BY Zenon
    <3>4. u[1] \in top.txConflicted /\ u[2] = b
      BY Zenon, <3>2, <3>3 DEF top
    <3>5. QED
      BY Zenon, <2>1, <3>1, <3>4
  <2>2. QED
    BY <1>4, <1>5, <1>6, <2>1 DEF UntoldInv
<1>13. QED
  BY Zenon, <1>1, <1>4, <1>7, <1>8, <1>9, <1>10, <1>11, <1>12 DEF NotifyInv, NeverThrows

\* The cycle ends with the transactions of the mempool.
LEMMA NotifyMempoolStep == ASSUME NotifyInv, NotifyMempool PROVE NotifyInv'
<1>1. /\ phase = "connect" /\ blockStack = <<>> /\ phase' = "asleep" /\ added' = {} /\ drainedSequence' = 0
      /\ known' = known \cup added /\ notifiedSequence' = drainedSequence
      /\ UNCHANGED <<tip, mempool, recentlyAdded, recentlyConflicted, sequence, connected, untold,
                     pindexLastTip, pindexFork, blockStack, hashBlock>>
  BY Zenon DEF NotifyMempool, chainVars, SyncWithoutBlock
<1>2. Target' = Target /\ Base' = Base
  BY Zenon, <1>1 DEF Target, Base
<1>3. StackInv'
  BY Zenon, <1>1, <1>2 DEF NotifyInv, StackInv
<1>4. NotifyTypeOK'
  BY Zenon, <1>1 DEF NotifyInv, NeverThrows, NotifyTypeOK, TxsIn, StackInv
<1>5. ConflictInv' /\ PoolInv' /\ WalletInv'
  BY Zenon, <1>1, <1>2 DEF NotifyInv, ConflictInv, PoolInv, WalletInv
<1>6. SequenceInv'
  BY Zenon, <1>1, <1>2 DEF NotifyInv, SequenceInv
<1>7. UntoldInv'
  BY Zenon, <1>1, <1>2 DEF NotifyInv, UntoldInv
<1>8. QED
  BY Zenon, <1>1, <1>3, <1>4, <1>5, <1>6, <1>7 DEF NotifyInv, NeverThrows

\* Every step of the chain, of the mempool and of the thread keeps Inv.
LEMMA NextNotifyInv == ASSUME NotifyInv, [NextNotify]_notifyVars PROVE NotifyInv'
<1>1. CASE UNCHANGED notifyVars
  <2>1. /\ UNCHANGED <<tip, mempool, recentlyAdded, recentlyConflicted, sequence, connected, untold,
                       notifiedSequence, known, hashBlock>>
        /\ UNCHANGED threadVars
    BY Zenon, <1>1 DEF notifyVars, chainVars, walletVars
  <2>2. /\ UNCHANGED <<phase, pindexLastTip, pindexFork, blockStack, added, drainedSequence>>
        /\ Target' = Target /\ Base' = Base /\ StackInv'
    BY Zenon, <2>1, ThreadFrame DEF threadVars, NotifyInv
  <2>3. NotifyTypeOK' /\ PoolInv' /\ ConflictInv' /\ WalletInv'
    BY Zenon, <2>1, <2>2 DEF NotifyInv, NeverThrows, NotifyTypeOK, TxsIn, PoolInv, ConflictInv, WalletInv
  <2>4. SequenceInv' /\ UntoldInv'
    BY Zenon, <2>1, <2>2 DEF NotifyInv, SequenceInv, UntoldInv
  <2>5. QED
    BY Zenon, <2>2, <2>3, <2>4 DEF NotifyInv, NeverThrows
<1>2. CASE NextNotify
  BY Zenon, <1>2, AcceptStep, ConnectStep, DisconnectStep, CollectStep, NotifyDisconnectStep,
     DisconnectsDoneStep, NotifyConnectStep, NotifyMempoolStep DEF NextNotify, Thread
<1>3. QED
  BY Zenon, <1>1, <1>2

-----------------------------------------------------------------------------
(* Theorems *)

\* The inductive invariant holds in every reachable state.
THEOREM NotifyInvariant == SpecNotify => []NotifyInv
<1>1. InitNotify => NotifyInv
  BY Zenon, InitNotifyInv
<1>2. NotifyInv /\ [NextNotify]_notifyVars => NotifyInv'
  BY Zenon, NextNotifyInv
<1>3. QED
  BY <1>1, <1>2, PTL DEF SpecNotify

\* recentlyConflicted.first.at(pindex) never throws in ThreadNotifyWallets: in
\* every tree of blocks, whatever ConnectTip and DisconnectTip do between and
\* during its cycles.
THEOREM ConflictsAreFound == SpecNotify => []NeverThrows
<1>1. NotifyInv => NeverThrows
  BY Zenon DEF NotifyInv
<1>2. QED
  BY <1>1, NotifyInvariant, PTL

\* CWalletTx::hashBlock is right for the chain the wallets were told of, and
\* "fullyNotified" is not claimed while a block of the active chain is unknown
\* to them.
THEOREM WalletFollowsChain == SpecNotify => []WalletBlocksMatchChain
<1>1. ASSUME NotifyInv PROVE WalletBlocksMatchChain
  <2>1. NotifyTypeOK /\ StackInv /\ WalletInv /\ SequenceInv /\ phase # "thrown"
    BY Zenon, <1>1 DEF NotifyInv, NeverThrows
  <2>2. pindexLastTip \in Blocks /\ Chain(pindexLastTip) \subseteq Blocks
    BY Zenon, <2>1, ChainFacts DEF NotifyTypeOK
  <2>3. ASSUME NEW t \in Txs, NEW b \in Chain(pindexLastTip) PROVE hashBlock[t] = b <=> t \in TxsOf[b]
    BY Zenon, <2>1, <2>2 DEF WalletInv
  <2>4. ASSUME sequence = notifiedSequence PROVE tip \in Chain(pindexLastTip)
    <3>1. blockStack = <<>> /\ tip \in Chain(Target)
      BY Zenon, <2>1, <2>4 DEF SequenceInv
    <3>2. CASE phase = "disconnect"
      <4>1. tip \in Chain(pindexFork) /\ pindexFork \in Chain(pindexLastTip)
        BY Zenon, <2>1, <3>1, <3>2 DEF Target, StackInv
      <4>2. QED
        BY Zenon, <2>2, <4>1, HeightFacts
    <3>3. CASE phase # "disconnect"
      BY Zenon, <3>1, <3>3 DEF Target
    <3>4. QED
      BY Zenon, <3>2, <3>3
  <2>5. QED
    BY Zenon, <2>3, <2>4 DEF WalletBlocksMatchChain
<1>2. QED
  BY <1>1, NotifyInvariant, PTL

\* No transaction is lost between the mempool, mapRecentlyAddedTx, the thread's
\* copy and the wallets, and none that a block threw out of the mempool.
THEOREM NoTransactionIsLost == SpecNotify => []TransactionsReachWallet
<1>1. ASSUME NotifyInv PROVE TransactionsReachWallet
  <2>1. ASSUME phase = "asleep", DOMAIN recentlyConflicted = {}, NEW u \in untold PROVE FALSE
    <3>1. Len(blockStack) = 0
      BY <1>1, <2>1 DEF NotifyInv, StackInv
    <3>2. QED
      BY <1>1, <2>1, <3>1 DEF NotifyInv, UntoldInv
  <2>2. QED
    BY Zenon, <1>1, <2>1 DEF NotifyInv, PoolInv, TransactionsReachWallet
<1>2. QED
  BY <1>1, NotifyInvariant, PTL
=============================================================================
