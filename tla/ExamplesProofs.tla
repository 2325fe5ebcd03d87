--------------------------- MODULE ExamplesProofs ---------------------------
(***************************************************************************)
(* Proofs about the small programs of the repository: Threading for any    *)
(* number of threads and any addresses, SystemCalls for any number of      *)
(* calls and lines, FinderApp for any number of files.  The variables of   *)
(* the last two, and with them S! and F!, are those of MCExamples.         *)
(***************************************************************************)
EXTENDS MCExamples, FiniteSetTheorems, SequenceTheorems, TLAPS

-----------------------------------------------------------------------------
(* Threading.                                                              *)

Labels == {"none", "obtain", "lock", "release", "unlock", "returned", "refused", "joined"}

TypeOK ==
  /\ pc \in [Threads -> Labels]
  /\ mutex \in Threads \cup {Caller, NULL}
  /\ heap \in SUBSET Blocks
  /\ param \in [Threads -> Blocks \cup {NULL}]
  /\ thread_complete_success \in [Blocks -> BOOLEAN]
  /\ result \in [Threads -> Blocks \cup {NULL}]
  /\ told \in [Threads -> BOOLEAN]
  /\ failed \in [Threads -> SUBSET {"create", "lock", "unlock"}]

\* The thread that runs with a block, or that has returned it.
Owns(t, b) ==
  \/ Running(t) /\ param[t] = b
  \/ pc[t] = "returned" /\ result[t] = b

Orphans == {b \in heap : \A t \in Threads : ~Owns(t, b)}

Lost == {t \in Threads : "create" \in failed[t] \/ "lock" \in failed[t]}

\* A block has one owner, and with it is in the heap.
Ownership ==
  /\ \A t \in Threads : Running(t) => param[t] \in Blocks
  /\ \A t \in Threads, b \in Blocks : Owns(t, b) => b \in heap
  /\ \A t, u \in Threads, b \in Blocks : Owns(t, b) /\ Owns(u, b) => t = u

\* Nothing has failed in a thread that has not ended.
NoneFailed ==
  \A t \in Threads :
    pc[t] \in {"none", "obtain", "lock", "release", "unlock"} => failed[t] = {}

\* Blocks are lost one by one, each with the failure that loses it.
Losses ==
  /\ IsFiniteSet(Lost)
  /\ IsFiniteSet(Orphans)
  /\ Cardinality(Orphans) = Cardinality(Lost)

\* The mutex is with a thread that is going to release it, or has failed to.
Holders ==
  \A t \in Threads :
    /\ pc[t] \in {"release", "unlock"} => mutex = t
    /\ mutex = t => pc[t] \in {"release", "unlock"} \/ failed[t] # {}

\* What a thread that has returned leaves for its joiner, and what that reads.
Reports ==
  \A t \in Threads :
    /\ pc[t] = "returned" =>
         (result[t] # NULL /\ thread_complete_success[result[t]] <=> failed[t] = {})
    /\ pc[t] = "joined" => (told[t] <=> failed[t] = {})

IInv == TypeOK /\ Ownership /\ NoneFailed /\ Losses /\ Holders /\ Reports

-----------------------------------------------------------------------------
LEMMA Initially == Init => IInv
<1> SUFFICES ASSUME Init PROVE IInv
  OBVIOUS
<1>1. TypeOK
  BY DEF Init, TypeOK, Labels
<1>2. Ownership /\ NoneFailed /\ Reports
  BY DEF Init, Ownership, NoneFailed, Reports, Owns, Running
<1>3. Holders
  BY ThreadAssumption DEF Init, Holders
<1>4. Orphans = {} /\ Lost = {}
  BY DEF Init, Orphans, Lost
<1>5. Losses
  BY <1>4, FS_EmptySet DEF Losses
<1> QED
  BY <1>1, <1>2, <1>3, <1>5 DEF IInv

\* The steps by what they do to the blocks.
LEMMA Cases ==
  ASSUME [Next]_vars
  PROVE  \/ \E t \in Threads, b \in Blocks : start_thread_obtaining_mutex(t, b)
         \/ \E t \in Threads : WaitToObtain(t) \/ Lock(t) \/ WaitToRelease(t)
         \/ \E t \in Threads : LockFails(t)
         \/ \E t \in Threads : Unlock(t) \/ UnlockFails(t)
         \/ \E t \in Threads : Join(t)
         \/ CallerLocks \/ CallerUnlocks
         \/ UNCHANGED vars
BY DEF Next, threadfunc

LEMMA TypesStep ==
  ASSUME IInv, [Next]_vars
  PROVE  TypeOK'
<1> USE DEF IInv, TypeOK, Labels, Goto, Fails
<1>1. ASSUME NEW t \in Threads, NEW b \in Blocks, start_thread_obtaining_mutex(t, b)
      PROVE  TypeOK'
  BY <1>1 DEF start_thread_obtaining_mutex
<1>2. ASSUME NEW t \in Threads, WaitToObtain(t) \/ Lock(t) \/ WaitToRelease(t)
      PROVE  TypeOK'
  BY <1>2 DEF WaitToObtain, Lock, WaitToRelease
<1>3. ASSUME NEW t \in Threads, LockFails(t)
      PROVE  TypeOK'
  BY <1>3 DEF LockFails
<1>4. ASSUME NEW t \in Threads, Unlock(t) \/ UnlockFails(t)
      PROVE  TypeOK'
  <2>1. CASE Unlock(t)
    BY <2>1, <1>4 DEF Unlock
  <2>2. CASE UnlockFails(t)
    BY <2>2, <1>4 DEF UnlockFails
  <2> QED
    BY <1>4, <2>1, <2>2
<1>5. ASSUME NEW t \in Threads, Join(t)
      PROVE  TypeOK'
  <2>1. told' \in [Threads -> BOOLEAN]
    BY <1>5 DEF Join
  <2> QED
    BY <1>5, <2>1 DEF Join
<1>6. CASE CallerLocks \/ CallerUnlocks \/ UNCHANGED vars
  BY <1>6 DEF CallerLocks, CallerUnlocks, vars
<1> QED
  BY <1>1, <1>2, <1>3, <1>4, <1>5, <1>6, Cases

LEMMA NoneFailedStep ==
  ASSUME IInv, [Next]_vars
  PROVE  NoneFailed'
<1> USE DEF IInv, TypeOK, NoneFailed, Goto, Fails
<1>1. ASSUME NEW t \in Threads, NEW b \in Blocks, start_thread_obtaining_mutex(t, b)
      PROVE  NoneFailed'
  BY <1>1 DEF start_thread_obtaining_mutex
<1>2. ASSUME NEW t \in Threads, WaitToObtain(t) \/ Lock(t) \/ WaitToRelease(t)
      PROVE  NoneFailed'
  BY <1>2 DEF WaitToObtain, Lock, WaitToRelease
<1>3. ASSUME NEW t \in Threads, LockFails(t) \/ Unlock(t) \/ UnlockFails(t) \/ Join(t)
      PROVE  NoneFailed'
  BY <1>3 DEF LockFails, Unlock, UnlockFails, Join
<1>4. CASE CallerLocks \/ CallerUnlocks \/ UNCHANGED vars
  BY <1>4 DEF CallerLocks, CallerUnlocks, vars
<1> QED
  BY <1>1, <1>2, <1>3, <1>4, Cases

-----------------------------------------------------------------------------
(* Blocks and their owners.                                                *)

\* Nothing changes for the blocks as long as heap, owners and failures do not.
LEMMA OwnersSame ==
  ASSUME IInv, TypeOK', UNCHANGED heap, Lost' = Lost,
         \A u \in Threads, a \in Blocks : Owns(u, a)' <=> Owns(u, a),
         \A u \in Threads : Running(u)' => param'[u] \in Blocks
  PROVE  Ownership' /\ Losses'
<1>1. Ownership'
  BY DEF IInv, Ownership
<1>2. Orphans' = Orphans
  BY DEF Orphans, TypeOK, IInv
<1>3. Losses'
  BY <1>2 DEF IInv, Losses
<1> QED
  BY <1>1, <1>3

\* A block and a thread are lost together.
LEMMA OneMoreLost ==
  ASSUME Losses, NEW b, NEW t, b \notin Orphans, t \notin Lost,
         Orphans' = Orphans \cup {b}, Lost' = Lost \cup {t}
  PROVE  Losses'
<1>1. /\ IsFiniteSet(Orphans \cup {b})
      /\ Cardinality(Orphans \cup {b}) = Cardinality(Orphans) + 1
  BY FS_AddElement DEF Losses
<1>2. /\ IsFiniteSet(Lost \cup {t})
      /\ Cardinality(Lost \cup {t}) = Cardinality(Lost) + 1
  BY FS_AddElement DEF Losses
<1> QED
  BY <1>1, <1>2 DEF Losses

\* Thread t takes block b, which malloc has just returned, or loses it.
LEMMA OwnersStart ==
  ASSUME IInv, TypeOK', NEW t \in Threads, NEW b \in Blocks,
         start_thread_obtaining_mutex(t, b)
  PROVE  Ownership' /\ Losses'
<1>1. b \notin heap /\ heap' = heap \cup {b} /\ pc[t] = "none" /\ result' = result
  BY DEF start_thread_obtaining_mutex
<1>2. \A u \in Threads : ~Owns(u, b)
  BY <1>1 DEF IInv, Ownership
<1>3. ASSUME NEW u \in Threads, u # t, NEW a \in Blocks
      PROVE  Owns(u, a)' <=> Owns(u, a)
  BY <1>1, <1>3 DEF start_thread_obtaining_mutex, Goto, Owns, Running, IInv, TypeOK
<1>4. \A a \in Blocks : ~Owns(t, a)
  BY <1>1 DEF Owns, Running
<1>5. t \notin Lost
  BY <1>1 DEF Lost, IInv, NoneFailed
<1>6. CASE pc' = [pc EXCEPT ![t] = "obtain"] /\ param' = [param EXCEPT ![t] = b]
           /\ failed' = failed
  <2>1. \A a \in Blocks : Owns(t, a)' <=> a = b
    BY <1>6 DEF Owns, Running, IInv, TypeOK
  <2>2. \A u \in Threads : Running(u)' => param'[u] \in Blocks
    BY <1>6 DEF Running, IInv, TypeOK, Ownership
  <2>3. Ownership'
    BY <1>1, <1>2, <1>3, <2>1, <2>2 DEF IInv, Ownership
  <2>4. Orphans' = Orphans
    <3>1. ASSUME NEW a \in Blocks
          PROVE  a \in Orphans' <=> a \in Orphans
      BY <1>1, <1>2, <1>3, <1>4, <2>1 DEF Orphans
    <3> QED
      BY <3>1 DEF Orphans, TypeOK, IInv
  <2>5. Lost' = Lost
    BY <1>6 DEF Lost
  <2> QED
    BY <2>3, <2>4, <2>5 DEF IInv, Losses
<1>7. CASE pc' = [pc EXCEPT ![t] = "refused"] /\ param' = param
           /\ failed' = [failed EXCEPT ![t] = @ \cup {"create"}]
  <2>1. \A a \in Blocks : ~Owns(t, a)'
    BY <1>7 DEF Owns, Running, IInv, TypeOK
  <2>2. \A u \in Threads : Running(u)' => param'[u] \in Blocks
    BY <1>7 DEF Running, IInv, TypeOK, Ownership
  <2>3. Ownership'
    BY <1>1, <1>3, <2>1, <2>2 DEF IInv, Ownership
  <2>4. Orphans' = Orphans \cup {b} /\ b \notin Orphans
    <3>1. ASSUME NEW a \in Blocks
          PROVE  a \in Orphans' <=> a \in Orphans \/ a = b
      BY <1>1, <1>2, <1>3, <1>4, <2>1 DEF Orphans
    <3> QED
      BY <1>1, <3>1 DEF Orphans, TypeOK, IInv
  <2>5. Lost' = Lost \cup {t}
    BY <1>7 DEF Lost, IInv, TypeOK
  <2>6. Losses'
    BY <1>5, <2>4, <2>5, OneMoreLost DEF IInv
  <2> QED
    BY <2>3, <2>6
<1> QED
  BY <1>6, <1>7 DEF start_thread_obtaining_mutex, Goto, Fails

\* A thread that cannot lock returns nothing, and its block has no owner left.
LEMMA OwnersLockFails ==
  ASSUME IInv, TypeOK', NEW t \in Threads, LockFails(t)
  PROVE  Ownership' /\ Losses'
<1>1. /\ pc[t] = "lock" /\ heap' = heap /\ param' = param
      /\ pc' = [pc EXCEPT ![t] = "returned"] /\ result' = [result EXCEPT ![t] = NULL]
      /\ failed' = [failed EXCEPT ![t] = @ \cup {"lock"}]
  BY DEF LockFails, Goto, Fails
<1> DEFINE b == param[t]
<1>2. b \in Blocks /\ Owns(t, b)
  BY <1>1 DEF IInv, Ownership, Owns, Running
<1>3. b \in heap /\ \A u \in Threads : Owns(u, b) => u = t
  BY <1>2 DEF IInv, Ownership
<1>4. \A a \in Blocks : Owns(t, a) => a = b
  BY <1>1 DEF Owns, Running
<1>5. \A a \in Blocks : ~Owns(t, a)'
  BY <1>1, ThreadAssumption DEF Owns, Running, IInv, TypeOK
<1>6. \A u \in Threads, a \in Blocks : u # t => (Owns(u, a)' <=> Owns(u, a))
  BY <1>1 DEF Owns, Running, IInv, TypeOK
<1>7. \A u \in Threads : Running(u)' => param'[u] \in Blocks
  BY <1>1 DEF Running, IInv, TypeOK, Ownership
<1> HIDE DEF b
<1>8. Ownership'
  BY <1>1, <1>5, <1>6, <1>7 DEF IInv, Ownership
<1>9. Orphans' = Orphans \cup {b} /\ b \notin Orphans
  <2>1. ASSUME NEW a \in Blocks
        PROVE  a \in Orphans' <=> a \in Orphans \/ a = b
    BY <1>1, <1>2, <1>3, <1>4, <1>5, <1>6 DEF Orphans
  <2> QED
    BY <1>2, <2>1 DEF Orphans, TypeOK, IInv
<1>10. Lost' = Lost \cup {t} /\ t \notin Lost
  BY <1>1 DEF Lost, IInv, TypeOK, NoneFailed
<1>11. Losses'
  BY <1>9, <1>10, OneMoreLost DEF IInv
<1> QED
  BY <1>8, <1>11

\* Whoever joins a thread frees what it has returned, and with that its claim.
LEMMA OwnersJoin ==
  ASSUME IInv, TypeOK', NEW t \in Threads, Join(t)
  PROVE  Ownership' /\ Losses'
<1>1. /\ pc[t] = "returned" /\ heap' = heap \ {result[t]}
      /\ pc' = [pc EXCEPT ![t] = "joined"] /\ UNCHANGED <<param, result, failed>>
  BY DEF Join, Goto
<1>2. \A a \in Blocks : Owns(t, a) <=> a = result[t]
  BY <1>1 DEF Owns, Running
<1>3. \A a \in Blocks : ~Owns(t, a)'
  BY <1>1 DEF Owns, Running, IInv, TypeOK
<1>4. \A u \in Threads, a \in Blocks : u # t => (Owns(u, a)' <=> Owns(u, a))
  BY <1>1 DEF Owns, Running, IInv, TypeOK
<1>5. \A u \in Threads : Running(u)' => param'[u] \in Blocks
  BY <1>1 DEF Running, IInv, TypeOK, Ownership
<1>6. Ownership'
  BY <1>1, <1>2, <1>3, <1>4, <1>5 DEF IInv, Ownership
<1>7. Orphans' = Orphans
  <2>1. ASSUME NEW a \in Blocks
        PROVE  a \in Orphans' <=> a \in Orphans
    BY <1>1, <1>2, <1>3, <1>4 DEF Orphans
  <2> QED
    BY <2>1 DEF Orphans, TypeOK, IInv
<1>8. Lost' = Lost
  BY <1>1 DEF Lost
<1> QED
  BY <1>6, <1>7, <1>8 DEF IInv, Losses

LEMMA OwnersStep ==
  ASSUME IInv, [Next]_vars
  PROVE  Ownership' /\ Losses'
<1>1. ASSUME NEW t \in Threads,
             \/ WaitToObtain(t) \/ Lock(t) \/ WaitToRelease(t)
             \/ Unlock(t) \/ UnlockFails(t)
      PROVE  Ownership' /\ Losses'
  <2>1. UNCHANGED <<heap, param>>
    BY <1>1 DEF WaitToObtain, Lock, WaitToRelease, Unlock, UnlockFails
  <2>2. Lost' = Lost
    BY <1>1 DEF WaitToObtain, Lock, WaitToRelease, Unlock, UnlockFails, Fails, Lost,
       IInv, TypeOK
  <2>3. ASSUME NEW u \in Threads, NEW a \in Blocks
        PROVE  Owns(u, a)' <=> Owns(u, a)
    BY <1>1 DEF WaitToObtain, Lock, WaitToRelease, Unlock, UnlockFails, Goto, Owns,
       Running, IInv, TypeOK
  <2>4. \A u \in Threads : Running(u)' => Running(u)
    BY <1>1 DEF WaitToObtain, Lock, WaitToRelease, Unlock, UnlockFails, Goto, Running,
       IInv, TypeOK
  <2> QED
    BY <2>1, <2>2, <2>3, <2>4, TypesStep, OwnersSame DEF IInv, Ownership
<1>2. ASSUME UNCHANGED <<pc, heap, param, result, failed>>
      PROVE  Ownership' /\ Losses'
  <2>1. Lost' = Lost /\ \A u \in Threads : Running(u)' <=> Running(u)
    BY <1>2 DEF Lost, Running
  <2>2. \A u \in Threads, a \in Blocks : Owns(u, a)' <=> Owns(u, a)
    BY <1>2 DEF Owns, Running
  <2> QED
    BY <1>2, <2>1, <2>2, TypesStep, OwnersSame DEF IInv, Ownership
<1>3. CASE CallerLocks \/ CallerUnlocks \/ UNCHANGED vars
  BY <1>2, <1>3 DEF CallerLocks, CallerUnlocks, vars
<1> QED
  BY <1>1, <1>3, Cases, TypesStep, OwnersStart, OwnersLockFails, OwnersJoin

-----------------------------------------------------------------------------
(* The mutex and what the joiner is told.                                  *)

LEMMA HoldersStep ==
  ASSUME IInv, [Next]_vars
  PROVE  Holders'
<1> USE ThreadAssumption DEF IInv, TypeOK, Holders, Goto, Fails
<1>1. ASSUME NEW t \in Threads, NEW b \in Blocks, start_thread_obtaining_mutex(t, b)
      PROVE  Holders'
  BY <1>1 DEF start_thread_obtaining_mutex
<1>2. ASSUME NEW t \in Threads, WaitToObtain(t) \/ Lock(t) \/ WaitToRelease(t)
      PROVE  Holders'
  BY <1>2 DEF WaitToObtain, Lock, WaitToRelease
<1>3. ASSUME NEW t \in Threads, LockFails(t)
      PROVE  Holders'
  BY <1>3 DEF LockFails
<1>4. ASSUME NEW t \in Threads, Unlock(t) \/ UnlockFails(t)
      PROVE  Holders'
  <2>1. CASE Unlock(t)
    BY <2>1, <1>4 DEF Unlock
  <2>2. CASE UnlockFails(t)
    BY <2>2, <1>4 DEF UnlockFails
  <2> QED
    BY <1>4, <2>1, <2>2
<1>5. ASSUME NEW t \in Threads, Join(t)
      PROVE  Holders'
  BY <1>5 DEF Join
<1>6. CASE CallerLocks \/ CallerUnlocks \/ UNCHANGED vars
  BY <1>6 DEF CallerLocks, CallerUnlocks, vars
<1> QED
  BY <1>1, <1>2, <1>3, <1>4, <1>5, <1>6, Cases

\* A write to a block that a thread has not returned leaves its report alone.
LEMMA ReportKept ==
  ASSUME IInv, NEW u \in Threads, NEW b \in Blocks, NEW success \in BOOLEAN,
         ~(pc[u] = "returned" /\ result[u] = b),
         thread_complete_success' = [thread_complete_success EXCEPT ![b] = success],
         pc'[u] = pc[u], result'[u] = result[u], told'[u] = told[u], failed'[u] = failed[u]
  PROVE  /\ pc'[u] = "returned" =>
              (result'[u] # NULL /\ thread_complete_success'[result'[u]] <=> failed'[u] = {})
         /\ pc'[u] = "joined" => (told'[u] <=> failed'[u] = {})
<1>1. pc[u] = "joined" => (told[u] <=> failed[u] = {})
  BY DEF IInv, Reports
<1>2. ASSUME pc[u] = "returned", result[u] # NULL
      PROVE  thread_complete_success'[result[u]] = thread_complete_success[result[u]]
  BY <1>2 DEF IInv, TypeOK
<1> QED
  BY <1>1, <1>2 DEF IInv, Reports

LEMMA ReportsStep ==
  ASSUME IInv, [Next]_vars
  PROVE  Reports'
<1> DEFINE Right(u) ==
      /\ pc[u] = "returned" =>
           (result[u] # NULL /\ thread_complete_success[result[u]] <=> failed[u] = {})
      /\ pc[u] = "joined" => (told[u] <=> failed[u] = {})
<1>0. /\ Reports <=> \A u \in Threads : Right(u)
      /\ Reports' <=> \A u \in Threads : Right(u)'
  BY DEF Reports
<1>1. ASSUME NEW t \in Threads, NEW b \in Blocks, start_thread_obtaining_mutex(t, b),
             NEW u \in Threads
      PROVE  Right(u)'
  <2>1. CASE u = t
    BY <1>1, <2>1 DEF start_thread_obtaining_mutex, Goto, IInv, TypeOK
  <2>2. CASE u # t
    <3>1. ~(pc[u] = "returned" /\ result[u] = b)
      BY <1>1 DEF start_thread_obtaining_mutex, IInv, Ownership, Owns
    <3>2. /\ thread_complete_success' = [thread_complete_success EXCEPT ![b] = FALSE]
          /\ pc'[u] = pc[u] /\ result'[u] = result[u] /\ told'[u] = told[u]
          /\ failed'[u] = failed[u]
      BY <1>1, <2>2 DEF start_thread_obtaining_mutex, Goto, Fails, IInv, TypeOK
    <3> QED
      BY <3>1, <3>2, ReportKept
  <2> QED
    BY <2>1, <2>2
<1>2. ASSUME NEW t \in Threads, LockFails(t) \/ Unlock(t) \/ UnlockFails(t),
             NEW u \in Threads
      PROVE  Right(u)'
  <2>1. Running(t) /\ param[t] \in Blocks /\ failed[t] = {}
    BY <1>2 DEF LockFails, Unlock, UnlockFails, Running, IInv, Ownership, NoneFailed
  <2>2. CASE u = t
    <3>1. CASE LockFails(t)
      BY <2>2, <3>1 DEF LockFails, Fails, Goto, IInv, TypeOK
    <3>2. CASE Unlock(t)
      <4>1. /\ pc'[t] = "returned" /\ result'[t] = param[t] /\ failed'[t] = {}
            /\ thread_complete_success'[param[t]] = TRUE
        BY <2>1, <3>2 DEF Unlock, Goto, IInv, TypeOK
      <4> QED
        BY <2>1, <2>2, <4>1, ThreadAssumption
    <3>3. CASE UnlockFails(t)
      <4>1. /\ pc'[t] = "returned" /\ result'[t] = param[t] /\ failed'[t] # {}
            /\ thread_complete_success'[param[t]] = FALSE
        BY <2>1, <3>3 DEF UnlockFails, Goto, Fails, IInv, TypeOK
      <4> QED
        BY <2>2, <4>1
    <3> QED
      BY <1>2, <3>1, <3>2, <3>3
  <2>3. CASE u # t
    <3>1. ~(pc[u] = "returned" /\ result[u] = param[t])
      BY <2>1, <2>3 DEF IInv, Ownership, Owns
    <3>2. PICK success \in BOOLEAN :
            thread_complete_success' = [thread_complete_success EXCEPT ![param[t]] = success]
      BY <1>2 DEF LockFails, Unlock, UnlockFails
    <3>3. /\ pc'[u] = pc[u] /\ result'[u] = result[u] /\ told'[u] = told[u]
          /\ failed'[u] = failed[u]
      BY <1>2, <2>3 DEF LockFails, Unlock, UnlockFails, Goto, Fails, IInv, TypeOK
    <3> DEFINE b == param[t]
    <3>4. /\ b \in Blocks /\ ~(pc[u] = "returned" /\ result[u] = b)
          /\ thread_complete_success' = [thread_complete_success EXCEPT ![b] = success]
      BY <2>1, <3>1, <3>2
    <3> HIDE DEF b
    <3> QED
      BY <3>3, <3>4, ReportKept
  <2> QED
    BY <2>2, <2>3
<1>3. ASSUME NEW t \in Threads, WaitToObtain(t) \/ Lock(t) \/ WaitToRelease(t),
             NEW u \in Threads
      PROVE  Right(u)'
  <2>1. /\ UNCHANGED <<thread_complete_success, result, told, failed>>
        /\ pc'[u] = pc[u] \/ pc'[u] \in {"lock", "release", "unlock"}
    BY <1>3 DEF WaitToObtain, Lock, WaitToRelease, Goto, IInv, TypeOK
  <2> QED
    BY <2>1 DEF IInv, Reports
<1>4. ASSUME NEW t \in Threads, Join(t), NEW u \in Threads
      PROVE  Right(u)'
  <2>1. CASE u = t
    <3>1. /\ pc'[t] = "joined" /\ failed' = failed /\ pc[t] = "returned"
          /\ told'[t] = (result[t] # NULL /\ thread_complete_success[result[t]])
      BY <1>4 DEF Join, Goto, IInv, TypeOK
    <3>2. result[t] # NULL /\ thread_complete_success[result[t]] <=> failed[t] = {}
      BY <3>1 DEF IInv, Reports
    <3> QED
      BY <2>1, <3>1, <3>2
  <2>2. CASE u # t
    <3>1. /\ UNCHANGED <<thread_complete_success, result, failed>>
          /\ pc'[u] = pc[u] /\ told'[u] = told[u]
      BY <1>4, <2>2 DEF Join, Goto, IInv, TypeOK
    <3> QED
      BY <3>1 DEF IInv, Reports
  <2> QED
    BY <2>1, <2>2
<1>5. CASE CallerLocks \/ CallerUnlocks \/ UNCHANGED vars
  BY <1>5 DEF CallerLocks, CallerUnlocks, vars, IInv, Reports
<1> QED
  BY <1>0, <1>1, <1>2, <1>3, <1>4, <1>5, Cases

-----------------------------------------------------------------------------
LEMMA Inductive == Spec => []IInv
<1>1. IInv /\ [Next]_vars => IInv'
  BY TypesStep, OwnersStep, NoneFailedStep, HoldersStep, ReportsStep DEF IInv
<1> QED
  BY Initially, <1>1, PTL DEF Spec

(***************************************************************************)
(* The thread_data that start_thread_obtaining_mutex allocates has one     *)
(* owner at a time, threadfunc or its joiner, is freed under nobody, and   *)
(* is lost only where pthread_create or pthread_mutex_lock has failed.     *)
(***************************************************************************)
THEOREM ThreadData == Spec => []DataOwned
<1>1. ASSUME IInv
      PROVE  DataOwned
  <2> DEFINE owners(b) == {t \in Threads : \/ Running(t) /\ param[t] = b
                                           \/ pc[t] = "returned" /\ result[t] = b}
  <2>1. \A b \in Blocks, t \in Threads : t \in owners(b) <=> Owns(t, b)
    BY DEF Owns
  <2>2. ASSUME NEW t \in Threads, Running(t)
        PROVE  param[t] \in heap
    BY <1>1, <2>2 DEF IInv, Ownership, Owns
  <2>3. ASSUME NEW b \in Blocks
        PROVE  Cardinality(owners(b)) <= 1
    <3>1. CASE owners(b) = {}
      BY <3>1, FS_EmptySet
    <3>2. ASSUME NEW t \in owners(b)
          PROVE  Cardinality(owners(b)) <= 1
      <4>1. owners(b) = {t}
        BY <1>1, <2>1, <3>2 DEF IInv, Ownership
      <4>2. Cardinality({t}) = 1
        BY FS_Singleton
      <4> QED
        BY <4>1, <4>2
    <3> QED
      BY <3>1, <3>2
  <2>4. {b \in heap : owners(b) = {}} = Orphans
    BY <1>1, <2>1 DEF Orphans, IInv, TypeOK
  <2>5. Cardinality({b \in heap : owners(b) = {}}) <= Cardinality(Lost)
    <3>1. /\ Cardinality(Orphans) = Cardinality(Lost)
          /\ IsFiniteSet(Orphans)
      BY <1>1 DEF IInv, Losses
    <3>2. Cardinality(Orphans) \in Nat
      BY <3>1, FS_CardinalityType
    <3> QED
      BY <2>4, <3>1, <3>2
  <2> QED
    BY <2>2, <2>3, <2>5 DEF DataOwned, Lost
<1> QED
  BY Inductive, <1>1, PTL

(***************************************************************************)
(* thread_complete_success tells the joiner the truth: it is read as true  *)
(* exactly if threadfunc has obtained and released the mutex, although the *)
(* field lies in a block that goes from thread to thread.                  *)
(***************************************************************************)
THEOREM ThreadSuccess == Spec => []SuccessIsReal
<1>1. IInv => SuccessIsReal
  BY DEF IInv, Holders, Reports, SuccessIsReal
<1> QED
  BY Inductive, <1>1, PTL

-----------------------------------------------------------------------------
(* SystemCalls.                                                            *)

Children ==
  [kind : {"none", "system", "exec", "redirect"},
   state : {"none", "start", "redirected", "running", "failed"} \cup S!Ends,
   stdout : {"terminal", "file"},
   buffer : Seq(Nat)]

CallTypes ==
  /\ calls \in 0..MaxCalls
  /\ waiting \in BOOLEAN
  /\ printed \in Nat
  /\ buffer \in Seq(Nat)
  /\ terminal \in Seq(Nat)
  /\ outputs \in [S!Calls -> Seq(Nat)]
  /\ child \in [S!Calls -> Children]
  /\ returned \in [S!Calls -> BOOLEAN]

Distinct(lines) == \A i, j \in DOMAIN lines : lines[i] = lines[j] => i = j

\* The lines of a stdio buffer: the program's first k at most, each of them once.
OwnLines(lines, k) == (\A i \in DOMAIN lines : lines[i] \in 1..k) /\ Distinct(lines)

\* The child of a call, from the fork to its end, and its output file.
ChildInv(n) ==
  LET p == child[n] IN
  /\ p.kind = "none" <=> p.state = "none"
  /\ n > calls => p.kind = "none" /\ n \notin interrupted
  /\ p.stdout = "file" => p.kind = "redirect"
  /\ p.stdout = "terminal" =>
       outputs[n] = << >> /\ (p.kind = "redirect" => p.state \in {"start", "failed"})
  /\ p.state \in {"start", "redirected", "running"} => outputs[n] = << >>
  /\ p.state = "failed" /\ p.stdout = "file" => outputs[n] = p.buffer
  /\ p.state \in S!Ends => outputs[n] \in {<< >>, <<S!OUTPUT>>}
  /\ OwnLines(p.buffer, printed)

\* The last call waits for a child of its own; those before have returned.
WaitInv == waiting => calls \in S!Calls /\ child[calls].kind # "none"

LinesInv ==
  /\ OwnLines(buffer, printed)
  /\ \A i \in DOMAIN terminal : terminal[i] \in 0..printed

CallInv == CallTypes /\ WaitInv /\ LinesInv /\ \A n \in S!Calls : ChildInv(n)

\* The places of a line, and how many there are.
Places(line, lines) == {i \in DOMAIN lines : lines[i] = line}

LEMMA SameCardinality == \A A : S!Cardinality(A) = Cardinality(A) /\ F!Cardinality(A) = Cardinality(A)
BY Zenon DEF S!Cardinality, F!Cardinality, Cardinality

LEMMA CopiesCount ==
  ASSUME NEW s \in Seq(Nat), NEW x
  PROVE  /\ IsFiniteSet(Places(x, s))
         /\ S!Copies(x, s) = Cardinality(Places(x, s))
         /\ S!Copies(x, s) \in Nat
<1>1. S!Copies(x, s) = Cardinality(Places(x, s))
  BY SameCardinality DEF S!Copies, Places
<1>2. DOMAIN s = 1..Len(s) /\ Len(s) \in Nat
  OBVIOUS
<1>3. IsFiniteSet(1..Len(s))
  BY <1>2, FS_Interval
<1>4. Places(x, s) \in SUBSET (1..Len(s))
  BY <1>2 DEF Places
<1>5. IsFiniteSet(Places(x, s))
  BY <1>3, <1>4, FS_Subset
<1> QED
  BY <1>1, <1>5, FS_CardinalityType

LEMMA CopiesOfNone ==
  ASSUME NEW s \in Seq(Nat), NEW x, \A i \in DOMAIN s : s[i] # x
  PROVE  S!Copies(x, s) = 0
<1>1. Places(x, s) = {}
  BY DEF Places
<1> QED
  BY <1>1, CopiesCount, FS_EmptySet

LEMMA CopiesOfOne ==
  ASSUME NEW s \in Seq(Nat), NEW x, Distinct(s), NEW i \in DOMAIN s, s[i] = x
  PROVE  S!Copies(x, s) = 1
<1>1. Places(x, s) = {i}
  BY DEF Places, Distinct
<1> QED
  BY <1>1, CopiesCount, FS_Singleton

\* Lines that are all different add one copy or none.
LEMMA CopiesConcat ==
  ASSUME NEW s \in Seq(Nat), NEW t \in Seq(Nat), Distinct(t), NEW x
  PROVE  /\ S!Copies(x, s \o t) = S!Copies(x, s) + S!Copies(x, t)
         /\ S!Copies(x, t) \in {0, 1}
<1> DEFINE u == s \o t
           k == Len(s)
           l == Len(t)
<1>1. /\ u \in Seq(Nat) /\ Len(u) = k + l
      /\ \A i \in 1..(k + l) : u[i] = IF i <= k THEN s[i] ELSE t[i - k]
  BY ConcatProperties
<1>2. /\ k \in Nat /\ l \in Nat /\ DOMAIN s = 1..k /\ DOMAIN t = 1..l /\ DOMAIN u = 1..(k + l)
  BY <1>1
<1> HIDE DEF u, k, l
<1>3. \A i \in 1..k : i \in 1..(k + l) /\ u[i] = s[i]
  BY <1>1, <1>2
<1>4. \A j \in 1..l : k + j \in 1..(k + l) /\ u[k + j] = t[j]
  <2> SUFFICES ASSUME NEW j \in 1..l
               PROVE  k + j \in 1..(k + l) /\ u[k + j] = t[j]
    OBVIOUS
  <2>1. k + j \in 1..(k + l) /\ ~ (k + j <= k) /\ (k + j) - k = j
    BY <1>2
  <2> QED
    BY <1>1, <2>1
<1>5. \A i \in 1..(k + l) : i \in 1..k \/ \E j \in 1..l : i = k + j
  <2> SUFFICES ASSUME NEW i \in 1..(k + l), i \notin 1..k
               PROVE  \E j \in 1..l : i = k + j
    OBVIOUS
  <2>1. i - k \in 1..l /\ i = k + (i - k)
    BY <1>2
  <2> QED
    BY <2>1
<1>6. /\ S!Copies(x, u) = Cardinality(Places(x, u))
      /\ S!Copies(x, s) = Cardinality(Places(x, s)) /\ S!Copies(x, s) \in Nat
      /\ IsFiniteSet(Places(x, s))
  BY <1>1, CopiesCount
<1>7. CASE \A j \in DOMAIN t : t[j] # x
  <2>1. S!Copies(x, t) = 0
    BY <1>7, CopiesOfNone
  <2>2. Places(x, u) = Places(x, s)
    <3>1. \A i \in 1..(k + l) : u[i] = x => i \in 1..k
      BY <1>2, <1>4, <1>5, <1>7
    <3> QED
      BY <1>2, <1>3, <3>1 DEF Places
  <2> QED
    BY <1>6, <2>1, <2>2 DEF u
<1>8. ASSUME NEW j \in DOMAIN t, t[j] = x
      PROVE  /\ S!Copies(x, s \o t) = S!Copies(x, s) + S!Copies(x, t)
             /\ S!Copies(x, t) \in {0, 1}
  <2>1. S!Copies(x, t) = 1
    BY <1>8, CopiesOfOne
  <2>2. Places(x, u) = Places(x, s) \cup {k + j}
    <3>1. ASSUME NEW i \in 1..(k + l), u[i] = x, i \notin 1..k
          PROVE  i = k + j
      <4>1. PICK m \in 1..l : i = k + m
        BY <1>5, <3>1
      <4>2. t[m] = x
        BY <1>4, <3>1, <4>1
      <4>3. m = j
        BY <1>2, <1>8, <4>2 DEF Distinct
      <4> QED
        BY <4>1, <4>3
    <3>2. u[k + j] = x /\ k + j \in 1..(k + l)
      BY <1>2, <1>4, <1>8
    <3> QED
      BY <1>2, <1>3, <3>1, <3>2 DEF Places
  <2>3. k + j \notin Places(x, s)
    BY <1>2, <1>8 DEF Places
  <2>4. Cardinality(Places(x, u)) = Cardinality(Places(x, s)) + 1
    BY <1>6, <2>2, <2>3, FS_AddElement
  <2> QED
    BY <1>6, <2>1, <2>4 DEF u
<1> QED
  BY <1>7, <1>8

\* The child fails to start, which writes the lines it has inherited.
CannotStart(n) == S!OpenFails(n) \/ S!ExecFails(n)

LEMMA CallCases ==
  ASSUME [S!Next]_Svars
  PROVE  \/ UNCHANGED Svars
         \/ \E n \in S!Calls :
              \/ \E kind \in {"system", "exec", "redirect"} : S!Fork(n, kind)
              \/ S!ForkFails(n) \/ S!Redirect(n) \/ CannotStart(n) \/ S!Exec(n)
              \/ S!Command(n) \/ S!Wait(n) \/ S!WaitInterrupted(n)
         \/ S!PrintLine \/ S!Flush
BY DEF S!Next, S!do_system, S!do_exec, S!do_exec_redirect, CannotStart

\* Where the lines that a process writes go.
LEMMA Written ==
  ASSUME CallTypes, NEW n \in S!Calls, NEW lines \in Seq(Nat), S!WriteOut(n, lines)
  PROVE  /\ terminal' \in Seq(Nat) /\ outputs' \in [S!Calls -> Seq(Nat)]
         /\ child[n].stdout = "terminal" => terminal' = terminal \o lines /\ outputs' = outputs
         /\ child[n].stdout # "terminal" =>
              /\ terminal' = terminal
              /\ outputs'[n] = outputs[n] \o lines
              /\ \A m \in S!Calls \ {n} : outputs'[m] = outputs[m]
<1>1. terminal \in Seq(Nat) /\ outputs \in [S!Calls -> Seq(Nat)]
  BY DEF CallTypes
<1>2. terminal \o lines \in Seq(Nat) /\ outputs[n] \o lines \in Seq(Nat)
  BY <1>1, ConcatProperties
<1>3. CASE child[n].stdout = "terminal"
  BY <1>1, <1>2, <1>3 DEF S!WriteOut
<1>4. CASE child[n].stdout # "terminal"
  BY <1>1, <1>2, <1>4 DEF S!WriteOut
<1> QED
  BY <1>3, <1>4

\* A child in another state is otherwise the same.
LEMMA NewState ==
  ASSUME CallTypes, NEW n \in S!Calls,
         NEW state \in {"none", "start", "redirected", "running", "failed"} \cup S!Ends,
         S!Becomes(n, state)
  PROVE  /\ child' \in [S!Calls -> Children]
         /\ child'[n].state = state /\ child'[n].kind = child[n].kind
         /\ child'[n].stdout = child[n].stdout /\ child'[n].buffer = child[n].buffer
         /\ \A m \in S!Calls \ {n} : child'[m] = child[m]
<1>1. child \in [S!Calls -> Children] /\ child[n] \in Children
  BY DEF CallTypes
<1>2. child' = [child EXCEPT ![n] = [child[n] EXCEPT !.state = state]]
  BY DEF S!Becomes
<1>3. /\ [child[n] EXCEPT !.state = state] \in Children
      /\ [child[n] EXCEPT !.state = state].state = state
      /\ [child[n] EXCEPT !.state = state].kind = child[n].kind
      /\ [child[n] EXCEPT !.state = state].stdout = child[n].stdout
      /\ [child[n] EXCEPT !.state = state].buffer = child[n].buffer
  BY <1>1 DEF Children
<1> QED
  BY <1>1, <1>2, <1>3

LEMMA CallTypesStep ==
  ASSUME CallTypes, [S!Next]_Svars
  PROVE  CallTypes'
<1>t. /\ calls \in 0..MaxCalls /\ waiting \in BOOLEAN /\ printed \in Nat
      /\ buffer \in Seq(Nat) /\ terminal \in Seq(Nat)
      /\ outputs \in [S!Calls -> Seq(Nat)] /\ child \in [S!Calls -> Children]
      /\ returned \in [S!Calls -> BOOLEAN]
  BY DEF CallTypes
<1>1. CASE UNCHANGED Svars
  BY <1>1, <1>t DEF Svars, CallTypes
<1>2. ASSUME NEW n \in S!Calls, NEW kind \in {"system", "exec", "redirect"}, S!Fork(n, kind)
      PROVE  CallTypes'
  <2> DEFINE new == [kind |-> kind, state |-> "start", stdout |-> "terminal",
                     buffer |-> IF kind = "system" THEN << >> ELSE buffer]
  <2>1. new \in Children
    BY <1>t DEF Children
  <2>2. child' = [child EXCEPT ![n] = new]
    BY <1>2 DEF S!Fork
  <2> HIDE DEF new
  <2>3. child' \in [S!Calls -> Children]
    BY <1>t, <2>1, <2>2
  <2>4. calls' \in 0..MaxCalls /\ waiting' \in BOOLEAN
    BY <1>2, BoundAssumption DEF S!Fork, S!Calls
  <2> QED
    BY <1>2, <1>t, <2>3, <2>4 DEF S!Fork, CallTypes
<1>3. ASSUME NEW n \in S!Calls, S!ForkFails(n)
      PROVE  CallTypes'
  <2>1. calls' \in 0..MaxCalls
    BY <1>3, BoundAssumption DEF S!ForkFails, S!Calls
  <2>2. returned' \in [S!Calls -> BOOLEAN]
    BY <1>3, <1>t DEF S!ForkFails
  <2> QED
    BY <1>3, <1>t, <2>1, <2>2 DEF S!ForkFails, CallTypes
<1>4. ASSUME NEW n \in S!Calls, S!Redirect(n)
      PROVE  CallTypes'
  <2> DEFINE new == [child[n] EXCEPT !.state = "redirected", !.stdout = "file"]
  <2>1. new \in Children
    BY <1>t DEF Children
  <2>2. child' = [child EXCEPT ![n] = new]
    BY <1>4 DEF S!Redirect
  <2> HIDE DEF new
  <2>3. child' \in [S!Calls -> Children]
    BY <1>t, <2>1, <2>2
  <2>4. << >> \in Seq(Nat)
    OBVIOUS
  <2>5. outputs' \in [S!Calls -> Seq(Nat)]
    BY <1>4, <1>t, <2>4 DEF S!Redirect
  <2> QED
    BY <1>4, <1>t, <2>3, <2>5 DEF S!Redirect, CallTypes
<1>5. ASSUME NEW n \in S!Calls, CannotStart(n)
      PROVE  CallTypes'
  <2>1. child[n].buffer \in Seq(Nat)
    BY <1>t DEF Children
  <2>2. S!WriteOut(n, child[n].buffer) /\ S!Becomes(n, "failed")
        /\ UNCHANGED <<calls, waiting, printed, buffer, returned>>
    BY <1>5 DEF CannotStart, S!OpenFails, S!ExecFails
  <2>3. /\ terminal' \in Seq(Nat) /\ outputs' \in [S!Calls -> Seq(Nat)]
        /\ child' \in [S!Calls -> Children]
    BY <2>1, <2>2, Written, NewState
  <2> QED
    BY <1>t, <2>2, <2>3 DEF CallTypes
<1>6. ASSUME NEW n \in S!Calls, S!Exec(n)
      PROVE  CallTypes'
  <2>1. child' \in [S!Calls -> Children]
    BY <1>6, NewState DEF S!Exec
  <2> QED
    BY <1>6, <1>t, <2>1 DEF S!Exec, CallTypes
<1>7. ASSUME NEW n \in S!Calls, S!Command(n)
      PROVE  CallTypes'
  <2>1. child' \in [S!Calls -> Children]
    BY <1>7, NewState DEF S!Command
  <2>2. <<S!OUTPUT>> \in Seq(Nat)
    BY DEF S!OUTPUT
  <2>3. terminal' \in Seq(Nat) /\ outputs' \in [S!Calls -> Seq(Nat)]
    <3>1. CASE S!WriteOut(n, <<S!OUTPUT>>)
      BY <2>2, <3>1, Written
    <3>2. CASE UNCHANGED <<terminal, outputs>>
      BY <1>t, <3>2
    <3> QED
      BY <1>7, <3>1, <3>2 DEF S!Command
  <2> QED
    BY <1>7, <1>t, <2>1, <2>3 DEF S!Command, CallTypes
<1>8. ASSUME NEW n \in S!Calls, S!Wait(n) \/ S!WaitInterrupted(n)
      PROVE  CallTypes'
  <2>1. returned' \in [S!Calls -> BOOLEAN]
    BY <1>8, <1>t DEF S!Wait, S!WaitInterrupted, S!Succeeded
  <2> QED
    BY <1>8, <1>t, <2>1 DEF S!Wait, S!WaitInterrupted, CallTypes
<1>9. CASE S!PrintLine
  <2>1. printed + 1 \in Nat
    BY <1>t
  <2>2. buffer' \in Seq(Nat) /\ printed' \in Nat
    BY <1>9, <1>t, <2>1, AppendProperties DEF S!PrintLine
  <2> QED
    BY <1>9, <1>t, <2>2 DEF S!PrintLine, CallTypes
<1>10. CASE S!Flush
  <2>1. terminal \o buffer \in Seq(Nat) /\ << >> \in Seq(Nat)
    BY <1>t, ConcatProperties
  <2> QED
    BY <1>10, <1>t, <2>1 DEF S!Flush, CallTypes
<1> QED
  BY <1>1, <1>2, <1>3, <1>4, <1>5, <1>6, <1>7, <1>8, <1>9, <1>10, CallCases

LEMMA LinesKept ==
  ASSUME NEW k \in Nat, NEW l \in Nat, k <= l, NEW lines, OwnLines(lines, k)
  PROVE  OwnLines(lines, l)
<1>1. \A i \in 1..k : i \in 1..l
  OBVIOUS
<1> QED
  BY <1>1 DEF OwnLines

\* A step leaves the child of another call alone.
LEMMA ChildKept ==
  ASSUME CallTypes, CallTypes', NEW m \in S!Calls, ChildInv(m),
         child'[m] = child[m], outputs'[m] = outputs[m],
         calls <= calls', printed <= printed', m > calls' => m \notin interrupted'
  PROVE  ChildInv(m)'
<1>1. OwnLines(child[m].buffer, printed')
  <2>1. OwnLines(child[m].buffer, printed)
    BY DEF ChildInv
  <2>2. printed \in Nat /\ printed' \in Nat
    BY DEF CallTypes
  <2> QED
    BY <2>1, <2>2, LinesKept
<1>2. m > calls' => m > calls
  BY BoundAssumption DEF CallTypes, S!Calls
<1> QED
  BY <1>1, <1>2 DEF ChildInv

\* Every step of a call is one of the last call's child or parent, so the
\* bounds on calls and on interrupted hold behind it.
LEMMA CallsGrow ==
  ASSUME CallInv, CallTypes', [S!Next]_Svars
  PROVE  /\ calls <= calls' /\ printed <= printed'
         /\ \A m \in S!Calls : m > calls' => m \notin interrupted'
<1>t. /\ calls \in 0..MaxCalls /\ printed \in Nat
      /\ \A m \in S!Calls : m > calls => m \notin interrupted
  BY DEF CallInv, CallTypes, ChildInv
<1>1. CASE UNCHANGED Svars
  BY <1>1, <1>t DEF Svars
<1>2. ASSUME NEW n \in S!Calls,
             (\E kind \in {"system", "exec", "redirect"} : S!Fork(n, kind)) \/ S!ForkFails(n)
      PROVE  /\ calls <= calls' /\ printed <= printed'
             /\ \A m \in S!Calls : m > calls' => m \notin interrupted'
  <2>1. calls' = calls + 1 /\ printed' = printed /\ interrupted' = interrupted
    BY <1>2 DEF S!Fork, S!ForkFails
  <2>2. \A m \in S!Calls : m > calls + 1 => m > calls
    BY <1>t, BoundAssumption DEF S!Calls
  <2> QED
    BY <1>t, <2>1, <2>2
<1>3. ASSUME NEW n \in S!Calls, S!WaitInterrupted(n)
      PROVE  /\ calls <= calls' /\ printed <= printed'
             /\ \A m \in S!Calls : m > calls' => m \notin interrupted'
  <2>1. calls' = calls /\ printed' = printed /\ interrupted' = interrupted \cup {n} /\ n = calls
    BY <1>3 DEF S!WaitInterrupted
  <2>2. \A m \in S!Calls : m > calls => m # calls
    BY <1>t, BoundAssumption DEF S!Calls
  <2> QED
    BY <1>t, <2>1, <2>2
<1>4. ASSUME NEW n \in S!Calls,
             S!Redirect(n) \/ CannotStart(n) \/ S!Exec(n) \/ S!Command(n) \/ S!Wait(n)
      PROVE  calls' = calls /\ printed' = printed /\ interrupted' = interrupted
  BY <1>4 DEF S!Redirect, CannotStart, S!OpenFails, S!ExecFails, S!Exec, S!Command, S!Wait
<1>5. CASE S!PrintLine \/ S!Flush
  BY <1>5, <1>t DEF S!PrintLine, S!Flush
<1> QED
  BY <1>t, <1>1, <1>2, <1>3, <1>4, <1>5, CallCases

LEMMA ChildStep ==
  ASSUME CallInv, CallTypes', [S!Next]_Svars
  PROVE  \A m \in S!Calls : ChildInv(m)'
<1>t. CallTypes /\ \A m \in S!Calls : ChildInv(m)
  BY DEF CallInv
<1>c. /\ child \in [S!Calls -> Children] /\ outputs \in [S!Calls -> Seq(Nat)]
      /\ buffer \in Seq(Nat) /\ printed \in Nat /\ printed' \in Nat
  BY <1>t DEF CallTypes
<1>g. /\ calls <= calls' /\ printed <= printed'
      /\ \A m \in S!Calls : m > calls' => m \notin interrupted'
  BY CallsGrow
<1>k. ASSUME NEW m \in S!Calls, child'[m] = child[m], outputs'[m] = outputs[m]
      PROVE  ChildInv(m)'
  BY <1>t, <1>g, <1>k, ChildKept
<1>1. CASE UNCHANGED <<child, outputs>>
  BY <1>1, <1>k
<1>2. ASSUME NEW n \in S!Calls, NEW kind \in {"system", "exec", "redirect"}, S!Fork(n, kind)
      PROVE  \A m \in S!Calls : ChildInv(m)'
  <2>1. /\ child'[n] = [kind |-> kind, state |-> "start", stdout |-> "terminal",
                        buffer |-> IF kind = "system" THEN << >> ELSE buffer]
        /\ \A m \in S!Calls \ {n} : child'[m] = child[m]
        /\ outputs' = outputs /\ calls' = n /\ n = calls + 1 /\ printed' = printed
    BY <1>2, <1>c DEF S!Fork
  <2>2. outputs[n] = << >>
    <3>1. n > calls
      BY <2>1, <1>t DEF CallTypes
    <3>2. child[n].stdout = "terminal" \/ child[n].stdout = "file"
      BY <1>c DEF Children
    <3> QED
      BY <1>t, <3>1, <3>2 DEF ChildInv
  <2>3. OwnLines(child'[n].buffer, printed')
    <3>1. OwnLines(buffer, printed) /\ OwnLines(<< >>, printed)
      BY DEF CallInv, LinesInv, OwnLines, Distinct
    <3> QED
      BY <2>1, <3>1
  <2>4. ~ (n > calls')
    BY <2>1, BoundAssumption DEF S!Calls
  <2>5. ChildInv(n)'
    BY <2>1, <2>2, <2>3, <2>4 DEF ChildInv, S!Ends
  <2> QED
    BY <1>k, <2>1, <2>5
<1>3. ASSUME NEW n \in S!Calls, S!Redirect(n)
      PROVE  \A m \in S!Calls : ChildInv(m)'
  <2>1. /\ child'[n] = [child[n] EXCEPT !.state = "redirected", !.stdout = "file"]
        /\ child[n].kind = "redirect"
        /\ \A m \in S!Calls \ {n} : child'[m] = child[m] /\ outputs'[m] = outputs[m]
        /\ outputs'[n] = << >> /\ UNCHANGED <<calls, printed, interrupted>>
    BY <1>3, <1>c DEF S!Redirect
  <2>2. /\ child'[n].state = "redirected" /\ child'[n].stdout = "file"
        /\ child'[n].kind = "redirect" /\ child'[n].buffer = child[n].buffer
    BY <1>c, <2>1 DEF Children
  <2>3. OwnLines(child[n].buffer, printed') /\ ~ (n > calls')
    <3>1. OwnLines(child[n].buffer, printed) /\ ~ (n > calls)
      BY <1>t, <2>1 DEF ChildInv
    <3> QED
      BY <1>c, <1>g, <2>1, <3>1, LinesKept
  <2>4. ChildInv(n)'
    BY <2>1, <2>2, <2>3 DEF ChildInv, S!Ends
  <2> QED
    BY <1>k, <2>1, <2>4
<1>4. ASSUME NEW n \in S!Calls, NEW state \in {"running", "failed"} \cup S!Ends,
             S!Becomes(n, state), UNCHANGED <<calls, printed, interrupted>>,
             child[n].state \in {"start", "redirected", "running"},
             state \in {"running"} \cup S!Ends => child[n].state # "start" \/ child[n].kind # "redirect",
             \A m \in S!Calls \ {n} : outputs'[m] = outputs[m],
             \/ outputs'[n] = outputs[n] /\ (state = "failed" => child[n].stdout # "file")
             \/ /\ child[n].stdout = "file"
                /\ state \in S!Ends /\ outputs'[n] = outputs[n] \o <<S!OUTPUT>>
             \/ /\ child[n].stdout = "file"
                /\ state = "failed" /\ outputs'[n] = outputs[n] \o child[n].buffer
      PROVE  \A m \in S!Calls : ChildInv(m)'
  <2>1. /\ child'[n].state = state /\ child'[n].kind = child[n].kind
        /\ child'[n].stdout = child[n].stdout /\ child'[n].buffer = child[n].buffer
        /\ \A m \in S!Calls \ {n} : child'[m] = child[m]
    BY <1>4, <1>t, NewState
  <2>2. /\ child[n].kind # "none" /\ ~ (n > calls) /\ outputs[n] = << >>
        /\ child[n].stdout = "file" => child[n].kind = "redirect"
        /\ child[n].stdout = "terminal" => child[n].kind # "redirect" \/ child[n].state = "start"
        /\ OwnLines(child[n].buffer, printed)
    BY <1>4, <1>t DEF ChildInv, S!Ends
  <2>3. /\ << >> \o <<S!OUTPUT>> = <<S!OUTPUT>> /\ << >> \o child[n].buffer = child[n].buffer
    <3>1. <<S!OUTPUT>> \in Seq(Nat) /\ child[n].buffer \in Seq(Nat)
      BY <1>c DEF S!OUTPUT, Children
    <3> QED
      BY <3>1, ConcatEmptySeq
  <2>4. OwnLines(child[n].buffer, printed') /\ OwnLines(child'[n].buffer, printed')
    <3>1. OwnLines(child[n].buffer, printed')
      BY <1>c, <1>g, <2>2, LinesKept
    <3> QED
      BY <2>1, <3>1
  <2>5. outputs'[n] = << >> \/ child[n].stdout = "file"
    BY <1>4, <2>2
  <2>6. state \in S!Ends => outputs'[n] \in {<< >>, <<S!OUTPUT>>}
    BY <1>4, <2>2, <2>3 DEF S!Ends
  <2>7. state = "failed" /\ child[n].stdout = "file" => outputs'[n] = child[n].buffer
    BY <1>4, <2>2, <2>3 DEF S!Ends
  <2>8. state = "running" => outputs'[n] = << >>
    BY <1>4, <2>2 DEF S!Ends
  <2>9. state # "none" /\ state # "start" /\ state # "redirected"
    BY <1>4 DEF S!Ends
  <2>10. child[n].stdout = "terminal" =>
           outputs'[n] = << >> /\ (child[n].kind = "redirect" => state = "failed")
    BY <1>4, <2>2, <2>5
  <2>11. ChildInv(n)'
    BY <1>4, <2>1, <2>2, <2>4, <2>6, <2>7, <2>8, <2>9, <2>10 DEF ChildInv
  <2> QED
    BY <1>4, <1>k, <2>1, <2>11
<1>5. ASSUME NEW n \in S!Calls, CannotStart(n)
      PROVE  \A m \in S!Calls : ChildInv(m)'
  <2>1. /\ S!Becomes(n, "failed") /\ UNCHANGED <<calls, printed, interrupted>>
        /\ child[n].state \in {"start", "redirected"}
        /\ S!WriteOut(n, child[n].buffer)
    BY <1>5 DEF CannotStart, S!OpenFails, S!ExecFails, S!ReadyToExec
  <2>2. child[n].buffer \in Seq(Nat) /\ child[n].stdout \in {"terminal", "file"}
    BY <1>c DEF Children
  <2>3. /\ \A m \in S!Calls \ {n} : outputs'[m] = outputs[m]
        /\ \/ outputs'[n] = outputs[n] /\ child[n].stdout # "file"
           \/ child[n].stdout = "file" /\ outputs'[n] = outputs[n] \o child[n].buffer
    BY <1>t, <2>1, <2>2, Written
  <2>4. "failed" \notin {"running"} \cup S!Ends
    BY DEF S!Ends
  <2> QED
    BY <1>4, <2>1, <2>3, <2>4
<1>6. ASSUME NEW n \in S!Calls, S!Exec(n)
      PROVE  \A m \in S!Calls : ChildInv(m)'
  <2>1. /\ S!Becomes(n, "running") /\ UNCHANGED <<calls, printed, interrupted, outputs>>
        /\ child[n].state = (IF child[n].kind = "redirect" THEN "redirected" ELSE "start")
    BY <1>6 DEF S!Exec, S!ReadyToExec
  <2> QED
    BY <1>4, <2>1
<1>7. ASSUME NEW n \in S!Calls, S!Command(n)
      PROVE  \A m \in S!Calls : ChildInv(m)'
  <2>1. PICK end \in S!Ends : S!Becomes(n, end)
    BY <1>7 DEF S!Command
  <2>2. child[n].state = "running" /\ UNCHANGED <<calls, printed, interrupted>>
    BY <1>7 DEF S!Command
  <2>3. <<S!OUTPUT>> \in Seq(Nat) /\ child[n].stdout \in {"terminal", "file"}
    BY <1>c DEF S!OUTPUT, Children
  <2>4. /\ \A m \in S!Calls \ {n} : outputs'[m] = outputs[m]
        /\ \/ outputs'[n] = outputs[n]
           \/ child[n].stdout = "file" /\ outputs'[n] = outputs[n] \o <<S!OUTPUT>>
    <3>1. CASE S!WriteOut(n, <<S!OUTPUT>>)
      BY <1>t, <2>3, <3>1, Written
    <3>2. CASE UNCHANGED <<terminal, outputs>>
      BY <3>2
    <3> QED
      BY <1>7, <3>1, <3>2 DEF S!Command
  <2>5. end # "failed"
    BY <2>1 DEF S!Ends
  <2> QED
    BY <1>4, <2>1, <2>2, <2>4, <2>5
<1>8. ASSUME \/ UNCHANGED Svars
             \/ \E n \in S!Calls : S!ForkFails(n) \/ S!Wait(n) \/ S!WaitInterrupted(n)
             \/ S!PrintLine \/ S!Flush
      PROVE  UNCHANGED <<child, outputs>>
  BY <1>8 DEF Svars, S!ForkFails, S!Wait, S!WaitInterrupted, S!PrintLine, S!Flush
<1> QED
  BY <1>1, <1>2, <1>3, <1>5, <1>6, <1>7, <1>8, CallCases

LEMMA WithinConcat ==
  ASSUME NEW s \in Seq(Nat), NEW t \in Seq(Nat), NEW k,
         \A i \in DOMAIN s : s[i] \in 0..k, \A i \in DOMAIN t : t[i] \in 0..k
  PROVE  \A i \in DOMAIN (s \o t) : (s \o t)[i] \in 0..k
<1> DEFINE u == s \o t
           m == Len(s)
           l == Len(t)
<1>1. /\ u \in Seq(Nat) /\ Len(u) = m + l
      /\ \A i \in 1..(m + l) : u[i] = IF i <= m THEN s[i] ELSE t[i - m]
  BY ConcatProperties
<1>2. /\ m \in Nat /\ l \in Nat /\ DOMAIN s = 1..m /\ DOMAIN t = 1..l /\ DOMAIN u = 1..(m + l)
  BY <1>1
<1> HIDE DEF u, m, l
<1>3. ASSUME NEW i \in 1..(m + l)
      PROVE  u[i] \in 0..k
  <2>1. CASE i <= m
    <3>1. i \in 1..m
      BY <1>2, <2>1
    <3> QED
      BY <1>1, <1>2, <2>1, <3>1
  <2>2. CASE ~ (i <= m)
    <3>1. i - m \in 1..l
      BY <1>2, <2>2
    <3> QED
      BY <1>1, <1>2, <2>2, <3>1
  <2> QED
    BY <2>1, <2>2
<1> QED
  BY <1>2, <1>3 DEF u

LEMMA LinesStep ==
  ASSUME CallInv, CallTypes', [S!Next]_Svars
  PROVE  LinesInv'
<1>t. CallTypes /\ \A m \in S!Calls : ChildInv(m)
  BY DEF CallInv
<1>c. /\ child \in [S!Calls -> Children] /\ buffer \in Seq(Nat) /\ terminal \in Seq(Nat)
      /\ printed \in Nat
  BY <1>t DEF CallTypes
<1>l. OwnLines(buffer, printed) /\ \A i \in DOMAIN terminal : terminal[i] \in 0..printed
  BY DEF CallInv, LinesInv
<1>o. ASSUME NEW lines \in Seq(Nat), OwnLines(lines, printed)
      PROVE  \A i \in DOMAIN lines : lines[i] \in 0..printed
  BY <1>c, <1>o DEF OwnLines
<1>1. CASE UNCHANGED <<buffer, terminal, printed>>
  BY <1>1 DEF CallInv, LinesInv
<1>2. ASSUME NEW n \in S!Calls, NEW lines \in Seq(Nat), \A i \in DOMAIN lines : lines[i] \in 0..printed,
             S!WriteOut(n, lines), UNCHANGED <<buffer, printed>>
      PROVE  LinesInv'
  <2>1. terminal' = terminal \/ terminal' = terminal \o lines
    BY <1>2, <1>t, Written
  <2>2. \A i \in DOMAIN (terminal \o lines) : (terminal \o lines)[i] \in 0..printed
    BY <1>2, <1>c, <1>l, WithinConcat
  <2>3. \A i \in DOMAIN terminal' : terminal'[i] \in 0..printed'
    <3>1. CASE terminal' = terminal
      BY <1>2, <1>l, <3>1
    <3>2. CASE terminal' = terminal \o lines
      BY <1>2, <2>2, <3>2
    <3> QED
      BY <2>1, <3>1, <3>2
  <2> QED
    BY <1>2, <1>l, <2>3 DEF LinesInv
<1>3. ASSUME NEW n \in S!Calls, CannotStart(n)
      PROVE  LinesInv'
  <2>1. S!WriteOut(n, child[n].buffer) /\ UNCHANGED <<buffer, printed>>
    BY <1>3 DEF CannotStart, S!OpenFails, S!ExecFails
  <2>2. child[n].buffer \in Seq(Nat) /\ OwnLines(child[n].buffer, printed)
    BY <1>c, <1>t DEF Children, ChildInv
  <2> QED
    BY <1>2, <1>o, <2>1, <2>2
<1>4. ASSUME NEW n \in S!Calls, S!Command(n)
      PROVE  LinesInv'
  <2>1. <<S!OUTPUT>> \in Seq(Nat) /\ \A i \in DOMAIN <<S!OUTPUT>> : <<S!OUTPUT>>[i] \in 0..printed
    BY <1>c DEF S!OUTPUT
  <2>2. UNCHANGED <<buffer, printed>>
    BY <1>4 DEF S!Command
  <2>3. S!WriteOut(n, <<S!OUTPUT>>) \/ terminal' = terminal
    BY <1>4 DEF S!Command
  <2> QED
    BY <1>1, <1>2, <2>1, <2>2, <2>3
<1>5. CASE S!PrintLine
  <2> DEFINE k == printed + 1
             b == Append(buffer, k)
  <2>1. printed' = k /\ buffer' = b /\ terminal' = terminal
    BY <1>5 DEF S!PrintLine
  <2>2. k \in Nat /\ printed <= k /\ k \in 1..k /\ k \notin 1..printed
    BY <1>c
  <2>3. /\ Len(b) = Len(buffer) + 1 /\ b \in Seq(Nat)
        /\ \A i \in 1..Len(buffer) : b[i] = buffer[i]
        /\ b[Len(buffer) + 1] = k
    BY <1>c, <2>2, AppendProperties
  <2>4. DOMAIN b = 1..(Len(buffer) + 1) /\ DOMAIN buffer = 1..Len(buffer) /\ Len(buffer) \in Nat
    BY <1>c, <2>3
  <2>5. \A i \in DOMAIN b : i = Len(buffer) + 1 \/ i \in DOMAIN buffer
    BY <2>4
  <2>6. OwnLines(buffer, k)
    BY <1>c, <1>l, <2>2, LinesKept
  <2> HIDE DEF k, b
  <2>7. \A i \in DOMAIN b : b[i] \in 1..k
    BY <2>2, <2>3, <2>4, <2>5, <2>6 DEF OwnLines
  <2>8. Distinct(b)
    <3> SUFFICES ASSUME NEW i \in DOMAIN b, NEW j \in DOMAIN b, b[i] = b[j]
                 PROVE  i = j
      BY DEF Distinct
    <3>1. \A x \in DOMAIN buffer : b[x] = buffer[x] /\ buffer[x] # k
      BY <1>l, <2>2, <2>3, <2>4 DEF OwnLines
    <3>2. CASE i \in DOMAIN buffer /\ j \in DOMAIN buffer
      BY <1>l, <3>1, <3>2 DEF OwnLines, Distinct
    <3> QED
      BY <2>3, <2>5, <3>1, <3>2
  <2>9. \A i \in DOMAIN terminal : terminal[i] \in 0..k
    <3>1. \A x \in 0..printed : x \in 0..k
      BY <1>c, <2>2
    <3> QED
      BY <1>l, <3>1
  <2> QED
    BY <2>1, <2>7, <2>8, <2>9 DEF LinesInv, OwnLines
<1>6. CASE S!Flush
  <2>1. terminal' = terminal \o buffer /\ buffer' = << >> /\ printed' = printed
    BY <1>6 DEF S!Flush
  <2>2. \A i \in DOMAIN (terminal \o buffer) : (terminal \o buffer)[i] \in 0..printed
    BY <1>c, <1>l, <1>o, WithinConcat
  <2>3. OwnLines(<< >>, printed)
    BY DEF OwnLines, Distinct
  <2> QED
    BY <2>1, <2>2, <2>3 DEF LinesInv
<1>7. ASSUME \/ UNCHANGED Svars
             \/ \E n \in S!Calls :
                  \/ \E kind \in {"system", "exec", "redirect"} : S!Fork(n, kind)
                  \/ S!ForkFails(n) \/ S!Redirect(n) \/ S!Exec(n) \/ S!Wait(n) \/ S!WaitInterrupted(n)
      PROVE  UNCHANGED <<buffer, terminal, printed>>
  BY <1>7 DEF Svars, S!Fork, S!ForkFails, S!Redirect, S!Exec, S!Wait, S!WaitInterrupted
<1> QED
  BY <1>1, <1>3, <1>4, <1>5, <1>6, <1>7, CallCases

LEMMA WaitStep ==
  ASSUME CallInv, CallTypes', [S!Next]_Svars
  PROVE  WaitInv'
<1>t. CallTypes /\ child \in [S!Calls -> Children] /\ WaitInv
  BY DEF CallInv, CallTypes
<1>1. CASE UNCHANGED <<calls, waiting, child>>
  BY <1>1, <1>t DEF WaitInv
<1>2. ASSUME NEW n \in S!Calls, NEW kind \in {"system", "exec", "redirect"}, S!Fork(n, kind)
      PROVE  WaitInv'
  <2>1. calls' = n /\ child'[n].kind = kind
    BY <1>2, <1>t DEF S!Fork
  <2> QED
    BY <2>1 DEF WaitInv
<1>3. ASSUME NEW n \in S!Calls, S!ForkFails(n) \/ S!Wait(n) \/ S!WaitInterrupted(n)
      PROVE  WaitInv'
  BY <1>3 DEF S!ForkFails, S!Wait, S!WaitInterrupted, WaitInv
<1>4. ASSUME UNCHANGED <<calls, waiting>>, \A m \in S!Calls : child'[m].kind = child[m].kind
      PROVE  WaitInv'
  BY <1>4, <1>t DEF WaitInv
<1>5. ASSUME NEW n \in S!Calls, S!Redirect(n) \/ CannotStart(n) \/ S!Exec(n) \/ S!Command(n)
      PROVE  UNCHANGED <<calls, waiting>> /\ \A m \in S!Calls : child'[m].kind = child[m].kind
  <2>1. CASE S!Redirect(n)
    BY <1>t, <2>1 DEF S!Redirect, Children
  <2>2. CASE CannotStart(n) \/ S!Exec(n) \/ S!Command(n)
    <3>1. \E state \in {"running", "failed"} \cup S!Ends : S!Becomes(n, state)
      BY <2>2 DEF CannotStart, S!OpenFails, S!ExecFails, S!Exec, S!Command
    <3>2. UNCHANGED <<calls, waiting>>
      BY <2>2 DEF CannotStart, S!OpenFails, S!ExecFails, S!Exec, S!Command
    <3>3. \A m \in S!Calls : child'[m].kind = child[m].kind
      BY <1>t, <3>1, NewState
    <3> QED
      BY <3>2, <3>3
  <2> QED
    BY <1>5, <2>1, <2>2
<1>6. ASSUME UNCHANGED Svars \/ S!PrintLine \/ S!Flush
      PROVE  UNCHANGED <<calls, waiting, child>>
  BY <1>6 DEF Svars, S!PrintLine, S!Flush
<1> QED
  BY <1>1, <1>2, <1>3, <1>4, <1>5, <1>6, CallCases

LEMMA CallInductive == S!Spec => []CallInv
<1>1. S!Init => CallInv
  <2> SUFFICES ASSUME S!Init
               PROVE  CallInv
    OBVIOUS
  <2>1. << >> \in Seq(Nat) /\ S!NoChild \in Children
    BY DEF Children, S!NoChild
  <2>2. CallTypes
    <3>1. /\ outputs \in [S!Calls -> Seq(Nat)] /\ child \in [S!Calls -> Children]
          /\ returned \in [S!Calls -> BOOLEAN]
      BY <2>1 DEF S!Init
    <3> QED
      <4>1. calls = 0 /\ 0 \in 0..MaxCalls /\ waiting = FALSE /\ printed = 0
        BY BoundAssumption DEF S!Init
      <4>2. buffer = << >> /\ terminal = << >>
        BY DEF S!Init
      <4> QED
        BY <2>1, <3>1, <4>1, <4>2 DEF CallTypes
  <2>3. \A k : OwnLines(<< >>, k)
    BY DEF OwnLines, Distinct
  <2>4. \A n \in S!Calls : ChildInv(n)
    BY <2>3 DEF S!Init, S!NoChild, ChildInv, S!Ends
  <2> QED
    BY <2>2, <2>3, <2>4 DEF S!Init, CallInv, WaitInv, LinesInv
<1>2. CallInv /\ [S!Next]_(S!vars) => CallInv'
  <2> SUFFICES ASSUME CallInv, [S!Next]_Svars
               PROVE  CallInv'
    BY DEF S!vars, Svars
  <2>1. CallTypes'
    BY CallTypesStep DEF CallInv
  <2> QED
    BY <2>1, ChildStep, LinesStep, WaitStep DEF CallInv
<1> QED
  BY <1>1, <1>2, PTL DEF S!Spec

\* A call that has returned, as ReturnsWhenOver has it.
Over(m) ==
  S!Returned(m) /\ m \notin interrupted =>
    /\ child[m].kind # "none" => S!HasEnded(m) /\ m \in reaped
    /\ returned[m] <=> child[m].state = "exit zero"

LEMMA OverStep ==
  ASSUME CallInv, CallInv', \A m \in S!Calls : Over(m), [S!Next]_Svars, NEW m \in S!Calls
  PROVE  Over(m)'
<1>t. /\ CallTypes /\ calls \in 0..MaxCalls /\ m \in 1..MaxCalls /\ MaxCalls \in Nat
      /\ child \in [S!Calls -> Children] /\ returned \in [S!Calls -> BOOLEAN]
      /\ ChildInv(m)
  BY BoundAssumption DEF CallInv, CallTypes, S!Calls
<1>k. ASSUME child'[m] = child[m], returned'[m] = returned[m], reaped \subseteq reaped',
             interrupted \subseteq interrupted', S!Returned(m)' => S!Returned(m)
      PROVE  Over(m)'
  BY <1>k DEF Over, S!HasEnded
<1>1. CASE UNCHANGED Svars \/ S!PrintLine \/ S!Flush
  BY <1>1, <1>k DEF Svars, S!PrintLine, S!Flush, S!Returned
<1>2. ASSUME NEW n \in S!Calls, NEW kind \in {"system", "exec", "redirect"}, S!Fork(n, kind)
      PROVE  Over(m)'
  <2>1. calls' = calls + 1 /\ n = calls + 1 /\ waiting' = TRUE /\ ~waiting
    BY <1>2 DEF S!Fork
  <2>2. CASE m = n
    <3>1. ~S!Returned(m)'
      BY <1>t, <2>1, <2>2 DEF S!Returned
    <3> QED
      BY <3>1 DEF Over
  <2>3. CASE m # n
    <3>1. S!Returned(m)' => S!Returned(m)
      BY <1>t, <2>1, <2>3 DEF S!Returned
    <3> QED
      BY <1>2, <1>k, <1>t, <2>3, <3>1 DEF S!Fork
  <2> QED
    BY <2>2, <2>3
<1>3. ASSUME NEW n \in S!Calls, S!ForkFails(n)
      PROVE  Over(m)'
  <2>1. calls' = calls + 1 /\ n = calls + 1 /\ ~waiting /\ child' = child
        /\ returned' = [returned EXCEPT ![n] = FALSE]
    BY <1>3 DEF S!ForkFails
  <2>2. CASE m = n
    <3>1. m > calls
      BY <1>t, <2>1, <2>2
    <3>2. child'[m].kind = "none" /\ child'[m].state = "none"
      BY <1>t, <2>1, <3>1 DEF ChildInv
    <3>3. returned'[m] = FALSE
      BY <1>t, <2>1, <2>2
    <3> QED
      BY <3>2, <3>3 DEF Over
  <2>3. CASE m # n
    <3>1. S!Returned(m)' => S!Returned(m)
      BY <1>t, <2>1, <2>3 DEF S!Returned
    <3> QED
      BY <1>3, <1>k, <1>t, <2>1, <2>3, <3>1 DEF S!ForkFails
  <2> QED
    BY <2>2, <2>3
<1>4. ASSUME NEW n \in S!Calls, S!Redirect(n) \/ CannotStart(n) \/ S!Exec(n) \/ S!Command(n)
      PROVE  Over(m)'
  <2>1. UNCHANGED <<calls, waiting, returned, reaped, interrupted>>
    BY <1>4 DEF S!Redirect, CannotStart, S!OpenFails, S!ExecFails, S!Exec, S!Command
  <2>2. S!Returned(m)' <=> S!Returned(m)
    BY <2>1 DEF S!Returned
  <2>3. child[n].state \in {"start", "redirected", "running"}
    BY <1>4 DEF S!Redirect, CannotStart, S!OpenFails, S!ExecFails, S!Exec, S!Command, S!ReadyToExec
  <2>4. CASE m = n
    <3>1. ~S!HasEnded(m) /\ child[m].kind # "none"
      BY <1>t, <2>3, <2>4 DEF S!HasEnded, S!Ends, ChildInv
    <3>2. ~ (S!Returned(m) /\ m \notin interrupted)
      BY <3>1 DEF Over
    <3> QED
      BY <2>1, <2>2, <3>2 DEF Over
  <2>5. CASE m # n
    <3>1. child'[m] = child[m]
      BY <1>4, <1>t, <2>5 DEF S!Redirect, CannotStart, S!OpenFails, S!ExecFails, S!Exec, S!Command, S!Becomes
    <3> QED
      BY <1>k, <2>1, <2>2, <3>1
  <2> QED
    BY <2>4, <2>5
<1>5. ASSUME NEW n \in S!Calls, S!Wait(n) \/ S!WaitInterrupted(n)
      PROVE  Over(m)'
  <2>1. calls' = calls /\ n = calls /\ child' = child
    BY <1>5 DEF S!Wait, S!WaitInterrupted
  <2>2. CASE m = n /\ S!Wait(n)
    <3>1. S!HasEnded(m) /\ m \in reaped' /\ returned'[m] = S!Succeeded(m)
      BY <1>t, <2>2 DEF S!Wait
    <3>2. S!HasEnded(m)'
      BY <2>1, <3>1 DEF S!HasEnded
    <3> QED
      BY <2>1, <3>1, <3>2 DEF Over, S!Succeeded
  <2>3. CASE m = n /\ S!WaitInterrupted(n)
    BY <2>3 DEF S!WaitInterrupted, Over
  <2>4. CASE m # n
    <3>1. S!Returned(m)' => S!Returned(m)
      BY <2>1, <2>4 DEF S!Returned
    <3>2. /\ returned'[m] = returned[m] /\ reaped \subseteq reaped' /\ interrupted \subseteq interrupted'
      BY <1>5, <1>t, <2>4 DEF S!Wait, S!WaitInterrupted
    <3> QED
      BY <1>k, <2>1, <3>1, <3>2
  <2> QED
    BY <1>5, <2>2, <2>3, <2>4
<1> QED
  BY <1>1, <1>2, <1>3, <1>4, <1>5, CallCases

(***************************************************************************)
(* However many calls there are and whatever their children do, a call     *)
(* that returns leaves neither a running process nor a zombie and reports  *)
(* exactly whether its command exited with 0, unless a signal interrupted  *)
(* its waitpid.                                                            *)
(***************************************************************************)
THEOREM CallIsOver == S!Spec => []ReturnsWhenOver
<1> DEFINE AllOver == \A m \in S!Calls : Over(m)
<1>1. S!Init => AllOver
  <2>1. ASSUME S!Init, NEW m \in S!Calls
        PROVE  child[m].kind = "none" /\ child[m].state # "exit zero" /\ returned[m] = FALSE
    BY <2>1 DEF S!Init, S!NoChild
  <2> QED
    BY <2>1 DEF Over
<1>2. CallInv /\ CallInv' /\ AllOver /\ [S!Next]_(S!vars) => AllOver'
  <2>1. [S!Next]_(S!vars) => [S!Next]_Svars
    BY DEF S!vars, Svars
  <2> QED
    BY <2>1, OverStep
<1>3. AllOver => ReturnsWhenOver
  BY DEF Over, ReturnsWhenOver, S!ReturnsWhenOver
<1> HIDE DEF AllOver
<1> QED
  BY <1>1, <1>2, <1>3, CallInductive, PTL DEF S!Spec

\* The calls without redirection whose command has ended.
Done == {n \in S!Calls : child[n].kind \in {"system", "exec"} /\ child[n].state \in S!Ends}

OutputInv == S!Copies(S!OUTPUT, terminal) <= Cardinality(Done)

LEMMA CallsFinite ==
  \A A \in SUBSET S!Calls : IsFiniteSet(A) /\ Cardinality(A) \in Nat
<1>1. IsFiniteSet(S!Calls)
  BY FS_Interval, BoundAssumption DEF S!Calls
<1> QED
  BY <1>1, FS_Subset, FS_CardinalityType

LEMMA OutputStep ==
  ASSUME CallInv, CallInv', OutputInv, [S!Next]_Svars
  PROVE  OutputInv'
<1>t. /\ CallTypes /\ terminal \in Seq(Nat) /\ buffer \in Seq(Nat) /\ printed \in Nat
      /\ child \in [S!Calls -> Children] /\ \A n \in S!Calls : ChildInv(n)
  BY DEF CallInv, CallTypes
<1>s. S!Copies(S!OUTPUT, terminal) \in Nat /\ Cardinality(Done) \in Nat /\ IsFiniteSet(Done)
  <2>1. Done \in SUBSET S!Calls
    BY DEF Done
  <2> QED
    BY <1>t, <2>1, CopiesCount, CallsFinite
<1>o. ASSUME NEW lines \in Seq(Nat), OwnLines(lines, printed)
      PROVE  S!Copies(S!OUTPUT, terminal \o lines) = S!Copies(S!OUTPUT, terminal)
  <2>1. \A i \in DOMAIN lines : lines[i] # S!OUTPUT
    BY <1>o, <1>t DEF OwnLines, S!OUTPUT
  <2>2. S!Copies(S!OUTPUT, lines) = 0
    BY <2>1, CopiesOfNone
  <2>3. S!Copies(S!OUTPUT, terminal \o lines) = S!Copies(S!OUTPUT, terminal) + S!Copies(S!OUTPUT, lines)
    BY <1>o, <1>t, CopiesConcat DEF OwnLines
  <2> QED
    BY <1>s, <2>2, <2>3
<1>1. ASSUME \/ UNCHANGED Svars
             \/ \E n \in S!Calls : S!ForkFails(n) \/ S!Wait(n) \/ S!WaitInterrupted(n)
             \/ S!PrintLine
      PROVE  UNCHANGED <<child, terminal>>
  BY <1>1 DEF Svars, S!ForkFails, S!Wait, S!WaitInterrupted, S!PrintLine
<1>2. CASE UNCHANGED <<child, terminal>>
  BY <1>2 DEF OutputInv, Done
<1>3. ASSUME NEW n \in S!Calls, NEW kind \in {"system", "exec", "redirect"}, S!Fork(n, kind)
      PROVE  OutputInv'
  <2>1. child[n].state = "none"
    <3>1. n > calls
      BY <1>3, <1>t DEF S!Fork, CallTypes
    <3> QED
      BY <1>t, <3>1 DEF ChildInv
  <2>2. child'[n].state = "start" /\ \A m \in S!Calls \ {n} : child'[m] = child[m]
    BY <1>3, <1>t DEF S!Fork
  <2>3. Done' = Done
    BY <2>1, <2>2 DEF Done, S!Ends
  <2> QED
    BY <1>3, <2>3 DEF OutputInv, S!Fork
<1>4. ASSUME NEW n \in S!Calls, S!Redirect(n) \/ CannotStart(n) \/ S!Exec(n)
      PROVE  OutputInv'
  <2>1. child[n].state \in {"start", "redirected"}
    BY <1>4 DEF S!Redirect, CannotStart, S!OpenFails, S!ExecFails, S!Exec, S!ReadyToExec
  <2>2. child'[n].state \in {"redirected", "failed", "running"} /\ \A m \in S!Calls \ {n} : child'[m] = child[m]
    <3>1. CASE S!Redirect(n)
      BY <1>t, <3>1 DEF S!Redirect, Children
    <3>2. CASE CannotStart(n) \/ S!Exec(n)
      <4>1. S!Becomes(n, "failed") \/ S!Becomes(n, "running")
        BY <3>2 DEF CannotStart, S!OpenFails, S!ExecFails, S!Exec
      <4> QED
        BY <1>t, <4>1, NewState
    <3> QED
      BY <1>4, <3>1, <3>2
  <2>3. Done' = Done
    BY <2>1, <2>2 DEF Done, S!Ends
  <2>4. S!Copies(S!OUTPUT, terminal') = S!Copies(S!OUTPUT, terminal)
    <3>1. CASE CannotStart(n)
      <4>1. child[n].buffer \in Seq(Nat) /\ OwnLines(child[n].buffer, printed)
        BY <1>t DEF Children, ChildInv
      <4>2. S!WriteOut(n, child[n].buffer)
        BY <3>1 DEF CannotStart, S!OpenFails, S!ExecFails
      <4>3. terminal' = terminal \/ terminal' = terminal \o child[n].buffer
        BY <1>t, <4>1, <4>2, Written
      <4>4. S!Copies(S!OUTPUT, terminal \o child[n].buffer) = S!Copies(S!OUTPUT, terminal)
        BY <1>o, <4>1
      <4>5. CASE terminal' = terminal
        BY <4>5
      <4>6. CASE terminal' = terminal \o child[n].buffer
        BY <4>4, <4>6
      <4> QED
        BY <4>3, <4>5, <4>6
    <3>2. CASE S!Redirect(n) \/ S!Exec(n)
      BY <3>2 DEF S!Redirect, S!Exec
    <3> QED
      BY <1>4, <3>1, <3>2
  <2>5. S!Copies(S!OUTPUT, terminal)' = S!Copies(S!OUTPUT, terminal')
    BY DEF S!Copies, S!OUTPUT
  <2> QED
    BY <2>3, <2>4, <2>5 DEF OutputInv
<1>5. ASSUME NEW n \in S!Calls, S!Command(n)
      PROVE  OutputInv'
  <2>1. PICK end \in S!Ends : S!Becomes(n, end)
    BY <1>5 DEF S!Command
  <2>2. child[n].state = "running"
    BY <1>5 DEF S!Command
  <2>3. /\ child'[n].state \in S!Ends /\ child'[n].kind = child[n].kind
        /\ \A m \in S!Calls \ {n} : child'[m] = child[m]
    BY <1>t, <2>1, NewState
  <2>4. n \notin Done
    BY <2>2 DEF Done, S!Ends
  <2>5. <<S!OUTPUT>> \in Seq(Nat) /\ Distinct(<<S!OUTPUT>>)
    BY DEF S!OUTPUT, Distinct
  <2>6. CASE child[n].kind \in {"system", "exec"}
    <3>1. Done' = Done \cup {n}
      BY <2>3, <2>6 DEF Done
    <3>2. Cardinality(Done') = Cardinality(Done) + 1
      BY <1>s, <2>4, <3>1, FS_AddElement
    <3>3. S!Copies(S!OUTPUT, terminal') <= S!Copies(S!OUTPUT, terminal) + 1
      <4>1. CASE terminal' = terminal
        BY <1>s, <4>1
      <4>2. CASE terminal' = terminal \o <<S!OUTPUT>>
        <5>1. /\ S!Copies(S!OUTPUT, terminal \o <<S!OUTPUT>>)
                   = S!Copies(S!OUTPUT, terminal) + S!Copies(S!OUTPUT, <<S!OUTPUT>>)
              /\ S!Copies(S!OUTPUT, <<S!OUTPUT>>) \in {0, 1}
          BY <1>t, <2>5, CopiesConcat
        <5> QED
          BY <1>s, <4>2, <5>1
      <4>3. terminal' = terminal \/ terminal' = terminal \o <<S!OUTPUT>>
        BY <1>5, <1>t, <2>5, Written DEF S!Command
      <4> QED
        BY <4>1, <4>2, <4>3
    <3>4. S!Copies(S!OUTPUT, terminal') \in Nat
      <4>1. terminal' \in Seq(Nat)
        BY DEF CallInv, CallTypes
      <4> QED
        BY <4>1, CopiesCount
    <3>5. S!Copies(S!OUTPUT, terminal)' = S!Copies(S!OUTPUT, terminal')
      BY DEF S!Copies, S!OUTPUT
    <3> QED
      BY <1>s, <3>2, <3>3, <3>4, <3>5 DEF OutputInv
  <2>7. CASE child[n].kind \notin {"system", "exec"}
    <3>1. Done' = Done
      BY <2>3, <2>4, <2>7 DEF Done
    <3>2. child[n].stdout # "terminal"
      <4>1. child[n].kind = "redirect"
        BY <1>t, <2>2, <2>7 DEF ChildInv, Children
      <4> QED
        BY <1>t, <2>2, <4>1 DEF ChildInv
    <3>3. terminal' = terminal
      BY <1>5, <1>t, <2>5, <3>2, Written DEF S!Command
    <3> QED
      BY <3>1, <3>3 DEF OutputInv
  <2> QED
    BY <2>6, <2>7
<1>6. CASE S!Flush
  <2>1. child' = child /\ terminal' = terminal \o buffer /\ OwnLines(buffer, printed)
    BY <1>6 DEF S!Flush, CallInv, LinesInv
  <2>2. S!Copies(S!OUTPUT, terminal') = S!Copies(S!OUTPUT, terminal)
    BY <1>o, <1>t, <2>1
  <2>3. S!Copies(S!OUTPUT, terminal)' = S!Copies(S!OUTPUT, terminal') /\ Done' = Done
    BY <2>1 DEF S!Copies, S!OUTPUT, Done
  <2> QED
    BY <2>2, <2>3 DEF OutputInv
<1> QED
  BY <1>1, <1>2, <1>3, <1>4, <1>5, <1>6, CallCases

(***************************************************************************)
(* What a redirected command prints is in its own file and never on the    *)
(* terminal, for any number of calls: the terminal has at most one line of *)
(* each command that was not redirected and that has ended.                *)
(***************************************************************************)
THEOREM CallOutput == S!Spec => []OutputGoesToFile
<1>1. S!Init => OutputInv
  <2> SUFFICES ASSUME S!Init
               PROVE  OutputInv
    OBVIOUS
  <2>1. S!Copies(S!OUTPUT, << >>) = 0
    <3>1. << >> \in Seq(Nat) /\ \A i \in DOMAIN << >> : << >>[i] # S!OUTPUT
      OBVIOUS
    <3> QED
      BY <3>1, CopiesOfNone
  <2>2. Cardinality(Done) \in Nat
    BY CallsFinite DEF Done
  <2> QED
    BY <2>1, <2>2 DEF S!Init, OutputInv
<1>2. CallInv /\ CallInv' /\ OutputInv /\ [S!Next]_(S!vars) => OutputInv'
  <2>1. [S!Next]_(S!vars) => [S!Next]_Svars
    BY DEF S!vars, Svars
  <2> QED
    BY <2>1, OutputStep
<1>3. CallInv /\ OutputInv => OutputGoesToFile
  <2> SUFFICES ASSUME CallInv, OutputInv
               PROVE  OutputGoesToFile
    OBVIOUS
  <2>1. \A n \in S!Calls : outputs[n] # << >> => child[n].kind = "redirect"
    BY DEF CallInv, CallTypes, Children, ChildInv
  <2>2. S!Copies(S!OUTPUT, terminal) <=
          S!Cardinality({n \in S!Calls : child[n].kind \in {"system", "exec"} /\ child[n].state \in S!Ends})
    BY SameCardinality DEF OutputInv, Done
  <2> QED
    BY <2>1, <2>2 DEF OutputGoesToFile, S!OutputGoesToFile
<1> QED
  BY <1>1, <1>2, <1>3, CallInductive, PTL DEF S!Spec

\* The children that write a line of their parent's buffer to the terminal once more.
Doubled(line) ==
  {n \in S!Calls : /\ child[n].state = "failed"
                   /\ S!Copies(line, child[n].buffer) = 1
                   /\ child[n].stdout = "terminal"}

Counted(line) ==
  S!Copies(line, terminal) + S!Copies(line, buffer) = 1 + Cardinality(Doubled(line))

LEMMA CopiesOfOwn ==
  ASSUME NEW lines \in Seq(Nat), NEW k \in Nat, OwnLines(lines, k)
  PROVE  /\ \A x : S!Copies(x, lines) \in {0, 1}
         /\ \A x : x \notin 1..k => S!Copies(x, lines) = 0
<1>1. Distinct(lines) /\ \A i \in DOMAIN lines : lines[i] \in 1..k
  BY DEF OwnLines
<1>2. ASSUME NEW x
      PROVE  S!Copies(x, lines) \in {0, 1}
  BY <1>1, CopiesConcat
<1>3. ASSUME NEW x, x \notin 1..k
      PROVE  S!Copies(x, lines) = 0
  <2>1. \A i \in DOMAIN lines : lines[i] # x
    BY <1>1, <1>3
  <2> QED
    BY <2>1, CopiesOfNone
<1> QED
  BY <1>2, <1>3

\* A step that leaves the output and the children that have failed alone.
LEMMA CountKept ==
  ASSUME NEW line, Counted(line), UNCHANGED <<terminal, buffer>>,
         \A n \in S!Calls : \/ child'[n] = child[n]
                            \/ child[n].state # "failed" /\ child'[n].state # "failed"
  PROVE  Counted(line)'
<1>1. \A n \in S!Calls : n \in Doubled(line)' <=> n \in Doubled(line)
  <2> SUFFICES ASSUME NEW n \in S!Calls
               PROVE  n \in Doubled(line)' <=> n \in Doubled(line)
    OBVIOUS
  <2>1. CASE child'[n] = child[n]
    <3>1. S!Copies(line, child[n].buffer)' = S!Copies(line, child[n].buffer)
      BY <2>1 DEF S!Copies
    <3> QED
      BY <2>1, <3>1 DEF Doubled
  <2>2. CASE child[n].state # "failed" /\ child'[n].state # "failed"
    BY <2>2 DEF Doubled
  <2> QED
    BY <2>1, <2>2
<1>2. Doubled(line)' = Doubled(line)
  BY <1>1 DEF Doubled
<1>3. S!Copies(line, terminal)' = S!Copies(line, terminal) /\ S!Copies(line, buffer)' = S!Copies(line, buffer)
  BY DEF S!Copies
<1> QED
  BY <1>2, <1>3 DEF Counted

LEMMA CountStep ==
  ASSUME CallInv, CallInv', \A l \in 1..printed : Counted(l), [S!Next]_Svars, NEW line \in 1..printed'
  PROVE  Counted(line)'
<1>t. /\ CallTypes /\ terminal \in Seq(Nat) /\ buffer \in Seq(Nat) /\ printed \in Nat
      /\ terminal' \in Seq(Nat) /\ buffer' \in Seq(Nat)
      /\ child \in [S!Calls -> Children] /\ \A n \in S!Calls : ChildInv(n)
      /\ OwnLines(buffer, printed)
  BY DEF CallInv, CallTypes, LinesInv
<1>c. ASSUME NEW l
      PROVE  /\ S!Copies(l, terminal) \in Nat /\ S!Copies(l, buffer) \in Nat
             /\ IsFiniteSet(Doubled(l)) /\ Cardinality(Doubled(l)) \in Nat
  <2>1. Doubled(l) \in SUBSET S!Calls
    BY DEF Doubled
  <2> QED
    BY <1>t, <2>1, CopiesCount, CallsFinite
<1>p. /\ \A l : S!Copies(l, terminal)' = S!Copies(l, terminal')
      /\ \A l : S!Copies(l, buffer)' = S!Copies(l, buffer')
  BY DEF S!Copies
<1>k. ASSUME UNCHANGED <<terminal, buffer, printed>>,
             \A n \in S!Calls : \/ child'[n] = child[n]
                                \/ child[n].state # "failed" /\ child'[n].state # "failed"
      PROVE  Counted(line)'
  BY <1>k, CountKept
<1>1. ASSUME \/ UNCHANGED Svars
             \/ \E n \in S!Calls : S!ForkFails(n) \/ S!Wait(n) \/ S!WaitInterrupted(n)
      PROVE  Counted(line)'
  <2>1. UNCHANGED <<terminal, buffer, printed, child>>
    BY <1>1 DEF Svars, S!ForkFails, S!Wait, S!WaitInterrupted
  <2> QED
    BY <1>k, <2>1
<1>2. ASSUME NEW n \in S!Calls, NEW kind \in {"system", "exec", "redirect"}, S!Fork(n, kind)
      PROVE  Counted(line)'
  <2>1. child[n].state # "failed"
    <3>1. n > calls
      BY <1>2, <1>t DEF S!Fork, CallTypes
    <3> QED
      BY <1>t, <3>1 DEF ChildInv
  <2>2. child'[n].state = "start" /\ \A m \in S!Calls \ {n} : child'[m] = child[m]
    BY <1>2, <1>t DEF S!Fork
  <2>3. UNCHANGED <<terminal, buffer, printed>>
    BY <1>2 DEF S!Fork
  <2> QED
    BY <1>k, <2>1, <2>2, <2>3
<1>3. ASSUME NEW n \in S!Calls, S!Redirect(n) \/ S!Exec(n)
      PROVE  Counted(line)'
  <2>1. child[n].state \in {"start", "redirected"} /\ UNCHANGED <<terminal, buffer, printed>>
    BY <1>3 DEF S!Redirect, S!Exec, S!ReadyToExec
  <2>2. child'[n].state # "failed" /\ \A m \in S!Calls \ {n} : child'[m] = child[m]
    <3>1. CASE S!Redirect(n)
      BY <1>t, <3>1 DEF S!Redirect, Children
    <3>2. CASE S!Exec(n)
      BY <1>t, <3>2, NewState DEF S!Exec
    <3> QED
      BY <1>3, <3>1, <3>2
  <2> QED
    BY <1>k, <2>1, <2>2
<1>4. ASSUME NEW n \in S!Calls, CannotStart(n)
      PROVE  Counted(line)'
  <2>1. /\ S!WriteOut(n, child[n].buffer) /\ S!Becomes(n, "failed") /\ UNCHANGED <<buffer, printed>>
        /\ child[n].state \in {"start", "redirected"}
    BY <1>4 DEF CannotStart, S!OpenFails, S!ExecFails, S!ReadyToExec
  <2>2. child[n].buffer \in Seq(Nat) /\ OwnLines(child[n].buffer, printed) /\ Distinct(child[n].buffer)
    BY <1>t DEF Children, ChildInv, OwnLines
  <2>3. /\ child'[n].state = "failed" /\ child'[n].stdout = child[n].stdout
        /\ child'[n].buffer = child[n].buffer
        /\ \A m \in S!Calls \ {n} : child'[m] = child[m]
    BY <1>t, <2>1, NewState
  <2>4. line \in 1..printed /\ Counted(line)
    BY <2>1
  <2>5. n \notin Doubled(line)
    BY <2>1 DEF Doubled
  <2>6. \A m \in S!Calls \ {n} : m \in Doubled(line)' <=> m \in Doubled(line)
    <3> SUFFICES ASSUME NEW m \in S!Calls \ {n}
                 PROVE  m \in Doubled(line)' <=> m \in Doubled(line)
      OBVIOUS
    <3>1. S!Copies(line, child[m].buffer)' = S!Copies(line, child[m].buffer)
      BY <2>3 DEF S!Copies
    <3> QED
      BY <2>3, <3>1 DEF Doubled
  <2>7. n \in Doubled(line)' <=> S!Copies(line, child[n].buffer) = 1 /\ child[n].stdout = "terminal"
    <3>1. S!Copies(line, child[n].buffer)' = S!Copies(line, child[n].buffer)
      BY <2>3 DEF S!Copies
    <3> QED
      BY <2>3, <3>1 DEF Doubled
  <2>8. Doubled(line)' \subseteq S!Calls /\ Doubled(line) \subseteq S!Calls
    BY DEF Doubled
  <2>9. S!Copies(line, buffer)' = S!Copies(line, buffer)
    BY <2>1 DEF S!Copies
  <2>10. /\ S!Copies(line, terminal \o child[n].buffer)
              = S!Copies(line, terminal) + S!Copies(line, child[n].buffer)
         /\ S!Copies(line, child[n].buffer) \in {0, 1}
    BY <1>t, <2>2, CopiesConcat
  <2>11. CASE child[n].stdout # "terminal" \/ S!Copies(line, child[n].buffer) = 0
    <3>1. Doubled(line)' = Doubled(line)
      BY <2>5, <2>6, <2>7, <2>8, <2>11
    <3>2. S!Copies(line, terminal') = S!Copies(line, terminal)
      <4>1. CASE terminal' = terminal
        BY <4>1
      <4>2. CASE terminal' = terminal \o child[n].buffer /\ S!Copies(line, child[n].buffer) = 0
        BY <1>c, <2>10, <4>2
      <4>3. terminal' = terminal \/ (child[n].stdout = "terminal" /\ terminal' = terminal \o child[n].buffer)
        BY <1>t, <2>1, <2>2, Written
      <4> QED
        BY <2>11, <4>1, <4>2, <4>3
    <3> QED
      BY <1>p, <2>4, <2>9, <3>1, <3>2 DEF Counted
  <2>12. CASE child[n].stdout = "terminal" /\ S!Copies(line, child[n].buffer) = 1
    <3>1. Doubled(line)' = Doubled(line) \cup {n}
      BY <2>6, <2>7, <2>8, <2>12
    <3>2. Cardinality(Doubled(line)') = Cardinality(Doubled(line)) + 1
      BY <1>c, <2>5, <3>1, FS_AddElement
    <3>3. terminal' = terminal \o child[n].buffer
      BY <1>t, <2>1, <2>2, <2>12, Written
    <3>4. S!Copies(line, terminal') = S!Copies(line, terminal) + 1
      BY <2>10, <2>12, <3>3
    <3> DEFINE a == S!Copies(line, terminal)
               b == S!Copies(line, buffer)
               d == Cardinality(Doubled(line))
    <3>5. a \in Nat /\ b \in Nat /\ d \in Nat /\ a + b = 1 + d
      BY <1>c, <2>4 DEF Counted
    <3>6. S!Copies(line, terminal)' = a + 1 /\ S!Copies(line, buffer)' = b
          /\ Cardinality(Doubled(line))' = d + 1
      BY <1>p, <2>9, <3>2, <3>4
    <3> HIDE DEF a, b, d
    <3>7. (a + 1) + b = 1 + (d + 1)
      BY <3>5
    <3> QED
      BY <3>6, <3>7 DEF Counted
  <2> QED
    BY <2>10, <2>11, <2>12
<1>5. ASSUME NEW n \in S!Calls, S!Command(n)
      PROVE  Counted(line)'
  <2>1. PICK end \in S!Ends : S!Becomes(n, end)
    BY <1>5 DEF S!Command
  <2>2. child[n].state = "running" /\ UNCHANGED <<buffer, printed>>
    BY <1>5 DEF S!Command
  <2>3. child'[n].state # "failed" /\ \A m \in S!Calls \ {n} : child'[m] = child[m]
    BY <1>t, <2>1, NewState DEF S!Ends
  <2>4. CASE terminal' = terminal
    BY <1>k, <2>2, <2>3, <2>4
  <2>5. CASE terminal' = terminal \o <<S!OUTPUT>>
    <3>1. <<S!OUTPUT>> \in Seq(Nat) /\ Distinct(<<S!OUTPUT>>)
      BY DEF S!OUTPUT, Distinct
    <3>2. \A i \in DOMAIN <<S!OUTPUT>> : <<S!OUTPUT>>[i] # line
      BY <1>t, <2>2 DEF S!OUTPUT
    <3>3. S!Copies(line, <<S!OUTPUT>>) = 0
      BY <3>1, <3>2, CopiesOfNone
    <3>4. S!Copies(line, terminal \o <<S!OUTPUT>>) = S!Copies(line, terminal) + S!Copies(line, <<S!OUTPUT>>)
      <4> DEFINE new == <<S!OUTPUT>>
      <4>1. new \in Seq(Nat) /\ Distinct(new) /\ terminal \in Seq(Nat)
        BY <1>t, <3>1
      <4> HIDE DEF new
      <4>2. S!Copies(line, terminal \o new) = S!Copies(line, terminal) + S!Copies(line, new)
        BY <4>1, CopiesConcat
      <4> QED
        BY <4>2 DEF new
    <3>5. S!Copies(line, terminal') = S!Copies(line, terminal)
      BY <1>c, <2>5, <3>3, <3>4
    <3>6. Doubled(line)' = Doubled(line)
      <4>1. \A m \in S!Calls \ {n} : S!Copies(line, child[m].buffer)' = S!Copies(line, child[m].buffer)
        BY <2>3 DEF S!Copies
      <4> QED
        BY <2>2, <2>3, <4>1 DEF Doubled
    <3>7. S!Copies(line, buffer)' = S!Copies(line, buffer)
      BY <2>2 DEF S!Copies
    <3>8. Counted(line)
      BY <2>2
    <3> QED
      BY <1>p, <3>5, <3>6, <3>7, <3>8 DEF Counted
  <2>6. <<S!OUTPUT>> \in Seq(Nat)
    BY DEF S!OUTPUT
  <2>7. terminal' = terminal \/ terminal' = terminal \o <<S!OUTPUT>>
    BY <1>5, <1>t, <2>6, Written DEF S!Command
  <2> QED
    BY <2>4, <2>5, <2>7
<1>6. CASE S!PrintLine
  <2> DEFINE k == printed + 1
  <2>1. printed' = k /\ buffer' = Append(buffer, k) /\ UNCHANGED <<terminal, child>>
    BY <1>6 DEF S!PrintLine
  <2>2. k \in Nat /\ (line \in 1..printed \/ line = k) /\ k \notin 1..printed /\ k \notin 0..printed
    BY <1>t, <2>1
  <2> HIDE DEF k
  <2>3. <<k>> \in Seq(Nat) /\ Distinct(<<k>>) /\ Append(buffer, k) = buffer \o <<k>>
    BY <1>t, <2>2, AppendIsConcat DEF Distinct
  <2>4. S!Copies(line, buffer') = S!Copies(line, buffer) + S!Copies(line, <<k>>)
    <3>1. S!Copies(line, buffer \o <<k>>) = S!Copies(line, buffer) + S!Copies(line, <<k>>)
      BY <1>t, <2>3, CopiesConcat
    <3>2. buffer' = buffer \o <<k>>
      BY <2>1, <2>3
    <3> QED
      BY <3>1, <3>2
  <2>5. Doubled(line)' = Doubled(line) /\ S!Copies(line, terminal)' = S!Copies(line, terminal)
    BY <2>1 DEF Doubled, S!Copies
  <2>6. CASE line \in 1..printed
    <3>1. \A i \in DOMAIN <<k>> : <<k>>[i] # line
      BY <2>2, <2>6
    <3>2. S!Copies(line, <<k>>) = 0
      BY <2>3, <3>1, CopiesOfNone
    <3>3. S!Copies(line, buffer)' = S!Copies(line, buffer)
      BY <1>c, <1>p, <2>4, <3>2
    <3>4. Counted(line)
      BY <2>6
    <3> QED
      BY <2>5, <3>3, <3>4 DEF Counted
  <2>7. CASE line = k
    <3>1. S!Copies(line, <<k>>) = 1
      <4>1. 1 \in DOMAIN <<k>> /\ <<k>>[1] = line
        BY <2>7
      <4> QED
        BY <2>3, <4>1, CopiesOfOne
    <3>2. S!Copies(line, buffer) = 0
      BY <1>t, <2>2, <2>7, CopiesOfOwn
    <3>3. S!Copies(line, terminal) = 0
      <4>1. \A i \in DOMAIN terminal : terminal[i] # line
        BY <2>2, <2>7 DEF CallInv, LinesInv
      <4> QED
        BY <1>t, <4>1, CopiesOfNone
    <3>4. Doubled(line) = {}
      <4>1. ASSUME NEW n \in S!Calls
            PROVE  S!Copies(line, child[n].buffer) = 0
        <5>1. child[n].buffer \in Seq(Nat) /\ OwnLines(child[n].buffer, printed)
          BY <1>t DEF Children, ChildInv
        <5> QED
          BY <1>t, <2>2, <2>7, <5>1, CopiesOfOwn
      <4> QED
        BY <4>1 DEF Doubled
    <3>5. Cardinality(Doubled(line))' = 0
      BY <2>5, <3>4, FS_EmptySet
    <3> QED
      BY <1>p, <2>4, <2>5, <3>1, <3>2, <3>3, <3>5 DEF Counted
  <2> QED
    BY <2>2, <2>6, <2>7
<1>7. CASE S!Flush
  <2>1. terminal' = terminal \o buffer /\ buffer' = << >> /\ UNCHANGED <<printed, child>>
    BY <1>7 DEF S!Flush
  <2>2. S!Copies(line, terminal') = S!Copies(line, terminal) + S!Copies(line, buffer)
    BY <1>t, <2>1, CopiesConcat DEF OwnLines
  <2>3. S!Copies(line, buffer') = 0
    <3>1. \A i \in DOMAIN buffer' : buffer'[i] # line
      BY <2>1
    <3> QED
      BY <1>t, <3>1, CopiesOfNone
  <2>4. Doubled(line)' = Doubled(line)
    BY <2>1 DEF Doubled, S!Copies
  <2>5. Counted(line)
    BY <2>1
  <2> DEFINE a == S!Copies(line, terminal)
             b == S!Copies(line, buffer)
  <2>6. a \in Nat /\ b \in Nat /\ a + b = 1 + Cardinality(Doubled(line))
    BY <1>c, <2>5 DEF Counted
  <2>7. S!Copies(line, terminal)' = a + b /\ S!Copies(line, buffer)' = 0
    BY <1>p, <2>2, <2>3
  <2> HIDE DEF a, b
  <2>8. (a + b) + 0 = a + b
    BY <2>6
  <2> QED
    BY <2>4, <2>6, <2>7, <2>8 DEF Counted
<1> QED
  BY <1>1, <1>2, <1>3, <1>4, <1>5, <1>6, <1>7, CallCases

\* What a file has of the program's lines.
LEMMA FileLines ==
  ASSUME CallInv, NEW n \in S!Calls, NEW line \in 1..printed
  PROVE  S!Copies(line, outputs[n]) =
           IF /\ child[n].state = "failed" /\ S!Copies(line, child[n].buffer) = 1
              /\ child[n].stdout = "file"
           THEN 1 ELSE 0
<1>t. /\ printed \in Nat /\ child[n] \in Children /\ ChildInv(n)
      /\ child[n].buffer \in Seq(Nat) /\ outputs[n] \in Seq(Nat)
  BY DEF CallInv, CallTypes, Children
<1>e. S!Copies(line, << >>) = 0
  <2>1. << >> \in Seq(Nat) /\ \A i \in DOMAIN << >> : << >>[i] # line
    OBVIOUS
  <2> QED
    BY <2>1, CopiesOfNone
<1>o. S!Copies(line, <<S!OUTPUT>>) = 0
  <2>1. <<S!OUTPUT>> \in Seq(Nat) /\ \A i \in DOMAIN <<S!OUTPUT>> : <<S!OUTPUT>>[i] # line
    BY <1>t DEF S!OUTPUT
  <2> QED
    BY <2>1, CopiesOfNone
<1>1. CASE child[n].state = "failed" /\ child[n].stdout = "file"
  <2>1. outputs[n] = child[n].buffer
    BY <1>1, <1>t DEF ChildInv
  <2>2. S!Copies(line, child[n].buffer) \in {0, 1}
    BY <1>t, CopiesOfOwn DEF ChildInv
  <2> QED
    BY <1>1, <2>1, <2>2
<1>2. CASE ~ (child[n].state = "failed" /\ child[n].stdout = "file")
  <2>1. outputs[n] \in {<< >>, <<S!OUTPUT>>}
    BY <1>2, <1>t DEF ChildInv, Children, S!Ends
  <2> QED
    BY <1>2, <1>e, <1>o, <2>1
<1> QED
  BY <1>1, <1>2

(***************************************************************************)
(* Whatever the program prints between its calls, every line of it is      *)
(* written once, and once more for each child that inherited it in its     *)
(* buffer and then failed to start: to the terminal, or to the file that   *)
(* the child had already opened.                                           *)
(***************************************************************************)
THEOREM CallLines == S!Spec => []LinesOnce
<1> DEFINE AllCounted == \A line \in 1..printed : Counted(line)
<1>1. S!Init => AllCounted
  BY DEF S!Init
<1>2. CallInv /\ CallInv' /\ AllCounted /\ [S!Next]_(S!vars) => AllCounted'
  <2>1. [S!Next]_(S!vars) => [S!Next]_Svars
    BY DEF S!vars, Svars
  <2> QED
    BY <2>1, CountStep
<1>3. CallInv /\ AllCounted => LinesOnce
  <2> SUFFICES ASSUME CallInv, AllCounted, NEW line \in 1..printed
               PROVE  LET doubled == {n \in S!Calls : /\ child[n].state = "failed"
                                                      /\ S!Copies(line, child[n].buffer) = 1}
                      IN  /\ S!Copies(line, terminal) + S!Copies(line, buffer)
                               = 1 + S!Cardinality({n \in doubled : child[n].stdout = "terminal"})
                          /\ \A n \in S!Calls : S!Copies(line, outputs[n]) =
                               (IF n \in doubled /\ child[n].stdout = "file" THEN 1 ELSE 0)
    BY DEF LinesOnce, S!LinesOnce
  <2> DEFINE doubled == {n \in S!Calls : /\ child[n].state = "failed"
                                         /\ S!Copies(line, child[n].buffer) = 1}
  <2>1. {n \in doubled : child[n].stdout = "terminal"} = Doubled(line)
    BY DEF Doubled
  <2>2. S!Copies(line, terminal) + S!Copies(line, buffer)
          = 1 + S!Cardinality({n \in doubled : child[n].stdout = "terminal"})
    BY <2>1, SameCardinality DEF Counted
  <2>3. \A n \in S!Calls : S!Copies(line, outputs[n]) =
          (IF n \in doubled /\ child[n].stdout = "file" THEN 1 ELSE 0)
    BY FileLines
  <2> QED
    BY <2>2, <2>3
<1> HIDE DEF AllCounted
<1> QED
  BY <1>1, <1>2, <1>3, CallInductive, PTL DEF S!Spec

-----------------------------------------------------------------------------
(* FinderApp.                                                              *)

FinderTypes ==
  /\ NUMFILES \in 0..MaxFiles
  /\ next \in 1..NUMFILES + 1
  /\ dir \in BOOLEAN
  /\ file \in [F!Files -> F!Contents]

\* The files written so far, and what flushes that nobody noticed have left.
FilesInv ==
  step = "write" =>
    /\ \A f \in F!Files : file[f] = "absent" <=> f >= next
    /\ "string" \notin faults <=> \A f \in F!Files : file[f] # "cut"

\* The verdict that is due shows whether a string was lost.
MatchInv ==
  step = "compare" /\ WRITESTR = F!Plain => (F!Matches <=> "string" \notin faults)

FinderInv ==
  /\ FinderTypes
  /\ FilesInv
  /\ step = "prepare" => next = 1 /\ faults = {}
  /\ step \in {"write", "compare"} => faults \subseteq {"string", "newline"}
  /\ MatchInv
  /\ VerdictExact
LEMMA FinderCases ==
  F!Next => \/ F!Prepare \/ F!PrepareFails \/ F!Write \/ F!WriteLost \/ F!WriteFails
            \/ F!Find \/ F!FindFails \/ F!Compare \/ F!CleanupFails
  BY DEF F!Next

LEMMA FinderInitially == F!Init => FinderInv
<1> SUFFICES ASSUME F!Init PROVE FinderInv
  OBVIOUS
<1>1. file \in [F!Files -> F!Contents]
  <2>1. CASE dir
    BY <2>1 DEF F!Init
  <2>2. CASE ~dir
    BY <2>2 DEF F!Init, F!Contents
  <2> QED
    BY <2>1, <2>2
<1>2. FinderTypes
  BY <1>1, BoundAssumption DEF F!Init, FinderTypes
<1> QED
  BY <1>2 DEF FinderInv, FilesInv, MatchInv, F!Init, VerdictExact, F!VerdictExact

\* finder.sh counts NUMFILES files; those that hold the whole string are as
\* many exactly if no string has been lost, and never more.
LEMMA CountsExact ==
  ASSUME FinderInv, step = "write", next > NUMFILES
  PROVE  /\ F!With({"cut", "bare", "line"}) = NUMFILES
         /\ F!With({"line"}) \in Nat /\ F!With({"bare"}) \in Nat
         /\ F!With({"line"}) + F!With({"bare"}) <= NUMFILES
         /\ F!With({"line"}) + F!With({"bare"}) = NUMFILES <=> "string" \notin faults
<1> DEFINE All == {f \in F!Files : file[f] \in {"cut", "bare", "line"}}
           Lines == {f \in F!Files : file[f] \in {"line"}}
           Bare == {f \in F!Files : file[f] \in {"bare"}}
           Good == Lines \cup Bare
<1>t. NUMFILES \in Nat /\ MaxFiles \in Nat /\ NUMFILES <= MaxFiles /\ next = NUMFILES + 1
  BY BoundAssumption DEF FinderInv, FinderTypes
<1>f. \A f \in F!Files : f \in Nat /\ f >= 1 /\ f <= MaxFiles
                         /\ file[f] \in {"absent", "cut", "bare", "line"}
  BY <1>t DEF FinderInv, FinderTypes, F!Files, F!Contents
<1>a. \A f \in F!Files : file[f] = "absent" <=> f >= next
  BY DEF FinderInv, FilesInv
<1>e. "string" \notin faults <=> \A f \in F!Files : file[f] # "cut"
  BY DEF FinderInv, FilesInv
<1>1. \A f \in F!Files : f \in All <=> f \in 1..NUMFILES
  BY <1>t, <1>f, <1>a
<1>2. 1..NUMFILES \subseteq F!Files
  BY <1>t DEF F!Files
<1>3. All = 1..NUMFILES
  BY <1>1, <1>2
<1>4. IsFiniteSet(All) /\ Cardinality(All) = NUMFILES
  <2>1. 1 \in Int /\ NUMFILES \in Int
    BY <1>t
  <2>2. /\ IsFiniteSet(1..NUMFILES)
        /\ Cardinality(1..NUMFILES) = IF 1 > NUMFILES THEN 0 ELSE NUMFILES - 1 + 1
    BY <2>1, FS_Interval
  <2>3. Cardinality(1..NUMFILES) = NUMFILES
    BY <1>t, <2>2
  <2> QED
    BY <1>3, <2>2, <2>3
<1>5. Good \subseteq All /\ Lines \subseteq All /\ Bare \subseteq All
  OBVIOUS
<1>6. /\ IsFiniteSet(Good) /\ Cardinality(Good) <= NUMFILES
      /\ Cardinality(Good) = NUMFILES <=> Good = All
  BY <1>4, <1>5, FS_Subset
<1>7. Good = All <=> "string" \notin faults
  <2>1. Good = All <=> \A f \in F!Files : file[f] # "cut"
    OBVIOUS
  <2> QED
    BY <2>1, <1>e
<1>8. Cardinality(Good) = Cardinality(Lines) + Cardinality(Bare)
  <2>1. IsFiniteSet(Lines) /\ IsFiniteSet(Bare)
    BY <1>4, <1>5, FS_Subset
  <2>2. Lines \cap Bare = {}
    OBVIOUS
  <2>3. Cardinality(Lines \cap Bare) = 0
    BY <2>2, FS_EmptySet
  <2>4. Cardinality(Lines) \in Nat /\ Cardinality(Bare) \in Nat
    BY <2>1, FS_CardinalityType
  <2>5. Cardinality(Lines \cup Bare) =
          Cardinality(Lines) + Cardinality(Bare) - Cardinality(Lines \cap Bare)
    BY <2>1, FS_Union
  <2> HIDE DEF Lines, Bare
  <2> QED
    BY <2>3, <2>4, <2>5
<1>9. Cardinality(Lines) \in Nat /\ Cardinality(Bare) \in Nat
  BY <1>4, <1>5, FS_Subset, FS_CardinalityType
<1>10. /\ F!With({"cut", "bare", "line"}) = Cardinality(All)
       /\ F!With({"line"}) = Cardinality(Lines)
       /\ F!With({"bare"}) = Cardinality(Bare)
  BY SameCardinality DEF F!With
<1> HIDE DEF All, Lines, Bare, Good
<1> QED
  BY <1>4, <1>6, <1>7, <1>8, <1>9, <1>10

LEMMA CutType ==
  ASSUME MaxFiles \in Nat
  PROVE  F!With({"cut"}) \in Nat
<1> DEFINE Cut == {f \in F!Files : file[f] \in {"cut"}}
<1>1. IsFiniteSet(F!Files)
  BY FS_Interval DEF F!Files
<1>2. IsFiniteSet(Cut)
  BY <1>1, FS_Subset
<1>3. F!With({"cut"}) = Cardinality(Cut)
  BY SameCardinality DEF F!With
<1> QED
  BY <1>2, <1>3, FS_CardinalityType

\* A number of lines that is not greater than NUMFILES begins with it only if
\* it is NUMFILES.
LEMMA PrefixExact ==
  ASSUME NEW n \in Nat, NEW lines \in Nat, lines <= n, n > 0, NEW p \in F!Tens
  PROVE  lines \div p # n
<1>1. lines \div 10 < n
  OBVIOUS
<1>2. lines \div 100 < n
  OBVIOUS
<1>3. lines \div 1000 < n
  OBVIOUS
<1>4. p = 10 \/ p = 100 \/ p = 1000
  BY DEF F!Tens
<1>5. lines \div 10 \in Int /\ lines \div 100 \in Int /\ lines \div 1000 \in Int
  OBVIOUS
<1> QED
  BY <1>1, <1>2, <1>3, <1>4, <1>5

\* A step that ends the script for set -e.
LEMMA FinderStops ==
  ASSUME NEW call \in {"prepare", "fopen", "fprintf", "finder.sh", "rm"},
         FinderInv, F!Stop(call), file' \in [F!Files -> F!Contents], dir' \in BOOLEAN
  PROVE  FinderInv'
<1>1. FinderTypes'
  BY DEF F!Stop, FinderInv, FinderTypes
<1>2. step' = "end" /\ verdict' = "stopped" /\ call \in faults'
  BY DEF F!Stop
<1> QED
  BY <1>1, <1>2 DEF FinderInv, FilesInv, MatchInv, VerdictExact, F!VerdictExact

\* What rm -rf leaves.
LEMMA Remains ==
  ASSUME FinderInv, F!Removed \/ F!RemovedInPart
  PROVE  file' \in [F!Files -> F!Contents] /\ dir' \in BOOLEAN
<1>t. FinderTypes
  BY DEF FinderInv
<1>1. CASE F!Removed
  BY <1>1 DEF F!Removed, F!Contents
<1>2. CASE F!RemovedInPart
  <2>1. PICK kept \in SUBSET F!Files :
          file' = [f \in F!Files |-> IF f \in kept THEN file[f] ELSE "absent"]
    BY <1>2 DEF F!RemovedInPart
  <2>2. \A f \in F!Files : (IF f \in kept THEN file[f] ELSE "absent") \in F!Contents
    BY <1>t DEF FinderTypes, F!Contents
  <2>3. file' \in [F!Files -> F!Contents]
    BY <2>1, <2>2
  <2>4. dir' \in BOOLEAN
    BY <1>2, <1>t DEF F!RemovedInPart, FinderTypes
  <2> QED
    BY <2>3, <2>4
<1> QED
  BY <1>1, <1>2

LEMMA FinderStep == FinderInv /\ [F!Next]_(F!vars) => FinderInv'
<1> SUFFICES ASSUME FinderInv, [F!Next]_(F!vars) PROVE FinderInv'
  OBVIOUS
<1>t. /\ NUMFILES \in Nat /\ MaxFiles \in Nat /\ NUMFILES <= MaxFiles /\ next \in Nat
      /\ next >= 1 /\ next <= NUMFILES + 1
      /\ FinderTypes /\ FilesInv
  BY BoundAssumption DEF FinderInv, FinderTypes
<1>1. CASE UNCHANGED F!vars
  BY <1>1 DEF FinderInv, FinderTypes, FilesInv, MatchInv, VerdictExact, F!VerdictExact,
     F!Matches, F!vars
<1>2. CASE F!Prepare
  <2>1. FinderTypes'
    BY <1>2, <1>t DEF F!Prepare, FinderTypes, F!Contents
  <2>2. next' = 1 /\ faults' = {} /\ step' = "write"
    BY <1>2 DEF F!Prepare, FinderInv
  <2>3. \A f \in F!Files : f >= 1
    BY <1>t DEF F!Files
  <2>4. \A f \in F!Files : file'[f] = "absent"
    BY <1>2 DEF F!Prepare
  <2>5. FilesInv'
    BY <2>2, <2>3, <2>4 DEF FilesInv
  <2> QED
    BY <2>1, <2>2, <2>5 DEF FinderInv, MatchInv, VerdictExact, F!VerdictExact
<1>3. CASE F!PrepareFails
  BY <1>3, Remains, FinderStops DEF F!PrepareFails
<1>w. F!Writing => /\ step = "write" /\ next \in F!Files /\ next < NUMFILES + 1
                   /\ file[next] = "absent"
  BY <1>t DEF F!Writing, F!Files, FilesInv
<1>r. ASSUME NEW new \in {"cut", "bare", "line"}, file' = [file EXCEPT ![next] = new],
             F!Writing, next' = next + 1, UNCHANGED <<NUMFILES, dir>>
      PROVE  /\ FinderTypes'
             /\ \A f \in F!Files : file'[f] = "absent" <=> f >= next'
             /\ (\A f \in F!Files : file'[f] # "cut") <=>
                  new # "cut" /\ \A f \in F!Files : file[f] # "cut"
  <2>1. FinderTypes'
    BY <1>r, <1>t, <1>w DEF FinderTypes, F!Contents
  <2>2. \A f \in F!Files : file'[f] = IF f = next THEN new ELSE file[f]
    BY <1>r, <1>t DEF FinderTypes
  <2>3. \A f \in F!Files : f \in Nat
    BY <1>t DEF F!Files
  <2>4. \A f \in F!Files : file[f] = "absent" <=> f >= next
    BY <1>r, <1>t, <1>w DEF FilesInv
  <2>5. \A f \in F!Files : file'[f] = "absent" <=> f >= next'
    BY <1>r, <1>t, <2>2, <2>3, <2>4
  <2>6. (\A f \in F!Files : file'[f] # "cut") <=>
           new # "cut" /\ \A f \in F!Files : file[f] # "cut"
    BY <1>r, <1>w, <2>2
  <2> QED
    BY <2>1, <2>5, <2>6
<1>4. CASE F!Write \/ F!WriteLost
  <2>1. PICK new \in {"cut", "bare", "line"} :
          /\ file' = [file EXCEPT ![next] = new]
          /\ faults' = faults \cup (CASE new = "cut" -> {"string"}
                                      [] new = "bare" -> {"newline"}
                                      [] OTHER -> {})
    BY <1>4 DEF F!Write, F!WriteLost
  <2>2. /\ F!Writing /\ next' = next + 1 /\ step' = "write"
        /\ UNCHANGED <<NUMFILES, dir>>
    BY <1>4, <1>w DEF F!Write, F!WriteLost
  <2>3. FinderTypes' /\ (\A f \in F!Files : file'[f] = "absent" <=> f >= next')
    BY <1>r, <2>1, <2>2
  <2>4. (\A f \in F!Files : file'[f] # "cut") <=>
          new # "cut" /\ \A f \in F!Files : file[f] # "cut"
    BY <1>r, <2>1, <2>2
  <2>5. "string" \notin faults' <=> new # "cut" /\ "string" \notin faults
    BY <2>1
  <2>6. FilesInv'
    BY <1>t, <1>w, <2>2, <2>3, <2>4, <2>5 DEF FilesInv
  <2>7. faults \subseteq {"string", "newline"}
    BY <1>w, <2>2 DEF FinderInv
  <2>8. faults' \subseteq {"string", "newline"}
    BY <2>1, <2>7
  <2> QED
    BY <2>2, <2>3, <2>6, <2>8 DEF FinderInv, MatchInv, VerdictExact, F!VerdictExact
<1>5. CASE F!WriteFails
  <2>1. F!Stop("fopen") \/ F!Stop("fprintf")
    BY <1>5 DEF F!WriteFails
  <2>2. file' = file \/ file' = [file EXCEPT ![next] = "cut"]
    BY <1>5 DEF F!WriteFails
  <2>3. file' \in [F!Files -> F!Contents] /\ dir' \in BOOLEAN
    BY <1>5, <1>t, <2>2 DEF F!WriteFails, FinderTypes, F!Contents
  <2> QED
    BY <2>1, <2>3, FinderStops
<1>6. CASE F!Find
  <2>1. /\ step = "write" /\ next > NUMFILES /\ step' = "compare"
        /\ UNCHANGED <<NUMFILES, WRITESTR, next, dir, file, faults>>
    BY <1>6 DEF F!Find
  <2>2. FinderTypes'
    BY <1>t, <2>1 DEF FinderTypes
  <2>3. ASSUME WRITESTR = F!Plain
        PROVE  F!Matches' <=> "string" \notin faults'
    <3> DEFINE good == F!With({"line"}) + F!With({"bare"})
    <3>1. /\ F!With({"cut", "bare", "line"}) = NUMFILES
          /\ F!With({"line"}) \in Nat /\ F!With({"bare"}) \in Nat
          /\ good <= NUMFILES
          /\ good = NUMFILES <=> "string" \notin faults
      BY <2>1, CountsExact
    <3>2. WRITESTR.line = 1 /\ WRITESTR.bare = 1 /\ WRITESTR.cut = 0
      BY <2>3 DEF F!Plain
    <3>c. F!With({"cut"}) \in Nat
      BY <1>t, CutType
    <3>3. PICK found \in 0..F!With({"cut"}) * WRITESTR.cut :
            counts' = [files |-> F!With({"cut", "bare", "line"}),
                       lines |-> F!With({"line"}) * WRITESTR.line
                                   + F!With({"bare"}) * WRITESTR.bare + found]
      BY <1>6 DEF F!Find
    <3>4. found = 0
      BY <3>2, <3>3, <3>c
    <3>5. F!With({"line"}) * WRITESTR.line + F!With({"bare"}) * WRITESTR.bare + found = good
      BY <3>1, <3>2, <3>4
    <3>6. counts'.files = NUMFILES /\ counts'.lines = good
      BY <3>1, <3>3, <3>5
    <3>7. good \in Nat
      BY <3>1
    <3> HIDE DEF good
    <3>8. ~(NUMFILES > 0 /\ \E p \in F!Tens : good \div p = NUMFILES)
      BY <1>t, <3>1, <3>7, PrefixExact
    <3>9. F!Matches' <=> good = NUMFILES
      BY <2>1, <3>6, <3>8 DEF F!Matches, F!Tens
    <3> QED
      BY <2>1, <3>1, <3>9
  <2>4. MatchInv'
    BY <2>1, <2>3 DEF MatchInv, F!Plain
  <2> QED
    BY <2>1, <2>2, <2>4 DEF FinderInv, FilesInv, VerdictExact, F!VerdictExact
<1>7. CASE F!FindFails
  <2>1. F!Stop("finder.sh") /\ UNCHANGED <<dir, file>>
    BY <1>7 DEF F!FindFails
  <2> QED
    BY <1>t, <2>1, FinderStops DEF FinderTypes
<1>8. CASE F!Compare
  <2>1. /\ step = "compare" /\ step' = "end"
        /\ verdict' = (IF F!Matches THEN "Success" ELSE "Failed")
        /\ faults' = faults \/ faults' = faults \cup {"result"}
        /\ UNCHANGED <<NUMFILES, WRITESTR, next>>
    BY <1>8 DEF F!Compare
  <2>2. FinderTypes'
    BY <1>8, <1>t, <2>1, Remains DEF FinderTypes, F!Compare
  <2>3. /\ faults \subseteq {"string", "newline"}
        /\ WRITESTR = F!Plain => (F!Matches <=> "string" \notin faults)
    BY <2>1 DEF FinderInv, MatchInv
  <2>4. "string" \notin faults <=> faults' \subseteq {"newline", "result"}
    BY <2>1, <2>3
  <2>5. verdict' = "Success" <=> F!Matches
    BY <2>1
  <2>6. WRITESTR' = F!Plain => (verdict' = "Success" <=> faults' \subseteq {"newline", "result"})
    BY <2>1, <2>3, <2>4, <2>5
  <2>7. VerdictExact'
    BY <2>6 DEF VerdictExact, F!VerdictExact, F!Plain
  <2> QED
    BY <2>1, <2>2, <2>7 DEF FinderInv, FilesInv, MatchInv
<1>9. CASE F!CleanupFails
  BY <1>9, Remains, FinderStops DEF F!CleanupFails
<1> QED
  BY <1>1, <1>2, <1>3, <1>4, <1>5, <1>6, <1>7, <1>8, <1>9, FinderCases

(***************************************************************************)
(* With a plain WRITESTR finder-test.sh says Success exactly if nothing    *)
(* has failed, for every NUMFILES, a lost newline and the write of the     *)
(* result file excepted: a string that writer's unchecked fclose lost      *)
(* shows in the count of matching lines, which cannot begin with NUMFILES  *)
(* without being NUMFILES, and a directory left by an earlier run does not *)
(* show.                                                                   *)
(***************************************************************************)
THEOREM FinderVerdict == F!Spec => []VerdictExact
<1>1. FinderInv => VerdictExact
  BY DEF FinderInv
<1> QED
  BY <1>1, FinderInitially, FinderStep, PTL DEF F!Spec
=============================================================================
