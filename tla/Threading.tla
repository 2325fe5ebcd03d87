----------------------------- MODULE Threading ------------------------------
(***************************************************************************)
(* examples/threading/threading.c: threads that wait, obtain a mutex, hold *)
(* it and release it.  start_thread_obtaining_mutex allocates thread_data  *)
(* and hands it to the thread; whoever joins the thread frees what the     *)
(* thread returns, as threading.h says.  Thread t is the one that call t   *)
(* of start_thread_obtaining_mutex starts.  The two sleeps take any time.  *)
(*                                                                         *)
(* External: the program that calls, joins and frees, and that may hold    *)
(* the mutex itself; pthread_create and pthread_mutex_lock, which may      *)
(* fail, and pthread_mutex_unlock, which may fail and then leaves the      *)
(* mutex locked.  malloc succeeds, as the code takes for granted.          *)
(***************************************************************************)
EXTENDS Naturals, FiniteSets

CONSTANTS
  Threads,   \* calls of start_thread_obtaining_mutex
  Blocks,    \* addresses that malloc returns for thread_data
  Caller,    \* the program, as a holder of the mutex
  NULL

ASSUME ThreadAssumption ==
  /\ Caller \notin Threads
  /\ NULL \notin Threads \cup Blocks \cup {Caller}

VARIABLES
  pc,         \* where each thread is
  mutex,      \* who holds it, or NULL
  heap,       \* blocks that are allocated
  param,      \* thread_param of each thread
  thread_complete_success,   \* this field of each block
  result,     \* what each thread has returned
  told,       \* what the joiner has read in thread_complete_success
  failed      \* history: calls that failed in each thread

vars == <<pc, mutex, heap, param, thread_complete_success, result, told, failed>>

Init ==
  /\ pc = [t \in Threads |-> "none"]
  /\ mutex = NULL
  /\ heap = {}
  /\ param = [t \in Threads |-> NULL]
  /\ thread_complete_success = [b \in Blocks |-> FALSE]
  /\ result = [t \in Threads |-> NULL]
  /\ told = [t \in Threads |-> FALSE]
  /\ failed = [t \in Threads |-> {}]

Goto(t, label) == pc' = [pc EXCEPT ![t] = label]

\* A call of the thread library fails in or for thread t.
Fails(t, call) == failed' = [failed EXCEPT ![t] = @ \cup {call}]

-----------------------------------------------------------------------------
(* start_thread_obtaining_mutex.                                           *)

\* malloc and the fields of thread_data; then the thread runs, or the call
\* returns false and nothing refers to the block any more.
start_thread_obtaining_mutex(t, b) ==
  /\ pc[t] = "none"
  /\ b \notin heap
  /\ heap' = heap \cup {b}
  /\ thread_complete_success' = [thread_complete_success EXCEPT ![b] = FALSE]
  /\ \/ /\ param' = [param EXCEPT ![t] = b]
        /\ Goto(t, "obtain")
        /\ UNCHANGED failed
     \/ /\ Goto(t, "refused")
        /\ Fails(t, "create")
        /\ UNCHANGED param
  /\ UNCHANGED <<mutex, result, told>>

-----------------------------------------------------------------------------
(* threadfunc.                                                             *)

\* usleep(wait_to_obtain_ms * 1000).
WaitToObtain(t) ==
  /\ pc[t] = "obtain"
  /\ Goto(t, "lock")
  /\ UNCHANGED <<mutex, heap, param, thread_complete_success, result, told, failed>>

Lock(t) ==
  /\ pc[t] = "lock"
  /\ mutex = NULL
  /\ mutex' = t
  /\ Goto(t, "release")
  /\ UNCHANGED <<heap, param, thread_complete_success, result, told, failed>>

\* The lock cannot be obtained: the thread returns NULL.
LockFails(t) ==
  /\ pc[t] = "lock"
  /\ thread_complete_success' = [thread_complete_success EXCEPT ![param[t]] = FALSE]
  /\ result' = [result EXCEPT ![t] = NULL]
  /\ Fails(t, "lock")
  /\ Goto(t, "returned")
  /\ UNCHANGED <<mutex, heap, param, told>>

\* Fault: the thread returns without releasing the mutex.
WaitToReleaseReturns(t) ==
  /\ pc[t] = "release"
  /\ result' = [result EXCEPT ![t] = param[t]]
  /\ Goto(t, "returned")
  /\ UNCHANGED <<mutex, heap, param, thread_complete_success, told, failed>>

\* usleep(wait_to_release_ms * 1000).
WaitToRelease(t) ==
  /\ pc[t] = "release"
  /\ Goto(t, "unlock")
  /\ UNCHANGED <<mutex, heap, param, thread_complete_success, result, told, failed>>

Unlock(t) ==
  /\ pc[t] = "unlock"
  /\ mutex' = NULL
  /\ thread_complete_success' = [thread_complete_success EXCEPT ![param[t]] = TRUE]
  /\ result' = [result EXCEPT ![t] = param[t]]
  /\ Goto(t, "returned")
  /\ UNCHANGED <<heap, param, told, failed>>

\* Fault: success is reported before the unlock is tried.
UnlockFailsUnnoticed(t) ==
  /\ pc[t] = "unlock"
  /\ thread_complete_success' = [thread_complete_success EXCEPT ![param[t]] = TRUE]
  /\ result' = [result EXCEPT ![t] = param[t]]
  /\ Fails(t, "unlock")
  /\ Goto(t, "returned")
  /\ UNCHANGED <<mutex, heap, param, told>>

\* Fault: NULL is returned here as it is after a failed lock.
UnlockFailsReturnsNull(t) ==
  /\ pc[t] = "unlock"
  /\ thread_complete_success' = [thread_complete_success EXCEPT ![param[t]] = FALSE]
  /\ result' = [result EXCEPT ![t] = NULL]
  /\ Fails(t, "unlock")
  /\ Goto(t, "returned")
  /\ UNCHANGED <<mutex, heap, param, told>>

UnlockFails(t) ==
  /\ pc[t] = "unlock"
  /\ thread_complete_success' = [thread_complete_success EXCEPT ![param[t]] = FALSE]
  /\ result' = [result EXCEPT ![t] = param[t]]
  /\ Fails(t, "unlock")
  /\ Goto(t, "returned")
  /\ UNCHANGED <<mutex, heap, param, told>>

threadfunc(t) ==
  \/ WaitToObtain(t) \/ Lock(t) \/ LockFails(t)
  \/ WaitToRelease(t) \/ Unlock(t) \/ UnlockFails(t)

-----------------------------------------------------------------------------
(* External: the program.                                                  *)

\* pthread_join, and free of the pointer that it delivers.
Join(t) ==
  /\ pc[t] = "returned"
  /\ told' = [told EXCEPT ![t] = result[t] # NULL /\ thread_complete_success[result[t]]]
  /\ heap' = heap \ {result[t]}
  /\ Goto(t, "joined")
  /\ UNCHANGED <<mutex, param, thread_complete_success, result, failed>>

CallerLocks ==
  /\ mutex = NULL
  /\ mutex' = Caller
  /\ UNCHANGED <<pc, heap, param, thread_complete_success, result, told, failed>>

CallerUnlocks ==
  /\ mutex = Caller
  /\ mutex' = NULL
  /\ UNCHANGED <<pc, heap, param, thread_complete_success, result, told, failed>>

Next ==
  \/ \E t \in Threads, b \in Blocks : start_thread_obtaining_mutex(t, b)
  \/ \E t \in Threads : threadfunc(t) \/ Join(t)
  \/ CallerLocks \/ CallerUnlocks

Spec == Init /\ [][Next]_vars

(***************************************************************************)
(* Threads run, sleeps end, and a thread gets a mutex that is free again   *)
(* and again.  The program releases the mutex when it holds it; it owes    *)
(* nothing else.                                                           *)
(***************************************************************************)
Fairness ==
  /\ \A t \in Threads :
       /\ WF_vars(WaitToObtain(t))
       /\ SF_vars(Lock(t))
       /\ WF_vars(WaitToRelease(t))
       /\ WF_vars(Unlock(t) \/ UnlockFails(t))
  /\ WF_vars(CallerUnlocks)

FairSpec == Spec /\ Fairness

-----------------------------------------------------------------------------
(* Properties.                                                             *)

Running(t) == pc[t] \in {"obtain", "lock", "release", "unlock"}

(***************************************************************************)
(* Nobody frees thread_data under a thread that runs, two threads never    *)
(* share one, and every block in the heap still has an owner: the thread   *)
(* that runs with it, or the joiner that it was returned to.  At most one  *)
(* block is lost for each thread that could not be created or could not    *)
(* obtain the mutex, and none otherwise.                                   *)
(***************************************************************************)
DataOwned ==
  LET owners(b) == {t \in Threads : \/ Running(t) /\ param[t] = b
                                    \/ pc[t] = "returned" /\ result[t] = b}
      lost == Cardinality({t \in Threads : "create" \in failed[t]
                                           \/ "lock" \in failed[t]})
  IN  /\ \A t \in Threads : Running(t) => param[t] \in heap
      /\ \A b \in Blocks : Cardinality(owners(b)) <= 1
      /\ Cardinality({b \in heap : owners(b) = {}}) <= lost

(***************************************************************************)
(* "It should be returned by your thread so it can be freed by the joiner  *)
(* thread" (threading.h): when every thread that was created has been      *)
(* joined, nothing is left of the data that was passed to them.  After a   *)
(* failed lock threadfunc returns NULL, and the joiner has nothing to free.*)
(***************************************************************************)
JoinersFreeData ==
  (\A t \in Threads : pc[t] \in {"none", "joined"}) => heap = {}

(***************************************************************************)
(* "Set to true if the thread completed with success, false if an error    *)
(* occurred": the joiner is told of success exactly when the thread has    *)
(* obtained and released the mutex; after any other end of a thread that   *)
(* was told of failure the mutex may still be locked.                      *)
(***************************************************************************)
SuccessIsReal ==
  \A t \in Threads :
    pc[t] = "joined" => (told[t] <=> failed[t] = {} /\ mutex # t)

(***************************************************************************)
(* A thread that was started returns, whoever else uses the mutex, unless  *)
(* some thread has failed to release it.                                   *)
(***************************************************************************)
ThreadsReturn ==
  \A t \in Threads :
    pc[t] = "obtain" ~>
      pc[t] \in {"returned", "joined"} \/ \E u \in Threads : "unlock" \in failed[u]
=============================================================================
