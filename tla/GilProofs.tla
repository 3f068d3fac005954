------------------------------ MODULE GilProofs ------------------------------
(***************************************************************************)
(* The global interpreter lock for any set of threads and any number of    *)
(* signals, exceptions, forks and spurious wake-ups: one holder, switches  *)
(* that are always signalled, exceptions that are always noticed, and the  *)
(* promise of Baton.tla kept at every step.                                *)
(***************************************************************************)
EXTENDS Gil, TLAPS

USE GilAssumption

(***************************************************************************)
(* Type correctness, in three parts.                                       *)
(***************************************************************************)
Step == {"gone", "out"} \cup Waiting \cup Holding \cup Dropping

ThreadsOK ==
  /\ pc \in [Threads -> Step]
  /\ why \in [Threads -> {"none", "eval", "block", "acquire", "quit", "exit"}]
  /\ mutex \in Threads \cup {None} /\ switch_mutex \in Threads \cup {None}
  /\ last_holder \in Threads \cup {None}
  /\ unswitched \in SUBSET Threads
  /\ handler \in Threads \cup {None}
  /\ main_thread \in Threads /\ finalizing \in Threads \cup {None}

FlagsOK ==
  /\ locked \in BOOLEAN
  /\ gil_drop_request \in BOOLEAN /\ eval_breaker \in BOOLEAN
  /\ computed \in [Threads -> BOOLEAN]
  /\ calls_to_do \in BOOLEAN /\ tripped \in BOOLEAN
  /\ pending_async \in BOOLEAN /\ async_exc \in [Threads -> BOOLEAN]

EventsOK == events \in 0..MaxEvents

\* Everything there is in a step, for the leaves that look at all of them.
LEMMA EventsType == EventsOK /\ [Next]_vars => EventsOK'
<1> SUFFICES ASSUME EventsOK, [Next]_vars PROVE EventsOK'
  OBVIOUS
<1>1. events' = events \/ Event
  BY DEF Next, Locking, Going, Choosing, Computation, Compute, Store, FindFree, FindLocked, EnterTake,
         Timeout, WakeSpuriously, AfterTimeout, SetBreaker, TakeLock, ResetRequest, LeaveTake,
         DropLock, LookAtRequest, BeginSwitch, WaitForSwitch, EndSwitch, EvalCheck,
         MakePendingCalls, CheckDropRequest, CheckAsyncExc, SaveThread, RestoreThread,
         StartThread, ExitThread, SetAsyncExc, Finalize, Fork, Signal, SignalBreaker,
         Ended, vars, lockVars, flagVars, callVars, asyncVars, processVars
<1> QED BY <1>1 DEF EventsOK, Event

LEMMA FlagsType == FlagsOK /\ [Next]_vars => FlagsOK'
<1> SUFFICES ASSUME FlagsOK, [Next]_vars PROVE FlagsOK'
  OBVIOUS
<1> USE DEF FlagsOK, lockVars, flagVars, callVars, asyncVars, processVars
<1>1. ASSUME NEW t \in Threads, Locking(t) PROVE FlagsOK'
  BY <1>1 DEF Locking, EnterTake, AfterTimeout, TakeLock, DropLock, BeginSwitch, EndSwitch,
              FindFree, FindLocked, SetRequest
<1>2. ASSUME NEW t \in Threads, Computation(t) PROVE FlagsOK'
  BY <1>2 DEF Computation, Compute, Store, WaitForSwitch, ReadFlags, StoreBreaker
<1>3. ASSUME NEW t \in Threads, Going(t), ~Computation(t) PROVE FlagsOK'
  BY <1>3 DEF Going, Timeout, SetBreaker, ResetRequest, LeaveTake, NoticeAsync, LookAtRequest,
              EvalCheck, MakePendingCalls, CheckDropRequest, CheckAsyncExc
<1>4. ASSUME NEW t \in Threads, Choosing(t) PROVE FlagsOK'
  BY <1>4 DEF Choosing, SaveThread, RestoreThread, ExitThread, Finalize, Fork,
              WakeSpuriously, StartThread, SetAsyncExc
<1>5. ASSUME NEW t \in Threads, Signal(t) PROVE FlagsOK'
  BY <1>5 DEF Signal
<1>6. CASE SignalBreaker
  BY <1>6 DEF SignalBreaker
<1>7. CASE UNCHANGED vars
  BY <1>7 DEF vars
<1> QED BY <1>1, <1>2, <1>3, <1>4, <1>5, <1>6, <1>7 DEF Next, Ended

LEMMA ThreadsType == ThreadsOK /\ [Next]_vars => ThreadsOK'
<1> SUFFICES ASSUME ThreadsOK, [Next]_vars PROVE ThreadsOK'
  OBVIOUS
<1> USE DEF ThreadsOK, lockVars, flagVars, callVars, asyncVars, processVars, Goto,
            Step, Waiting, Holding, Dropping
<1>1. ASSUME NEW t \in Threads, EnterTake(t) \/ AfterTimeout(t) PROVE ThreadsOK'
  BY <1>1 DEF EnterTake, AfterTimeout, FindFree, FindLocked, SetRequest
<1>2. ASSUME NEW t \in Threads, TakeLock(t) \/ DropLock(t) PROVE ThreadsOK'
  BY <1>2 DEF TakeLock, DropLock, SwitchWaiters
<1>3. ASSUME NEW t \in Threads, BeginSwitch(t) \/ EndSwitch(t) PROVE ThreadsOK'
  BY <1>3 DEF BeginSwitch, EndSwitch, LeaveDrop
<1>4. ASSUME NEW t \in Threads, Computation(t) PROVE ThreadsOK'
  BY <1>4 DEF Computation, Compute, Store, WaitForSwitch
<1>5. ASSUME NEW t \in Threads, Going(t), ~Computation(t) PROVE ThreadsOK'
  BY <1>5 DEF Going, Timeout, SetBreaker, ResetRequest, LeaveTake, LookAtRequest, LeaveDrop,
              EvalCheck, MakePendingCalls, CheckDropRequest, CheckAsyncExc
<1>6. ASSUME NEW t \in Threads, Choosing(t) PROVE ThreadsOK'
  BY <1>6 DEF Choosing, SaveThread, RestoreThread, ExitThread, Finalize, Fork,
              WakeSpuriously, StartThread, SetAsyncExc
<1>7. ASSUME NEW t \in Threads, Signal(t) PROVE ThreadsOK'
  BY <1>7 DEF Signal
<1>8. CASE SignalBreaker
  BY <1>8 DEF SignalBreaker
<1>9. CASE UNCHANGED vars
  BY <1>9 DEF vars
<1> QED
  BY <1>1, <1>2, <1>3, <1>4, <1>5, <1>6, <1>7, <1>8, <1>9 DEF Next, Locking, Ended

\* Every variable of the lock, its flags and its threads keeps its type.
THEOREM TypeCorrect == Spec => []TypeOK
<1>1. Init => ThreadsOK /\ FlagsOK /\ EventsOK
  <2> SUFFICES ASSUME Init PROVE ThreadsOK /\ FlagsOK /\ EventsOK
    OBVIOUS
  <2>1. pc \in [Threads -> Step]
    BY DEF Init, Step, Holding
  <2>2. why \in [Threads -> {"none", "eval", "block", "acquire", "quit", "exit"}]
    BY DEF Init
  <2>3. ThreadsOK
    BY <2>1, <2>2 DEF Init, ThreadsOK
  <2>4. FlagsOK
    BY DEF Init, FlagsOK
  <2>5. EventsOK
    BY DEF Init, EventsOK
  <2> QED BY <2>3, <2>4, <2>5
<1>2. ThreadsOK /\ FlagsOK /\ EventsOK => TypeOK
  BY DEF ThreadsOK, FlagsOK, EventsOK, TypeOK, Step
<1> QED BY <1>1, <1>2, ThreadsType, FlagsType, EventsType, PTL DEF Spec

(***************************************************************************)
(* The lock: who holds it and the two mutexes, and who waits for whom.     *)
(***************************************************************************)
Taker == \E u \in Threads : pc[u] \in Waiting

\* Each mutex belongs to the thread that is between its lock and its unlock.
MutexesHeld ==
  \A t \in Threads :
    /\ pc[t] \in InMutex <=> mutex = t
    /\ pc[t] \in InSwitchMutex => switch_mutex = t

ReadyFindsFree == \A t \in Threads : pc[t] = "ready" => ~locked

\* A thread that dropped the lock, as long as no other has taken it: the lock is free and,
\* once the request has been seen, somebody is going to take it.
SwitchPending ==
  \A t \in Threads :
    /\ pc[t] = "dropped" /\ last_holder = t => ~locked
    /\ pc[t] = "switch" /\ last_holder = t => ~locked /\ Taker
    /\ pc[t] \in {"switchclear", "switchstore", "switchwait"} =>
         ~locked /\ last_holder = t /\ Taker

LockInv ==
  /\ OneHolder
  /\ MutexesHeld
  /\ ReadyFindsFree
  /\ RequestHasWaiter
  /\ SwitchPending

LEMMA LockStep == ThreadsOK /\ LockInv /\ [Next]_vars => LockInv'
<1> SUFFICES ASSUME ThreadsOK, LockInv, [Next]_vars PROVE LockInv'
  OBVIOUS
<1> USE DEF ThreadsOK, LockInv, OneHolder, MutexesHeld, ReadyFindsFree, RequestHasWaiter,
            SwitchPending, Taker, lockVars, flagVars, callVars, asyncVars, processVars,
            At, Goto, Step, Waiting, Holding, Dropping, InMutex, InSwitchMutex
<1>1. ASSUME NEW t \in Threads, EnterTake(t) \/ AfterTimeout(t) PROVE LockInv'
  BY <1>1 DEF EnterTake, AfterTimeout, FindFree, FindLocked, SetRequest
<1>2. ASSUME NEW t \in Threads, TakeLock(t) PROVE LockInv'
  BY <1>2 DEF TakeLock, SwitchWaiters
<1>3. ASSUME NEW t \in Threads, DropLock(t) PROVE LockInv'
  BY <1>3 DEF DropLock
<1>4. ASSUME NEW t \in Threads, BeginSwitch(t) \/ EndSwitch(t) PROVE LockInv'
  BY <1>4 DEF BeginSwitch, EndSwitch, LeaveDrop
<1>5. ASSUME NEW t \in Threads, Computation(t) PROVE LockInv'
  BY <1>5 DEF Computation, Compute, Store, WaitForSwitch
<1>6. ASSUME NEW t \in Threads, Timeout(t) \/ SetBreaker(t) PROVE LockInv'
  BY <1>6 DEF Timeout, SetBreaker
<1>7. ASSUME NEW t \in Threads, ResetRequest(t) \/ LeaveTake(t) PROVE LockInv'
  BY <1>7 DEF ResetRequest, LeaveTake
<1>8. ASSUME NEW t \in Threads, LookAtRequest(t) PROVE LockInv'
  BY <1>8 DEF LookAtRequest, LeaveDrop
<1>9. ASSUME NEW t \in Threads, EvalCheck(t) \/ MakePendingCalls(t) PROVE LockInv'
  BY <1>9 DEF EvalCheck, MakePendingCalls
<1>10. ASSUME NEW t \in Threads, CheckDropRequest(t) \/ CheckAsyncExc(t) PROVE LockInv'
  BY <1>10 DEF CheckDropRequest, CheckAsyncExc
<1>11. ASSUME NEW t \in Threads, SaveThread(t) \/ RestoreThread(t) \/ ExitThread(t)
       PROVE LockInv'
  BY <1>11 DEF SaveThread, RestoreThread, ExitThread
<1>12. ASSUME NEW t \in Threads, Fork(t) PROVE LockInv'
  BY <1>12 DEF Fork
<1>13. ASSUME NEW t \in Threads, WakeSpuriously(t) PROVE LockInv'
  BY <1>13 DEF WakeSpuriously
<1>14. ASSUME NEW t \in Threads, NEW u \in Threads, StartThread(t, u) PROVE LockInv'
  BY <1>14 DEF StartThread
<1>15. CASE UNCHANGED <<pc, lockVars, gil_drop_request>>
  BY <1>15
<1> QED
  BY <1>1, <1>2, <1>3, <1>4, <1>5, <1>6, <1>7, <1>8, <1>9, <1>10, <1>11, <1>12, <1>13, <1>14,
     <1>15
  DEF Next, vars, Locking, Going, Choosing, SetAsyncExc, Finalize, Signal, SignalBreaker, Ended


LEMMA LockInvHolds == Spec => []LockInv
<1>1. Init => LockInv
  BY DEF Init, LockInv, OneHolder, MutexesHeld, ReadyFindsFree, RequestHasWaiter,
         SwitchPending, InMutex, InSwitchMutex, Holding
<1>2. TypeOK => ThreadsOK
  BY DEF TypeOK, ThreadsOK, Step
<1> QED BY <1>1, <1>2, LockStep, TypeCorrect, PTL DEF Spec

\* No two threads work under the lock, and none gives up a lock that is not taken.
THEOREM HolderIsAlone == Spec => []OneHolder
<1>1. LockInv => OneHolder
  BY DEF LockInv
<1> QED BY <1>1, LockInvHolds, PTL

\* A request for the lock is never left behind by a thread that has got it, or is gone.
THEOREM RequestIsSomebodys == Spec => []RequestHasWaiter
<1>1. LockInv => RequestHasWaiter
  BY DEF LockInv
<1> QED BY <1>1, LockInvHolds, PTL

\* Whoever waits for a switch is waited for: no wake-up has been lost, and one is to come.
THEOREM SwitchIsToCome == Spec => []SwitchHasTaker
<1>1. LockInv => SwitchHasTaker
  BY DEF LockInv, SwitchPending, Taker, SwitchHasTaker
<1> QED BY <1>1, LockInvHolds, PTL

(***************************************************************************)
(* Asynchronous exceptions. The argument follows the thread that has one   *)
(* from taking the lock to raising it: nobody else stores in eval_breaker  *)
(* what was read before, for the lock keeps the other holders out and the  *)
(* switch mutex those who dropped it.                                      *)
(***************************************************************************)
AsyncKept ==
  \A t \in Threads :
    /\ pc[t] \in {"run", "unsignal", "unsignalstore", "calls", "checkdrop", "checkasync"}
         /\ async_exc[t] => pending_async
    /\ pc[t] \in {"run", "calls", "checkdrop", "checkasync"} /\ async_exc[t] => eval_breaker
    /\ pc[t] = "unsignalstore" /\ async_exc[t] => computed[t]
    /\ pc[t] \in {"unasync", "unasyncstore"} => ~async_exc[t]

LEMMA AsyncStep == ThreadsOK /\ FlagsOK /\ LockInv /\ AsyncKept /\ [Next]_vars => AsyncKept'
<1> SUFFICES ASSUME ThreadsOK, FlagsOK, LockInv, AsyncKept, [Next]_vars PROVE AsyncKept'
  OBVIOUS
<1> USE DEF ThreadsOK, FlagsOK, LockInv, OneHolder, SwitchPending, AsyncKept, lockVars,
            flagVars, callVars, asyncVars, processVars, At, Goto, Step, Waiting, Holding,
            Dropping
<1>1. ASSUME NEW t \in Threads, EnterTake(t) \/ AfterTimeout(t) PROVE AsyncKept'
  BY <1>1 DEF EnterTake, AfterTimeout, FindFree, FindLocked, SetRequest
<1>2. ASSUME NEW t \in Threads, TakeLock(t) \/ DropLock(t) PROVE AsyncKept'
  BY <1>2 DEF TakeLock, SwitchWaiters, DropLock
<1>3. ASSUME NEW t \in Threads, BeginSwitch(t) \/ EndSwitch(t) PROVE AsyncKept'
  BY <1>3 DEF BeginSwitch, EndSwitch, LeaveDrop
<1>4. ASSUME NEW t \in Threads, Computation(t) PROVE AsyncKept'
  BY <1>4 DEF Computation, Compute, Store, WaitForSwitch, ReadFlags, StoreBreaker
<1>5. ASSUME NEW t \in Threads, Timeout(t) \/ SetBreaker(t) PROVE AsyncKept'
  BY <1>5 DEF Timeout, SetBreaker
<1>6. ASSUME NEW t \in Threads, ResetRequest(t) \/ LeaveTake(t) PROVE AsyncKept'
  BY <1>6 DEF ResetRequest, LeaveTake, NoticeAsync
<1>7. ASSUME NEW t \in Threads, LookAtRequest(t) PROVE AsyncKept'
  BY <1>7 DEF LookAtRequest, LeaveDrop
<1>8. ASSUME NEW t \in Threads, EvalCheck(t) \/ MakePendingCalls(t) PROVE AsyncKept'
  BY <1>8 DEF EvalCheck, MakePendingCalls
<1>9. ASSUME NEW t \in Threads, CheckDropRequest(t) \/ CheckAsyncExc(t) PROVE AsyncKept'
  BY <1>9 DEF CheckDropRequest, CheckAsyncExc
<1>10. ASSUME NEW t \in Threads, SaveThread(t) \/ RestoreThread(t) \/ ExitThread(t)
       PROVE AsyncKept'
  BY <1>10 DEF SaveThread, RestoreThread, ExitThread
<1>11. ASSUME NEW t \in Threads, Fork(t) \/ WakeSpuriously(t) PROVE AsyncKept'
  BY <1>11 DEF Fork, WakeSpuriously
<1>12. ASSUME NEW t \in Threads, NEW u \in Threads, StartThread(t, u) \/ SetAsyncExc(t, u)
       PROVE AsyncKept'
  BY <1>12 DEF StartThread, SetAsyncExc
<1>13. CASE SignalBreaker
  BY <1>13 DEF SignalBreaker
<1>14. CASE UNCHANGED <<pc, flagVars, asyncVars>>
  BY <1>14
<1> QED
  BY <1>1, <1>2, <1>3, <1>4, <1>5, <1>6, <1>7, <1>8, <1>9, <1>10, <1>11, <1>12, <1>13, <1>14
  DEF Next, vars, Locking, Going, Choosing, Finalize, Signal, Ended

\* An exception sent to a thread is announced to it whenever it runs.
THEOREM AsyncIsNoticed == Spec => []AsyncNoticed
<1>1. Init => AsyncKept
  BY DEF Init, AsyncKept
<1>2. TypeOK => ThreadsOK /\ FlagsOK
  BY DEF TypeOK, ThreadsOK, FlagsOK, Step
<1>3. AsyncKept => AsyncNoticed
  BY DEF AsyncKept, AsyncNoticed
<1> QED BY <1>1, <1>2, <1>3, AsyncStep, LockInvHolds, TypeCorrect, PTL DEF Spec

(***************************************************************************)
(* The lock keeps the promise of Baton.tla.                                *)
(***************************************************************************)
LEMMA PromiseStep == ThreadsOK /\ LockInv /\ [Next]_vars => [Promise!Next]_(Promise!vars)
<1> SUFFICES ASSUME ThreadsOK, LockInv, Next PROVE [Promise!Next]_(Promise!vars)
  BY DEF vars, Promise!vars, lockVars, SwitchWaiters
<1> USE DEF ThreadsOK, LockInv, OneHolder, MutexesHeld, ReadyFindsFree, SwitchPending,
            Promise!Next, Promise!vars, SwitchWaiters, lockVars, flagVars, callVars,
            asyncVars, processVars, At, Goto, Step, Waiting, Holding, Dropping, InMutex,
            InSwitchMutex
<1>1. ASSUME NEW t \in Threads, TakeLock(t) PROVE Promise!Take(t)
  BY <1>1 DEF TakeLock, Promise!Take
<1>2. ASSUME NEW t \in Threads, DropLock(t) PROVE Promise!Release
  BY <1>2 DEF DropLock, Promise!Release
<1>3. ASSUME NEW t \in Threads, WaitForSwitch(t) PROVE Promise!Yield(t)
  BY <1>3 DEF WaitForSwitch, Promise!Yield
<1>4. ASSUME NEW t \in Threads, WakeSpuriously(t)
      PROVE  Promise!WakeSpuriously(t) \/ UNCHANGED Promise!vars
  BY <1>4 DEF WakeSpuriously, Promise!WakeSpuriously
<1>5. ASSUME NEW t \in Threads, Fork(t) PROVE Promise!Fork
  BY <1>5 DEF Fork, Promise!Fork
<1>6. CASE UNCHANGED <<locked, last_holder, SwitchWaiters>>
  BY <1>6
<1>7. ASSUME NEW t \in Threads,
             EnterTake(t) \/ AfterTimeout(t) \/ BeginSwitch(t) \/ EndSwitch(t)
      PROVE  UNCHANGED <<locked, last_holder, SwitchWaiters>>
  BY <1>7 DEF EnterTake, AfterTimeout, FindFree, FindLocked, SetRequest, BeginSwitch,
              EndSwitch, LeaveDrop
<1>8. ASSUME NEW t \in Threads, Computation(t), ~WaitForSwitch(t)
      PROVE  UNCHANGED <<locked, last_holder, SwitchWaiters>>
  BY <1>8 DEF Computation, Compute, Store
<1>9. ASSUME NEW t \in Threads, Going(t), ~Computation(t)
      PROVE  UNCHANGED <<locked, last_holder, SwitchWaiters>>
  BY <1>9 DEF Going, Timeout, SetBreaker, ResetRequest, LeaveTake, LookAtRequest, LeaveDrop,
              EvalCheck, MakePendingCalls, CheckDropRequest, CheckAsyncExc
<1>10. ASSUME NEW t \in Threads, SaveThread(t) \/ RestoreThread(t) \/ ExitThread(t)
       PROVE  UNCHANGED <<locked, last_holder, SwitchWaiters>>
  BY <1>10 DEF SaveThread, RestoreThread, ExitThread
<1>11. ASSUME NEW t \in Threads, NEW u \in Threads, StartThread(t, u)
       PROVE  UNCHANGED <<locked, last_holder, SwitchWaiters>>
  BY <1>11 DEF StartThread
<1> QED
  BY <1>1, <1>2, <1>3, <1>4, <1>5, <1>6, <1>7, <1>8, <1>9, <1>10, <1>11
  DEF Next, vars, Locking, Going, Computation, Choosing, SetAsyncExc, Finalize, Signal,
      SignalBreaker, Ended

\* Whatever the threads, signals and forks do, the lock does no step that its promise does
\* not allow. (That the turn that is owed is taken in the end is left to the model checker.)
THEOREM KeepsPromise == Spec => Promise!Safety
<1>1. Init => Promise!Init
  BY DEF Init, Promise!Init, SwitchWaiters
<1>2. TypeOK => ThreadsOK
  BY DEF TypeOK, ThreadsOK, Step
<1> QED BY <1>1, <1>2, PromiseStep, LockInvHolds, TypeCorrect, PTL DEF Spec, Promise!Safety
==============================================================================
