--------------------------------- MODULE Gil ---------------------------------
(***************************************************************************)
(* The global interpreter lock of the CPython 3.7.4 that the stations of   *)
(* the teleoperation setup build (Python/ceval_gil.h, ceval.c).            *)
(*                                                                         *)
(* The lock is a flag, locked, under a mutex, with a condition for those   *)
(* who wait. One who has waited for an interval asks the holder to give    *)
(* the lock up (gil_drop_request), and a holder who does so waits, on a    *)
(* second condition under a second mutex, until another thread has had it. *)
(* The holder sees requests of all kinds through one flag, eval_breaker,   *)
(* which is recomputed from the others without a lock: read first, stored  *)
(* afterwards.                                                             *)
(*                                                                         *)
(* What is read and written under a mutex between two points where it is   *)
(* given up is one step, unless another thread looks at it without the     *)
(* mutex.                                                                  *)
(***************************************************************************)
EXTENDS Naturals

CONSTANTS
  Threads,     \* thread states
  MainThread,  \* of the process that is modelled first
  None,
  MaxEvents    \* bound: signals, exceptions sent to a thread, forks (after which the child
               \* is followed) and waits that end for no reason, all together

ASSUME GilAssumption ==
  /\ MainThread \in Threads /\ None \notin Threads
  /\ MaxEvents \in Nat

VARIABLES
  pc,               \* where each thread is
  why,              \* what each thread in take_gil or drop_gil is there for
  mutex,            \* gil.mutex: its holder or None
  switch_mutex,     \* gil.switch_mutex
  locked,           \* gil.locked
  last_holder,      \* gil.last_holder
  unswitched,       \* the waiters since whose wait began switch_number is the same
  gil_drop_request,
  eval_breaker,
  calls_to_do,      \* pending.calls_to_do
  tripped,          \* has a signal arrived whose handler has not run?
  handler,          \* the thread whose signal handler is between its two stores, or None
  pending_async,    \* pending.async_exc
  async_exc,        \* async_exc of each thread
  computed,         \* what each thread read to store in eval_breaker
  main_thread,      \* pending.main_thread
  finalizing,       \* _PyRuntime.finalizing
  events            \* how many so far of those that are bounded

lockVars == <<mutex, switch_mutex, locked, last_holder, unswitched>>
flagVars == <<gil_drop_request, eval_breaker, computed>>
callVars == <<calls_to_do, tripped, handler>>
asyncVars == <<pending_async, async_exc>>
processVars == <<main_thread, finalizing, events>>
vars == <<pc, why, lockVars, flagVars, callVars, asyncVars, processVars>>

\* In the loop of take_gil, which only the lock lets a thread leave.
Waiting == {"take", "wait", "expired", "setbreaker", "ready"}
\* Between the store of locked in take_gil and the one in drop_gil.
Holding == {"taken", "clear", "clearstore", "notice", "run", "unsignal", "unsignalstore",
            "calls", "checkdrop", "checkasync", "unasync", "unasyncstore", "drop"}
Dropping == {"dropped", "switch", "switchclear", "switchstore", "switchwait", "switchwoken"}

\* With gil.mutex, and with gil.switch_mutex, from one step to the next.
InMutex == {"setbreaker", "ready", "taken", "clear", "clearstore", "notice"}
InSwitchMutex == {"switchclear", "switchstore"}
TypeOK ==
  /\ pc \in [Threads -> {"gone", "out"} \cup Waiting \cup Holding \cup Dropping]
  /\ why \in [Threads -> {"none", "eval", "block", "acquire", "quit", "exit"}]
  /\ mutex \in Threads \cup {None} /\ switch_mutex \in Threads \cup {None}
  /\ locked \in BOOLEAN /\ last_holder \in Threads \cup {None}
  /\ unswitched \in SUBSET Threads
  /\ gil_drop_request \in BOOLEAN /\ eval_breaker \in BOOLEAN
  /\ computed \in [Threads -> BOOLEAN]
  /\ calls_to_do \in BOOLEAN /\ tripped \in BOOLEAN /\ handler \in Threads \cup {None}
  /\ pending_async \in BOOLEAN /\ async_exc \in [Threads -> BOOLEAN]
  /\ main_thread \in Threads /\ finalizing \in Threads \cup {None}
  /\ events \in 0..MaxEvents

\* PyEval_InitThreads: the thread that starts the second one has the lock.
Init ==
  /\ pc = [t \in Threads |-> IF t = MainThread THEN "run" ELSE "gone"]
  /\ why = [t \in Threads |-> "none"]
  /\ mutex = None /\ switch_mutex = None
  /\ locked = TRUE /\ last_holder = MainThread /\ unswitched = {}
  /\ gil_drop_request = FALSE /\ eval_breaker = FALSE
  /\ computed = [t \in Threads |-> FALSE]
  /\ calls_to_do = FALSE /\ tripped = FALSE /\ handler = None
  /\ pending_async = FALSE /\ async_exc = [t \in Threads |-> FALSE]
  /\ main_thread = MainThread /\ finalizing = None
  /\ events = 0

Event == events < MaxEvents /\ events' = events + 1

\* A thread does nothing else while it is in a signal handler.
At(t, step) == pc[t] = step /\ handler # t

Goto(t, from, to) == At(t, from) /\ pc' = [pc EXCEPT ![t] = to]

(***************************************************************************)
(* COMPUTE_EVAL_BREAKER, read and store.                                   *)
(***************************************************************************)
ReadFlags(t) ==
  computed' = [computed EXCEPT ![t] = gil_drop_request \/ calls_to_do \/ pending_async]

StoreBreaker(t) ==
  eval_breaker' = computed[t] /\ computed' = [computed EXCEPT ![t] = FALSE]

Compute(t, from, to) ==
  /\ Goto(t, from, to) /\ ReadFlags(t)
  /\ UNCHANGED <<why, lockVars, gil_drop_request, eval_breaker, callVars, asyncVars, processVars>>

Store(t, from, to) ==
  /\ Goto(t, from, to) /\ StoreBreaker(t)
  /\ UNCHANGED <<why, lockVars, gil_drop_request, callVars, asyncVars, processVars>>

(***************************************************************************)
(* take_gil.                                                               *)
(***************************************************************************)
\* Mutant: a wake-up is taken for a free lock.
FindWoken(t, from) ==
  /\ ~locked \/ from = "expired"
  /\ Goto(t, from, "ready") /\ mutex' = t
  /\ UNCHANGED <<unswitched, gil_drop_request>>

\* With the mutex: the lock is free, and the mutex is kept, ...
FindFree(t, from) ==
  /\ ~locked
  /\ Goto(t, from, "ready") /\ mutex' = t
  /\ UNCHANGED <<unswitched, gil_drop_request>>

\* ... or it is not, and pthread_cond_timedwait gives the mutex up.
FindLocked(t, from) ==
  /\ locked
  /\ Goto(t, from, "wait") /\ unswitched' = unswitched \cup {t}
  /\ UNCHANGED <<mutex, gil_drop_request>>

\* At the start of take_gil, or after a wake-up.
EnterTake(t) ==
  /\ mutex = None
  /\ FindFree(t, "take") \/ FindLocked(t, "take")
  /\ UNCHANGED <<why, switch_mutex, locked, last_holder, eval_breaker, computed,
                 callVars, asyncVars, processVars>>

Timeout(t) ==
  /\ Goto(t, "wait", "expired")
  /\ UNCHANGED <<why, lockVars, flagVars, callVars, asyncVars, processVars>>

\* POSIX allows a condition variable to wake a thread for no reason.
WakeSpuriously(t) ==
  /\ Event
  /\ Goto(t, "wait", "take") \/ Goto(t, "switchwait", "switchwoken")
  /\ UNCHANGED <<why, lockVars, flagVars, callVars, asyncVars, main_thread, finalizing>>

\* SET_GIL_DROP_REQUEST, its first store: another thread may have come and gone meanwhile.
SetRequest(t) ==
  /\ locked /\ t \in unswitched
  /\ Goto(t, "expired", "setbreaker") /\ mutex' = t
  /\ gil_drop_request' = TRUE
  /\ UNCHANGED unswitched

\* Mutant: a request that was made is not made again.
AskOnce(t) ==
  /\ mutex = None
  /\ \/ ~gil_drop_request /\ SetRequest(t)
     \/ FindFree(t, "expired")
     \/ gil_drop_request /\ FindLocked(t, "expired")
     \/ t \notin unswitched /\ FindLocked(t, "expired")
  /\ UNCHANGED <<why, switch_mutex, locked, last_holder, eval_breaker, computed,
                 callVars, asyncVars, processVars>>

AfterTimeout(t) ==
  /\ mutex = None
  /\ \/ SetRequest(t)
     \/ FindFree(t, "expired")
     \/ t \notin unswitched /\ FindLocked(t, "expired")
  /\ UNCHANGED <<why, switch_mutex, locked, last_holder, eval_breaker, computed,
                 callVars, asyncVars, processVars>>

\* Its second store, and back into the wait.
SetBreaker(t) ==
  /\ Goto(t, "setbreaker", "wait")
  /\ eval_breaker' = TRUE
  /\ mutex' = None /\ unswitched' = unswitched \cup {t}
  /\ UNCHANGED <<why, switch_mutex, locked, last_holder, gil_drop_request, computed,
                 callVars, asyncVars, processVars>>

\* Those whom a signal of switch_cond wakes: one, if there is any.
SwitchWaiters == {t \in Threads : pc[t] = "switchwait"}

\* Mutant: the switch is not signalled.
TakeSilently(t) ==
  /\ switch_mutex = None
  /\ Goto(t, "ready", "taken")
  /\ locked' = TRUE /\ last_holder' = t
  /\ unswitched' = IF last_holder = t THEN unswitched ELSE {}
  /\ UNCHANGED <<why, mutex, switch_mutex, flagVars, callVars, asyncVars, processVars>>

TakeLock(t) ==
  /\ At(t, "ready") /\ switch_mutex = None
  /\ \/ SwitchWaiters = {} /\ pc' = [pc EXCEPT ![t] = "taken"]
     \/ \E u \in SwitchWaiters :
          pc' = [pc EXCEPT ![t] = "taken", ![u] = "switchwoken"]
  /\ locked' = TRUE /\ last_holder' = t
  /\ unswitched' = IF last_holder = t THEN unswitched ELSE {}
  /\ UNCHANGED <<why, mutex, switch_mutex, flagVars, callVars, asyncVars, processVars>>

\* Mutant: the request is left to the next one who drops the lock.
KeepRequest(t) ==
  /\ Goto(t, "taken", "notice")
  /\ UNCHANGED <<why, lockVars, flagVars, callVars, asyncVars, processVars>>

\* RESET_GIL_DROP_REQUEST.
ResetRequest(t) ==
  /\ \/ gil_drop_request /\ Goto(t, "taken", "clear")
     \/ ~gil_drop_request /\ Goto(t, "taken", "notice")
  /\ gil_drop_request' = FALSE
  /\ UNCHANGED <<why, lockVars, eval_breaker, computed, callVars, asyncVars, processVars>>

\* Mutant: the thread that is sent an exception is not made to look again.
NoticeNothing(t) == t \in Threads /\ UNCHANGED <<pending_async, eval_breaker>>

\* The flag for asynchronous exceptions is set again by the thread that has one.
NoticeAsync(t) ==
  /\ pending_async' = (pending_async \/ async_exc[t])
  /\ eval_breaker' = (eval_breaker \/ async_exc[t])

\* Of those who take the lock, all look at _Py_Finalizing but a new thread
\* (PyEval_AcquireThread) and the child of a fork (PyEval_ReInitThreads).
MustQuit(t) == finalizing \notin {None, t} /\ why[t] # "acquire"

LeaveTake(t) ==
  /\ NoticeAsync(t)
  /\ mutex' = None
  /\ \/ MustQuit(t) /\ Goto(t, "notice", "drop") /\ why' = [why EXCEPT ![t] = "quit"]
     \/ /\ ~MustQuit(t) /\ why' = [why EXCEPT ![t] = "none"]
        /\ Goto(t, "notice", IF why[t] = "eval" THEN "checkasync" ELSE "run")
  /\ UNCHANGED <<switch_mutex, locked, last_holder, unswitched, gil_drop_request, computed,
                 callVars, async_exc, processVars>>

(***************************************************************************)
(* drop_gil.                                                               *)
(***************************************************************************)
\* PyThreadState_DeleteCurrent drops the lock for no thread state.
DropLock(t) ==
  /\ mutex = None
  /\ At(t, "drop")
  /\ locked' = FALSE
  /\ last_holder' = IF why[t] = "exit" THEN last_holder ELSE t
  /\ \/ /\ \A u \in Threads : pc[u] # "wait"
        /\ pc' = [pc EXCEPT ![t] = "dropped"]
     \/ \E u \in Threads :
          pc[u] = "wait" /\ pc' = [pc EXCEPT ![t] = "dropped", ![u] = "take"]
  /\ UNCHANGED <<why, mutex, switch_mutex, unswitched, flagVars, callVars, asyncVars, processVars>>

LeaveDrop(t, from) ==
  \/ why[t] = "eval" /\ Goto(t, from, "take") /\ UNCHANGED why
  \/ why[t] = "block" /\ Goto(t, from, "out") /\ UNCHANGED why
  \/ why[t] \in {"quit", "exit"} /\ Goto(t, from, "gone") /\ why' = [why EXCEPT ![t] = "none"]

LookAtRequest(t) ==
  /\ IF gil_drop_request /\ why[t] # "exit"
       THEN Goto(t, "dropped", "switch") /\ UNCHANGED why
       ELSE LeaveDrop(t, "dropped")
  /\ UNCHANGED <<lockVars, flagVars, callVars, asyncVars, processVars>>

\* Mutant: the switch is waited for although it has been.
SwitchBlindly(t) ==
  /\ switch_mutex = None
  /\ Goto(t, "switch", "switchclear")
  /\ switch_mutex' = t /\ gil_drop_request' = FALSE
  /\ UNCHANGED <<why, mutex, locked, last_holder, unswitched, eval_breaker, computed,
                 callVars, asyncVars, processVars>>

\* Not switched yet: withdraw the request, and wait. The switch mutex is kept.
BeginSwitch(t) ==
  /\ switch_mutex = None
  /\ \/ /\ last_holder = t
        /\ Goto(t, "switch", "switchclear")
        /\ switch_mutex' = t /\ gil_drop_request' = FALSE
        /\ UNCHANGED why
     \/ /\ last_holder # t
        /\ LeaveDrop(t, "switch")
        /\ UNCHANGED <<switch_mutex, gil_drop_request>>
  /\ UNCHANGED <<mutex, locked, last_holder, unswitched, eval_breaker, computed,
                 callVars, asyncVars, processVars>>

WaitForSwitch(t) ==
  /\ Goto(t, "switchstore", "switchwait")
  /\ StoreBreaker(t)
  /\ switch_mutex' = None
  /\ UNCHANGED <<why, mutex, locked, last_holder, unswitched, gil_drop_request,
                 callVars, asyncVars, processVars>>

EndSwitch(t) ==
  /\ switch_mutex = None
  /\ LeaveDrop(t, "switchwoken")
  /\ UNCHANGED <<lockVars, flagVars, callVars, asyncVars, processVars>>

(***************************************************************************)
(* The eval loop: what it does between two instructions when eval_breaker  *)
(* is set. An instruction before which it does not look is no step.        *)
(***************************************************************************)
\* Py_MakePendingCalls does something in the main thread only.
EvalCheck(t) ==
  /\ eval_breaker
  /\ IF calls_to_do /\ t = main_thread
       THEN Goto(t, "run", "unsignal") /\ calls_to_do' = FALSE
       ELSE Goto(t, "run", "checkdrop") /\ UNCHANGED calls_to_do
  /\ UNCHANGED <<why, lockVars, flagVars, tripped, handler, asyncVars, processVars>>

\* The handlers; one that fails sends the main loop round again, before it looks further.
MakePendingCalls(t) ==
  /\ \/ /\ Goto(t, "calls", "checkdrop")
        /\ UNCHANGED <<calls_to_do, eval_breaker>>
     \/ /\ tripped /\ Goto(t, "calls", "run")
        /\ calls_to_do' = TRUE /\ eval_breaker' = TRUE
  /\ tripped' = FALSE
  /\ UNCHANGED <<why, lockVars, gil_drop_request, computed, handler, asyncVars, processVars>>

CheckDropRequest(t) ==
  /\ \/ /\ gil_drop_request
        /\ Goto(t, "checkdrop", "drop") /\ why' = [why EXCEPT ![t] = "eval"]
     \/ /\ ~gil_drop_request
        /\ Goto(t, "checkdrop", "checkasync") /\ UNCHANGED why
  /\ UNCHANGED <<lockVars, flagVars, callVars, asyncVars, processVars>>

\* UNSIGNAL_ASYNC_EXC, and the exception is raised.
CheckAsyncExc(t) ==
  /\ \/ /\ async_exc[t] /\ Goto(t, "checkasync", "unasync")
        /\ async_exc' = [async_exc EXCEPT ![t] = FALSE] /\ pending_async' = FALSE
     \/ /\ ~async_exc[t] /\ Goto(t, "checkasync", "run")
        /\ UNCHANGED <<async_exc, pending_async>>
  /\ UNCHANGED <<why, lockVars, flagVars, callVars, processVars>>

(***************************************************************************)
(* What else the holder of the lock does.                                  *)
(***************************************************************************)
\* PyEval_SaveThread, before a call that may block, ...
SaveThread(t) ==
  /\ Goto(t, "run", "drop") /\ why' = [why EXCEPT ![t] = "block"]
  /\ UNCHANGED <<lockVars, flagVars, callVars, asyncVars, processVars>>

\* ... and PyEval_RestoreThread after it.
RestoreThread(t) ==
  /\ Goto(t, "out", "take")
  /\ UNCHANGED <<why, lockVars, flagVars, callVars, asyncVars, processVars>>

\* The new thread begins with PyEval_AcquireThread. Its thread state may be where that of
\* one that is gone was: then last_holder is the new thread although it never ran.
StartThread(t, u) ==
  /\ At(t, "run")
  /\ Goto(u, "gone", "take")
  /\ why' = [why EXCEPT ![u] = "acquire"]
  /\ async_exc' = [async_exc EXCEPT ![u] = FALSE]
  /\ UNCHANGED <<lockVars, flagVars, callVars, pending_async, processVars>>

ExitThread(t) ==
  /\ t # main_thread
  /\ Goto(t, "run", "drop") /\ why' = [why EXCEPT ![t] = "exit"]
  /\ async_exc' = [async_exc EXCEPT ![t] = FALSE]
  /\ UNCHANGED <<lockVars, flagVars, callVars, pending_async, processVars>>

\* PyThreadState_SetAsyncExc.
SetAsyncExc(t, u) ==
  /\ Event /\ At(t, "run") /\ pc[u] # "gone"
  /\ async_exc' = [async_exc EXCEPT ![u] = TRUE]
  /\ pending_async' = TRUE /\ eval_breaker' = TRUE
  /\ UNCHANGED <<pc, why, lockVars, gil_drop_request, computed, callVars, main_thread, finalizing>>

\* Py_FinalizeEx.
Finalize(t) ==
  /\ At(t, "run") /\ t = main_thread /\ finalizing = None
  /\ finalizing' = t
  /\ UNCHANGED <<pc, why, lockVars, flagVars, callVars, asyncVars, main_thread, events>>

\* Mutant: the child has no main thread.
ForkWithoutMain(t) ==
  /\ Event /\ At(t, "run")
  /\ pc' = [u \in Threads |-> IF u = t THEN "take" ELSE "gone"]
  /\ why' = [u \in Threads |-> IF u = t THEN "acquire" ELSE "none"]
  /\ mutex' = None /\ switch_mutex' = None
  /\ locked' = FALSE /\ last_holder' = None /\ unswitched' = {}
  /\ computed' = [u \in Threads |-> FALSE] /\ handler' = None /\ tripped' = FALSE
  /\ async_exc' = [u \in Threads |-> u = t /\ async_exc[t]]
  /\ main_thread' = None
  /\ UNCHANGED <<gil_drop_request, eval_breaker, calls_to_do, pending_async, finalizing>>

\* fork(2) and PyOS_AfterFork_Child: the child has one thread, a new lock and no signal to
\* handle, but the ceval flags as the parent's other threads left them.
Fork(t) ==
  /\ Event /\ At(t, "run")
  /\ pc' = [u \in Threads |-> IF u = t THEN "take" ELSE "gone"]
  /\ why' = [u \in Threads |-> IF u = t THEN "acquire" ELSE "none"]
  /\ mutex' = None /\ switch_mutex' = None
  /\ locked' = FALSE /\ last_holder' = None /\ unswitched' = {}
  /\ computed' = [u \in Threads |-> FALSE] /\ handler' = None /\ tripped' = FALSE
  /\ async_exc' = [u \in Threads |-> u = t /\ async_exc[t]]
  /\ main_thread' = t
  /\ UNCHANGED <<gil_drop_request, eval_breaker, calls_to_do, pending_async, finalizing>>

(***************************************************************************)
(* A signal handler, in whichever thread: SIGNAL_PENDING_CALLS, two stores *)
(* without any lock. Py_AddPendingCall does the same.                      *)
(***************************************************************************)
Signal(t) ==
  /\ Event /\ pc[t] # "gone" /\ handler = None
  /\ tripped' = TRUE /\ calls_to_do' = TRUE /\ handler' = t
  /\ UNCHANGED <<pc, why, lockVars, flagVars, asyncVars, main_thread, finalizing>>

SignalBreaker ==
  /\ handler # None /\ handler' = None
  /\ eval_breaker' = TRUE
  /\ UNCHANGED <<pc, why, lockVars, gil_drop_request, computed, calls_to_do, tripped,
                 asyncVars, processVars>>

(***************************************************************************)
Locking(t) == EnterTake(t) \/ AfterTimeout(t) \/ TakeLock(t) \/ DropLock(t) \/ BeginSwitch(t) \/ EndSwitch(t)

Computation(t) ==
  \/ Compute(t, "clear", "clearstore") \/ Store(t, "clearstore", "notice")
  \/ Compute(t, "unsignal", "unsignalstore") \/ Store(t, "unsignalstore", "calls")
  \/ Compute(t, "unasync", "unasyncstore") \/ Store(t, "unasyncstore", "run")
  \/ Compute(t, "switchclear", "switchstore") \/ WaitForSwitch(t)

Going(t) ==
  \/ Timeout(t) \/ SetBreaker(t) \/ ResetRequest(t) \/ LeaveTake(t) \/ LookAtRequest(t)
  \/ EvalCheck(t) \/ MakePendingCalls(t) \/ CheckDropRequest(t) \/ CheckAsyncExc(t)
  \/ Computation(t)

Choosing(t) ==
  \/ SaveThread(t) \/ RestoreThread(t) \/ ExitThread(t) \/ Finalize(t) \/ Fork(t)
  \/ WakeSpuriously(t)
  \/ \E u \in Threads : StartThread(t, u) \/ SetAsyncExc(t, u)

\* The last thread of a child may quit because its parent was finalizing; then it has ended.
Ended == (\A t \in Threads : pc[t] = "gone") /\ UNCHANGED vars

Next ==
  \/ Ended
  \/ SignalBreaker
  \/ \E t \in Threads : Locking(t) \/ Going(t) \/ Choosing(t) \/ Signal(t)

Spec == Init /\ [][Next]_vars

\* A thread that can go on does, and one that asks for a mutex that is free again and again
\* gets it. What the program chooses to do is not forced.
Fairness ==
  /\ WF_vars(SignalBreaker)
  /\ \A t \in Threads : WF_vars(Going(t)) /\ SF_vars(Locking(t))

FairSpec == Spec /\ Fairness

(***************************************************************************)
(* Properties.                                                             *)
(***************************************************************************)
\* A thread works as the holder of the lock only while the lock is taken, in its name; so
\* no two do, and drop_gil never finds the lock free ("drop_gil: GIL is not locked").
OneHolder == \A t \in Threads : pc[t] \in Holding => locked /\ last_holder = t

\* A request is there only with somebody who made it and still waits for the lock: otherwise
\* the holder would give the lock up to nobody, and wait for ever for a switch.
RequestHasWaiter ==
  gil_drop_request => \E t \in Threads : pc[t] \in Waiting \cup {"taken"}

\* A thread that waits for a switch has not been overtaken, and there is one to come that
\* will wake it: the wake-up is never lost.
SwitchHasTaker ==
  \A t \in Threads : pc[t] = "switchwait" =>
    /\ ~locked /\ last_holder = t
    /\ \E u \in Threads : pc[u] \in Waiting

\* A running thread to which an exception was sent finds out: no recomputation of the flag,
\* its own or of those who had the lock in between, has lost it.
AsyncNoticed ==
  \A t \in Threads : pc[t] = "run" /\ async_exc[t] => pending_async /\ eval_breaker

\* ceval.c:94 "This can set eval_breaker to 0 even though gil_drop_request became 1.  We
\* believe this is all right because the eval loop will release the GIL eventually anyway."
RequestServed ==
  \A t \in Threads : pc[t] = "run" /\ gil_drop_request ~> pc[t] \notin Holding

\* pylifecycle.c:1159 "Remaining threads (e.g. daemon threads) will automatically exit after
\* taking the GIL": once main has begun to finalize, no other thread runs.
FinalizesAlone ==
  finalizing # None => \A t \in Threads : pc[t] = "run" => t = finalizing

\* The lock implements what Baton.tla promises of it.
Promise == INSTANCE Baton WITH
  owner <- IF locked THEN last_holder ELSE None,
  last <- last_holder,
  owed <- SwitchWaiters

HandsOver == Promise!Spec
==============================================================================
