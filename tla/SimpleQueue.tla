----------------------------- MODULE SimpleQueue -----------------------------
(***************************************************************************)
(* queue.SimpleQueue of the CPython 3.7.4 that the stations of the         *)
(* teleoperation setup build (Modules/_queuemodule.c): a list with a       *)
(* position, and a lock, which is a semaphore, that getters of an empty    *)
(* queue wait for and put() releases.                                      *)
(*                                                                         *)
(* What a thread does between taking and giving up the interpreter's lock  *)
(* is one step. It gives that lock up to wait for the queue's, and while   *)
(* handlers of signals run; between a wait's end and the thread's next     *)
(* step any others may come.                                               *)
(***************************************************************************)
EXTENDS Naturals, Sequences

CONSTANTS
  Threads,
  MaxPuts,       \* bound: items put
  MaxInterrupts  \* bound: waits that a signal interrupts

ASSUME QueueAssumption == MaxPuts \in Nat /\ MaxInterrupts \in Nat

VARIABLES
  lst, lst_pos,  \* the list and where the queue's first item is in it
  locked,        \* self->locked: put() is to release the lock
  sem,           \* the value of the semaphore, 1 when the lock is free
  pc,            \* where each thread is
  kind,          \* what each thread's get() was asked for
  microseconds,  \* the rest of its timeout: none (wait for ever), zero, or some
  expired,       \* has its endtime passed?
  puts,          \* items put so far: the next one is puts + 1
  got,           \* the items got so far, in the order of the pops
  interrupts     \* waits interrupted so far

queueVars == <<lst, lst_pos>>
lockVars == <<locked, sem>>
getVars == <<kind, microseconds, expired>>
vars == <<lst, lst_pos, locked, sem, pc, kind, microseconds, expired, puts, got, interrupts>>

Kind == {"nowait", "timed", "forever"}
PyNone == 0

TypeOK ==
  /\ lst \in Seq(0..MaxPuts) /\ lst_pos \in 0..Len(lst)
  /\ locked \in BOOLEAN /\ sem \in Nat
  /\ pc \in [Threads -> {"idle", "blocked", "acquired", "failed", "interrupted", "handled"}]
  /\ kind \in [Threads -> Kind]
  /\ microseconds \in [Threads -> {"none", "zero", "some"}]
  /\ expired \in [Threads -> BOOLEAN]
  /\ puts \in 0..MaxPuts /\ got \in Seq(0..MaxPuts) /\ interrupts \in 0..MaxInterrupts

Init ==
  /\ lst = <<>> /\ lst_pos = 0
  /\ locked = FALSE /\ sem = 1
  /\ pc = [t \in Threads |-> "idle"]
  /\ kind = [t \in Threads |-> "nowait"]
  /\ microseconds = [t \in Threads |-> "zero"]
  /\ expired = [t \in Threads |-> FALSE]
  /\ puts = 0 /\ got = <<>> /\ interrupts = 0

Empty == lst_pos = Len(lst)

Goto(t, step) == pc' = [pc EXCEPT ![t] = step]

\* Back to the caller; what the call had is gone.
Return(t) ==
  /\ Goto(t, "idle")
  /\ kind' = [kind EXCEPT ![t] = "nowait"]
  /\ microseconds' = [microseconds EXCEPT ![t] = "zero"]
  /\ expired' = [expired EXCEPT ![t] = FALSE]

(***************************************************************************)
(* put().                                                                  *)
(***************************************************************************)
PutItem ==
  /\ puts < MaxPuts /\ puts' = puts + 1
  /\ lst' = Append(lst, puts + 1)
  /\ locked' = FALSE
  /\ sem' = IF locked THEN sem + 1 ELSE sem
  /\ UNCHANGED <<lst_pos, got, interrupts>>

Put(t) == pc[t] = "idle" /\ PutItem /\ UNCHANGED <<pc, getVars>>

(***************************************************************************)
(* simplequeue_pop_item: the item's place is given to None, and the front  *)
(* of the list is cut off when more than half of it is used up. That may   *)
(* fail, which puts the item back.                                         *)
(***************************************************************************)
Front == lst_pos + 1
MostlyUsed == Front > Len(lst) - Front

\* Mutant: the position is kept when the front is cut off.
PopAndStay ==
  /\ got' = Append(got, lst[Front])
  /\ IF MostlyUsed
       THEN lst' = SubSeq(lst, Front + 1, Len(lst)) /\ lst_pos' = Front
       ELSE lst' = [lst EXCEPT ![Front] = PyNone] /\ lst_pos' = Front

PopItem ==
  /\ got' = Append(got, lst[Front])
  /\ IF MostlyUsed
       THEN lst' = SubSeq(lst, Front + 1, Len(lst)) /\ lst_pos' = 0
       ELSE lst' = [lst EXCEPT ![Front] = PyNone] /\ lst_pos' = Front

\* Mutant: the pop is not undone.
PopIsLost ==
  /\ MostlyUsed
  /\ lst' = [lst EXCEPT ![Front] = PyNone] /\ lst_pos' = Front
  /\ UNCHANGED got

PopFails == MostlyUsed /\ UNCHANGED <<lst, lst_pos, got>>

\* Mutant: the lock is kept.
TakeAndKeep(t, lockTaken) ==
  /\ ~Empty
  /\ PopItem \/ PopFails
  /\ sem' = sem
  /\ locked' = (FALSE /\ lockTaken)
  /\ Return(t)

\* The end of get(), with the lock that it took.
TakeItem(t, lockTaken) ==
  /\ ~Empty
  /\ PopItem \/ PopFails
  /\ sem' = IF lockTaken THEN sem + 1 ELSE sem
  /\ locked' = FALSE
  /\ Return(t)

(***************************************************************************)
(* The loop of get().                                                      *)
(***************************************************************************)
\* The loop finds the queue empty. The tries without waiting use up whatever the semaphore
\* has; with a timeout of zero left the next thing is to raise Empty, else to wait.
FindEmpty(t, k, left, late, lockTaken) ==
  /\ Empty
  /\ sem' = 0 /\ locked' = (lockTaken \/ sem > 0)
  /\ IF left = "zero" THEN Return(t)
     ELSE /\ Goto(t, "blocked")
          /\ kind' = [kind EXCEPT ![t] = k]
          /\ microseconds' = [microseconds EXCEPT ![t] = left]
          /\ expired' = [expired EXCEPT ![t] = late]
  /\ UNCHANGED <<queueVars, got>>

\* What is left of the timeout: endtime - now, rounded up. Once the time has passed that is
\* nothing or it is negative, and negative, like -1, means to wait for ever.
Rest(k, late) ==
  CASE k = "nowait" -> {"zero"}
    [] k = "forever" -> {"none"}
    [] k = "timed" -> IF late THEN {"zero", "none"} ELSE {"some"}

\* The rest is computed anew when the first try gets the lock, with a timeout of zero as well.
Get(t, k) ==
  /\ pc[t] = "idle"
  /\ \/ TakeItem(t, locked)
     \/ \E late \in BOOLEAN :
          /\ late => k = "timed" /\ sem > 0
          /\ \E left \in Rest(k, late) : FindEmpty(t, k, left, late, locked)
  /\ UNCHANGED <<puts, interrupts>>

\* Mutant: locked is set only when the lock was got.
ResumeExactly(t) ==
  /\ \/ pc[t] = "acquired" /\ TakeItem(t, locked)
     \/ pc[t] = "handled" /\ TakeItem(t, locked)
     \/ /\ pc[t] \in {"acquired", "handled"}
        /\ \E left \in Rest(kind[t], expired[t]) : FindEmpty(t, kind[t], left, expired[t], locked)
  /\ UNCHANGED <<puts, interrupts>>

\* After a wait that did not fail: locked is set, whether or not the lock was got.
Resume(t) ==
  /\ pc[t] \in {"acquired", "handled"}
  /\ \/ TakeItem(t, TRUE)
     \/ \E left \in Rest(kind[t], expired[t]) : FindEmpty(t, kind[t], left, expired[t], TRUE)
  /\ UNCHANGED <<puts, interrupts>>

RaiseEmpty(t) ==
  /\ pc[t] = "failed"
  /\ Return(t)
  /\ UNCHANGED <<queueVars, lockVars, puts, got, interrupts>>

(***************************************************************************)
(* The wait, without the interpreter's lock.                               *)
(***************************************************************************)
Waits(t, end) ==
  /\ pc[t] = "blocked" /\ Goto(t, end)
  /\ UNCHANGED <<queueVars, locked, getVars, puts, got>>

Acquire(t) == Waits(t, "acquired") /\ sem > 0 /\ sem' = sem - 1 /\ UNCHANGED interrupts

TimeOut(t) ==
  /\ microseconds[t] = "some" /\ expired[t]
  /\ Waits(t, "failed")
  /\ UNCHANGED <<sem, interrupts>>

Interrupt(t) ==
  /\ interrupts < MaxInterrupts /\ interrupts' = interrupts + 1
  /\ Waits(t, "interrupted")
  /\ UNCHANGED sem

\* Py_MakePendingCalls. A handler may use the queue, or raise an exception, which ends get().
RunHandlers(t) ==
  /\ pc[t] = "interrupted"
  /\ \/ Goto(t, "handled") /\ PutItem /\ UNCHANGED getVars
     \/ Goto(t, "handled") /\ UNCHANGED <<queueVars, lockVars, getVars, puts, got, interrupts>>
     \/ Return(t) /\ UNCHANGED <<queueVars, lockVars, puts, got, interrupts>>

\* The clock.
Expire(t) ==
  /\ pc[t] # "idle" /\ kind[t] = "timed" /\ ~expired[t]
  /\ expired' = [expired EXCEPT ![t] = TRUE]
  /\ UNCHANGED <<queueVars, lockVars, pc, kind, microseconds, puts, got, interrupts>>

(***************************************************************************)
Going(t) == Resume(t) \/ RaiseEmpty(t) \/ Acquire(t) \/ TimeOut(t) \/ RunHandlers(t)

Next ==
  \E t \in Threads :
    Put(t) \/ (\E k \in Kind : Get(t, k)) \/ Going(t) \/ Interrupt(t) \/ Expire(t)

Spec == Init /\ [][Next]_vars

\* A thread that can go on does, and time passes. Nobody has to call put() or get().
FairSpec == Spec /\ \A t \in Threads : WF_vars(Going(t)) /\ WF_vars(Expire(t))

(***************************************************************************)
(* Properties.                                                             *)
(***************************************************************************)
\* What is in the queue.
Items == SubSeq(lst, lst_pos + 1, Len(lst))

\* Every item is got once and in the order of the puts, through all cuts of the list and
\* all cuts that fail. Follows from HandsItemsOver below, and is proved on its own.
FirstInFirstOut == got \o Items = [i \in 1..puts |-> i]

\* The queue does what Channel.tla promises: each put() and each get() that succeeds takes
\* effect in one step, and no cut of the list, failed cut or wait shows. (Nobody has to call
\* get(), so nothing is promised of when.)
Promise == INSTANCE Channel WITH
  given <- [i \in 1..puts |-> i], queue <- Items, taken <- got,
  Payload <- 1..MaxPuts, Capacity <- MaxPuts

HandsItemsOver == Promise!Safety

\* While there is an item, a thread that waits is going to be woken: the semaphore has a
\* permit, or somebody has taken it and will release it again.
NoLostWakeUp ==
  ~Empty /\ (\E t \in Threads : pc[t] = "blocked")
    => sem > 0 \/ \E u \in Threads : pc[u] = "acquired"

\* A get() that waits gets on as long as there is something to get.
WaiterServed ==
  \A t \in Threads : pc[t] = "blocked" /\ ~Empty ~> pc[t] = "idle" \/ Empty

\* _queuemodule.c:166 "it blocks at most 'timeout' seconds and raises the Empty exception if
\* no item was available within that time."
TimeoutEnds == \A t \in Threads : kind[t] = "timed" ~> kind[t] # "timed"
==============================================================================
