---------------------------- MODULE PendingCalls ----------------------------
(***************************************************************************)
(* The calls that other threads and signal handlers leave to the main      *)
(* thread of the CPython 3.7.4 that the stations of the teleoperation      *)
(* setup build (Python/ceval.c, Modules/signalmodule.c): a ring of calls   *)
(* under a lock, the flags of the signals that have arrived, and the one   *)
(* flag, calls_to_do, that sends the main thread to look at both.          *)
(*                                                                         *)
(* A signal is taken on any thread, the one that holds the ring's lock     *)
(* too, and stops that thread for as long as its handler runs. A Python    *)
(* signal handler is code like any other: it may look for signals and, in  *)
(* the eval loop, at the ring, so that PyErr_CheckSignals and              *)
(* Py_MakePendingCalls nest. When the eval loop looks at calls_to_do is    *)
(* not promised here: eval_breaker, which it reads before, may be          *)
(* overwritten with an older value (Gil.tla), until something sets it.     *)
(***************************************************************************)
EXTENDS Naturals, Sequences

CONSTANTS
  Main, Handler,  \* the main thread, and whatever signal handler is running
  Others,         \* other threads
  None,
  NPENDINGCALLS,  \* places in the ring
  NSIG,           \* signals 1..NSIG
  MaxTries,       \* bound: tries for the lock after the first (the code has 99)
  MaxCalls,       \* bound: calls that are to be added
  MaxSignals      \* bound: signals that arrive; one handler is over before the next begins

ASSUME CallsAssumption ==
  /\ Main # Handler /\ {Main, Handler} \cap Others = {}
  /\ None \notin Others \cup {Main, Handler}
  /\ NPENDINGCALLS \in Nat \ {0, 1} /\ NSIG \in Nat /\ MaxTries \in Nat
  /\ MaxCalls \in Nat /\ MaxSignals \in Nat

VARIABLES
  lock,            \* pending.lock, as of PyEval_InitThreads: its holder or None
  calls, first, last,  \* the ring
  calls_to_do,
  busy,            \* the static of Py_MakePendingCalls
  is_tripped, tripped,
  main, scan,      \* where the main thread is, and the loop counter of PyErr_CheckSignals
  below,           \* what the main thread goes back to, the innermost last
  turn,            \* the loop counter of Py_MakePendingCalls
  add,             \* where each is in Py_AddPendingCall
  local,           \* its variables: the tries, the place read, and the call
  handler,         \* the handler's step, and the thread that it stopped
  added,           \* calls so far that somebody wanted to add
  kept,            \* calls so far whose Py_AddPendingCall found a place, in order
  done,            \* calls so far that were taken off the ring, in order
  signals,         \* signals so far
  nested           \* history: Py_MakePendingCalls has done its work in a Python handler

ringVars == <<calls, first, last>>
signalVars == <<is_tripped, tripped>>
mainVars == <<busy, main, scan, below, turn, nested>>
addVars == <<add, local, added>>
vars == <<lock, ringVars, calls_to_do, signalVars, mainVars, addVars, handler, kept, done, signals>>

Actors == {Main, Handler} \cup Others
Place == 0..NPENDINGCALLS - 1
Frame == [at : {"run", "handle", "call", "acquire"}, scan : 0..NSIG]

TypeOK ==
  /\ lock \in Actors \cup {None}
  /\ calls \in [Place -> 0..MaxCalls] /\ first \in Place /\ last \in Place
  /\ calls_to_do \in BOOLEAN /\ busy \in BOOLEAN
  /\ is_tripped \in BOOLEAN /\ tripped \in [1..NSIG -> BOOLEAN]
  /\ main \in {"run", "check", "scan", "handle", "acquire", "pop", "call", "error"}
  /\ scan \in 0..NSIG + 1 /\ below \in Seq(Frame) /\ nested \in BOOLEAN
  /\ turn \in 0..NPENDINGCALLS
  /\ add \in [Actors -> {"idle", "try", "read", "store", "signal", "unlock"}]
  /\ local \in [Actors -> [tries : 0..MaxTries, place : Place, call : 0..MaxCalls]]
  /\ handler \in [step : {"none", "is_tripped", "signal", "report"}, on : Others \cup {Main, None}]
  /\ added \in 0..MaxCalls /\ signals \in 0..MaxSignals
  /\ kept \in Seq(1..MaxCalls) /\ done \in Seq(0..MaxCalls)

NoLocals == [tries |-> 0, place |-> 0, call |-> 0]
NoHandler == [step |-> "none", on |-> None]

Init ==
  /\ lock = None
  /\ calls = [p \in Place |-> 0] /\ first = 0 /\ last = 0
  /\ calls_to_do = FALSE /\ busy = FALSE
  /\ is_tripped = FALSE /\ tripped = [s \in 1..NSIG |-> FALSE]
  /\ main = "run" /\ scan = 0 /\ below = <<>> /\ turn = 0 /\ nested = FALSE
  /\ add = [a \in Actors |-> "idle"] /\ local = [a \in Actors |-> NoLocals]
  /\ handler = NoHandler
  /\ added = 0 /\ kept = <<>> /\ done = <<>> /\ signals = 0

\* Mutant: the ring is a line.
PlaceAfter(p) == p + 1

NextPlace(p) == (p + 1) % NPENDINGCALLS

(***************************************************************************)
(* Py_AddPendingCall.                                                      *)
(***************************************************************************)
\* A thread does not go on while it is in a signal handler; the main thread adds calls in
\* its own code, in a call that it makes and in a Python handler.
MayAdd(a) ==
  CASE a = Handler -> handler.step = "report"
    [] a = Main -> main \in {"run", "handle", "call"} /\ handler.on # Main
    [] a \in Others -> handler.on # a

StartAdd(a) ==
  /\ add[a] = "idle" /\ MayAdd(a)
  /\ added < MaxCalls /\ added' = added + 1
  /\ add' = [add EXCEPT ![a] = "try"]
  /\ local' = [local EXCEPT ![a] = [NoLocals EXCEPT !.call = added + 1]]
  /\ UNCHANGED <<lock, ringVars, calls_to_do, signalVars, mainVars, handler, kept, done, signals>>

\* Back to the caller. Whether the call was added is the result.
Leave(a) == add' = [add EXCEPT ![a] = "idle"] /\ local' = [local EXCEPT ![a] = NoLocals]

\* Mutant: a signal handler that stopped the lock's holder waits for the lock.
TryForEver(a) ==
  /\ add[a] = "try"
  /\ \/ /\ lock = None /\ lock' = a
        /\ add' = [add EXCEPT ![a] = "read"]
     \/ lock # None /\ UNCHANGED <<lock, add>>
  /\ UNCHANGED <<ringVars, calls_to_do, signalVars, mainVars, local, handler, added, kept, done, signals>>

TryLock(a) ==
  /\ add[a] = "try"
  /\ \/ /\ lock = None /\ lock' = a
        /\ add' = [add EXCEPT ![a] = "read"] /\ UNCHANGED local
     \/ /\ lock # None /\ local[a].tries < MaxTries
        /\ local' = [local EXCEPT ![a].tries = @ + 1] /\ UNCHANGED <<lock, add>>
     \/ /\ lock # None /\ local[a].tries = MaxTries
        /\ Leave(a) /\ UNCHANGED lock
  /\ UNCHANGED <<ringVars, calls_to_do, signalVars, mainVars, handler, added, kept, done, signals>>

\* Mutant: the last place is used as well.
ReadToTheLast(a) ==
  /\ add[a] = "read"
  /\ local' = [local EXCEPT ![a].place = last]
  /\ add' = [add EXCEPT ![a] = "store"]
  /\ UNCHANGED <<lock, ringVars, calls_to_do, signalVars, mainVars, handler, added, kept, done, signals>>

\* One place is always left empty. The main thread is sent to a full ring, too.
ReadLast(a) ==
  /\ add[a] = "read"
  /\ local' = [local EXCEPT ![a].place = last]
  /\ add' = [add EXCEPT ![a] = IF NextPlace(last) = first THEN "signal" ELSE "store"]
  /\ UNCHANGED <<lock, ringVars, calls_to_do, signalVars, mainVars, handler, added, kept, done, signals>>

StoreCall(a) ==
  /\ add[a] = "store"
  /\ calls' = [calls EXCEPT ![local[a].place] = local[a].call]
  /\ last' = NextPlace(local[a].place)
  /\ kept' = Append(kept, local[a].call)
  /\ add' = [add EXCEPT ![a] = "signal"]
  /\ UNCHANGED <<lock, first, calls_to_do, signalVars, mainVars, local, handler, added, done, signals>>

SignalCalls(a) ==
  /\ add[a] = "signal"
  /\ calls_to_do' = TRUE
  /\ add' = [add EXCEPT ![a] = "unlock"]
  /\ UNCHANGED <<lock, ringVars, signalVars, mainVars, local, handler, added, kept, done, signals>>

Unlock(a) ==
  /\ add[a] = "unlock"
  /\ lock' = None /\ Leave(a)
  /\ UNCHANGED <<ringVars, calls_to_do, signalVars, mainVars, handler, added, kept, done, signals>>

AddStep(a) ==
  /\ handler.on # a
  /\ TryLock(a) \/ ReadLast(a) \/ StoreCall(a) \/ SignalCalls(a) \/ Unlock(a)

(***************************************************************************)
(* trip_signal, on thread t.                                               *)
(***************************************************************************)
Trip(t, s) ==
  /\ handler.step = "none" /\ signals < MaxSignals /\ signals' = signals + 1
  /\ tripped' = [tripped EXCEPT ![s] = TRUE]
  /\ handler' = [step |-> "is_tripped", on |-> t]
  /\ UNCHANGED <<lock, ringVars, calls_to_do, is_tripped, mainVars, addVars, kept, done>>

SetIsTripped ==
  /\ handler.step = "is_tripped" /\ handler' = [handler EXCEPT !.step = "signal"]
  /\ is_tripped' = TRUE
  /\ UNCHANGED <<lock, ringVars, calls_to_do, tripped, mainVars, addVars, kept, done, signals>>

SignalReceived ==
  /\ handler.step = "signal" /\ handler' = [handler EXCEPT !.step = "report"]
  /\ calls_to_do' = TRUE
  /\ UNCHANGED <<lock, ringVars, signalVars, mainVars, addVars, kept, done, signals>>

\* With or without a call that reports an error of the wakeup fd.
EndHandler ==
  /\ handler.step = "report" /\ add[Handler] = "idle" /\ handler' = NoHandler
  /\ UNCHANGED <<lock, ringVars, calls_to_do, signalVars, mainVars, addVars, kept, done, signals>>

HandlerStep == SetIsTripped \/ SignalReceived \/ EndHandler

(***************************************************************************)
(* The main thread: Py_MakePendingCalls and PyErr_CheckSignals.            *)
(***************************************************************************)
MainAt(step) == main = step /\ handler.on # Main /\ add[Main] = "idle"

\* Code that may call either: the program, a Python signal handler, a pending call.
Running == MainAt("run") \/ MainAt("handle") \/ MainAt("call")

Here == [at |-> main, scan |-> scan]
Caller == below[Len(below)]
Return ==
  /\ main' = Caller.at /\ scan' = Caller.scan
  /\ below' = SubSeq(below, 1, Len(below) - 1)

\* Called while it is busy, Py_MakePendingCalls does nothing.
MakePendingCalls ==
  /\ Running /\ calls_to_do /\ ~busy
  /\ busy' = TRUE /\ calls_to_do' = FALSE
  /\ below' = below \o <<Here, [at |-> "acquire", scan |-> 0]>>
  /\ main' = "check" /\ scan' = 0 /\ nested' = (nested \/ main = "handle")
  /\ UNCHANGED <<lock, ringVars, signalVars, turn, addVars, handler, kept, done, signals>>

\* PyErr_CheckSignals is called from elsewhere as well. When nothing is tripped, such a call
\* leaves everything as it is, and is no step.
CheckDirectly ==
  /\ Running /\ is_tripped
  /\ below' = Append(below, Here) /\ main' = "check" /\ scan' = 0
  /\ UNCHANGED <<lock, ringVars, calls_to_do, signalVars, busy, turn, nested, addVars, handler, kept, done, signals>>

CheckTripped ==
  /\ MainAt("check")
  /\ is_tripped' = FALSE
  /\ \/ is_tripped /\ main' = "scan" /\ scan' = 1 /\ UNCHANGED below
     \/ ~is_tripped /\ Return
  /\ UNCHANGED <<lock, ringVars, calls_to_do, tripped, busy, turn, nested, addVars, handler, kept, done, signals>>

ScanSignals ==
  /\ MainAt("scan")
  /\ \/ scan > NSIG /\ Return /\ UNCHANGED tripped
     \/ /\ scan <= NSIG /\ ~tripped[scan]
        /\ scan' = scan + 1 /\ UNCHANGED <<main, below, tripped>>
     \/ /\ scan <= NSIG /\ tripped[scan]
        /\ tripped' = [tripped EXCEPT ![scan] = FALSE]
        /\ main' = "handle" /\ UNCHANGED <<scan, below>>
  /\ UNCHANGED <<lock, ringVars, calls_to_do, is_tripped, busy, turn, nested, addVars, handler, kept, done, signals>>

HandlerReturns ==
  /\ MainAt("handle")
  /\ main' = "scan" /\ scan' = scan + 1
  /\ UNCHANGED <<lock, ringVars, calls_to_do, signalVars, busy, below, turn, nested, addVars, handler, kept, done, signals>>

\* The exception is Py_MakePendingCalls' failure, or reaches the code that looked for signals;
\* a handler or a pending call that catches it may succeed nevertheless.
Raise ==
  IF Caller.at = "acquire"
  THEN main' = "error" /\ scan' = 0 /\ below' = SubSeq(below, 1, Len(below) - 1)
  ELSE Return

\* Mutant: the signals that have not been looked at are left to the next one to arrive.
RaiseAndForget ==
  /\ MainAt("handle") /\ Raise
  /\ UNCHANGED <<lock, ringVars, calls_to_do, signalVars, busy, turn, nested, addVars, handler, kept, done, signals>>

\* An exception ends the scan.
HandlerRaises ==
  /\ MainAt("handle") /\ Raise
  /\ is_tripped' = TRUE
  /\ UNCHANGED <<lock, ringVars, calls_to_do, tripped, busy, turn, nested, addVars, handler, kept, done, signals>>

EndRound == busy' = FALSE /\ turn' = 0 /\ Return

\* Mutant: a turn less than the ring holds calls.
AcquireTooSeldom ==
  /\ MainAt("acquire")
  /\ \/ /\ turn < NPENDINGCALLS - 2 /\ lock = None
        /\ lock' = Main /\ main' = "pop" /\ turn' = turn + 1 /\ UNCHANGED <<busy, scan, below>>
     \/ turn = NPENDINGCALLS - 2 /\ EndRound /\ UNCHANGED lock
  /\ UNCHANGED <<ringVars, calls_to_do, signalVars, nested, addVars, handler, kept, done, signals>>

\* A bounded number of calls.
AcquireLock ==
  /\ MainAt("acquire")
  /\ \/ /\ turn < NPENDINGCALLS /\ lock = None
        /\ lock' = Main /\ main' = "pop" /\ turn' = turn + 1 /\ UNCHANGED <<busy, scan, below>>
     \/ turn = NPENDINGCALLS /\ EndRound /\ UNCHANGED lock
  /\ UNCHANGED <<ringVars, calls_to_do, signalVars, nested, addVars, handler, kept, done, signals>>

PopCall ==
  /\ MainAt("pop")
  /\ \/ first = last /\ EndRound /\ UNCHANGED <<first, done>>
     \/ /\ first # last
        /\ done' = Append(done, calls[first]) /\ first' = NextPlace(first)
        /\ main' = "call" /\ UNCHANGED <<busy, scan, below, turn>>
  /\ lock' = None
  /\ UNCHANGED <<calls, last, calls_to_do, signalVars, nested, addVars, handler, kept, signals>>

CallReturns ==
  /\ MainAt("call")
  /\ main' \in {"acquire", "error"}
  /\ UNCHANGED <<lock, ringVars, calls_to_do, signalVars, busy, scan, below, turn, nested, addVars, handler, kept, done, signals>>

\* Mutant: the calls that are left are not announced again.
FailForGood ==
  /\ MainAt("error") /\ EndRound
  /\ UNCHANGED <<lock, ringVars, calls_to_do, signalVars, nested, addVars, handler, kept, done, signals>>

Fail ==
  /\ MainAt("error") /\ EndRound
  /\ calls_to_do' = TRUE
  /\ UNCHANGED <<lock, ringVars, signalVars, nested, addVars, handler, kept, done, signals>>

MainStep == CheckTripped \/ ScanSignals \/ AcquireLock \/ PopCall \/ Fail

(***************************************************************************)
Next ==
  \/ MakePendingCalls \/ CheckDirectly
  \/ HandlerReturns \/ HandlerRaises \/ CallReturns \/ MainStep \/ HandlerStep
  \/ \E a \in Actors : StartAdd(a) \/ AddStep(a)
  \/ \E t \in {Main} \cup Others, s \in 1..NSIG : Trip(t, s)

Spec == Init /\ [][Next]_vars

\* Threads go on, a pending call returns, and a Python handler returns or raises. Nobody has
\* to add a call, or to begin with the ring.
Fairness ==
  /\ WF_vars(CallReturns) /\ WF_vars(HandlerReturns \/ HandlerRaises)
  /\ WF_vars(MainStep) /\ WF_vars(HandlerStep)
  /\ \A a \in Actors : WF_vars(AddStep(a))

FairSpec == Spec /\ Fairness

(***************************************************************************)
(* Properties.                                                             *)
(***************************************************************************)
\* What is in the ring, from the first to the last.
Ring == [n \in 1..(last + NPENDINGCALLS - first) % NPENDINGCALLS |->
           calls[(first + n - 1) % NPENDINGCALLS]]

\* ceval.c:315 "This implementation is thread-safe.  It allows scheduling to be made from any
\* thread, and even from an executing callback.": no call that was added is lost, made twice or
\* overtaken. Follows from HandsCallsOver below, and is proved on its own.
CallsKept == kept = done \o Ring

\* The ring keeps the safety part of what Channel.tla promises, with room for one call less
\* than it has places: a call gets in at the store of `last` and out at the store of `first`.
Promise == INSTANCE Channel WITH
  given <- kept, queue <- Ring, taken <- done,
  Payload <- 1..MaxCalls, Capacity <- NPENDINGCALLS - 1

HandsCallsOver == Promise!Safety

\* The main thread is told of what is in the ring: by calls_to_do, by whoever is still to set
\* it, or because it is about to empty the ring or to fail.
CallsAnnounced ==
  Ring # <<>> =>
    \/ calls_to_do \/ busy
    \/ \E a \in Actors : add[a] = "signal"

\* Some call of PyErr_CheckSignals, on top or suspended, is still to come to signal s.
Looking(s) ==
  \/ main = "scan" /\ scan <= s
  \/ main = "handle" /\ scan < s
  \/ \E i \in DOMAIN below : below[i].at = "handle" /\ below[i].scan < s

\* Whatever arrives while the signals are looked at, and however the calls nest,
\* PyErr_CheckSignals does not return with a signal that nobody would look at again.
SignalSeen ==
  \A s \in 1..NSIG : tripped[s] =>
    is_tripped \/ handler.step = "is_tripped" \/ Looking(s)

\* Doc/library/signal.rst:32 "the low-level signal handler sets a flag which tells the virtual
\* machine to execute the corresponding Python signal handler at a later point": calls_to_do is
\* set, or the handler is still to set it, or the main thread is still to look or to fail.
SignalAnnounced ==
  \A s \in 1..NSIG : tripped[s] =>
    \/ calls_to_do \/ handler.step \in {"is_tripped", "signal"}
    \/ main \in {"check", "error"} \/ Looking(s)

\* The virtual machine is told of every signal as long as Py_MakePendingCalls has not been at
\* work within a Python handler: failing, it sets calls_to_do again for the signals it leaves.
AnnouncedUnlessNested == nested \/ SignalAnnounced

\* Py_MakePendingCalls returns, and calls can be made again, whatever signals stop whomever
\* at the ring's lock and whatever their handlers add to it.
RoundEnds == busy ~> ~busy
==============================================================================
