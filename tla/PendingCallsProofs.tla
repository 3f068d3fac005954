------------------------- MODULE PendingCallsProofs -------------------------
(***************************************************************************)
(* PendingCalls for any set of threads, any size of the ring, any number   *)
(* of signals, calls and tries for the lock: no call is lost, made twice   *)
(* or overtaken, and the main thread is told of every call and signal.     *)
(***************************************************************************)
EXTENDS PendingCalls, SequenceTheorems, TLAPS

USE CallsAssumption

(***************************************************************************)
(* Type correctness, in parts.                                             *)
(***************************************************************************)
AddStepName == {"idle", "try", "read", "store", "signal", "unlock"}
MainStepName == {"run", "check", "scan", "handle", "acquire", "pop", "call", "error"}
HandlerState == [step : {"none", "is_tripped", "signal", "report"}, on : Others \cup {Main, None}]
Locals == [tries : 0..MaxTries, place : Place, call : 0..MaxCalls]

StepsOK ==
  /\ lock \in Actors \cup {None}
  /\ add \in [Actors -> AddStepName]
  /\ handler \in HandlerState

FlagsOK ==
  /\ calls_to_do \in BOOLEAN /\ busy \in BOOLEAN
  /\ is_tripped \in BOOLEAN /\ tripped \in [1..NSIG -> BOOLEAN] /\ nested \in BOOLEAN

\* The main thread comes from `run` and goes back there at last. Only a scan has got anywhere.
Suspended == {f \in Frame : IF f.at = "handle" THEN f.scan \in 1..NSIG ELSE f.scan = 0}

StackOK ==
  /\ main \in MainStepName /\ scan \in 0..NSIG + 1
  /\ main = "scan" => scan \in 1..NSIG + 1
  /\ main = "handle" => scan \in 1..NSIG
  /\ main \notin {"scan", "handle"} => scan = 0
  /\ below \in Seq(Suspended)
  /\ main = "run" <=> Len(below) = 0
  /\ \A i \in 1..Len(below) : below[i].at = "run" <=> i = 1

CountsOK ==
  /\ added \in 0..MaxCalls /\ signals \in 0..MaxSignals
  /\ turn \in 0..NPENDINGCALLS

LocalsOK ==
  /\ local \in [Actors -> Locals]
  /\ \A a \in Actors : add[a] # "idle" => local[a].call \in 1..MaxCalls

RingOK ==
  /\ calls \in [Place -> 0..MaxCalls] /\ first \in Place /\ last \in Place
  /\ kept \in Seq(1..MaxCalls) /\ done \in Seq(0..MaxCalls)

LEMMA NextPlaceType == ASSUME NEW p \in Place PROVE NextPlace(p) \in Place
BY DEF NextPlace, Place

LEMMA PlaceZero == 0 \in Place
BY DEF Place

LEMMA StepsType == StepsOK /\ [Next]_vars => StepsOK'
<1> SUFFICES ASSUME StepsOK, [Next]_vars PROVE StepsOK'
  OBVIOUS
<1> USE DEF StepsOK, AddStepName, HandlerState, Actors
<1>1. CASE MainStep \/ MakePendingCalls \/ CallReturns \/ CheckDirectly \/ HandlerReturns \/ HandlerRaises
  BY <1>1 DEF MainStep, MakePendingCalls, CallReturns, CheckDirectly, CheckTripped, ScanSignals,
              HandlerReturns, HandlerRaises, AcquireLock, PopCall, Fail, addVars
<1>2. CASE HandlerStep
  BY <1>2 DEF HandlerStep, SetIsTripped, SignalReceived, EndHandler, NoHandler, mainVars, addVars
<1>3. ASSUME NEW a \in Actors, StartAdd(a) \/ AddStep(a) PROVE StepsOK'
  BY <1>3 DEF StartAdd, AddStep, TryLock, ReadLast, StoreCall, SignalCalls, Unlock, Leave, mainVars
<1>4. ASSUME NEW t \in {Main} \cup Others, NEW s \in 1..NSIG, Trip(t, s) PROVE StepsOK'
  BY <1>4 DEF Trip, mainVars, addVars
<1>5. CASE UNCHANGED vars
  BY <1>5 DEF vars, mainVars, addVars
<1> QED BY <1>1, <1>2, <1>3, <1>4, <1>5 DEF Next

LEMMA FlagsType == FlagsOK /\ [Next]_vars => FlagsOK'
<1> SUFFICES ASSUME FlagsOK, [Next]_vars PROVE FlagsOK'
  OBVIOUS
<1> USE DEF FlagsOK, signalVars, mainVars
<1>1. CASE MainStep \/ MakePendingCalls \/ CallReturns \/ CheckDirectly \/ HandlerReturns \/ HandlerRaises
  BY <1>1 DEF MainStep, MakePendingCalls, CallReturns, CheckDirectly, CheckTripped, ScanSignals,
              HandlerReturns, HandlerRaises, AcquireLock, PopCall, Fail, EndRound
<1>2. CASE HandlerStep
  BY <1>2 DEF HandlerStep, SetIsTripped, SignalReceived, EndHandler
<1>3. ASSUME NEW a \in Actors, StartAdd(a) \/ AddStep(a) PROVE FlagsOK'
  BY <1>3 DEF StartAdd, AddStep, TryLock, ReadLast, StoreCall, SignalCalls, Unlock
<1>4. ASSUME NEW t \in {Main} \cup Others, NEW s \in 1..NSIG, Trip(t, s) PROVE FlagsOK'
  BY <1>4 DEF Trip
<1>5. CASE UNCHANGED vars
  BY <1>5 DEF vars
<1> QED BY <1>1, <1>2, <1>3, <1>4, <1>5 DEF Next

(***************************************************************************)
(* The calls that the main thread has suspended.                           *)
(***************************************************************************)
LEMMA Push ==
  ASSUME NEW S, NEW q \in Seq(S), NEW f \in S
  PROVE  /\ Append(q, f) \in Seq(S) /\ Len(Append(q, f)) = Len(q) + 1 /\ Len(q) \in Nat
         /\ \A i \in 1..Len(q) : Append(q, f)[i] = q[i]
         /\ Append(q, f)[Len(q) + 1] = f
BY AppendProperties

LEMMA PushTwo ==
  ASSUME NEW S, NEW q \in Seq(S), NEW f \in S, NEW g \in S
  PROVE  /\ q \o <<f, g>> \in Seq(S) /\ Len(q \o <<f, g>>) = Len(q) + 2 /\ Len(q) \in Nat
         /\ \A i \in 1..Len(q) : (q \o <<f, g>>)[i] = q[i]
         /\ (q \o <<f, g>>)[Len(q) + 1] = f
         /\ (q \o <<f, g>>)[Len(q) + 2] = g
OBVIOUS

LEMMA Pop ==
  ASSUME NEW S, NEW q \in Seq(S), Len(q) # 0
  PROVE  /\ SubSeq(q, 1, Len(q) - 1) \in Seq(S) /\ Len(SubSeq(q, 1, Len(q) - 1)) = Len(q) - 1
         /\ \A i \in 1..Len(q) - 1 : SubSeq(q, 1, Len(q) - 1)[i] = q[i]
         /\ Len(q) \in Nat \ {0} /\ q[Len(q)] \in S
<1>1. Len(q) \in Nat \ {0} /\ q[Len(q)] \in S
  OBVIOUS
<1>2. \A i \in 1..Len(q) - 1 : q[i] \in S
  OBVIOUS
<1> DEFINE n == Len(q) - 1
           r == SubSeq(q, 1, n)
<1>3. /\ r \in Seq(S) /\ Len(r) = IF 1 <= n THEN n - 1 + 1 ELSE 0
      /\ \A i \in 1..n - 1 + 1 : r[i] = q[1 + i - 1]
  <2> HIDE DEF r
  <2>1. n \in Int
    BY <1>1
  <2> HIDE DEF n
  <2> QED BY <1>2, <2>1, SubSeqProperties DEF n, r
<1> HIDE DEF r
<1>4. ASSUME NEW i \in 1..Len(q) - 1 PROVE r[i] = q[i]
  <2>1. i \in 1..n - 1 + 1 /\ 1 + i - 1 = i
    BY <1>1
  <2> QED BY <1>3, <2>1
<1>5. Len(r) = Len(q) - 1
  <2>1. n \in Nat
    BY <1>1
  <2>2. Len(r) = n
    <3> HIDE DEF n
    <3> QED BY <1>3, <2>1
  <2> QED BY <2>2
<1> QED BY <1>1, <1>3, <1>4, <1>5 DEF r

LEMMA StackReturn ==
  ASSUME StackOK, main # "run", Return
  PROVE  /\ StackOK'
         /\ Len(below') = Len(below) - 1 /\ Len(below) \in Nat \ {0}
         /\ \A i \in 1..Len(below) - 1 : below'[i] = below[i]
         /\ main' = below[Len(below)].at /\ scan' = below[Len(below)].scan
         /\ main' \in {"run", "handle", "call", "acquire"}
<1>1. /\ below' = SubSeq(below, 1, Len(below) - 1)
      /\ main' = below[Len(below)].at /\ scan' = below[Len(below)].scan
  BY DEF Return, Caller
<1>2. /\ below' \in Seq(Suspended) /\ Len(below') = Len(below) - 1
      /\ \A i \in 1..Len(below) - 1 : below'[i] = below[i]
      /\ Len(below) \in Nat \ {0} /\ below[Len(below)] \in Suspended
  BY <1>1, Pop DEF StackOK
<1>3. /\ main' \in {"run", "handle", "call", "acquire"} /\ scan' \in 0..NSIG
      /\ main' = "handle" => scan' \in 1..NSIG
      /\ main' # "handle" => scan' = 0
  BY <1>1, <1>2 DEF Suspended, Frame
<1>4. /\ main' = "run" <=> Len(below') = 0
      /\ \A i \in 1..Len(below') : below'[i].at = "run" <=> i = 1
  BY <1>1, <1>2 DEF StackOK
<1> QED BY <1>1, <1>2, <1>3, <1>4 DEF StackOK, MainStepName

LEMMA StackRaise ==
  ASSUME StackOK, main # "run", Raise
  PROVE  /\ StackOK'
         /\ Len(below') = Len(below) - 1 /\ Len(below) \in Nat \ {0}
         /\ \A i \in 1..Len(below) - 1 : below'[i] = below[i]
         /\ \/ main' = "error" /\ below[Len(below)].at = "acquire"
            \/ /\ main' = below[Len(below)].at /\ scan' = below[Len(below)].scan
               /\ main' \in {"run", "handle", "call"}
<1>1. CASE Caller.at = "acquire"
  <2>1. /\ below' = SubSeq(below, 1, Len(below) - 1) /\ main' = "error" /\ scan' = 0
        /\ below[Len(below)].at = "acquire"
    BY <1>1 DEF Raise, Caller
  <2>2. /\ below' \in Seq(Suspended) /\ Len(below') = Len(below) - 1
        /\ \A i \in 1..Len(below) - 1 : below'[i] = below[i]
        /\ Len(below) \in Nat \ {0}
    BY <2>1, Pop DEF StackOK
  <2>3. Len(below') # 0
    BY <2>1, <2>2 DEF StackOK
  <2>4. \A i \in 1..Len(below') : below'[i].at = "run" <=> i = 1
    BY <2>2 DEF StackOK
  <2> QED BY <2>1, <2>2, <2>3, <2>4 DEF StackOK, MainStepName
<1>2. CASE Caller.at # "acquire"
  <2>1. Return
    BY <1>2 DEF Raise
  <2> QED BY <1>2, <2>1, StackReturn DEF Caller
<1> QED BY <1>1, <1>2

LEMMA StackPush ==
  ASSUME StackOK, main \in {"run", "handle", "call"}
  PROVE  Here \in Suspended /\ [at |-> "acquire", scan |-> 0] \in Suspended
BY DEF StackOK, Here, Suspended, Frame

LEMMA StackCheck ==
  ASSUME StackOK, CheckDirectly
  PROVE  /\ StackOK'
         /\ Len(below') = Len(below) + 1 /\ Len(below) \in Nat
         /\ \A i \in 1..Len(below) : below'[i] = below[i]
         /\ below'[Len(below) + 1] = Here
         /\ main \in {"run", "handle", "call"} /\ main' = "check"
<1>1. main \in {"run", "handle", "call"} /\ main' = "check" /\ scan' = 0 /\ below' = Append(below, Here)
  BY DEF CheckDirectly, Running, MainAt
<1>2. /\ below' \in Seq(Suspended) /\ Len(below') = Len(below) + 1 /\ Len(below) \in Nat
      /\ \A i \in 1..Len(below) : below'[i] = below[i]
      /\ below'[Len(below) + 1] = Here
  BY <1>1, StackPush, Push DEF StackOK
<1>3. \A i \in 1..Len(below') : below'[i].at = "run" <=> i = 1
  <2> TAKE i \in 1..Len(below')
  <2>1. CASE i \in 1..Len(below)
    BY <1>2, <2>1 DEF StackOK
  <2>2. CASE i = Len(below) + 1
    BY <1>2, <2>2 DEF StackOK, Here
  <2>3. i \in 1..Len(below) \/ i = Len(below) + 1
    BY <1>2
  <2> QED BY <2>1, <2>2, <2>3
<1>4. Len(below') # 0
  BY <1>2
<1> QED BY <1>1, <1>2, <1>3, <1>4 DEF StackOK, MainStepName

LEMMA StackMake ==
  ASSUME StackOK, MakePendingCalls
  PROVE  /\ StackOK'
         /\ Len(below') = Len(below) + 2 /\ Len(below) \in Nat
         /\ \A i \in 1..Len(below) : below'[i] = below[i]
         /\ below'[Len(below) + 1] = Here /\ below'[Len(below) + 2].at = "acquire"
         /\ main \in {"run", "handle", "call"} /\ main' = "check"
<1> DEFINE g == [at |-> "acquire", scan |-> 0]
<1>1. main \in {"run", "handle", "call"} /\ main' = "check" /\ scan' = 0 /\ below' = below \o <<Here, g>>
  BY DEF MakePendingCalls, Running, MainAt
<1>2. g.at = "acquire"
  OBVIOUS
<1>3. Here \in Suspended /\ g \in Suspended
  BY <1>1, StackPush
<1> HIDE DEF g
<1>4. /\ below' \in Seq(Suspended) /\ Len(below') = Len(below) + 2 /\ Len(below) \in Nat
      /\ \A i \in 1..Len(below) : below'[i] = below[i]
      /\ below'[Len(below) + 1] = Here /\ below'[Len(below) + 2] = g
  BY <1>1, <1>3, PushTwo DEF StackOK
<1>5. \A i \in 1..Len(below') : below'[i].at = "run" <=> i = 1
  <2> TAKE i \in 1..Len(below')
  <2>1. CASE i \in 1..Len(below)
    BY <1>4, <2>1 DEF StackOK
  <2>2. CASE i = Len(below) + 1
    BY <1>4, <2>2 DEF StackOK, Here
  <2>3. CASE i = Len(below) + 2
    BY <1>2, <1>4, <2>3
  <2>4. i \in 1..Len(below) \/ i = Len(below) + 1 \/ i = Len(below) + 2
    BY <1>4
  <2> QED BY <2>1, <2>2, <2>3, <2>4
<1>6. Len(below') # 0
  BY <1>4
<1>7. main' = "check" /\ scan' = 0 /\ below' \in Seq(Suspended)
  BY <1>1, <1>4
<1>8. StackOK'
  BY <1>5, <1>6, <1>7 DEF StackOK, MainStepName
<1> QED BY <1>1, <1>2, <1>4, <1>8

\* The other steps go on where they are.
LEMMA StackStay ==
  ASSUME StackOK, [Next]_vars, ~MakePendingCalls, ~CheckDirectly, ~Return, ~HandlerRaises
  PROVE  StackOK' /\ below' = below
<1> USE DEF StackOK, MainStepName
<1>1. CASE CheckTripped \/ CallReturns \/ AcquireLock \/ PopCall \/ Fail
  BY <1>1 DEF CheckTripped, CallReturns, AcquireLock, PopCall, Fail, EndRound, MainAt
<1>2. CASE ScanSignals \/ HandlerReturns
  BY <1>2 DEF ScanSignals, HandlerReturns, MainAt
<1>3. CASE UNCHANGED mainVars
  BY <1>3 DEF mainVars
<1> QED
  BY <1>1, <1>2, <1>3 DEF Next, MainStep, HandlerStep, SetIsTripped, SignalReceived, EndHandler, Trip,
     StartAdd, AddStep, TryLock, ReadLast, StoreCall, SignalCalls, Unlock, vars

LEMMA ReturnFrom ==
  ASSUME StackOK, [Next]_vars, Return
  PROVE  main # "run" \/ UNCHANGED <<main, scan, below>> \/ MakePendingCalls \/ CheckDirectly
BY DEF Next, MainStep, HandlerStep, SetIsTripped, SignalReceived, EndHandler, Trip, CallReturns,
   CheckTripped, ScanSignals, HandlerReturns, HandlerRaises, AcquireLock, PopCall, Fail, MainAt,
   StartAdd, AddStep, TryLock, ReadLast, StoreCall, SignalCalls, Unlock, vars, mainVars

LEMMA StackType == StackOK /\ [Next]_vars => StackOK'
<1> SUFFICES ASSUME StackOK, [Next]_vars PROVE StackOK'
  OBVIOUS
<1>1. CASE MakePendingCalls
  BY <1>1, StackMake
<1>2. CASE CheckDirectly
  BY <1>2, StackCheck
<1>3. CASE HandlerRaises
  BY <1>3, StackRaise DEF HandlerRaises, MainAt
<1>4. CASE Return /\ ~MakePendingCalls /\ ~CheckDirectly
  <2>1. CASE main # "run"
    BY <1>4, <2>1, StackReturn
  <2>2. CASE UNCHANGED <<main, scan, below>>
    BY <2>2 DEF StackOK
  <2> QED BY <1>4, <2>1, <2>2, ReturnFrom
<1>5. CASE ~MakePendingCalls /\ ~CheckDirectly /\ ~Return /\ ~HandlerRaises
  BY <1>5, StackStay
<1> QED BY <1>1, <1>2, <1>3, <1>4, <1>5

LEMMA CountsType == CountsOK /\ [Next]_vars => CountsOK'
<1> SUFFICES ASSUME CountsOK, [Next]_vars PROVE CountsOK'
  OBVIOUS
<1> USE DEF CountsOK, mainVars, addVars
<1>1. CASE MainStep \/ MakePendingCalls \/ CallReturns \/ CheckDirectly \/ HandlerReturns \/ HandlerRaises
  <2>1. added' = added /\ signals' = signals
    BY <1>1 DEF MainStep, MakePendingCalls, CallReturns, CheckDirectly, CheckTripped, ScanSignals,
                HandlerReturns, HandlerRaises, AcquireLock, PopCall, Fail
  <2>2. turn' = turn \/ turn' = 0 \/ (turn < NPENDINGCALLS /\ turn' = turn + 1)
    BY <1>1 DEF MainStep, MakePendingCalls, CallReturns, CheckDirectly, CheckTripped, ScanSignals,
                HandlerReturns, HandlerRaises, AcquireLock, PopCall, Fail, EndRound
  <2> QED BY <2>1, <2>2
<1>2. CASE HandlerStep
  BY <1>2 DEF HandlerStep, SetIsTripped, SignalReceived, EndHandler
<1>3. ASSUME NEW a \in Actors, StartAdd(a) \/ AddStep(a) PROVE CountsOK'
  BY <1>3 DEF StartAdd, AddStep, TryLock, ReadLast, StoreCall, SignalCalls, Unlock
<1>4. ASSUME NEW t \in {Main} \cup Others, NEW s \in 1..NSIG, Trip(t, s) PROVE CountsOK'
  BY <1>4 DEF Trip
<1>5. CASE UNCHANGED vars
  BY <1>5 DEF vars
<1> QED BY <1>1, <1>2, <1>3, <1>4, <1>5 DEF Next

LEMMA LocalsType == CountsOK /\ RingOK /\ StepsOK /\ LocalsOK /\ [Next]_vars => LocalsOK'
<1> SUFFICES ASSUME CountsOK, RingOK, StepsOK, LocalsOK, [Next]_vars PROVE LocalsOK'
  OBVIOUS
<1>0. add \in [Actors -> AddStepName] /\ last \in Place /\ added \in 0..MaxCalls
  BY DEF StepsOK, RingOK, CountsOK
<1> USE DEF LocalsOK, Locals
<1>1. ASSUME NEW a \in Actors, StartAdd(a) PROVE LocalsOK'
  BY <1>0, <1>1, PlaceZero DEF StartAdd, NoLocals
<1>2. ASSUME NEW a \in Actors, AddStep(a) PROVE LocalsOK'
  <2>1. CASE TryLock(a)
    BY <1>0, <2>1, PlaceZero DEF TryLock, Leave, NoLocals
  <2>2. CASE ReadLast(a)
    BY <1>0, <2>2 DEF ReadLast
  <2>3. CASE StoreCall(a) \/ SignalCalls(a)
    BY <1>0, <2>3 DEF StoreCall, SignalCalls
  <2>4. CASE Unlock(a)
    BY <1>0, <2>4, PlaceZero DEF Unlock, Leave, NoLocals
  <2> QED BY <1>2, <2>1, <2>2, <2>3, <2>4 DEF AddStep
<1>3. CASE UNCHANGED <<add, local>>
  BY <1>3
<1> QED
  BY <1>1, <1>2, <1>3 DEF Next, MainStep, MakePendingCalls, CallReturns, CheckDirectly, CheckTripped,
     ScanSignals, HandlerReturns, HandlerRaises, AcquireLock, PopCall, Fail, HandlerStep, SetIsTripped,
     SignalReceived, EndHandler, Trip, vars, addVars

LEMMA RingType == LocalsOK /\ RingOK /\ [Next]_vars => RingOK'
<1> SUFFICES ASSUME LocalsOK, RingOK, [Next]_vars PROVE RingOK'
  OBVIOUS
<1> USE DEF RingOK
<1>1. ASSUME NEW a \in Actors, StoreCall(a) PROVE RingOK'
  <2>1. local[a].place \in Place /\ local[a].call \in 1..MaxCalls
    BY <1>1 DEF StoreCall, LocalsOK, Locals
  <2> QED BY <1>1, <2>1, NextPlaceType DEF StoreCall
<1>2. CASE PopCall
  <2>1. CASE first = last
    BY <1>2, <2>1 DEF PopCall
  <2>2. CASE first # last
    <3>1. done' = Append(done, calls[first]) /\ calls[first] \in 0..MaxCalls
      BY <1>2, <2>2 DEF PopCall
    <3>2. done' \in Seq(0..MaxCalls)
      BY <3>1
    <3>3. first' = NextPlace(first) /\ UNCHANGED <<calls, last, kept>>
      BY <1>2, <2>2 DEF PopCall
    <3> QED BY <3>2, <3>3, NextPlaceType
  <2> QED BY <2>1, <2>2
<1>3. CASE UNCHANGED <<ringVars, kept, done>>
  BY <1>3 DEF ringVars
<1>4. \/ UNCHANGED <<ringVars, kept, done>>
      \/ PopCall
      \/ \E a \in Actors : StoreCall(a)
  BY DEF Next, MainStep, MakePendingCalls, CallReturns, CheckDirectly, CheckTripped, ScanSignals,
         HandlerReturns, HandlerRaises, AcquireLock, Fail, HandlerStep, SetIsTripped,
         SignalReceived, EndHandler, Trip, StartAdd, AddStep, TryLock, ReadLast, SignalCalls, Unlock,
         vars
<1> QED BY <1>1, <1>2, <1>3, <1>4

TypeInv == StepsOK /\ StackOK /\ FlagsOK /\ CountsOK /\ LocalsOK /\ RingOK

LEMMA TypeInit == Init => TypeInv
<1> SUFFICES ASSUME Init PROVE TypeInv
  OBVIOUS
<1>1. StepsOK
  BY DEF Init, StepsOK, AddStepName, HandlerState, NoHandler
<1>6. StackOK
  BY DEF Init, StackOK, MainStepName
<1>2. FlagsOK
  BY DEF Init, FlagsOK
<1>3. CountsOK
  BY DEF Init, CountsOK
<1>4. LocalsOK
  BY PlaceZero DEF Init, LocalsOK, Locals, NoLocals
<1>5. RingOK
  BY PlaceZero DEF Init, RingOK
<1> QED BY <1>1, <1>2, <1>3, <1>4, <1>5, <1>6 DEF TypeInv

LEMMA TypeAlways == Spec => []TypeInv
<1>1. TypeInv /\ [Next]_vars => TypeInv'
  BY StepsType, StackType, FlagsType, CountsType, LocalsType, RingType DEF TypeInv
<1> QED BY <1>1, TypeInit, PTL DEF Spec

\* Every variable of the ring, the flags and the threads keeps its type.
THEOREM TypeCorrect == Spec => []TypeOK
<1>1. TypeInv => TypeOK
  <2>1. ASSUME StackOK PROVE below \in Seq(Frame)
    BY <2>1 DEF StackOK, Suspended
  <2> QED
    BY <2>1 DEF TypeInv, StepsOK, StackOK, FlagsOK, CountsOK, LocalsOK, RingOK, TypeOK, AddStepName,
                MainStepName, HandlerState, Locals
<1> QED BY <1>1, TypeAlways, PTL

(***************************************************************************)
(* Signals.                                                                *)
(***************************************************************************)
\* A suspended handler's scan is found again when the main thread gets back to it.
LEMMA LookingPushed ==
  ASSUME StackOK, StackOK', NEW s \in 1..NSIG, Looking(s),
         Len(below') >= Len(below) + 1, \A i \in 1..Len(below) : below'[i] = below[i],
         below'[Len(below) + 1] = Here, main \notin {"scan"}
  PROVE  Looking(s)'
<1>1. below \in Seq(Suspended) /\ below' \in Seq(Suspended)
  BY DEF StackOK
<1>2. CASE main = "handle" /\ scan < s
  <2>1. Len(below) + 1 \in DOMAIN below'
    BY <1>1
  <2>2. below'[Len(below) + 1].at = "handle" /\ below'[Len(below) + 1].scan < s
    BY <1>2 DEF Here
  <2> QED BY <2>1, <2>2 DEF Looking
<1>3. ASSUME NEW i \in DOMAIN below, below[i].at = "handle", below[i].scan < s
      PROVE  Looking(s)'
  <2>1. i \in 1..Len(below) /\ i \in DOMAIN below'
    BY <1>1
  <2> QED BY <1>3, <2>1 DEF Looking
<1> QED BY <1>2, <1>3 DEF Looking

LEMMA LookingPopped ==
  ASSUME StackOK, main # "run", Return, NEW s \in 1..NSIG, Looking(s),
         main \in {"scan", "handle"} => scan > NSIG
  PROVE  Looking(s)'
<1>1. /\ Len(below') = Len(below) - 1 /\ Len(below) \in Nat \ {0}
      /\ \A i \in 1..Len(below) - 1 : below'[i] = below[i]
      /\ main' = below[Len(below)].at /\ scan' = below[Len(below)].scan
      /\ below \in Seq(Suspended) /\ below' \in Seq(Suspended)
  BY StackReturn DEF StackOK
<1>2. PICK i \in DOMAIN below : below[i].at = "handle" /\ below[i].scan < s
  <2>1. ~(main = "scan" /\ scan <= s) /\ ~(main = "handle" /\ scan < s)
    BY DEF StackOK
  <2> QED BY <2>1 DEF Looking
<1>3. CASE i = Len(below)
  BY <1>1, <1>2, <1>3 DEF Looking
<1>4. CASE i # Len(below)
  <2>1. i \in 1..Len(below) - 1
    BY <1>1, <1>4
  <2>2. i \in DOMAIN below' /\ below'[i] = below[i]
    BY <1>1, <2>1
  <2> QED BY <1>2, <2>2 DEF Looking
<1> QED BY <1>3, <1>4

LEMMA SeenStep == TypeInv /\ SignalSeen /\ [Next]_vars => SignalSeen'
<1> SUFFICES ASSUME TypeInv, SignalSeen, [Next]_vars,
                    NEW s \in 1..NSIG, tripped'[s], ~is_tripped', handler'.step # "is_tripped"
             PROVE  Looking(s)'
  BY DEF SignalSeen
<1>0. StackOK /\ StackOK' /\ handler \in HandlerState /\ tripped \in [1..NSIG -> BOOLEAN]
  BY StackType DEF TypeInv, StepsOK, FlagsOK
<1>1. tripped[s] => is_tripped \/ handler.step = "is_tripped" \/ Looking(s)
  BY DEF SignalSeen
<1>2. CASE MakePendingCalls
  <2>1. Looking(s) /\ main # "scan"
    BY <1>1, <1>2, StackMake, <1>0 DEF MakePendingCalls, signalVars
  <2> QED BY <1>0, <1>2, <2>1, StackMake, LookingPushed
<1>3. CASE CheckDirectly
  BY <1>3 DEF CheckDirectly, signalVars
<1>4. CASE CheckTripped
  <2>1. CASE is_tripped
    BY <1>0, <1>4, <2>1 DEF CheckTripped, Looking
  <2>2. CASE ~is_tripped
    <3>1. Return /\ main = "check" /\ tripped' = tripped /\ handler' = handler
      BY <1>4, <2>2 DEF CheckTripped, MainAt
    <3> QED BY <1>0, <1>1, <2>2, <3>1, LookingPopped
  <2> QED BY <2>1, <2>2
<1>5. CASE ScanSignals
  <2>0. main = "scan" /\ handler' = handler /\ is_tripped' = is_tripped
    BY <1>5 DEF ScanSignals, MainAt
  <2>1. CASE scan > NSIG /\ Return /\ UNCHANGED tripped
    BY <1>0, <1>1, <2>0, <2>1, LookingPopped
  <2>2. CASE scan <= NSIG /\ ~tripped[scan] /\ scan' = scan + 1 /\ UNCHANGED <<main, below, tripped>>
    <3>1. Looking(s) /\ s # scan
      BY <1>1, <2>0, <2>2
    <3>2. scan \in 0..NSIG + 1
      BY <1>0 DEF StackOK
    <3> QED BY <2>0, <2>2, <3>1, <3>2 DEF Looking
  <2>3. CASE /\ scan <= NSIG /\ tripped[scan] /\ tripped' = [tripped EXCEPT ![scan] = FALSE]
             /\ main' = "handle" /\ UNCHANGED <<scan, below>>
    <3>1. scan \in 1..NSIG + 1
      BY <1>0, <2>0 DEF StackOK
    <3>2. s # scan /\ tripped[s]
      BY <1>0, <2>3, <3>1
    <3>3. Looking(s)
      BY <1>1, <2>0, <3>2
    <3> QED BY <2>0, <2>3, <3>1, <3>2, <3>3 DEF Looking
  <2> QED BY <1>5, <2>1, <2>2, <2>3 DEF ScanSignals
<1>6. CASE HandlerReturns
  <2>1. Looking(s) /\ main = "handle" /\ main' = "scan" /\ scan' = scan + 1 /\ below' = below
    BY <1>1, <1>6 DEF HandlerReturns, signalVars, MainAt
  <2>2. scan \in 1..NSIG
    BY <1>0, <2>1 DEF StackOK
  <2> QED BY <2>1, <2>2 DEF Looking
<1>7. CASE HandlerRaises
  BY <1>7 DEF HandlerRaises
<1>8. CASE AcquireLock \/ PopCall \/ Fail \/ CallReturns
  <2>1. /\ tripped' = tripped /\ is_tripped' = is_tripped /\ handler' = handler
        /\ main \in {"acquire", "pop", "error", "call"}
        /\ Return \/ UNCHANGED below
    BY <1>8 DEF AcquireLock, PopCall, Fail, CallReturns, EndRound, signalVars, MainAt
  <2>2. Looking(s)
    BY <1>1, <2>1
  <2>3. CASE Return
    BY <1>0, <2>1, <2>2, <2>3, LookingPopped
  <2>4. CASE UNCHANGED below
    BY <2>1, <2>2, <2>4 DEF Looking
  <2> QED BY <2>1, <2>3, <2>4
<1>9. CASE UNCHANGED mainVars
  <2>1. Looking(s) => Looking(s)'
    BY <1>9 DEF Looking, mainVars
  <2>2. CASE HandlerStep
    BY <1>0, <1>1, <2>1, <2>2
       DEF HandlerStep, SetIsTripped, SignalReceived, EndHandler, NoHandler, signalVars, HandlerState
  <2>3. ASSUME NEW t \in {Main} \cup Others, NEW n \in 1..NSIG, Trip(t, n) PROVE Looking(s)'
    BY <2>3 DEF Trip
  <2>4. CASE UNCHANGED <<signalVars, handler>>
    BY <1>1, <2>1, <2>4 DEF signalVars
  <2> QED
    BY <1>2, <1>3, <1>4, <1>5, <1>6, <1>7, <1>8, <2>2, <2>3, <2>4 DEF Next, MainStep,
       StartAdd, AddStep, TryLock, ReadLast, StoreCall, SignalCalls, Unlock, vars
<1> QED
  BY <1>2, <1>3, <1>4, <1>5, <1>6, <1>7, <1>8, <1>9 DEF Next, MainStep, HandlerStep, SetIsTripped,
     SignalReceived, EndHandler, Trip, StartAdd, AddStep, TryLock, ReadLast, StoreCall, SignalCalls,
     Unlock, vars

\* PyErr_CheckSignals never returns with a signal that nobody would look at again.
THEOREM SignalsSeen == Spec => []SignalSeen
<1>1. Init => SignalSeen
  BY DEF Init, SignalSeen
<1> QED BY <1>1, TypeAlways, SeenStep, PTL DEF Spec

(***************************************************************************)
(* The ring. Used is the number of its places in use.                      *)
(***************************************************************************)
Used == (last + NPENDINGCALLS - first) % NPENDINGCALLS
Nth(n) == (first + n - 1) % NPENDINGCALLS

LEMMA ModOnce ==
  ASSUME NEW x \in 0..2 * NPENDINGCALLS - 1
  PROVE  x % NPENDINGCALLS = IF x < NPENDINGCALLS THEN x ELSE x - NPENDINGCALLS
<1>1. CASE x < NPENDINGCALLS
  BY <1>1
<1>2. CASE ~(x < NPENDINGCALLS)
  <2>1. x \in NPENDINGCALLS..2 * NPENDINGCALLS - 1
    BY <1>2
  <2>2. x % NPENDINGCALLS = x - NPENDINGCALLS
    BY <2>1
  <2> QED BY <1>2, <2>2
<1> QED BY <1>1, <1>2

LEMMA Distance ==
  ASSUME NEW f \in Place, NEW l \in Place
  PROVE  (l + NPENDINGCALLS - f) % NPENDINGCALLS =
           IF f <= l THEN l - f ELSE l + NPENDINGCALLS - f
<1>1. f \in 0..NPENDINGCALLS - 1 /\ l \in 0..NPENDINGCALLS - 1
  BY DEF Place
<1> DEFINE x == l + NPENDINGCALLS - f
<1>2. x \in 0..2 * NPENDINGCALLS - 1
  BY <1>1
<1>3. x % NPENDINGCALLS = IF x < NPENDINGCALLS THEN x ELSE x - NPENDINGCALLS
  <2> HIDE DEF x
  <2> QED BY <1>2, ModOnce
<1>4. x < NPENDINGCALLS <=> ~(f <= l)
  BY <1>1
<1>5. x - NPENDINGCALLS = l - f
  BY <1>1
<1> QED BY <1>3, <1>4, <1>5

LEMMA DistanceType ==
  ASSUME NEW f \in Place, NEW l \in Place
  PROVE  (l + NPENDINGCALLS - f) % NPENDINGCALLS \in 0..NPENDINGCALLS - 1
<1>1. f \in 0..NPENDINGCALLS - 1 /\ l \in 0..NPENDINGCALLS - 1
  BY DEF Place
<1> DEFINE d == (l + NPENDINGCALLS - f) % NPENDINGCALLS
<1>2. d = IF f <= l THEN l - f ELSE l + NPENDINGCALLS - f
  BY Distance
<1> HIDE DEF d
<1>3. d \in 0..NPENDINGCALLS - 1
  BY <1>1, <1>2
<1> QED BY <1>3 DEF d

LEMMA NextPlaceIs ==
  ASSUME NEW p \in Place
  PROVE  NextPlace(p) = IF p = NPENDINGCALLS - 1 THEN 0 ELSE p + 1
<1>1. p + 1 \in 0..2 * NPENDINGCALLS - 1
  BY DEF Place
<1> QED BY <1>1, ModOnce DEF NextPlace, Place

LEMMA NthIs ==
  ASSUME NEW f \in Place, NEW n \in 1..NPENDINGCALLS
  PROVE  (f + n - 1) % NPENDINGCALLS =
           IF f + n - 1 < NPENDINGCALLS THEN f + n - 1 ELSE f + n - 1 - NPENDINGCALLS
<1>1. f \in 0..NPENDINGCALLS - 1
  BY DEF Place
<1>2. f + n - 1 \in 0..2 * NPENDINGCALLS - 1
  BY <1>1
<1>3. ASSUME NEW x, x = f + n - 1
      PROVE  x % NPENDINGCALLS = IF x < NPENDINGCALLS THEN x ELSE x - NPENDINGCALLS
  <2>1. x \in 0..2 * NPENDINGCALLS - 1
    BY <1>2, <1>3
  <2> QED BY <2>1, ModOnce
<1>4. (f + n - 1) - NPENDINGCALLS = f + n - 1 - NPENDINGCALLS
  BY <1>1
<1> QED BY <1>3, <1>4, Zenon

LEMMA UsedIs ==
  RingOK => /\ first \in 0..NPENDINGCALLS - 1 /\ last \in 0..NPENDINGCALLS - 1
            /\ Used = IF first <= last THEN last - first ELSE last + NPENDINGCALLS - first
            /\ Used \in 0..NPENDINGCALLS - 1
<1>1. RingOK => first \in Place /\ last \in Place
  BY DEF RingOK
<1>2. RingOK => Used = IF first <= last THEN last - first ELSE last + NPENDINGCALLS - first
  BY <1>1, Distance DEF Used
<1> QED BY <1>1, <1>2 DEF Place

\* Who uses the ring has its lock, and the place that is about to be filled is free.
LockInv ==
  /\ \A a \in Actors :
       /\ add[a] \in {"read", "store", "signal", "unlock"} => lock = a
       /\ add[a] = "store" => local[a].place = last /\ NextPlace(last) # first
  /\ main = "pop" => lock = Main /\ add[Main] = "idle"

LEMMA LockStep == TypeInv /\ LockInv /\ [Next]_vars => LockInv'
<1> SUFFICES ASSUME TypeInv, LockInv, [Next]_vars PROVE LockInv'
  OBVIOUS
<1>0. add \in [Actors -> AddStepName] /\ local \in [Actors -> Locals] /\ Main \in Actors
  BY DEF TypeInv, StepsOK, LocalsOK, Actors
<1>a. main # "run" /\ Return => main' # "pop"
  BY StackReturn DEF TypeInv
<1>b. main # "run" /\ Raise => main' # "pop"
  BY StackRaise DEF TypeInv
<1> USE DEF LockInv, ringVars, mainVars, addVars, MainAt
<1>1. CASE MakePendingCalls \/ CallReturns \/ CheckDirectly \/ CheckTripped \/ ScanSignals
  BY <1>a, <1>1 DEF MakePendingCalls, CallReturns, CheckDirectly, CheckTripped, ScanSignals
<1>2. CASE HandlerReturns \/ HandlerRaises \/ Fail
  BY <1>a, <1>b, <1>2 DEF HandlerReturns, HandlerRaises, Fail, EndRound
<1>3. CASE AcquireLock
  BY <1>0, <1>a, <1>3 DEF AcquireLock, EndRound, Actors
<1>4. CASE PopCall
  BY <1>0, <1>a, <1>4 DEF PopCall, EndRound
<1>5. CASE HandlerStep
  BY <1>5 DEF HandlerStep, SetIsTripped, SignalReceived, EndHandler
<1>6. ASSUME NEW a \in Actors, StartAdd(a) PROVE LockInv'
  BY <1>0, <1>6 DEF StartAdd, MayAdd
<1>7. ASSUME NEW a \in Actors, TryLock(a) PROVE LockInv'
  BY <1>0, <1>7 DEF TryLock, Leave, Actors
<1>8. ASSUME NEW a \in Actors, ReadLast(a) PROVE LockInv'
  BY <1>0, <1>8 DEF ReadLast, Locals
<1>9. ASSUME NEW a \in Actors, StoreCall(a) \/ SignalCalls(a) \/ Unlock(a) PROVE LockInv'
  BY <1>0, <1>9 DEF StoreCall, SignalCalls, Unlock, Leave
<1>10. ASSUME NEW t \in {Main} \cup Others, NEW s \in 1..NSIG, Trip(t, s) PROVE LockInv'
  BY <1>10 DEF Trip
<1>11. CASE UNCHANGED vars
  BY <1>11 DEF vars
<1> QED
  BY <1>1, <1>2, <1>3, <1>4, <1>5, <1>6, <1>7, <1>8, <1>9, <1>10, <1>11 DEF Next, MainStep, AddStep

LEMMA LockAlways == Spec => []LockInv
<1>1. Init => LockInv
  BY DEF Init, LockInv
<1> QED BY <1>1, TypeAlways, LockStep, PTL DEF Spec

\* Kept call number n has been taken off, or is at its place in the ring.
Placed ==
  /\ Len(kept) = Len(done) + Used
  /\ \A n \in 1..Len(done) : kept[n] = done[n]
  /\ \A n \in 1..Used : kept[Len(done) + n] = calls[Nth(n)]

\* One more place is in use, the one that was free before the first one.
LEMMA StoreMoves ==
  ASSUME RingOK, RingOK', NextPlace(last) # first, last' = NextPlace(last), first' = first
  PROVE  /\ Used' = Used + 1
         /\ Nth(Used + 1) = last
         /\ \A n \in 1..Used : Nth(n) # last
<1>1. first \in 0..NPENDINGCALLS - 1 /\ last \in 0..NPENDINGCALLS - 1 /\ Used \in 0..NPENDINGCALLS - 1
  BY UsedIs
<1>2. last' = IF last = NPENDINGCALLS - 1 THEN 0 ELSE last + 1
  BY NextPlaceIs DEF RingOK
<1>3. Used = IF first <= last THEN last - first ELSE last + NPENDINGCALLS - first
  BY UsedIs
<1>4. Used' = IF first <= last' THEN last' - first ELSE last' + NPENDINGCALLS - first
  <2>1. first \in Place /\ last' \in Place
    BY DEF RingOK
  <2> QED BY <2>1, Distance DEF Used
<1>5. Used' = Used + 1
  BY <1>1, <1>2, <1>3, <1>4
<1>6. ASSUME NEW n \in 1..NPENDINGCALLS
      PROVE  Nth(n) = IF first + n - 1 < NPENDINGCALLS THEN first + n - 1
                      ELSE first + n - 1 - NPENDINGCALLS
  BY NthIs DEF Nth, RingOK
<1>7. Nth(Used + 1) = last
  <2>1. Used + 1 \in 1..NPENDINGCALLS
    BY <1>1
  <2>2. Nth(Used + 1) = IF first + (Used + 1) - 1 < NPENDINGCALLS THEN first + (Used + 1) - 1
                        ELSE first + (Used + 1) - 1 - NPENDINGCALLS
    BY <1>6, <2>1
  <2> QED BY <1>1, <1>3, <2>2
<1>8. ASSUME NEW n \in 1..Used PROVE Nth(n) # last
  <2>1. n \in 1..NPENDINGCALLS
    BY <1>1
  <2> QED BY <1>1, <1>3, <1>6, <2>1
<1> QED BY <1>5, <1>7, <1>8

\* One place less is in use, and they are counted from the next one.
LEMMA PopMoves ==
  ASSUME RingOK, RingOK', first # last, first' = NextPlace(first), last' = last
  PROVE  /\ Used' = Used - 1 /\ Used > 0
         /\ Nth(1) = first
         /\ \A n \in 1..Used' : Nth(n)' = Nth(n + 1)
<1>1. first \in 0..NPENDINGCALLS - 1 /\ last \in 0..NPENDINGCALLS - 1 /\ Used \in 0..NPENDINGCALLS - 1
  BY UsedIs
<1>2. first' = IF first = NPENDINGCALLS - 1 THEN 0 ELSE first + 1
  BY NextPlaceIs DEF RingOK
<1>3. Used = IF first <= last THEN last - first ELSE last + NPENDINGCALLS - first
  BY UsedIs
<1>4. Used' = IF first' <= last THEN last - first' ELSE last + NPENDINGCALLS - first'
  <2>1. first' \in Place /\ last \in Place
    BY DEF RingOK
  <2> QED BY <2>1, Distance DEF Used
<1>5. Used' = Used - 1 /\ Used > 0
  BY <1>1, <1>2, <1>3, <1>4
<1>6. Nth(1) = first
  <2>0. first \in Place /\ 1 \in 1..NPENDINGCALLS
    BY DEF RingOK
  <2>1. (first + 1 - 1) % NPENDINGCALLS = IF first + 1 - 1 < NPENDINGCALLS THEN first + 1 - 1
                                          ELSE first + 1 - 1 - NPENDINGCALLS
    BY <2>0, NthIs
  <2> QED BY <1>1, <2>1 DEF Nth
<1>7. ASSUME NEW n \in 1..Used' PROVE Nth(n)' = Nth(n + 1)
  <2>1. n \in 1..NPENDINGCALLS /\ n + 1 \in 1..NPENDINGCALLS
    BY <1>1, <1>5
  <2>2. Nth(n)' = IF first' + n - 1 < NPENDINGCALLS THEN first' + n - 1
                  ELSE first' + n - 1 - NPENDINGCALLS
    BY <2>1, NthIs DEF Nth, RingOK
  <2>3. Nth(n + 1) = IF first + (n + 1) - 1 < NPENDINGCALLS THEN first + (n + 1) - 1
                     ELSE first + (n + 1) - 1 - NPENDINGCALLS
    BY <2>1, NthIs DEF Nth, RingOK
  <2> QED BY <1>1, <1>2, <2>1, <2>2, <2>3
<1> QED BY <1>5, <1>6, <1>7

LEMMA StoreKeeps ==
  ASSUME NEW a \in Actors, TypeInv, RingOK', LockInv, Placed, StoreCall(a)
  PROVE  Placed' /\ Used' = Used + 1
<1>1. /\ kept \in Seq(1..MaxCalls) /\ done \in Seq(0..MaxCalls)
      /\ calls \in [Place -> 0..MaxCalls] /\ last \in Place
      /\ local[a].call \in 1..MaxCalls
  BY DEF StoreCall, TypeInv, RingOK, LocalsOK
<1>2. /\ calls' = [calls EXCEPT ![last] = local[a].call]
      /\ last' = NextPlace(last) /\ first' = first /\ done' = done
      /\ kept' = Append(kept, local[a].call) /\ NextPlace(last) # first
  BY DEF StoreCall, LockInv
<1>3. /\ Used' = Used + 1 /\ Nth(Used + 1) = last
      /\ \A n \in 1..Used : Nth(n) # last
  BY <1>2, StoreMoves DEF TypeInv
<1>4. Used \in 0..NPENDINGCALLS - 1
  BY UsedIs DEF TypeInv
<1>5. /\ Len(kept') = Len(kept) + 1
      /\ \A n \in 1..Len(kept) : kept'[n] = kept[n]
      /\ kept'[Len(kept) + 1] = local[a].call
  BY <1>1, <1>2
<1>6. Len(kept') = Len(done') + Used'
  BY <1>1, <1>2, <1>3, <1>4, <1>5 DEF Placed
<1>7. ASSUME NEW n \in 1..Len(done') PROVE kept'[n] = done'[n]
  <2>1. n \in 1..Len(done) /\ kept[n] = done[n]
    BY <1>2 DEF Placed
  <2>2. Len(done) \in Nat /\ Len(kept) = Len(done) + Used
    BY <1>1 DEF Placed
  <2>3. n \in 1..Len(kept)
    BY <1>4, <2>1, <2>2
  <2> QED BY <1>2, <1>5, <2>1, <2>3
<1>8. ASSUME NEW n \in 1..Used' PROVE kept'[Len(done') + n] = calls'[Nth(n)']
  <2>1. Nth(n)' = Nth(n)
    BY <1>2 DEF Nth
  <2>2. CASE n \in 1..Used
    <3>1. Len(done) + n \in 1..Len(kept)
      BY <1>1, <1>4, <2>2 DEF Placed
    <3>2. calls'[Nth(n)] = calls[Nth(n)]
      BY <1>1, <1>2, <1>3, <2>2
    <3> QED BY <1>2, <1>5, <2>1, <2>2, <3>1, <3>2 DEF Placed
  <2>3. CASE n = Used + 1
    <3>1. Len(done) + n = Len(kept) + 1
      BY <1>1, <1>4, <2>3 DEF Placed
    <3>2. calls'[last] = local[a].call
      BY <1>1, <1>2
    <3> QED BY <1>2, <1>3, <1>5, <2>1, <2>3, <3>1, <3>2
  <2> QED BY <1>3, <1>4, <2>2, <2>3
<1> QED BY <1>3, <1>6, <1>7, <1>8 DEF Placed

LEMMA PopKeeps ==
  ASSUME TypeInv, RingOK', Placed, PopCall, first # last
  PROVE  Placed' /\ Used' = Used - 1 /\ Used > 0
<1>1. kept \in Seq(1..MaxCalls) /\ done \in Seq(0..MaxCalls) /\ calls[first] \in 0..MaxCalls
  BY DEF TypeInv, RingOK
<1>2. /\ done' = Append(done, calls[first]) /\ first' = NextPlace(first)
      /\ calls' = calls /\ last' = last /\ kept' = kept
  BY DEF PopCall
<1>3. /\ Used' = Used - 1 /\ Used > 0 /\ Nth(1) = first
      /\ \A n \in 1..Used' : Nth(n)' = Nth(n + 1)
  BY <1>2, PopMoves DEF TypeInv
<1>4. Used \in 0..NPENDINGCALLS - 1
  BY UsedIs DEF TypeInv
<1>5. /\ Len(done') = Len(done) + 1
      /\ \A n \in 1..Len(done) : done'[n] = done[n]
      /\ done'[Len(done) + 1] = calls[first]
  BY <1>1, <1>2
<1>6. Len(kept') = Len(done') + Used'
  BY <1>1, <1>2, <1>3, <1>4, <1>5 DEF Placed
<1>7. ASSUME NEW n \in 1..Len(done') PROVE kept'[n] = done'[n]
  <2>1. CASE n \in 1..Len(done)
    BY <1>2, <1>5, <2>1 DEF Placed
  <2>2. CASE n = Len(done) + 1
    <3>1. kept[Len(done) + 1] = calls[Nth(1)]
      BY <1>3, <1>4 DEF Placed
    <3> QED BY <1>2, <1>3, <1>5, <2>2, <3>1
  <2> QED BY <1>1, <1>5, <2>1, <2>2
<1>8. ASSUME NEW n \in 1..Used' PROVE kept'[Len(done') + n] = calls'[Nth(n)']
  <2>1. n + 1 \in 1..Used
    BY <1>3, <1>4
  <2>2. kept[Len(done) + (n + 1)] = calls[Nth(n + 1)]
    BY <2>1 DEF Placed
  <2>3. Len(done') + n = Len(done) + (n + 1)
    BY <1>1, <1>3, <1>4, <1>5
  <2> QED BY <1>2, <1>3, <2>2, <2>3
<1> QED BY <1>3, <1>6, <1>7, <1>8 DEF Placed

\* What each step does to the ring.
LEMMA RingStep ==
  [Next]_vars => \/ UNCHANGED <<ringVars, kept, done>>
                 \/ PopCall /\ first # last
                 \/ \E a \in Actors : StoreCall(a)
BY DEF Next, MainStep, MakePendingCalls, CallReturns, CheckDirectly, CheckTripped, ScanSignals,
       HandlerReturns, HandlerRaises, AcquireLock, PopCall, Fail, HandlerStep, SetIsTripped,
       SignalReceived, EndHandler, Trip, StartAdd, AddStep, TryLock, ReadLast, SignalCalls, Unlock,
       vars, ringVars

LEMMA PlacedAlways == Spec => []Placed
<1>1. Init => Placed
  <2> SUFFICES ASSUME Init PROVE Placed
    OBVIOUS
  <2>1. Used = 0
    BY TypeInit, UsedIs DEF Init, TypeInv
  <2>2. kept = <<>> /\ done = <<>>
    BY DEF Init
  <2> QED BY <2>1, <2>2 DEF Placed
<1>2. TypeInv /\ LockInv /\ Placed /\ [Next]_vars => Placed'
  <2> SUFFICES ASSUME TypeInv, LockInv, Placed, [Next]_vars PROVE Placed'
    OBVIOUS
  <2>1. CASE UNCHANGED <<ringVars, kept, done>>
    <3>1. Used' = Used /\ \A n : Nth(n)' = Nth(n)
      BY <2>1 DEF Used, Nth, ringVars
    <3> QED BY <2>1, <3>1 DEF Placed, ringVars
  <2>2. RingOK'
    BY RingType DEF TypeInv
  <2> QED BY <2>1, <2>2, RingStep, StoreKeeps, PopKeeps
<1> QED BY <1>1, <1>2, TypeAlways, LockAlways, PTL DEF Spec

\* Every call that was added is made once, and in the order of the adding, for any number of
\* calls and any size of the ring.
THEOREM CallsInOrder == Spec => []CallsKept
<1>1. TypeInv /\ Placed => CallsKept
  <2> SUFFICES ASSUME TypeInv, Placed PROVE kept = done \o Ring
    BY DEF CallsKept
  <2>1. /\ kept \in Seq(0..MaxCalls) /\ done \in Seq(0..MaxCalls)
        /\ Used \in 0..NPENDINGCALLS - 1 /\ first \in Place /\ calls \in [Place -> 0..MaxCalls]
    BY UsedIs DEF TypeInv, RingOK
  <2>2. Ring = [n \in 1..Used |-> calls[Nth(n)]]
    BY DEF Ring, Used, Nth
  <2>3. \A n \in 1..Used : calls[Nth(n)] \in 0..MaxCalls
    BY <2>1, NthIs DEF Nth, Place
  <2>4. Ring \in Seq(0..MaxCalls) /\ Len(Ring) = Used
    BY <2>1, <2>2, <2>3 DEF Place
  <2>5. /\ done \o Ring \in Seq(0..MaxCalls)
        /\ Len(done \o Ring) = Len(done) + Used
        /\ \A n \in 1..Len(done) + Used :
             (done \o Ring)[n] = IF n <= Len(done) THEN done[n] ELSE Ring[n - Len(done)]
    BY <2>1, <2>4, ConcatProperties
  <2>6. ASSUME NEW n \in 1..Len(kept) PROVE kept[n] = (done \o Ring)[n]
    <3>1. CASE n \in 1..Len(done)
      BY <2>1, <2>5, <3>1 DEF Placed, Place
    <3>2. CASE n \in Len(done) + 1 .. Len(kept)
      <4> DEFINE m == n - Len(done)
      <4>1. m \in 1..Used /\ n = Len(done) + m
        BY <2>1, <3>2 DEF Placed, Place
      <4>2. kept[n] = calls[Nth(m)]
        BY <4>1 DEF Placed
      <4>3. (done \o Ring)[n] = Ring[m]
        BY <2>1, <2>5, <3>2 DEF Placed, Place
      <4> QED BY <2>2, <4>1, <4>2, <4>3
    <3>3. Len(kept) \in Nat /\ Len(done) \in Nat
      BY <2>1
    <3>4. n \in 1..Len(done) \/ n \in Len(done) + 1 .. Len(kept)
      BY <3>3
    <3> QED BY <3>1, <3>2, <3>4
  <2> QED BY <2>1, <2>5, <2>6, SeqEqual DEF Placed
<1> QED BY <1>1, TypeAlways, PlacedAlways, PTL

(***************************************************************************)
(* The promise of Channel.tla, its safety part.                            *)
(***************************************************************************)
RingOf(c, f, u) == [n \in 1..u |-> c[(f + n - 1) % NPENDINGCALLS]]

LEMMA RingSeq ==
  ASSUME NEW c \in [Place -> 0..MaxCalls], NEW f \in Place, NEW u \in 0..NPENDINGCALLS - 1
  PROVE  RingOf(c, f, u) \in Seq(0..MaxCalls) /\ Len(RingOf(c, f, u)) = u
<1>1. ASSUME NEW n \in 1..u PROVE c[(f + n - 1) % NPENDINGCALLS] \in 0..MaxCalls
  <2>1. (f + n - 1) % NPENDINGCALLS \in Place
    BY NthIs DEF Place
  <2> QED BY <2>1
<1>2. u \in Nat
  OBVIOUS
<1> HIDE DEF Place
<1> QED BY <1>1, <1>2 DEF RingOf

LEMMA StorePromised ==
  ASSUME NEW a \in Actors, TypeInv, RingOK', LockInv, StoreCall(a)
  PROVE  Promise!Put(local[a].call) /\ local[a].call \in 1..MaxCalls
<1>1. /\ calls \in [Place -> 0..MaxCalls] /\ last \in Place /\ first \in Place
      /\ calls' \in [Place -> 0..MaxCalls]
      /\ local[a].call \in 1..MaxCalls
  BY DEF StoreCall, TypeInv, RingOK, LocalsOK
<1>2. /\ calls' = [calls EXCEPT ![last] = local[a].call]
      /\ last' = NextPlace(last) /\ first' = first /\ done' = done
      /\ NextPlace(last) # first
  BY DEF StoreCall, LockInv
<1>3. /\ Used' = Used + 1 /\ Nth(Used + 1) = last
      /\ \A n \in 1..Used : Nth(n) # last
  BY <1>2, StoreMoves DEF TypeInv
<1>4. Used \in 0..NPENDINGCALLS - 1 /\ Used' \in 0..NPENDINGCALLS - 1
  <2>1. Used \in 0..NPENDINGCALLS - 1
    BY UsedIs DEF TypeInv
  <2>2. first' \in Place /\ last' \in Place
    BY DEF RingOK
  <2>3. Used' \in 0..NPENDINGCALLS - 1
    BY <2>2, DistanceType DEF Used
  <2> QED BY <2>1, <2>3
<1>5. Ring \in Seq(0..MaxCalls) /\ Len(Ring) = Used /\ \A n \in 1..Used : Ring[n] = calls[Nth(n)]
  <2>1. Ring = RingOf(calls, first, Used)
    BY DEF Ring, Used, RingOf
  <2>2. \A n \in 1..Used : Ring[n] = calls[Nth(n)]
    BY DEF Ring, Used, Nth
  <2> QED BY <1>1, <1>4, <2>1, <2>2, RingSeq
<1>6. /\ Ring' \in Seq(0..MaxCalls) /\ Len(Ring') = Used + 1
      /\ \A n \in 1..Used + 1 : Ring'[n] = calls'[Nth(n)]
  <2>1. Ring' = RingOf(calls', first, Used')
    BY <1>2 DEF Ring, Used, RingOf
  <2>2. \A n \in 1..Used' : Ring'[n] = calls'[Nth(n)]
    BY <1>2 DEF Ring, Used, Nth
  <2>3. RingOf(calls', first, Used') \in Seq(0..MaxCalls) /\ Len(RingOf(calls', first, Used')) = Used'
    BY <1>1, <1>4, RingSeq
  <2> QED BY <1>3, <2>1, <2>2, <2>3
<1>7. /\ Append(Ring, local[a].call) \in Seq(0..MaxCalls)
      /\ Len(Append(Ring, local[a].call)) = Used + 1
      /\ \A n \in 1..Used : Append(Ring, local[a].call)[n] = Ring[n]
      /\ Append(Ring, local[a].call)[Used + 1] = local[a].call
  <2>1. local[a].call \in 0..MaxCalls
    BY <1>1
  <2> QED BY <1>5, <2>1, AppendProperties
<1>8. ASSUME NEW n \in 1..Used + 1 PROVE Ring'[n] = Append(Ring, local[a].call)[n]
  <2>1. CASE n \in 1..Used
    <3>1. Nth(n) \in Place /\ Nth(n) # last
      <4>1. n \in 1..NPENDINGCALLS
        BY <1>4, <2>1
      <4> QED BY <1>1, <1>3, <2>1, <4>1, NthIs DEF Nth, Place
    <3>2. calls'[Nth(n)] = calls[Nth(n)]
      BY <1>1, <1>2, <3>1
    <3> QED BY <1>5, <1>6, <1>7, <2>1, <3>2
  <2>2. CASE n = Used + 1
    <3>1. calls'[last] = local[a].call
      BY <1>1, <1>2
    <3> QED BY <1>3, <1>6, <1>7, <2>2, <3>1
  <2>3. n \in 1..Used \/ n = Used + 1
    BY <1>4
  <2> QED BY <2>1, <2>2, <2>3
<1>9. Ring' = Append(Ring, local[a].call)
  BY <1>6, <1>7, <1>8, SeqEqual
<1>10. Len(Ring) < NPENDINGCALLS - 1
  BY <1>3, <1>4, <1>5
<1>11. kept' = Append(kept, local[a].call)
  BY DEF StoreCall
<1> QED BY <1>1, <1>2, <1>9, <1>10, <1>11 DEF Promise!Put

LEMMA PopPromised ==
  ASSUME TypeInv, RingOK', PopCall, first # last
  PROVE  Promise!Take
<1>1. calls \in [Place -> 0..MaxCalls] /\ last \in Place /\ first \in Place /\ first' \in Place
  BY DEF TypeInv, RingOK
<1>2. /\ done' = Append(done, calls[first]) /\ first' = NextPlace(first)
      /\ calls' = calls /\ last' = last
  BY DEF PopCall
<1>3. /\ Used' = Used - 1 /\ Used > 0 /\ Nth(1) = first
      /\ \A n \in 1..Used' : Nth(n)' = Nth(n + 1)
  BY <1>2, PopMoves DEF TypeInv
<1>4. Used \in 0..NPENDINGCALLS - 1 /\ Used' \in 0..NPENDINGCALLS - 1
  BY <1>3, UsedIs DEF TypeInv
<1>5. Ring \in Seq(0..MaxCalls) /\ Len(Ring) = Used /\ \A n \in 1..Used : Ring[n] = calls[Nth(n)]
  <2>1. Ring = RingOf(calls, first, Used)
    BY DEF Ring, Used, RingOf
  <2>2. \A n \in 1..Used : Ring[n] = calls[Nth(n)]
    BY DEF Ring, Used, Nth
  <2> QED BY <1>1, <1>4, <2>1, <2>2, RingSeq
<1>6. /\ Ring' \in Seq(0..MaxCalls) /\ Len(Ring') = Used'
      /\ \A n \in 1..Used' : Ring'[n] = calls[Nth(n)']
  <2>1. Ring' = RingOf(calls, first', Used')
    BY <1>2 DEF Ring, Used, RingOf
  <2>2. \A n \in 1..Used' : Ring'[n] = calls[Nth(n)']
    BY <1>2 DEF Ring, Used, Nth
  <2> QED BY <1>1, <1>4, <2>1, <2>2, RingSeq
<1>7. Ring # <<>> /\ Head(Ring) = calls[first]
  <2>1. 1 \in 1..Used
    BY <1>3, <1>4
  <2>2. Ring[1] = calls[first]
    BY <1>3, <1>5, <2>1
  <2>3. Ring # <<>>
    BY <1>3, <1>5
  <2> QED BY <1>5, <2>2, <2>3
<1>8. /\ Tail(Ring) \in Seq(0..MaxCalls) /\ Len(Tail(Ring)) = Used - 1
      /\ \A n \in 1..Used - 1 : Tail(Ring)[n] = Ring[n + 1]
  BY <1>5, <1>7, HeadTailProperties
<1>9. ASSUME NEW n \in 1..Used' PROVE Ring'[n] = Tail(Ring)[n]
  <2>1. n + 1 \in 1..Used /\ n \in 1..Used - 1
    BY <1>3, <1>4
  <2>2. Ring'[n] = calls[Nth(n + 1)]
    BY <1>3, <1>6
  <2>3. Ring[n + 1] = calls[Nth(n + 1)]
    BY <1>5, <2>1
  <2>4. Tail(Ring)[n] = Ring[n + 1]
    BY <1>8, <2>1
  <2> QED BY <2>2, <2>3, <2>4
<1>10. Ring' = Tail(Ring)
  BY <1>3, <1>6, <1>8, <1>9, SeqEqual
<1>11. kept' = kept
  BY DEF PopCall
<1> QED BY <1>2, <1>7, <1>10, <1>11 DEF Promise!Take

LEMMA PromiseStep ==
  TypeInv /\ RingOK' /\ LockInv /\ [Next]_vars => [Promise!Next]_(Promise!vars)
<1> SUFFICES ASSUME TypeInv, RingOK', LockInv, [Next]_vars PROVE [Promise!Next]_(Promise!vars)
  OBVIOUS
<1>1. CASE UNCHANGED <<ringVars, kept, done>>
  BY <1>1 DEF Promise!vars, Ring, ringVars
<1>2. CASE PopCall /\ first # last
  BY <1>2, PopPromised DEF Promise!Next
<1>3. ASSUME NEW a \in Actors, StoreCall(a) PROVE Promise!Next
  BY <1>3, StorePromised DEF Promise!Next
<1> QED BY <1>1, <1>2, <1>3, RingStep

\* The ring is a channel with one place less than it has, whatever the threads and signal
\* handlers are in the middle of: a call is in from the store of `last` on, and out from the
\* store of `first` on.
THEOREM KeepsPromise == Spec => HandsCallsOver
<1>1. Init => Promise!Init
  <2> SUFFICES ASSUME Init PROVE Ring = <<>> /\ done = <<>> /\ kept = <<>>
    BY DEF Promise!Init
  <2>1. Used = 0 /\ done = <<>> /\ kept = <<>>
    BY TypeInit, UsedIs DEF Init, TypeInv
  <2>2. Ring = [n \in 1..Used |-> calls[Nth(n)]]
    BY DEF Ring, Used, Nth
  <2> HIDE DEF Used, Nth
  <2>3. Ring = [n \in {} |-> calls[Nth(n)]]
    BY <2>1, <2>2
  <2> QED BY <2>1, <2>3
<1>2. TypeInv /\ [Next]_vars => RingOK'
  BY RingType DEF TypeInv
<1> QED
  BY <1>1, <1>2, PromiseStep, TypeAlways, LockAlways, PTL DEF Spec, HandsCallsOver, Promise!Safety

(***************************************************************************)
(* The main thread is told of the ring. It goes round at most as often as  *)
(* there are places, which empties a ring that nobody adds to meanwhile.   *)
(***************************************************************************)
Announced == calls_to_do \/ \E a \in Actors : add[a] = "signal"

InRound == {"acquire", "pop", "call", "error"}

\* Py_MakePendingCalls is on the stack of calls at most once, and then it is busy.
BusyInv ==
  /\ main \in InRound => busy /\ \A i \in 1..Len(below) : below[i].at \notin InRound
  /\ \A i \in 1..Len(below) : below[i].at \in InRound => busy
  /\ \A i, j \in 1..Len(below) : below[i].at \in InRound /\ below[j].at \in InRound => i = j
  /\ ~busy => turn = 0

TurnsInv ==
  ~Announced => Used + turn <= IF main = "pop" THEN NPENDINGCALLS ELSE NPENDINGCALLS - 1

AnnouncedInv == Used > 0 => Announced \/ busy

LEMMA BusyReturn ==
  ASSUME StackOK, BusyInv, main # "run", Return, ~busy' => turn' = 0,
         \/ main \in InRound
         \/ main \notin InRound /\ busy' = busy
  PROVE  BusyInv'
<1>1. /\ Len(below') = Len(below) - 1 /\ Len(below) \in Nat \ {0}
      /\ \A i \in 1..Len(below) - 1 : below'[i] = below[i]
      /\ main' = below[Len(below)].at
  BY StackReturn
<1>2. \A i \in 1..Len(below') : i \in 1..Len(below) /\ i # Len(below) /\ below'[i] = below[i]
  BY <1>1
<1>3. Len(below) \in 1..Len(below)
  BY <1>1
<1>4. CASE main \in InRound
  BY <1>1, <1>2, <1>3, <1>4 DEF BusyInv
<1>5. CASE main \notin InRound /\ busy' = busy
  BY <1>1, <1>2, <1>3, <1>5 DEF BusyInv
<1> QED BY <1>4, <1>5

LEMMA BusyStep == TypeInv /\ BusyInv /\ [Next]_vars => BusyInv'
<1> SUFFICES ASSUME TypeInv, BusyInv, [Next]_vars PROVE BusyInv'
  OBVIOUS
<1>0. StackOK
  BY DEF TypeInv
<1>1. CASE MakePendingCalls
  <2>1. /\ Len(below') = Len(below) + 2 /\ Len(below) \in Nat
        /\ \A i \in 1..Len(below) : below'[i] = below[i]
        /\ below'[Len(below) + 1] = Here /\ main' = "check"
    BY <1>0, <1>1, StackMake
  <2>2. /\ ~busy /\ busy' /\ \A i \in 1..Len(below) : below[i].at \notin InRound
        /\ Here.at \notin InRound
    BY <1>1 DEF MakePendingCalls, BusyInv, Here
  <2>3. \A i \in 1..Len(below') : i \in 1..Len(below) \/ i = Len(below) + 1 \/ i = Len(below) + 2
    BY <2>1
  <2>4. \A i \in 1..Len(below') : below'[i].at \in InRound => i = Len(below) + 2
    BY <2>1, <2>2, <2>3
  <2>5. main' \notin InRound
    BY <2>1 DEF InRound
  <2> QED BY <2>2, <2>4, <2>5 DEF BusyInv
<1>2. CASE CheckDirectly
  <2>1. /\ Len(below') = Len(below) + 1 /\ Len(below) \in Nat
        /\ \A i \in 1..Len(below) : below'[i] = below[i]
        /\ below'[Len(below) + 1] = Here /\ main' = "check"
    BY <1>0, <1>2, StackCheck
  <2>2. busy' = busy /\ turn' = turn /\ Here.at = main
    BY <1>2 DEF CheckDirectly, Here
  <2>3. \A i \in 1..Len(below') : i \in 1..Len(below) \/ i = Len(below) + 1
    BY <2>1
  <2>4. main' \notin InRound
    BY <2>1 DEF InRound
  <2>5. CASE main \in InRound
    <3>1. busy /\ \A i \in 1..Len(below) : below[i].at \notin InRound
      BY <2>5 DEF BusyInv
    <3>2. \A i \in 1..Len(below') : below'[i].at \in InRound => i = Len(below) + 1
      BY <2>1, <2>3, <3>1
    <3> QED BY <2>2, <2>4, <3>1, <3>2 DEF BusyInv
  <2>6. CASE main \notin InRound
    <3>1. \A i \in 1..Len(below') : below'[i].at \in InRound => i \in 1..Len(below) /\ below[i].at \in InRound
      BY <2>1, <2>2, <2>3, <2>6
    <3> QED BY <2>2, <2>4, <3>1 DEF BusyInv
  <2> QED BY <2>5, <2>6
<1>3. CASE CheckTripped
  <2>1. main = "check" /\ busy' = busy /\ turn' = turn /\ main \notin InRound
    BY <1>3 DEF CheckTripped, MainAt, InRound
  <2>2. CASE Return
    BY <1>0, <2>1, <2>2, BusyReturn DEF BusyInv
  <2>3. CASE main' = "scan" /\ UNCHANGED below
    BY <2>1, <2>3 DEF BusyInv, InRound
  <2> QED BY <1>3, <2>2, <2>3 DEF CheckTripped
<1>4. CASE ScanSignals
  <2>1. main = "scan" /\ busy' = busy /\ turn' = turn /\ main \notin InRound
    BY <1>4 DEF ScanSignals, MainAt, InRound
  <2>2. CASE Return
    BY <1>0, <2>1, <2>2, BusyReturn DEF BusyInv
  <2>3. CASE main' \in {"scan", "handle"} /\ UNCHANGED below
    BY <2>1, <2>3 DEF BusyInv, InRound
  <2> QED BY <1>4, <2>1, <2>2, <2>3 DEF ScanSignals
<1>5. CASE HandlerReturns
  BY <1>5 DEF HandlerReturns, MainAt, BusyInv, InRound
<1>6. CASE HandlerRaises
  <2>1. main = "handle" /\ busy' = busy /\ turn' = turn /\ main \notin InRound /\ Raise
    BY <1>6 DEF HandlerRaises, MainAt, InRound
  <2>2. CASE Return
    BY <1>0, <2>1, <2>2, BusyReturn DEF BusyInv
  <2>3. CASE ~Return
    <3>1. /\ Len(below') = Len(below) - 1 /\ Len(below) \in Nat \ {0}
          /\ \A i \in 1..Len(below) - 1 : below'[i] = below[i]
      BY <1>0, <2>1, StackRaise
    <3>2. main' = "error" /\ below[Len(below)].at = "acquire"
      BY <2>1, <2>3 DEF Raise, Caller
    <3>3. \A i \in 1..Len(below') : i \in 1..Len(below) /\ i # Len(below) /\ below'[i] = below[i]
      BY <3>1
    <3>4. Len(below) \in 1..Len(below) /\ below[Len(below)].at \in InRound
      BY <3>1, <3>2 DEF InRound
    <3> QED BY <2>1, <3>3, <3>4 DEF BusyInv
  <2> QED BY <2>2, <2>3
<1>7. CASE AcquireLock \/ PopCall \/ Fail \/ CallReturns
  <2>1. main \in InRound /\ main # "run"
    BY <1>7 DEF AcquireLock, PopCall, Fail, CallReturns, MainAt, InRound
  <2>2. CASE EndRound
    BY <1>0, <2>1, <2>2, BusyReturn DEF EndRound
  <2>3. CASE main' \in InRound /\ UNCHANGED <<busy, below>>
    BY <2>1, <2>3 DEF BusyInv
  <2> QED BY <1>7, <2>2, <2>3 DEF AcquireLock, PopCall, Fail, CallReturns, InRound
<1>8. CASE UNCHANGED mainVars
  BY <1>8 DEF mainVars, BusyInv
<1> QED
  BY <1>1, <1>2, <1>3, <1>4, <1>5, <1>6, <1>7, <1>8 DEF Next, MainStep, HandlerStep, SetIsTripped,
     SignalReceived, EndHandler, Trip, StartAdd, AddStep, TryLock, ReadLast, StoreCall, SignalCalls,
     Unlock, vars

LEMMA BusyAlways == Spec => []BusyInv
<1>1. Init => BusyInv
  BY DEF Init, BusyInv, InRound
<1> QED BY <1>1, TypeAlways, BusyStep, PTL DEF Spec

\* Only Py_MakePendingCalls takes an announcement away.
LEMMA AnnouncementLasts ==
  ASSUME TypeInv, [Next]_vars, Announced, ~MakePendingCalls
  PROVE  Announced'
<1>0. add \in [Actors -> AddStepName]
  BY DEF TypeInv, StepsOK
<1> USE DEF Announced
<1>1. CASE calls_to_do
  BY <1>1 DEF Next, MainStep, CallReturns, CheckDirectly, CheckTripped, ScanSignals,
     HandlerReturns, HandlerRaises, AcquireLock, PopCall, Fail, HandlerStep, SetIsTripped, SignalReceived,
     EndHandler, Trip, StartAdd, AddStep, TryLock, ReadLast, StoreCall, SignalCalls, Unlock, vars
<1>2. CASE UNCHANGED add /\ ~calls_to_do
  BY <1>2
<1>3. ASSUME NEW a \in Actors, StartAdd(a) \/ TryLock(a) \/ ReadLast(a) \/ StoreCall(a) \/ Unlock(a)
      PROVE  Announced'
  BY <1>0, <1>3 DEF StartAdd, TryLock, ReadLast, StoreCall, Unlock, Leave
<1>4. ASSUME NEW a \in Actors, SignalCalls(a) PROVE Announced'
  BY <1>4 DEF SignalCalls
<1> QED
  BY <1>1, <1>2, <1>3, <1>4 DEF Next, MainStep, CallReturns, CheckDirectly, CheckTripped, ScanSignals,
     HandlerReturns, HandlerRaises, AcquireLock, PopCall, Fail, HandlerStep, SetIsTripped, SignalReceived,
     EndHandler, Trip, AddStep, vars, addVars

\* What each step does to the turns.
LEMMA TurnStep ==
  ASSUME TypeInv, [Next]_vars, ~PopCall, ~AcquireLock
  PROVE  \/ turn' = turn /\ (main' = "pop" <=> main = "pop") /\ (busy' = busy \/ MakePendingCalls)
         \/ turn' = 0 /\ calls_to_do'
<1>0. StackOK
  BY DEF TypeInv
<1>1. main # "run" /\ Return => main' # "pop"
  BY <1>0, StackReturn
<1>2. main # "run" /\ Raise => main' # "pop"
  BY <1>0, StackRaise
<1>3. CASE UNCHANGED mainVars
  BY <1>3 DEF mainVars
<1>4. CASE MakePendingCalls \/ CheckDirectly \/ CallReturns
  BY <1>4 DEF MakePendingCalls, CheckDirectly, CallReturns, MainAt, Running
<1>5. CASE CheckTripped \/ ScanSignals \/ HandlerReturns
  BY <1>1, <1>5 DEF CheckTripped, ScanSignals, HandlerReturns, MainAt
<1>6. CASE HandlerRaises \/ Fail
  BY <1>2, <1>6 DEF HandlerRaises, Fail, EndRound, MainAt
<1> QED
  BY <1>3, <1>4, <1>5, <1>6 DEF Next, MainStep, HandlerStep, SetIsTripped, SignalReceived, EndHandler,
     Trip, StartAdd, AddStep, TryLock, ReadLast, StoreCall, SignalCalls, Unlock, vars

LEMMA AnnouncedStep ==
  ASSUME TypeInv, RingOK', LockInv, Placed, BusyInv, TurnsInv, AnnouncedInv, [Next]_vars
  PROVE  TurnsInv' /\ AnnouncedInv'
<1>1. Used \in 0..NPENDINGCALLS - 1 /\ turn \in 0..NPENDINGCALLS
  BY UsedIs DEF TypeInv, CountsOK
<1>2. CASE PopCall
  <2>1. CASE first = last
    <3>0. main' # "pop"
      BY <1>2, <2>1, StackReturn DEF PopCall, EndRound, MainAt, TypeInv
    <3>1. Used' = Used /\ Used = 0 /\ turn' = 0 /\ main' # "pop"
      BY <1>1, <1>2, <2>1, <3>0, UsedIs DEF PopCall, EndRound, Used, TypeInv
    <3> QED BY <1>1, <3>1 DEF TurnsInv, AnnouncedInv
  <2>2. CASE first # last
    <3>1. Used' = Used - 1 /\ Used > 0
      BY <1>2, <2>2, PopKeeps
    <3>2. turn' = turn /\ main = "pop" /\ main' = "call" /\ busy' = busy
      BY <1>2, <2>2 DEF PopCall, MainAt
    <3>3. busy /\ (Announced' <=> Announced)
      BY <1>2, <3>2 DEF BusyInv, InRound, PopCall, Announced, addVars
    <3> QED BY <1>1, <3>1, <3>2, <3>3 DEF TurnsInv, AnnouncedInv
  <2> QED BY <2>1, <2>2
<1>3. CASE AcquireLock
  <2>1. Used' = Used /\ main = "acquire" /\ (Announced' <=> Announced)
    BY <1>3 DEF AcquireLock, MainAt, Used, ringVars, Announced, addVars
  <2>2. CASE turn < NPENDINGCALLS /\ turn' = turn + 1 /\ main' = "pop" /\ busy' = busy
    BY <1>1, <2>1, <2>2 DEF TurnsInv, AnnouncedInv
  <2>3. CASE turn = NPENDINGCALLS /\ EndRound
    <3>1. main' # "pop" /\ turn' = 0
      BY <2>1, <2>3, StackReturn DEF EndRound, TypeInv
    <3> QED BY <1>1, <2>1, <2>3, <3>1 DEF TurnsInv, AnnouncedInv
  <2> QED BY <1>3, <2>2, <2>3 DEF AcquireLock
<1>4. ASSUME NEW a \in Actors, StoreCall(a) PROVE TurnsInv' /\ AnnouncedInv'
  <2>1. Announced'
    BY <1>4 DEF StoreCall, Announced, TypeInv, StepsOK
  <2> QED BY <2>1 DEF TurnsInv, AnnouncedInv
<1>5. CASE UNCHANGED ringVars /\ ~PopCall /\ ~AcquireLock
  <2>1. Used' = Used
    BY <1>5 DEF Used, ringVars
  <2>2. CASE MakePendingCalls
    <3>1. turn' = 0 /\ main' = "check" /\ busy'
      BY <2>2 DEF MakePendingCalls, BusyInv
    <3> QED BY <1>1, <2>1, <3>1 DEF TurnsInv, AnnouncedInv
  <2>3. CASE ~MakePendingCalls
    <3>1. CASE Announced'
      BY <3>1 DEF TurnsInv, AnnouncedInv
    <3>2. CASE ~Announced'
      <4>1. ~Announced
        BY <2>3, <3>2, AnnouncementLasts
      <4>2. ~calls_to_do'
        BY <3>2 DEF Announced
      <4>3. turn' = turn /\ (main' = "pop" <=> main = "pop") /\ busy' = busy
        BY <1>5, <2>3, <4>2, TurnStep
      <4> QED BY <1>1, <2>1, <3>2, <4>1, <4>3 DEF TurnsInv, AnnouncedInv
    <3> QED BY <3>1, <3>2
  <2> QED BY <2>2, <2>3
<1> QED BY <1>2, <1>3, <1>4, <1>5, RingStep

LEMMA AnnouncedAlways == Spec => [](TurnsInv /\ AnnouncedInv)
<1>1. Init => TurnsInv /\ AnnouncedInv
  <2> SUFFICES ASSUME Init PROVE TurnsInv /\ AnnouncedInv
    OBVIOUS
  <2>1. Used = 0 /\ turn = 0 /\ main = "run"
    BY TypeInit, UsedIs DEF Init, TypeInv
  <2> QED BY <2>1 DEF TurnsInv, AnnouncedInv
<1>2. TypeInv /\ [Next]_vars => RingOK'
  BY RingType DEF TypeInv
<1> QED
  BY <1>1, <1>2, TypeAlways, LockAlways, PlacedAlways, BusyAlways, AnnouncedStep, PTL DEF Spec

\* While a call is in the ring, the main thread is told of it or is at work on the ring, for
\* any size of the ring: no call is left there until somebody adds another.
THEOREM CallsAreAnnounced == Spec => []CallsAnnounced
<1>1. TypeInv /\ AnnouncedInv => CallsAnnounced
  <2> SUFFICES ASSUME TypeInv, AnnouncedInv, Ring # <<>>
               PROVE  calls_to_do \/ busy \/ \E a \in Actors : add[a] = "signal"
    BY DEF CallsAnnounced
  <2>1. Used > 0
    <3> SUFFICES ASSUME Used = 0 PROVE Ring = <<>>
      BY UsedIs DEF TypeInv
    <3>1. Ring = [n \in 1..Used |-> calls[Nth(n)]]
      BY DEF Ring, Used, Nth
    <3> HIDE DEF Used, Nth
    <3>2. DOMAIN Ring = {} /\ Ring = [n \in {} |-> calls[Nth(n)]]
      BY <3>1
    <3> QED BY <3>2
  <2> QED BY <2>1 DEF AnnouncedInv, Announced
<1> QED BY <1>1, TypeAlways, AnnouncedAlways, PTL

(***************************************************************************)
(* Signals are announced.                                                  *)
(***************************************************************************)
\* As long as Py_MakePendingCalls is called by the program itself, it is the first on the stack
\* of calls, and the scan that it has begun is just above.
RoundChecks(s) ==
  /\ Len(below) >= 2 /\ below[2].at = "acquire"
  /\ IF Len(below) = 2
     THEN main = "check" \/ (main = "scan" /\ scan <= s) \/ (main = "handle" /\ scan < s)
     ELSE below[3].at = "handle" /\ below[3].scan < s

Told(s) ==
  calls_to_do \/ handler.step \in {"is_tripped", "signal"} \/ main = "error" \/ RoundChecks(s)

UnnestedInv ==
  ~nested =>
    /\ main \in {"acquire", "pop", "call", "error"} => Len(below) = 1
    /\ \A i \in 1..Len(below) : below[i].at \in {"acquire", "call"} => i = 2
    /\ \A s \in 1..NSIG : tripped[s] => Told(s)

LEMMA UnnestedPush ==
  ASSUME TypeInv, UnnestedInv, CheckDirectly PROVE UnnestedInv'
<1> SUFFICES ASSUME ~nested' PROVE UnnestedInv'
  BY DEF UnnestedInv
<1>1. /\ Len(below') = Len(below) + 1 /\ Len(below) \in Nat
      /\ \A i \in 1..Len(below) : below'[i] = below[i]
      /\ below'[Len(below) + 1] = Here
      /\ main \in {"run", "handle", "call"} /\ main' = "check"
  BY StackCheck DEF TypeInv
<1>2. /\ ~nested /\ Here.at = main /\ Here.scan = scan
      /\ UNCHANGED <<calls_to_do, tripped, handler>>
  BY DEF CheckDirectly, Here, signalVars
<1>3. ASSUME NEW i \in 1..Len(below'), below'[i].at \in {"acquire", "call"} PROVE i = 2
  <2>1. CASE i \in 1..Len(below)
    BY <1>1, <1>2, <1>3, <2>1 DEF UnnestedInv
  <2>2. CASE i = Len(below) + 1
    BY <1>1, <1>2, <1>3, <2>2 DEF UnnestedInv
  <2> QED BY <1>1, <2>1, <2>2
<1>4. ASSUME NEW s \in 1..NSIG, tripped'[s] PROVE Told(s)'
  <2>1. Told(s) /\ main # "error"
    BY <1>1, <1>2, <1>4 DEF UnnestedInv
  <2>2. ASSUME RoundChecks(s) PROVE RoundChecks(s)'
    <3>1. Len(below) >= 2 /\ below'[2] = below[2] /\ below[2].at = "acquire"
      BY <1>1, <2>2 DEF RoundChecks
    <3>2. CASE Len(below) = 2
      <4>1. main = "handle" /\ scan < s
        BY <1>1, <2>2, <3>2 DEF RoundChecks
      <4>2. below'[3] = Here
        BY <1>1, <3>2
      <4>3. Len(below') >= 2 /\ Len(below') # 2
        BY <1>1, <3>2
      <4> QED BY <1>2, <3>1, <4>1, <4>2, <4>3 DEF RoundChecks
    <3>3. CASE Len(below) # 2
      <4>0. 3 \in 1..Len(below)
        <5>1. \A k \in Nat : k >= 2 /\ k # 2 => 3 \in 1..k
          OBVIOUS
        <5> QED BY <1>1, <3>1, <3>3, <5>1, Zenon
      <4>1. below'[3] = below[3] /\ Len(below') >= 2 /\ Len(below') # 2
        BY <1>1, <4>0
      <4> QED BY <2>2, <3>1, <3>3, <4>1 DEF RoundChecks
    <3> QED BY <3>2, <3>3
  <2> QED BY <1>2, <2>1, <2>2 DEF Told
<1>5. main' \notin {"acquire", "pop", "call", "error"}
  BY <1>1
<1> QED BY <1>3, <1>4, <1>5 DEF UnnestedInv

LEMMA UnnestedMake ==
  ASSUME TypeInv, BusyInv, UnnestedInv, MakePendingCalls PROVE UnnestedInv'
<1> SUFFICES ASSUME ~nested' PROVE UnnestedInv'
  BY DEF UnnestedInv
<1>1. /\ Len(below') = Len(below) + 2 /\ Len(below) \in Nat
      /\ below'[Len(below) + 1] = Here /\ below'[Len(below) + 2].at = "acquire"
      /\ main \in {"run", "handle", "call"} /\ main' = "check"
  BY StackMake DEF TypeInv
<1>2. main = "run" /\ Here.at = main
  BY <1>1 DEF MakePendingCalls, BusyInv, InRound, Here
<1>3. Len(below) = 0
  BY <1>2 DEF TypeInv, StackOK
<1>4. Len(below') = 2 /\ below'[1].at = "run" /\ below'[2].at = "acquire"
  BY <1>1, <1>2, <1>3
<1>5. \A s \in 1..NSIG : RoundChecks(s)'
  <2>1. main' = "check"
    BY <1>1
  <2>2. Len(below') >= 2
    BY <1>4
  <2> QED BY <1>4, <2>1, <2>2 DEF RoundChecks
<1>6. \A i \in 1..Len(below') : i = 1 \/ i = 2
  BY <1>4
<1> QED BY <1>1, <1>4, <1>5, <1>6 DEF UnnestedInv, Told

\* Back to where the main thread was. The round's own scan does not return before its end.
LEMMA UnnestedReturn ==
  ASSUME TypeInv, UnnestedInv, main # "run", Return,
         UNCHANGED nested,
         \A s \in 1..NSIG : tripped'[s] => tripped[s],
         \A s \in 1..NSIG : tripped[s] /\ RoundChecks(s) /\ Len(below) = 2 => handler.step = "is_tripped",
         main = "error" => calls_to_do',
         calls_to_do => calls_to_do', handler' = handler
  PROVE  UnnestedInv'
<1> SUFFICES ASSUME ~nested PROVE UnnestedInv'
  BY DEF UnnestedInv
<1>1. /\ Len(below') = Len(below) - 1 /\ Len(below) \in Nat \ {0}
      /\ \A i \in 1..Len(below) - 1 : below'[i] = below[i]
      /\ main' = below[Len(below)].at /\ scan' = below[Len(below)].scan
      /\ main' \in {"run", "handle", "call", "acquire"}
  BY StackReturn DEF TypeInv
<1>2. \A i \in 1..Len(below') : i \in 1..Len(below) /\ below'[i] = below[i]
  BY <1>1
<1>3. \A i \in 1..Len(below') : below'[i].at \in {"acquire", "call"} => i = 2
  BY <1>2 DEF UnnestedInv
<1>4. main' \in {"acquire", "pop", "call", "error"} => Len(below') = 1
  <2> SUFFICES ASSUME main' \in {"acquire", "call"} PROVE Len(below') = 1
    BY <1>1
  <2>1. Len(below) \in 1..Len(below)
    BY <1>1
  <2>2. Len(below) = 2
    BY <1>1, <2>1 DEF UnnestedInv
  <2> QED BY <1>1, <2>2
<1>5. ASSUME NEW s \in 1..NSIG, tripped'[s] PROVE Told(s)'
  <2>1. Told(s) /\ tripped[s]
    BY <1>5 DEF UnnestedInv
  <2>2. CASE calls_to_do \/ handler.step \in {"is_tripped", "signal"} \/ main = "error"
    BY <2>2 DEF Told
  <2>3. CASE RoundChecks(s) /\ Len(below) = 2
    BY <2>1, <2>3 DEF Told
  <2>4. CASE RoundChecks(s) /\ Len(below) # 2
    <3>1. /\ Len(below) >= 2 /\ Len(below) # 2 /\ below[2].at = "acquire"
          /\ below[3].at = "handle" /\ below[3].scan < s
      BY <2>4 DEF RoundChecks
    <3>2. Len(below') >= 2 /\ below'[2] = below[2]
      BY <1>1, <3>1
    <3>3. CASE Len(below) = 3
      <4>1. main' = "handle" /\ scan' < s /\ Len(below') = 2
        BY <1>1, <3>1, <3>3
      <4> QED BY <3>1, <3>2, <4>1 DEF RoundChecks, Told
    <3>4. CASE Len(below) # 3
      <4>1. Len(below') # 2 /\ below'[3] = below[3]
        BY <1>1, <3>1, <3>4
      <4> QED BY <3>1, <3>2, <4>1 DEF RoundChecks, Told
    <3> QED BY <3>3, <3>4
  <2> QED BY <2>1, <2>2, <2>3, <2>4 DEF Told
<1> QED BY <1>3, <1>4, <1>5 DEF UnnestedInv

LEMMA UnnestedStep ==
  TypeInv /\ BusyInv /\ SignalSeen /\ UnnestedInv /\ [Next]_vars => UnnestedInv'
<1> SUFFICES ASSUME TypeInv, BusyInv, SignalSeen, UnnestedInv, [Next]_vars PROVE UnnestedInv'
  OBVIOUS
<1>0. StackOK /\ Len(below) \in Nat /\ handler \in HandlerState /\ tripped \in [1..NSIG -> BOOLEAN]
  BY DEF TypeInv, StackOK, StepsOK, FlagsOK
<1>1. CASE MakePendingCalls
  BY <1>1, UnnestedMake
<1>2. CASE CheckDirectly
  BY <1>2, UnnestedPush
<1>3. CASE CheckTripped
  <2>0. main = "check" /\ UNCHANGED <<calls_to_do, tripped, handler, nested>>
    BY <1>3 DEF CheckTripped, MainAt
  <2>1. CASE main' = "scan" /\ scan' = 1 /\ UNCHANGED below
    BY <1>0, <2>0, <2>1 DEF UnnestedInv, Told, RoundChecks
  <2>2. CASE ~is_tripped /\ Return
    <3>1. ASSUME NEW s \in 1..NSIG, tripped[s], RoundChecks(s), Len(below) = 2
          PROVE  handler.step = "is_tripped"
      <4>1. below[1].at = "run" /\ below[2].at = "acquire"
        BY <1>0, <3>1 DEF StackOK, RoundChecks
      <4>2. DOMAIN below = 1..2
        BY <1>0, <3>1 DEF StackOK
      <4>3. ~Looking(s)
        BY <2>0, <4>1, <4>2 DEF Looking
      <4> QED BY <2>2, <3>1, <4>3 DEF SignalSeen
    <3> QED BY <2>0, <2>2, <3>1, UnnestedReturn
  <2> QED BY <1>3, <2>1, <2>2 DEF CheckTripped
<1>4. CASE ScanSignals
  <2>0. main = "scan" /\ UNCHANGED <<calls_to_do, handler, nested>> /\ scan \in 1..NSIG + 1
    BY <1>0, <1>4 DEF ScanSignals, MainAt, StackOK
  <2>1. CASE scan > NSIG /\ Return /\ UNCHANGED tripped
    <3>1. ASSUME NEW s \in 1..NSIG, RoundChecks(s), Len(below) = 2 PROVE FALSE
      BY <2>0, <2>1, <3>1 DEF RoundChecks
    <3> QED BY <2>0, <2>1, <3>1, UnnestedReturn
  <2>2. CASE scan <= NSIG /\ ~tripped[scan] /\ scan' = scan + 1 /\ UNCHANGED <<main, below, tripped>>
    <3> SUFFICES ASSUME ~nested, NEW s \in 1..NSIG, tripped[s] PROVE Told(s)'
      BY <2>0, <2>2 DEF UnnestedInv
    <3>1. Told(s) /\ s # scan
      BY <2>2 DEF UnnestedInv
    <3> QED BY <2>0, <2>2, <3>1 DEF Told, RoundChecks
  <2>3. CASE /\ scan <= NSIG /\ tripped[scan] /\ tripped' = [tripped EXCEPT ![scan] = FALSE]
             /\ main' = "handle" /\ UNCHANGED <<scan, below>>
    <3> SUFFICES ASSUME ~nested, NEW s \in 1..NSIG, tripped'[s] PROVE Told(s)'
      BY <2>0, <2>3 DEF UnnestedInv
    <3>1. s # scan /\ tripped[s]
      BY <1>0, <2>0, <2>3
    <3>2. Told(s)
      BY <3>1 DEF UnnestedInv
    <3> QED BY <2>0, <2>3, <3>1, <3>2 DEF Told, RoundChecks
  <2> QED BY <1>4, <2>1, <2>2, <2>3 DEF ScanSignals
<1>5. CASE HandlerReturns
  <2>1. /\ main = "handle" /\ main' = "scan" /\ scan' = scan + 1 /\ scan \in 1..NSIG
        /\ UNCHANGED <<below, calls_to_do, tripped, handler, nested>>
    BY <1>0, <1>5 DEF HandlerReturns, MainAt, StackOK, signalVars
  <2> SUFFICES ASSUME ~nested, NEW s \in 1..NSIG, tripped[s] PROVE Told(s)'
    BY <2>1 DEF UnnestedInv
  <2>2. Told(s)
    BY DEF UnnestedInv
  <2> QED BY <2>1, <2>2 DEF Told, RoundChecks
<1>6. CASE HandlerRaises
  <2>1. main = "handle" /\ Raise /\ UNCHANGED <<calls_to_do, tripped, handler, nested>>
    BY <1>6 DEF HandlerRaises, MainAt
  <2>2. CASE Caller.at = "acquire"
    <3> SUFFICES ASSUME ~nested PROVE UnnestedInv'
      BY <2>1 DEF UnnestedInv
    <3>1. /\ main' = "error" /\ Len(below') = Len(below) - 1 /\ Len(below) \in Nat \ {0}
          /\ \A i \in 1..Len(below) - 1 : below'[i] = below[i]
      BY <1>0, <2>1, <2>2, StackRaise DEF Raise
    <3>2. Len(below) = 2
      BY <2>2, <3>1 DEF UnnestedInv, Caller
    <3>3. \A i \in 1..Len(below') : i \in 1..Len(below) /\ below'[i] = below[i]
      BY <3>1
    <3>4. \A i \in 1..Len(below') : below'[i].at \in {"acquire", "call"} => i = 2
      BY <3>3 DEF UnnestedInv
    <3> QED BY <3>1, <3>2, <3>4 DEF UnnestedInv, Told
  <2>3. CASE Caller.at # "acquire"
    <3>1. Return
      BY <2>1, <2>3 DEF Raise
    <3>2. ASSUME NEW s \in 1..NSIG, RoundChecks(s), Len(below) = 2 PROVE FALSE
      BY <2>3, <3>2 DEF RoundChecks, Caller
    <3> QED BY <2>1, <3>1, <3>2, UnnestedReturn
  <2> QED BY <2>2, <2>3
<1>7. CASE AcquireLock \/ PopCall \/ Fail \/ CallReturns
  <2>1. /\ main \in {"acquire", "pop", "call", "error"} /\ UNCHANGED <<tripped, handler, nested>>
        /\ calls_to_do => calls_to_do'
        /\ main = "error" => calls_to_do'
        /\ \/ Return
           \/ UNCHANGED below /\ main' \in {"acquire", "pop", "call", "error"} /\ main # "error"
    BY <1>7 DEF AcquireLock, PopCall, Fail, CallReturns, EndRound, MainAt, signalVars
  <2>2. ~nested => Len(below) = 1
    BY <2>1 DEF UnnestedInv
  <2>3. ASSUME ~nested, NEW s \in 1..NSIG PROVE ~RoundChecks(s)
    <3>1. ~(Len(below) >= 2)
      BY <2>2, <2>3
    <3> QED BY <3>1 DEF RoundChecks
  <2>4. CASE Return
    <3>1. CASE nested
      BY <2>1, <3>1 DEF UnnestedInv
    <3>2. CASE ~nested
      BY <2>1, <2>3, <2>4, <3>2, UnnestedReturn
    <3> QED BY <3>1, <3>2
  <2>5. CASE UNCHANGED below /\ main' \in {"acquire", "pop", "call", "error"} /\ main # "error"
    BY <2>1, <2>2, <2>3, <2>5 DEF UnnestedInv, Told
  <2> QED BY <2>1, <2>4, <2>5
<1>8. CASE UNCHANGED mainVars
  <2>1. \A s \in 1..NSIG : RoundChecks(s)' <=> RoundChecks(s)
    BY <1>8 DEF RoundChecks, mainVars
  <2>2. UNCHANGED <<main, below, nested>>
    BY <1>8 DEF mainVars
  <2>3. CASE HandlerStep
    BY <1>0, <2>1, <2>2, <2>3 DEF HandlerStep, SetIsTripped, SignalReceived, EndHandler, NoHandler,
       signalVars, HandlerState, UnnestedInv, Told
  <2>4. ASSUME NEW t \in {Main} \cup Others, NEW n \in 1..NSIG, Trip(t, n) PROVE UnnestedInv'
    BY <1>0, <2>1, <2>2, <2>4 DEF Trip, UnnestedInv, Told
  <2>5. CASE UNCHANGED <<signalVars, handler>> /\ (calls_to_do => calls_to_do')
    BY <2>1, <2>2, <2>5 DEF signalVars, UnnestedInv, Told
  <2>6. ASSUME NEW a \in Actors, StartAdd(a) \/ AddStep(a) PROVE UnnestedInv'
    BY <2>5, <2>6 DEF StartAdd, AddStep, TryLock, ReadLast, StoreCall, SignalCalls, Unlock
  <2>7. CASE UNCHANGED vars
    BY <2>5, <2>7 DEF vars
  <2> QED
    BY <1>1, <1>2, <1>3, <1>4, <1>5, <1>6, <1>7, <2>3, <2>4, <2>6, <2>7 DEF Next, MainStep
<1> QED
  BY <1>1, <1>2, <1>3, <1>4, <1>5, <1>6, <1>7, <1>8 DEF Next, MainStep, HandlerStep, SetIsTripped,
     SignalReceived, EndHandler, Trip, StartAdd, AddStep, TryLock, ReadLast, StoreCall, SignalCalls,
     Unlock, vars

\* The virtual machine is told of every signal, or is about to be, or is looking, as long as
\* Py_MakePendingCalls has not been at work within a Python signal handler.
THEOREM AnnouncedIfNotNested == Spec => []AnnouncedUnlessNested
<1>1. Init => UnnestedInv
  BY DEF Init, UnnestedInv
<1>2. TypeInv /\ UnnestedInv => AnnouncedUnlessNested
  <2> SUFFICES ASSUME TypeInv, UnnestedInv, ~nested, NEW s \in 1..NSIG, tripped[s]
               PROVE  \/ calls_to_do \/ handler.step \in {"is_tripped", "signal"}
                      \/ main \in {"check", "error"} \/ Looking(s)
    BY DEF AnnouncedUnlessNested, SignalAnnounced
  <2>1. Told(s)
    BY DEF UnnestedInv
  <2>2. ASSUME RoundChecks(s), Len(below) # 2 PROVE Looking(s)
    <3>0. Len(below) \in Nat /\ Len(below) >= 2 /\ DOMAIN below = 1..Len(below)
      BY <2>2 DEF RoundChecks, TypeInv, StackOK
    <3>1. 3 \in DOMAIN below /\ below[3].at = "handle" /\ below[3].scan < s
      BY <2>2, <3>0 DEF RoundChecks
    <3> QED BY <3>1 DEF Looking
  <2>3. ASSUME RoundChecks(s), Len(below) = 2 PROVE main = "check" \/ Looking(s)
    BY <2>3 DEF RoundChecks, Looking
  <2> QED BY <2>1, <2>2, <2>3 DEF Told
<1> QED BY <1>1, <1>2, TypeAlways, BusyAlways, SignalsSeen, UnnestedStep, PTL DEF Spec
==============================================================================
