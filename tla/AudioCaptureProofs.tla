------------------------- MODULE AudioCaptureProofs -------------------------
(***************************************************************************)
(* The threads of audio_capture: the streaming thread never outlives what  *)
(* it works on, and the loop thread can only while the node shuts down.    *)
(***************************************************************************)
EXTENDS AudioCapture, TLAPS

(***************************************************************************)
(* Type correctness.                                                       *)
(***************************************************************************)

FlagsOK == isRunning \in BOOLEAN /\ error \in BOOLEAN /\ ok \in BOOLEAN

StepsOK ==
  /\ sink \in {"appsink", "filesink"}
  /\ main \in {"build", "play", "thread", "info", "spin", "quit", "stop", "stopping",
               "free", "destroy", "return"}
  /\ loopThread \in {"none", "starting", "running", "message", "exit", "exiting", "left"}
  /\ stream \in {"idle", "signal", "sample"}
  /\ pipeline \in {"null", "playing", "stopping", "freed"}
  /\ status \in {"none", "0", "1", "crash"}
  /\ loopThread = "none" <=> main \in {"build", "play", "thread"}

LEMMA FlagsType == FlagsOK /\ [Next]_vars => FlagsOK'
BY DEF FlagsOK, vars, Next, MainStep, Build, Play, StartThread, PublishInfo, Spin, QuitLoop,
       StopPipeline, PipelineStopped, Free, Destroy, Return, LoopStep, RunLoop, LeaveLoop,
       Dispatch, OnMessage, ExitOnMainThread, ExitDone, Crash, NewSample, StreamStep,
       PullSample, Publish, PipelineError, Shutdown

LEMMA StepsType == StepsOK /\ [Next]_vars => StepsOK'
<1> SUFFICES ASSUME StepsOK, [Next]_vars PROVE StepsOK'
  OBVIOUS
<1> USE DEF StepsOK, MainAt, LoopAt, StreamAt
<1>1. CASE Build \/ Play \/ StartThread \/ PublishInfo
  BY <1>1 DEF Build, Play, StartThread, PublishInfo
<1>2. CASE Spin \/ QuitLoop \/ StopPipeline \/ PipelineStopped
  BY <1>2 DEF Spin, QuitLoop, StopPipeline, PipelineStopped
<1>3. CASE Free \/ Destroy \/ Return
  BY <1>3 DEF Free, Destroy, Return
<1>4. CASE LoopStep
  BY <1>4
  DEF LoopStep, RunLoop, LeaveLoop, Dispatch, OnMessage, ExitOnMainThread, ExitDone, Crash
<1>5. CASE NewSample \/ StreamStep
  BY <1>5 DEF NewSample, StreamStep, PullSample, Publish
<1>6. CASE UNCHANGED <<sink, main, loopThread, stream, pipeline, status>>
  BY <1>6
<1> QED
  BY <1>1, <1>2, <1>3, <1>4, <1>5, <1>6 DEF Next, MainStep, PipelineError, Shutdown, vars

\* Every variable keeps its type, and the loop thread is there as soon as the
\* constructor is past its start.
THEOREM TypeCorrect == Spec => []TypeOK
<1>1. Init => FlagsOK /\ StepsOK
  BY DEF Init, FlagsOK, StepsOK
<1>2. FlagsOK /\ StepsOK => TypeOK
  BY DEF FlagsOK, StepsOK, TypeOK
<1> QED BY <1>1, <1>2, FlagsType, StepsType, PTL DEF Spec

(***************************************************************************)
(* The streaming thread.                                                   *)
(***************************************************************************)

\* How far the main thread has taken the pipeline.
PipelineOfMain ==
  /\ main \in {"build", "play"} => pipeline = "null"
  /\ main \in {"thread", "info", "spin", "quit", "stop"} => pipeline = "playing"
  /\ main = "stopping" => pipeline = "stopping"
  /\ main \in {"free", "destroy", "return"} => pipeline \in {"null", "freed"}

StreamInv == PipelineOfMain /\ (stream # "idle" => pipeline \in {"playing", "stopping"})

LEMMA StreamInvHolds == Spec => []StreamInv
<1>1. Init => StreamInv
  BY DEF Init, StreamInv, PipelineOfMain
<1>2. TypeOK /\ StreamInv /\ [Next]_vars => StreamInv'
  <2> SUFFICES ASSUME TypeOK, StreamInv, [Next]_vars PROVE StreamInv'
    OBVIOUS
  <2> USE DEF StreamInv, PipelineOfMain, MainAt, LoopAt, StreamAt
  <2>1. CASE MainStep
    BY <2>1
    DEF MainStep, Build, Play, StartThread, PublishInfo, Spin, QuitLoop, StopPipeline,
        PipelineStopped, Free, Destroy, Return
  <2>2. CASE UNCHANGED <<main, pipeline, stream>>
    BY <2>2
  <2>3. CASE NewSample \/ StreamStep
    BY <2>3 DEF NewSample, StreamStep, PullSample, Publish
  <2> QED
    BY <2>1, <2>2, <2>3
    DEF Next, vars, LoopStep, RunLoop, LeaveLoop, Dispatch, OnMessage, ExitOnMainThread,
        ExitDone, PipelineError, Shutdown
<1> QED BY <1>1, <1>2, TypeCorrect, PTL DEF Spec

\* onNewBuffer never works on a pipeline or an object that is gone: the destructor
\* stops the pipeline first, and the stop waits for the callback.
THEOREM SamplesOnLiveObject == Spec => []StreamSafe
<1>1. StreamInv => StreamSafe
  BY DEF StreamInv, PipelineOfMain, StreamSafe, ServerGone
<1> QED BY <1>1, StreamInvHolds, PTL

(***************************************************************************)
(* The loop thread.                                                        *)
(***************************************************************************)

\* The destructor runs in a shutdown only, and no crash comes before it.
ShutdownInv ==
  /\ main \in {"quit", "stop", "stopping", "free", "destroy", "return"} => ~ok
  /\ status = "crash" => ~ok

\* The main loop and the object are used after their end only while the node shuts
\* down, never while it spins.
THEOREM CrashesInShutdown == Spec => []CrashOnlyInShutdown
<1>1. Init => ShutdownInv
  BY DEF Init, ShutdownInv
<1>2. TypeOK /\ ShutdownInv /\ [Next]_vars => ShutdownInv'
  <2> SUFFICES ASSUME TypeOK, ShutdownInv, [Next]_vars PROVE ShutdownInv'
    OBVIOUS
  <2> USE DEF TypeOK, ShutdownInv, MainAt, LoopAt, StreamAt
  <2>1. CASE MainStep
    BY <2>1
    DEF MainStep, Build, Play, StartThread, PublishInfo, Spin, QuitLoop, StopPipeline,
        PipelineStopped, Free, Destroy, Return
  <2>2. CASE LoopStep
    BY <2>2
    DEF LoopStep, RunLoop, LeaveLoop, Dispatch, OnMessage, ExitOnMainThread, ExitDone, Crash,
        LoopFreed, ServerGone
  <2>3. CASE NewSample \/ StreamStep
    BY <2>3 DEF NewSample, StreamStep, PullSample, Publish
  <2>4. CASE PipelineError \/ Shutdown
    BY <2>4 DEF PipelineError, Shutdown
  <2>5. CASE UNCHANGED vars
    BY <2>5 DEF vars
  <2> QED BY <2>1, <2>2, <2>3, <2>4, <2>5 DEF Next
<1>3. ShutdownInv => CrashOnlyInShutdown
  BY DEF ShutdownInv, CrashOnlyInShutdown
<1> QED BY <1>1, <1>2, <1>3, TypeCorrect, PTL DEF Spec
=============================================================================
