---------------------------- MODULE AudioCapture ----------------------------
(***************************************************************************)
(* The audio_capture node of the family setup (audio_capture.cpp): the     *)
(* audio of the Family monitor, through a gstreamer pipeline, to a ROS     *)
(* topic. Three threads work on one RosGstCapture object:                  *)
(*   - the main thread builds it, spins, and destroys it when ROS shuts    *)
(*     down,                                                               *)
(*   - the loop thread runs the GLib main loop and is given the pipeline's *)
(*     errors (onMessage), which end the process,                          *)
(*   - a streaming thread of the pipeline calls onNewBuffer for each       *)
(*     sample.                                                             *)
(* The main thread waits for the streaming thread when it stops the        *)
(* pipeline. Nothing waits for the loop thread.                            *)
(***************************************************************************)
VARIABLES
  sink,        \* ~dst: samples to the topic (appsink) or to a file
  main,        \* where the main thread is
  loopThread,  \* where the loop thread is
  stream,      \* where the streaming thread is
  pipeline,    \* the state of the pipeline
  isRunning,   \* of the main loop
  error,       \* is there an error on the pipeline's bus?
  ok,          \* ros::ok()
  status       \* of the process: none while it lives, else its exit status or crash

vars == <<sink, main, loopThread, stream, pipeline, isRunning, error, ok, status>>

\* The main loop is freed when its last reference goes: the constructor's, or the one
\* that g_main_loop_run takes while it runs.
LoopFreed == main \in {"destroy", "return"} /\ loopThread \in {"starting", "left"}

\* The object is a local of main().
ServerGone == main = "return"

TypeOK ==
  /\ sink \in {"appsink", "filesink"}
  /\ main \in {"build", "play", "thread", "info", "spin", "quit", "stop", "stopping",
               "free", "destroy", "return"}
  /\ loopThread \in {"none", "starting", "running", "message", "exit", "exiting", "left"}
  /\ stream \in {"idle", "signal", "sample"}
  /\ pipeline \in {"null", "playing", "stopping", "freed"}
  /\ isRunning \in BOOLEAN /\ error \in BOOLEAN /\ ok \in BOOLEAN
  /\ status \in {"none", "0", "1", "crash"}
  /\ loopThread = "none" <=> main \in {"build", "play", "thread"}

Init ==
  /\ sink \in {"appsink", "filesink"}
  /\ main = "build" /\ loopThread = "none" /\ stream = "idle"
  /\ pipeline = "null"
  /\ isRunning = FALSE /\ error = FALSE /\ ok = TRUE /\ status = "none"

\* Nothing runs once the process has ended.
MainAt(step) == status = "none" /\ main = step
LoopAt(step) == status = "none" /\ loopThread = step
StreamAt(step) == status = "none" /\ stream = step

(***************************************************************************)
(* The main thread.                                                        *)
(***************************************************************************)

\* The constructor up to the linked pipeline: a missing element, another format or
\* elements that do not link end the process here.
Build ==
  /\ MainAt("build")
  /\ \/ main' = "play" /\ UNCHANGED status
     \/ status' = "1" /\ UNCHANGED main
  /\ UNCHANGED <<sink, loopThread, stream, pipeline, isRunning, error, ok>>

\* A device that cannot be opened shows later, as an error on the bus.
Play ==
  /\ MainAt("play") /\ main' = "thread"
  /\ pipeline' = "playing"
  /\ UNCHANGED <<sink, loopThread, stream, isRunning, error, ok, status>>

\* Mutant: the main loop has no thread to run in.
StartNoThread ==
  /\ MainAt("thread") /\ main' = "info"
  /\ UNCHANGED <<sink, loopThread, stream, pipeline, isRunning, error, ok, status>>

StartThread ==
  /\ MainAt("thread") /\ main' = "info"
  /\ loopThread' = "starting"
  /\ UNCHANGED <<sink, stream, pipeline, isRunning, error, ok, status>>

PublishInfo ==
  /\ MainAt("info") /\ main' = "spin"
  /\ UNCHANGED <<sink, loopThread, stream, pipeline, isRunning, error, ok, status>>

\* Mutant: main() handles what is there and returns (ros::spinOnce).
SpinOnce ==
  /\ MainAt("spin")
  /\ main' = "quit"
  /\ UNCHANGED <<sink, loopThread, stream, pipeline, isRunning, error, ok, status>>

\* ros::spin returns when ROS shuts down.
Spin ==
  /\ MainAt("spin") /\ ~ok
  /\ main' = "quit"
  /\ UNCHANGED <<sink, loopThread, stream, pipeline, isRunning, error, ok, status>>

\* g_main_loop_quit leaves no trace in a loop that does not run yet.
QuitLoop ==
  /\ MainAt("quit") /\ main' = "stop"
  /\ isRunning' = FALSE
  /\ UNCHANGED <<sink, loopThread, stream, pipeline, error, ok, status>>

\* gst_element_set_state(GST_STATE_NULL) first lets no more samples in.
StopPipeline ==
  /\ MainAt("stop") /\ main' = "stopping"
  /\ pipeline' = "stopping"
  /\ UNCHANGED <<sink, loopThread, stream, isRunning, error, ok, status>>

\* Mutant: the pipeline is not waited for.
PipelineNotAwaited ==
  /\ MainAt("stopping") /\ main' = "free"
  /\ pipeline' = "null" /\ error' = FALSE
  /\ UNCHANGED <<sink, loopThread, stream, isRunning, ok, status>>

\* It returns once the streaming thread is out of its callback, and takes the messages
\* off the bus.
PipelineStopped ==
  /\ MainAt("stopping") /\ stream = "idle" /\ main' = "free"
  /\ pipeline' = "null" /\ error' = FALSE
  /\ UNCHANGED <<sink, loopThread, stream, isRunning, ok, status>>

\* Mutant: the destructor joins the loop thread.
FreeJoins ==
  /\ MainAt("free") /\ loopThread = "left" /\ main' = "destroy"
  /\ pipeline' = "freed"
  /\ UNCHANGED <<sink, loopThread, stream, isRunning, error, ok, status>>

\* The destructor's last two lines.
Free ==
  /\ MainAt("free") /\ main' = "destroy"
  /\ pipeline' = "freed"
  /\ UNCHANGED <<sink, loopThread, stream, isRunning, error, ok, status>>

\* The members go too; boost::thread lets its thread run on.
Destroy ==
  /\ MainAt("destroy") /\ main' = "return"
  /\ UNCHANGED <<sink, loopThread, stream, pipeline, isRunning, error, ok, status>>

Return ==
  /\ MainAt("return")
  /\ status' = "0"
  /\ UNCHANGED <<sink, main, loopThread, stream, pipeline, isRunning, error, ok>>

MainStep ==
  \/ Build \/ Play \/ StartThread \/ PublishInfo \/ Spin
  \/ QuitLoop \/ StopPipeline \/ PipelineStopped \/ Free \/ Destroy \/ Return

(***************************************************************************)
(* The loop thread.                                                        *)
(***************************************************************************)

\* What a thread does on memory that is no longer there: it crashes, or goes on with
\* what was left there.
Crash == status' = "crash" /\ UNCHANGED <<loopThread, isRunning>>

\* g_main_loop_run(_loop), on a copy of the pointer.
RunLoop ==
  /\ LoopAt("starting")
  /\ \/ loopThread' = "running" /\ isRunning' = TRUE /\ UNCHANGED status
     \/ LoopFreed /\ Crash
  /\ UNCHANGED <<sink, main, stream, pipeline, error, ok>>

LeaveLoop ==
  /\ LoopAt("running") /\ ~isRunning
  /\ loopThread' = "left"
  /\ UNCHANGED <<sink, main, stream, pipeline, isRunning, error, ok, status>>

\* The bus watch hands an error to onMessage.
Dispatch ==
  /\ LoopAt("running") /\ error
  /\ loopThread' = "message" /\ error' = FALSE
  /\ UNCHANGED <<sink, main, stream, pipeline, isRunning, ok, status>>

\* g_main_loop_quit(server->_loop).
OnMessage ==
  /\ LoopAt("message")
  /\ \/ loopThread' = "exit" /\ isRunning' = FALSE /\ UNCHANGED status
     \/ ServerGone /\ Crash
  /\ UNCHANGED <<sink, main, stream, pipeline, error, ok>>

\* Mutant: onMessage only quits the loop.
OnlyQuit ==
  /\ LoopAt("exit")
  /\ loopThread' = "running"
  /\ UNCHANGED <<sink, main, stream, pipeline, isRunning, error, ok, status>>

\* exitOnMainThread calls exit on this thread: ROS's exit handler shuts ROS down, so
\* the main thread leaves its spin while this one is still exiting.
ExitOnMainThread ==
  /\ LoopAt("exit")
  /\ loopThread' = "exiting" /\ ok' = FALSE
  /\ UNCHANGED <<sink, main, stream, pipeline, isRunning, error, status>>

ExitDone ==
  /\ LoopAt("exiting")
  /\ status' = "1"
  /\ UNCHANGED <<sink, main, loopThread, stream, pipeline, isRunning, error, ok>>

LoopStep ==
  RunLoop \/ LeaveLoop \/ Dispatch \/ OnMessage \/ ExitOnMainThread \/ ExitDone

(***************************************************************************)
(* The streaming thread.                                                   *)
(***************************************************************************)

\* A buffer in the appsink's queue, and its new-sample signal.
NewSample ==
  /\ StreamAt("idle") /\ sink = "appsink" /\ pipeline = "playing"
  /\ stream' = "signal"
  /\ UNCHANGED <<sink, main, loopThread, pipeline, isRunning, error, ok, status>>

\* onNewBuffer: pull-sample, and the copy of its data.
PullSample ==
  /\ StreamAt("signal")
  /\ stream' = "sample"
  /\ UNCHANGED <<sink, main, loopThread, pipeline, isRunning, error, ok, status>>

\* server->publish(msg): nothing happens to it once ROS has shut down.
Publish ==
  /\ StreamAt("sample")
  /\ stream' = "idle"
  /\ UNCHANGED <<sink, main, loopThread, pipeline, isRunning, error, ok, status>>

StreamStep == PullSample \/ Publish

(***************************************************************************)
(* What comes from outside.                                                *)
(***************************************************************************)

\* The source is lost, or could not be opened.
PipelineError ==
  /\ status = "none" /\ pipeline = "playing" /\ ~error
  /\ error' = TRUE
  /\ UNCHANGED <<sink, main, loopThread, stream, pipeline, isRunning, ok, status>>

\* SIGINT, or another node of the same name.
Shutdown ==
  /\ status = "none" /\ ok
  /\ ok' = FALSE
  /\ UNCHANGED <<sink, main, loopThread, stream, pipeline, isRunning, error, status>>

Next == MainStep \/ LoopStep \/ NewSample \/ StreamStep \/ PipelineError \/ Shutdown

Spec == Init /\ [][Next]_vars

\* Each thread runs on while it can.
FairSpec ==
  /\ Spec
  /\ WF_vars(MainStep) /\ WF_vars(LoopStep) /\ WF_vars(StreamStep)

(***************************************************************************)
(* Properties.                                                             *)
(***************************************************************************)

\* onNewBuffer works on a pipeline and an object that are there: the main thread
\* does not get past the stop of the pipeline while a sample is under way.
StreamSafe == stream # "idle" => pipeline \in {"playing", "stopping"} /\ ~ServerGone

\* The loop thread is not waited for, so it may touch the loop or the object after
\* they are gone; but this is confined to a node that is shutting down.
CrashOnlyInShutdown == status = "crash" => ~ok

\* An error of the pipeline ends the node, also one that comes before the loop runs or
\* while the node shuts down; the node never spins on without sound.
ErrorEnds == error ~> status # "none"

\* A node that is told to stop does so, wherever its three threads are: also when the
\* quit of the loop comes before its run and is lost.
StopEnds == ~ok ~> status # "none"
=============================================================================
