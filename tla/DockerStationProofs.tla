------------------------ MODULE DockerStationProofs ------------------------
(***************************************************************************)
(* What holds of a station's docker engine for any of the scripts and any  *)
(* number of starts and mishaps.                                           *)
(***************************************************************************)
EXTENDS DockerStation, TLAPS

USE ScriptsAssumption, BoundsAssumption DEF containers, script

(***************************************************************************)
(* The programs of the scripts.                                            *)
(***************************************************************************)
Ops == [op : {"rm", "run"}, on : Container] \cup [op : {"await", "pull", "new"}, on : Image]

LEMMA ProgramType ==
  ASSUME NEW s \in Script
  PROVE  Program(s) \in Seq(Ops) /\ Len(Program(s)) \in Nat \ {0}
<1> USE DEF Ops, Rm, Run, Await, Pull, Container, Image, Camera, Microphone, Tardis,
            LocalTardis, Dyadic
<1>1. UsbCam \in Seq(Ops) /\ Len(UsbCam) = 3
  BY DEF UsbCam
<1>2. MicLauncher \in Seq(Ops) /\ Len(MicLauncher) = 3
  BY DEF MicLauncher
<1>3. LocalContainers \in Seq(Ops) /\ Len(LocalContainers) = 10
  BY DEF LocalContainers
<1>4. DataTardis \in Seq(Ops) /\ Len(DataTardis) = 3
  BY DEF DataTardis
<1>5. DyadicInstall \in Seq(Ops) /\ Len(DyadicInstall) = 1
  BY DEF DyadicInstall
<1> HIDE DEF Ops, Rm, Run, Await, Pull, Container, Image, Tardis, Dyadic
<1>0. {1, 3, 10} \subseteq Nat \ {0}
  OBVIOUS
<1>6. CASE s = "usbCam"
  <2>1. Program(s) = UsbCam
    BY <1>6 DEF Program
  <2> QED BY <1>0, <1>1, <2>1, Zenon
<1>7. CASE s = "micLauncher"
  <2>1. Program(s) = MicLauncher
    BY <1>7 DEF Program
  <2> QED BY <1>0, <1>2, <2>1, Zenon
<1>8. CASE s = "localContainers"
  <2>1. Program(s) = LocalContainers
    BY <1>8 DEF Program
  <2> QED BY <1>0, <1>3, <2>1, Zenon
<1>9. CASE s = "dataTardis"
  <2>1. Program(s) = DataTardis
    BY <1>9 DEF Program
  <2> QED BY <1>0, <1>4, <2>1, Zenon
<1>10. CASE s = "dyadic"
  <2>1. Program(s) = DyadicInstall
    BY <1>10 DEF Program
  <2> QED BY <1>0, <1>5, <2>1, Zenon
<1> QED BY <1>6, <1>7, <1>8, <1>9, <1>10 DEF Script

\* A script that removes a container runs it later on.
LEMMA RemovedIsRun ==
  ASSUME NEW s \in Script, NEW k \in 1..Len(Program(s)), Program(s)[k].op = "rm"
  PROVE  \E j \in (k + 1)..Len(Program(s)) : Program(s)[j] = Run(Program(s)[k].on)
<1> USE DEF Rm, Run, Await, Pull
<1>1. CASE s = "usbCam"
  BY <1>1 DEF Program, UsbCam
<1>2. CASE s = "micLauncher"
  BY <1>2 DEF Program, MicLauncher
<1>3. CASE s = "localContainers"
  <2>1. Program(s) = LocalContainers /\ Len(LocalContainers) = 10
    BY <1>3 DEF Program, LocalContainers
  <2>2. k \in 1..4
    BY <2>1 DEF LocalContainers
  <2>3. CASE k = 1
    BY <2>1, <2>3 DEF LocalContainers
  <2>4. CASE k = 2
    BY <2>1, <2>4 DEF LocalContainers
  <2>5. CASE k = 3
    BY <2>1, <2>5 DEF LocalContainers
  <2>6. CASE k = 4
    BY <2>1, <2>6 DEF LocalContainers
  <2> QED BY <2>2, <2>3, <2>4, <2>5, <2>6
<1>4. CASE s = "dataTardis"
  BY <1>4 DEF Program, DataTardis
<1>5. CASE s = "dyadic"
  BY <1>5 DEF Program, DyadicInstall
<1> QED BY <1>1, <1>2, <1>3, <1>4, <1>5 DEF Script

(***************************************************************************)
(* Type correctness.                                                       *)
(***************************************************************************)
PcOK ==
  /\ pc \in [Scripts -> Nat]
  /\ \A s \in Scripts : pc[s] \in 0..Len(Program(s))

StationOK ==
  /\ daemon \in BOOLEAN /\ pruning \in BOOLEAN /\ mishap \in BOOLEAN
  /\ chosen \in [Scripts -> Image \cup {NoImage}]
  /\ status \in [Container -> Status] /\ from \in [Container -> Image \cup {NoImage}]
  /\ images \in SUBSET Image
  /\ had \in SUBSET Container /\ halted \in SUBSET Container

CountsOK == starts \in 0..MaxStarts /\ events \in 0..MaxEvents

LEMMA AdvanceType ==
  ASSUME PcOK, NEW s \in Scripts, pc[s] # 0, Advance(s)
  PROVE  PcOK'
<1>1. Len(Program(s)) \in Nat \ {0} /\ pc[s] \in 1..Len(Program(s))
  BY ProgramType DEF PcOK
<1>2. \A t \in Scripts : Len(Program(t)) \in Nat
  BY ProgramType
<1> QED BY <1>1, <1>2 DEF PcOK, Advance

\* What each command of a script is about.
LEMMA CommandType ==
  ASSUME PcOK, NEW s \in Scripts, pc[s] # 0
  PROVE  /\ pc[s] \in 1..Len(Program(s))
         /\ Command(s) \in Ops
<1>1. pc[s] \in 1..Len(Program(s)) /\ Program(s) \in Seq(Ops)
  BY ProgramType DEF PcOK
<1> QED BY <1>1 DEF Command

LEMMA PcType == PcOK /\ [Next]_vars => PcOK'
<1> SUFFICES ASSUME PcOK, [Next]_vars PROVE PcOK'
  OBVIOUS
<1>1. ASSUME NEW s \in Scripts, Start(s) PROVE PcOK'
  <2>1. \A t \in Scripts : Len(Program(t)) \in Nat \ {0}
    BY ProgramType
  <2> QED BY <1>1, <2>1 DEF PcOK, Start
<1>2. ASSUME NEW s \in Scripts, ScriptStep(s) PROVE PcOK'
  <2>1. pc[s] # 0 /\ Advance(s)
    BY <1>2 DEF ScriptStep, At, Remove, AwaitImage, PullImage, RunContainer, RunNewContainer
  <2> QED BY <2>1, AdvanceType
<1>3. ASSUME NEW s \in Scripts, CutOff(s) PROVE PcOK'
  <2>1. \A t \in Scripts : Len(Program(t)) \in Nat
    BY ProgramType
  <2> QED BY <1>3, <2>1 DEF PcOK, CutOff
<1>4. ASSUME UNCHANGED pc PROVE PcOK'
  BY <1>4 DEF PcOK
<1> QED
  BY <1>1, <1>2, <1>3, <1>4
  DEF Next, vars, script, StartDocker, RestartDocker, EngineCrash, RestartContainer,
      ContainerExit, StopContainer, SwarmDeploysImage, PruneContainers, PruneImages

LEMMA ImageForType ==
  ASSUME StationOK, NEW s \in Scripts, NEW c \in Container
  PROVE  /\ ImageFor(s, c) \in Image \cup {NoImage}
         /\ c \in Dyadic \cup {Tardis} => ImageFor(s, c) \in Image
<1>1. chosen[s] \in Image \cup {NoImage}
  BY DEF StationOK
<1>2. "data-tardis" \in Image /\ "triadic-interaction" \in Image
  BY DEF Image
<1> QED BY <1>1, <1>2, Zenon DEF ImageFor

LEMMA LaunchType ==
  ASSUME StationOK, NEW s \in Scripts, NEW c \in Container, Launch(s, c)
  PROVE  /\ status' \in [Container -> Status] /\ images' \in SUBSET Image
         /\ from' \in [Container -> Image \cup {NoImage}]
         /\ had' \in SUBSET Container /\ mishap' \in BOOLEAN
<1>1. ImageFor(s, c) \in images \/ c \in Dyadic \cup {Tardis} => ImageFor(s, c) \in Image
  BY ImageForType DEF StationOK
<1> QED BY <1>1, ImageForType DEF StationOK, Launch, Status

LEMMA ReviveType == StationOK => Revive \in [Container -> Status]
BY DEF StationOK, Revive, Status

LEMMA StationType == PcOK /\ StationOK /\ [Next]_vars => StationOK'
<1> SUFFICES ASSUME PcOK, StationOK, [Next]_vars PROVE StationOK'
  OBVIOUS
<1> USE DEF history, script
<1>1. ASSUME NEW s \in Scripts, Start(s) PROVE StationOK'
  BY <1>1 DEF StationOK, Start
<1>2. ASSUME NEW s \in Scripts, Remove(s) PROVE StationOK'
  BY <1>2 DEF StationOK, Remove, Status
<1>3. ASSUME NEW s \in Scripts, AwaitImage(s) PROVE StationOK'
  BY <1>3 DEF StationOK, AwaitImage
<1>4. ASSUME NEW s \in Scripts, PullImage(s) PROVE StationOK'
  <2>1. Command(s) \in Ops /\ Command(s).op = "pull"
    BY <1>4, CommandType DEF PullImage, At
  <2>2. Command(s).on \in Image
    BY <2>1 DEF Ops
  <2> QED BY <1>4, <2>2 DEF StationOK, PullImage
<1>5. ASSUME NEW s \in Scripts, RunContainer(s) PROVE StationOK'
  <2>1. Command(s) \in Ops /\ Command(s).op = "run"
    BY <1>5, CommandType DEF RunContainer, At
  <2>2. Command(s).on \in Container
    BY <2>1 DEF Ops
  <2>3. CASE Launch(s, Command(s).on)
    BY <1>5, <2>2, <2>3, LaunchType DEF StationOK, RunContainer
  <2>4. CASE UNCHANGED <<containers, images, had, mishap>>
    BY <1>5, <2>4 DEF StationOK, RunContainer
  <2> QED BY <1>5, <2>3, <2>4 DEF RunContainer
<1>6. ASSUME NEW s \in Scripts, RunNewContainer(s) PROVE StationOK'
  <2>1. PICK c \in Dyadic : Launch(s, c) /\ halted' = halted \ {c}
    BY <1>6 DEF RunNewContainer
  <2>2. c \in Container
    BY DEF Container
  <2> QED BY <1>6, <2>1, <2>2, LaunchType DEF StationOK, RunNewContainer
<1>7. CASE StartDocker \/ RestartDocker
  BY <1>7, ReviveType DEF StationOK, StartDocker, RestartDocker
<1>8. ASSUME NEW c \in Container,
             RestartContainer(c) \/ ContainerExit(c) \/ StopContainer(c)
      PROVE  StationOK'
  BY <1>8 DEF StationOK, RestartContainer, ContainerExit, StopContainer, Status
<1>9. CASE SwarmDeploysImage
  BY <1>9 DEF StationOK, SwarmDeploysImage, SwarmImage, Image
<1>10. CASE EngineCrash
  BY <1>10 DEF StationOK, EngineCrash, Status
<1>11. CASE PruneContainers
  <2>1. mishap' \in BOOLEAN
    BY <1>11 DEF PruneContainers
  <2> QED BY <1>11, <2>1 DEF StationOK, PruneContainers, Status
<1>12. CASE PruneImages
  BY <1>12 DEF StationOK, PruneImages
<1>13. ASSUME NEW s \in Scripts, CutOff(s) PROVE StationOK'
  BY <1>13 DEF StationOK, CutOff
<1>14. CASE UNCHANGED vars
  BY <1>14 DEF StationOK, vars
<1> QED
  BY <1>1, <1>2, <1>3, <1>4, <1>5, <1>6, <1>7, <1>8, <1>9, <1>10, <1>11, <1>12, <1>13, <1>14
  DEF Next, ScriptStep

LEMMA CountsType == CountsOK /\ [Next]_vars => CountsOK'
BY DEF CountsOK, Next, ScriptStep, vars, script, history, Event, Start, Remove, AwaitImage,
       PullImage, RunContainer, RunNewContainer, StartDocker, RestartDocker, EngineCrash,
       RestartContainer, ContainerExit, StopContainer, SwarmDeploysImage, CutOff,
       PruneContainers, PruneImages

LEMMA InitType == Init => PcOK /\ StationOK /\ CountsOK
<1> SUFFICES ASSUME Init PROVE PcOK /\ StationOK /\ CountsOK
  OBVIOUS
<1>1. PcOK
  <2>1. \A s \in Scripts : Len(Program(s)) \in Nat
    BY ProgramType
  <2> QED BY <2>1 DEF Init, PcOK
<1>2. StationOK
  BY DEF Init, StationOK, Status, SwarmImage, Image
<1>3. CountsOK
  BY DEF Init, CountsOK
<1> QED BY <1>1, <1>2, <1>3

\* Every variable of the station keeps its type; a script's pc stays in its program.
THEOREM TypeCorrect == Spec => []TypeOK
<1>1. PcOK /\ StationOK /\ CountsOK => TypeOK
  BY DEF PcOK, StationOK, CountsOK, TypeOK
<1> QED BY InitType, PcType, StationType, CountsType, <1>1, PTL DEF Spec

(***************************************************************************)
(* No container is lost.                                                   *)
(***************************************************************************)

\* A script that gives a command still has all its later ones to give.
LEMMA KeepsToRun ==
  ASSUME PcOK, NEW s \in Scripts, pc[s] # 0, Advance(s),
         NEW t \in Scripts, NEW c \in Container, WillRun(t, c),
         t = s => Command(s) # Run(c)
  PROVE  WillRun(t, c)'
<1>1. pc \in [Scripts -> Nat] /\ pc[t] \in 1..Len(Program(t)) /\ Len(Program(t)) \in Nat
  BY ProgramType DEF PcOK, WillRun
<1>2. PICK k \in pc[t]..Len(Program(t)) : Program(t)[k] = Run(c)
  BY DEF WillRun
<1>3. CASE t = s
  <2>1. k # pc[s]
    BY <1>2, <1>3 DEF Command
  <2>2. pc'[s] = pc[s] + 1 /\ k \in pc'[s]..Len(Program(s))
    BY <1>1, <1>2, <1>3, <2>1 DEF Advance
  <2> QED BY <1>1, <1>2, <1>3, <2>2 DEF WillRun
<1>4. CASE t # s
  BY <1>1, <1>2, <1>4 DEF Advance, WillRun
<1> QED BY <1>3, <1>4

\* A container is there, or some script is about to run it.
Kept(c) == status[c] # "absent" \/ \E s \in Scripts : WillRun(s, c)

\* The steps that take no container away leave it so, unless it is a script's own
\* docker run.
LEMMA StaysKept ==
  ASSUME PcOK, NEW s \in Scripts, pc[s] # 0, Advance(s),
         NEW c \in Container, Kept(c), status[c] # "absent" => status'[c] # "absent",
         Command(s) # Run(c)
  PROVE  Kept(c)'
<1>1. CASE status[c] # "absent"
  BY <1>1 DEF Kept
<1>2. CASE \E t \in Scripts : WillRun(t, c)
  BY <1>2, KeepsToRun DEF Kept
<1> QED BY <1>1, <1>2 DEF Kept

LEMMA RemoveKeeps ==
  ASSUME PcOK, StationOK, NEW s \in Scripts, Remove(s), NeverLost
  PROVE  NeverLost'
<1> SUFFICES ASSUME ~mishap, NEW c \in had PROVE Kept(c)'
  BY DEF NeverLost, Remove, Kept
<1>1. c \in Container /\ Kept(c)
  BY DEF NeverLost, Kept, StationOK
<1>2. pc[s] # 0 /\ Advance(s) /\ Command(s).op = "rm"
  BY DEF Remove, At
<1>3. pc[s] \in 1..Len(Program(s)) /\ Command(s) \in Ops
  BY <1>2, CommandType
<1>4. CASE c = Command(s).on
  <2>1. PICK j \in (pc[s] + 1)..Len(Program(s)) : Program(s)[j] = Run(c)
    BY <1>2, <1>3, <1>4, RemovedIsRun DEF Command
  <2>2. Len(Program(s)) \in Nat /\ pc \in [Scripts -> Nat]
    BY ProgramType DEF PcOK
  <2>3. pc'[s] = pc[s] + 1
    BY <1>2, <1>3, <2>1, <2>2 DEF Advance
  <2> QED BY <2>1, <2>2, <2>3 DEF Kept, WillRun
<1>5. CASE c # Command(s).on
  <2>1. status'[c] = status[c]
    BY <1>1, <1>5 DEF Remove, StationOK
  <2>2. Command(s) # Run(c)
    BY <1>2 DEF Run
  <2> QED BY <1>1, <1>2, <2>1, <2>2, StaysKept
<1> QED BY <1>4, <1>5

LEMMA RunKeeps ==
  ASSUME PcOK, StationOK, NEW s \in Scripts, RunContainer(s), NeverLost
  PROVE  NeverLost'
<1> SUFFICES ASSUME ~mishap', NEW c \in had' PROVE Kept(c)'
  BY DEF NeverLost, Kept
<1> DEFINE d == Command(s).on
<1>1. pc[s] # 0 /\ Advance(s) /\ Command(s).op = "run"
  BY DEF RunContainer, At
<1>2. d \in Container /\ Command(s) \in Ops
  BY <1>1, CommandType DEF Ops
<1>3. /\ ~mishap
      /\ status'[d] # "absent"
      /\ had' \subseteq had \cup {d}
      /\ \A b \in Container : status[b] # "absent" => status'[b] # "absent"
  <2>1. CASE Launch(s, d) /\ status[d] = "absent"
    BY <2>1, <1>2 DEF StationOK, Launch
  <2>2. CASE UNCHANGED <<containers, images, had, mishap>> /\ status[d] # "absent"
    BY <2>2
  <2> QED BY <2>1, <2>2 DEF RunContainer
<1>4. CASE c = d
  BY <1>3, <1>4 DEF Kept
<1>5. CASE c # d
  <2>1. c \in had /\ c \in Container
    BY <1>3, <1>5 DEF StationOK
  <2>2. Kept(c)
    BY <1>3, <2>1 DEF NeverLost, Kept
  <2>3. Command(s) # Run(c)
    BY <1>5 DEF Run
  <2> QED BY <1>1, <1>3, <2>1, <2>2, <2>3, StaysKept
<1> QED BY <1>4, <1>5

LEMMA OtherCommandKeeps ==
  ASSUME PcOK, StationOK, NEW s \in Scripts, NeverLost,
         AwaitImage(s) \/ PullImage(s) \/ RunNewContainer(s)
  PROVE  NeverLost'
<1> SUFFICES ASSUME ~mishap', NEW c \in had' PROVE Kept(c)'
  BY DEF NeverLost, Kept
<1>1. pc[s] # 0 /\ Advance(s) /\ Command(s).op # "run"
  BY DEF At, AwaitImage, PullImage, RunNewContainer
<1>2. Command(s) # Run(c)
  BY <1>1 DEF Run
<1>3. CASE AwaitImage(s) \/ PullImage(s)
  <2>1. ~mishap /\ c \in had /\ status' = status
    BY <1>3 DEF AwaitImage, PullImage, history
  <2>2. c \in Container /\ Kept(c)
    BY <2>1 DEF NeverLost, Kept, StationOK
  <2> QED BY <1>1, <1>2, <2>1, <2>2, StaysKept
<1>4. CASE RunNewContainer(s)
  <2>1. PICK d \in Dyadic : Launch(s, d)
    BY <1>4 DEF RunNewContainer
  <2>2. d \in Container
    BY DEF Container
  <2>3. /\ ~mishap /\ status'[d] # "absent" /\ had' \subseteq had \cup {d}
        /\ \A b \in Container : status[b] # "absent" => status'[b] # "absent"
    BY <2>1, <2>2 DEF StationOK, Launch
  <2>4. CASE c = d
    BY <2>3, <2>4 DEF Kept
  <2>5. CASE c # d
    <3>1. c \in had /\ c \in Container
      BY <2>3, <2>5 DEF StationOK
    <3>2. Kept(c)
      BY <2>3, <3>1 DEF NeverLost, Kept
    <3> QED BY <1>1, <1>2, <2>3, <3>1, <3>2, StaysKept
  <2> QED BY <2>4, <2>5
<1> QED BY <1>3, <1>4

\* Everything but a script's commands: pc only grows, or a mishap is noted, and the
\* engine, cron and the people take no container away but by docker system prune.
LEMMA OthersKeep ==
  ASSUME PcOK, StationOK, NeverLost, ~mishap', had' = had, ~mishap,
         \A c \in Container : status[c] # "absent" => status'[c] # "absent",
         \/ UNCHANGED pc
         \/ \E s \in Scripts : Start(s)
  PROVE  NeverLost'
<1> SUFFICES ASSUME NEW c \in had' PROVE Kept(c)'
  BY DEF NeverLost, Kept
<1>1. c \in Container /\ Kept(c)
  BY DEF NeverLost, Kept, StationOK
<1>2. CASE status[c] # "absent"
  BY <1>1, <1>2 DEF Kept
<1>3. CASE \E t \in Scripts : WillRun(t, c)
  <2>1. PICK t \in Scripts : WillRun(t, c)
    BY <1>3
  <2>2. pc'[t] = pc[t]
    BY <2>1 DEF Start, WillRun, PcOK
  <2> QED BY <2>1, <2>2 DEF Kept, WillRun
<1> QED BY <1>1, <1>2, <1>3 DEF Kept

LEMMA NeverLostKept == PcOK /\ StationOK /\ NeverLost /\ [Next]_vars => NeverLost'
<1> SUFFICES ASSUME PcOK, StationOK, NeverLost, [Next]_vars PROVE NeverLost'
  OBVIOUS
<1> USE DEF script, history
<1>1. CASE mishap'
  BY <1>1 DEF NeverLost
<1>2. CASE ~mishap'
  <2>1. ASSUME NEW s \in Scripts, ScriptStep(s) PROVE NeverLost'
    BY <2>1, RemoveKeeps, RunKeeps, OtherCommandKeeps DEF ScriptStep
  <2>2. ASSUME NEW s \in Scripts, Start(s) PROVE NeverLost'
    BY <1>2, <2>2, OthersKeep DEF Start
  <2>3. ASSUME NEW s \in Scripts, CutOff(s) PROVE NeverLost'
    BY <1>2, <2>3 DEF CutOff
  <2>4. CASE StartDocker \/ RestartDocker
    <3>1. \A c \in Container : status[c] # "absent" => status'[c] # "absent"
      BY <2>4 DEF StartDocker, RestartDocker, Revive
    <3> QED BY <1>2, <2>4, <3>1, OthersKeep DEF StartDocker, RestartDocker
  <2>5. ASSUME NEW c \in Container,
               RestartContainer(c) \/ ContainerExit(c) \/ StopContainer(c)
        PROVE  NeverLost'
    <3>1. \A b \in Container : status[b] # "absent" => status'[b] # "absent"
      BY <2>5 DEF RestartContainer, ContainerExit, StopContainer, StationOK
    <3> QED BY <1>2, <2>5, <3>1, OthersKeep DEF RestartContainer, ContainerExit, StopContainer
  <2>6. CASE EngineCrash
    <3>1. \A c \in Container : status[c] # "absent" => status'[c] # "absent"
      BY <2>6 DEF EngineCrash
    <3> QED BY <1>2, <2>6, <3>1, OthersKeep DEF EngineCrash
  <2>7. CASE PruneContainers
    <3>1. \A c \in Container : status[c] # "absent" => status'[c] # "absent"
      BY <1>2, <2>7 DEF PruneContainers
    <3> QED BY <1>2, <2>7, <3>1, OthersKeep DEF PruneContainers
  <2>8. CASE SwarmDeploysImage \/ PruneImages \/ UNCHANGED vars
    BY <1>2, <2>8, OthersKeep DEF SwarmDeploysImage, PruneImages, vars
  <2> QED BY <2>1, <2>2, <2>3, <2>4, <2>5, <2>6, <2>7, <2>8 DEF Next
<1> QED BY <1>1, <1>2

\* Whatever scripts overlap, and however often the engine is down, a container that
\* the station has had is there or is about to be run, as long as no script is cut
\* off and no docker run or prune goes wrong.
THEOREM ContainersKept == Spec => []NeverLost
<1>1. Init => NeverLost
  BY DEF Init, NeverLost
<1> QED BY InitType, PcType, StationType, NeverLostKept, <1>1, PTL DEF Spec

(***************************************************************************)
(* The data tardis stays stopped.                                          *)
(***************************************************************************)

\* docker run starts a container only where there is none of its name.
LEMMA LaunchSparesTardis ==
  ASSUME StationOK, TardisStaysStopped, NEW s \in Scripts, NEW c \in Container, status[c] = "absent", Launch(s, c)
  PROVE  Tardis \in halted => status'[Tardis] = "stopped"
<1> SUFFICES ASSUME Tardis \in halted PROVE status'[Tardis] = "stopped"
  OBVIOUS
<1>1. status[Tardis] = "stopped" /\ c # Tardis
  BY DEF TardisStaysStopped
<1>2. Tardis \in Container /\ status \in [Container -> Status]
  BY DEF Container, StationOK
<1> QED BY <1>1, <1>2 DEF Launch

\* An engine that starts leaves a stopped data tardis alone.
LEMMA ReviveSparesTardis ==
  TardisStaysStopped => (Tardis \in halted => Revive[Tardis] = "stopped")
<1>1. Tardis \in Container /\ Tardis \notin Always
  BY DEF Container, Always
<1> QED BY <1>1 DEF TardisStaysStopped, Revive

LEMMA TardisStaysKept ==
  PcOK /\ StationOK /\ TardisStaysStopped /\ [Next]_vars => TardisStaysStopped'
<1> SUFFICES ASSUME PcOK, StationOK, TardisStaysStopped, [Next]_vars, Tardis \in halted'
             PROVE  status'[Tardis] = "stopped"
  BY DEF TardisStaysStopped
<1> USE DEF script, history
<1>0. Tardis \in Container /\ status \in [Container -> Status]
  BY DEF Container, StationOK
<1>1. ASSUME NEW s \in Scripts, Remove(s) PROVE status'[Tardis] = "stopped"
  BY <1>0, <1>1 DEF Remove, TardisStaysStopped
<1>2. ASSUME NEW s \in Scripts, RunContainer(s) PROVE status'[Tardis] = "stopped"
  <2>1. Command(s) \in Ops /\ Command(s).op = "run"
    BY <1>2, CommandType DEF RunContainer, At
  <2>2. Command(s).on \in Container
    BY <2>1 DEF Ops
  <2> QED BY <1>2, <2>2, LaunchSparesTardis DEF RunContainer, TardisStaysStopped
<1>3. ASSUME NEW s \in Scripts, RunNewContainer(s) PROVE status'[Tardis] = "stopped"
  <2>1. PICK c \in Dyadic : status[c] = "absent" /\ Launch(s, c) /\ halted' = halted \ {c}
    BY <1>3 DEF RunNewContainer
  <2>2. c \in Container /\ Tardis \in halted
    BY <2>1 DEF Container
  <2> QED BY <2>1, <2>2, LaunchSparesTardis
<1>4. CASE StartDocker \/ RestartDocker
  BY <1>4, ReviveSparesTardis DEF StartDocker, RestartDocker
<1>5. ASSUME NEW c \in Container, RestartContainer(c) \/ ContainerExit(c)
      PROVE  status'[Tardis] = "stopped"
  <2>1. Tardis \in halted /\ status[Tardis] = "stopped"
    BY <1>5 DEF RestartContainer, ContainerExit, TardisStaysStopped
  <2> QED BY <1>0, <1>5, <2>1 DEF RestartContainer, ContainerExit
<1>6. ASSUME NEW c \in Container, StopContainer(c) PROVE status'[Tardis] = "stopped"
  BY <1>0, <1>6 DEF StopContainer, TardisStaysStopped
<1>7. CASE EngineCrash
  BY <1>0, <1>7 DEF EngineCrash, TardisStaysStopped
<1>8. CASE PruneContainers
  BY <1>0, <1>8 DEF PruneContainers, TardisStaysStopped
<1>9. ASSUME UNCHANGED <<status, halted>> PROVE status'[Tardis] = "stopped"
  BY <1>9 DEF TardisStaysStopped
<1> QED
  BY <1>1, <1>2, <1>3, <1>4, <1>5, <1>6, <1>7, <1>8, <1>9
  DEF Next, ScriptStep, vars, Start, AwaitImage, PullImage, CutOff, SwarmDeploysImage,
      PruneImages

\* Whatever the scripts, cron, crashes and prunes do, a data tardis that an operator
\* has stopped is not started again before setup_data-tardis.sh replaces it.
THEOREM TardisStays == Spec => []TardisStaysStopped
<1>1. Init => TardisStaysStopped
  BY DEF Init, TardisStaysStopped
<1> QED BY InitType, PcType, StationType, TardisStaysKept, <1>1, PTL DEF Spec
(***************************************************************************)
(* The promise of Supervised.tla.                                          *)
(***************************************************************************)

Owed(c) == \E s \in Scripts : WillRun(s, c)

Lives == [c \in Container |-> LifeOf(c)]

LEMMA LifeIs ==
  ASSUME StationOK, NEW c \in Container
  PROVE  /\ c \notin had => LifeOf(c) = "none"
         /\ c \in had /\ status[c] = "running" => LifeOf(c) = "up"
         /\ c \in had /\ status[c] = "exited" => LifeOf(c) = "down"
         /\ c \in had /\ status[c] = "stopped" => LifeOf(c) = "stopped"
         /\ c \in had /\ status[c] = "absent" /\ Owed(c) => LifeOf(c) = "owed"
         /\ c \in had /\ status[c] = "absent" /\ ~Owed(c) => LifeOf(c) = "lost"
         /\ LifeOf(c) \in {"none", "up", "down", "stopped", "owed", "lost"}
BY DEF LifeOf, Owed, StationOK, Status

LEMMA LifeIsNext ==
  ASSUME StationOK', NEW c \in Container
  PROVE  /\ c \notin had' => LifeOf(c)' = "none"
         /\ c \in had' /\ status'[c] = "running" => LifeOf(c)' = "up"
         /\ c \in had' /\ status'[c] = "exited" => LifeOf(c)' = "down"
         /\ c \in had' /\ status'[c] = "stopped" => LifeOf(c)' = "stopped"
         /\ c \in had' /\ status'[c] = "absent" /\ Owed(c)' => LifeOf(c)' = "owed"
         /\ c \in had' /\ status'[c] = "absent" /\ ~Owed(c)' => LifeOf(c)' = "lost"
         /\ LifeOf(c)' \in {"none", "up", "down", "stopped", "owed", "lost"}
BY DEF LifeOf, Owed, StationOK, Status

\* The moves that Supervised allows, from one life to the next.
Goes(old, new, c) ==
  \/ new = old
  \/ new = "up" /\ old \in {"none", "lost", "owed", "down"}
  \/ new = "up" /\ old = "stopped" /\ c # Tardis
  \/ new = "down" /\ old = "up"
  \/ new = "stopped" /\ old \in {"up", "down"}
  \/ new = "owed" /\ old \in {"up", "down", "stopped", "lost"}
  \/ new = "lost" /\ old \in {"owed", "stopped"} /\ mishap'

LEMMA MovesPromised ==
  ASSUME StationOK', mishap => mishap', \A c \in Container : Goes(LifeOf(c), LifeOf(c)', c)
  PROVE  Promise!Next
<1>1. /\ Lives' = [c \in Container |-> LifeOf(c)']
      /\ \A c \in Container : Lives[c] = LifeOf(c) /\ Lives'[c] = LifeOf(c)'
  BY DEF Lives
<1>2. Lives' \in [Container -> Promise!Life]
  BY <1>1, LifeIsNext DEF Promise!Life
<1>3. ASSUME NEW c \in Container
      PROVE  \/ Lives'[c] = Lives[c]
             \/ Lives[c] \in {"none", "lost", "owed"} /\ Lives'[c] = "up"
             \/ Lives[c] \in {"up"} /\ Lives'[c] = "down"
             \/ Lives[c] \in {"down"} /\ Lives'[c] = "up"
             \/ c \in Container \ {Tardis} /\ Lives[c] \in {"stopped"} /\ Lives'[c] = "up"
             \/ Lives[c] \in {"up", "down"} /\ Lives'[c] = "stopped"
             \/ Lives[c] \in {"up", "down", "stopped", "lost"} /\ Lives'[c] = "owed"
             \/ Lives[c] \in {"owed", "stopped"} /\ Lives'[c] = "lost" /\ mishap'
  BY <1>1 DEF Goes
<1>4. mishap' \in BOOLEAN
  BY DEF StationOK
<1> QED
  BY <1>2, <1>3, <1>4
  DEF Promise!Next, Promise!Move, Promise!SetUp, Promise!GoDown, Promise!ComeUp, Promise!Stop,
      Promise!TakeAway, Promise!Lose, Lives
\* A command is no longer owed once it is given, and no other is.
LEMMA OwedAfterCommand ==
  ASSUME PcOK, NEW s \in Scripts, pc[s] # 0, Advance(s), NEW c \in Container
  PROVE  /\ Owed(c)' => Owed(c)
         /\ Command(s) # Run(c) => (Owed(c)' <=> Owed(c))
         /\ Command(s) = Run(c) => Owed(c)
<1>1. pc \in [Scripts -> Nat] /\ \A t \in Scripts : Len(Program(t)) \in Nat /\ pc[t] \in 0..Len(Program(t))
  BY ProgramType DEF PcOK
<1>2. ASSUME NEW t \in Scripts, WillRun(t, c)' PROVE WillRun(t, c)
  <2>1. CASE t = s
    <3>1. PICK k \in pc'[s]..Len(Program(s)) : Program(s)[k] = Run(c)
      BY <1>2, <2>1 DEF WillRun
    <3>2. pc'[s] # 0 /\ pc'[s] = pc[s] + 1
      BY <1>1, <1>2, <2>1 DEF WillRun, Advance
    <3>3. k \in pc[s]..Len(Program(s))
      BY <1>1, <3>2
    <3> QED BY <2>1, <3>1, <3>3 DEF WillRun
  <2>2. CASE t # s
    BY <1>1, <1>2, <2>2 DEF WillRun, Advance
  <2> QED BY <2>1, <2>2
<1>3. Command(s) # Run(c) /\ Owed(c) => Owed(c)'
  BY KeepsToRun DEF Owed
<1>4. Command(s) = Run(c) => WillRun(s, c)
  <2>1. pc[s] \in pc[s]..Len(Program(s))
    BY <1>1
  <2> QED BY <2>1 DEF WillRun, Command
<1> QED BY <1>2, <1>3, <1>4 DEF Owed

\* A container that nobody touches, and that is owed as before, lives as before.
LEMMA LifeGoesOn ==
  ASSUME NEW c \in Container, status'[c] = status[c], c \in had' <=> c \in had,
         Owed(c)' <=> Owed(c)
  PROVE  LifeOf(c)' = LifeOf(c)
BY DEF LifeOf, Owed

LEMMA RemovePromised ==
  ASSUME PcOK, StationOK, StationOK', NEW s \in Scripts, Remove(s), NEW c \in Container
  PROVE  Goes(LifeOf(c), LifeOf(c)', c)
<1>1. pc[s] # 0 /\ Advance(s) /\ Command(s).op = "rm" /\ had' = had
  BY DEF Remove, At
<1>2. pc[s] \in 1..Len(Program(s)) /\ Command(s) \in Ops /\ Command(s) # Run(c)
  BY <1>1, CommandType DEF Run
<1>3. Owed(c)' <=> Owed(c)
  BY <1>1, <1>2, OwedAfterCommand
<1>4. CASE status'[c] = status[c]
  BY <1>1, <1>3, <1>4, LifeGoesOn DEF Goes
<1>5. CASE status'[c] # status[c]
  <2>1. c = Command(s).on /\ status'[c] = "absent"
    BY <1>5 DEF Remove, StationOK
  <2>2. PICK j \in (pc[s] + 1)..Len(Program(s)) : Program(s)[j] = Run(c)
    BY <1>1, <1>2, <2>1, RemovedIsRun DEF Command
  <2>3. Owed(c)
    <3>1. Len(Program(s)) \in Nat /\ pc[s] \in Nat
      BY ProgramType DEF PcOK
    <3>2. j \in pc[s]..Len(Program(s))
      BY <2>2, <3>1
    <3> QED BY <1>1, <2>2, <3>2 DEF Owed, WillRun
  <2>4. status[c] \in {"running", "exited", "stopped"}
    BY <1>5, <2>1 DEF StationOK, Status
  <2>5. CASE c \in had
    <3>1. LifeOf(c)' = "owed"
      BY <1>1, <1>3, <2>1, <2>3, <2>5, LifeIsNext
    <3>2. LifeOf(c) \in {"up", "down", "stopped"}
      BY <2>4, <2>5, LifeIs
    <3> QED BY <3>1, <3>2 DEF Goes
  <2>6. CASE c \notin had
    BY <1>1, <2>6, LifeIs, LifeIsNext DEF Goes
  <2> QED BY <2>5, <2>6
<1> QED BY <1>4, <1>5

\* docker run for d, by a script that gives one of its commands.
LEMMA LaunchPromised ==
  ASSUME PcOK, StationOK, StationOK', NEW s \in Scripts, pc[s] # 0, Advance(s),
         NEW d \in Container, status[d] = "absent", Launch(s, d),
         NEW c \in Container, c # d => Command(s) # Run(c)
  PROVE  Goes(LifeOf(c), LifeOf(c)', c)
<1>1. CASE c # d
  <2>1. status'[c] = status[c] /\ (c \in had' <=> c \in had)
    BY <1>1 DEF Launch, StationOK
  <2>2. Owed(c)' <=> Owed(c)
    BY <1>1, OwedAfterCommand
  <2> QED BY <2>1, <2>2, LifeGoesOn DEF Goes
<1>2. CASE c = d /\ status'[c] = "running" /\ c \in had'
  <2>1. LifeOf(c)' = "up"
    BY <1>2, LifeIsNext
  <2>2. LifeOf(c) \in {"none", "owed", "lost"}
    BY <1>2, LifeIs
  <2> QED BY <2>1, <2>2 DEF Goes
<1>3. CASE c = d /\ UNCHANGED <<status, had>> /\ mishap'
  <2>1. Owed(c)' => Owed(c)
    BY OwedAfterCommand
  <2>2. CASE Owed(c)' <=> Owed(c)
    BY <1>3, <2>2, LifeGoesOn DEF Goes
  <2>3. CASE Owed(c) /\ ~Owed(c)'
    <3>1. CASE c \in had
      BY <1>3, <2>3, <3>1, LifeIs, LifeIsNext DEF Goes
    <3>2. CASE c \notin had
      BY <1>3, <3>2, LifeIs, LifeIsNext DEF Goes
    <3> QED BY <3>1, <3>2
  <2> QED BY <2>1, <2>2, <2>3
<1>4. (status'[d] = "running" /\ d \in had') \/ (UNCHANGED <<status, had>> /\ mishap')
  BY DEF Launch, StationOK
<1> QED BY <1>1, <1>2, <1>3, <1>4

LEMMA CommandPromised ==
  ASSUME PcOK, StationOK, StationOK', NEW s \in Scripts, ScriptStep(s), NEW c \in Container
  PROVE  Goes(LifeOf(c), LifeOf(c)', c)
<1>0. pc[s] # 0 /\ Advance(s)
  BY DEF ScriptStep, At, Remove, AwaitImage, PullImage, RunContainer, RunNewContainer
<1>1. CASE Remove(s)
  BY <1>1, RemovePromised
<1>2. CASE AwaitImage(s) \/ PullImage(s)
  <2>1. status' = status /\ had' = had /\ Command(s) # Run(c)
    BY <1>2 DEF AwaitImage, PullImage, At, Run, history
  <2>2. Owed(c)' <=> Owed(c)
    BY <1>0, <2>1, OwedAfterCommand
  <2> QED BY <2>1, <2>2, LifeGoesOn DEF Goes
<1>3. CASE RunContainer(s)
  <2> DEFINE d == Command(s).on
  <2>1. Command(s) \in Ops /\ Command(s).op = "run"
    BY <1>0, <1>3, CommandType DEF RunContainer, At
  <2>2. d \in Container
    BY <2>1 DEF Ops
  <2>3. c # d => Command(s) # Run(c)
    BY DEF Run
  <2>4. CASE status[d] = "absent" /\ Launch(s, d)
    <3> HIDE DEF d
    <3> QED BY <1>0, <2>2, <2>3, <2>4, LaunchPromised
  <2>5. CASE status[d] # "absent" /\ UNCHANGED <<status, had>>
    <3>1. CASE c = d
      BY <2>5, <3>1, LifeIs, LifeIsNext DEF Goes, StationOK, Status
    <3>2. CASE c # d
      <4>1. Owed(c)' <=> Owed(c)
        BY <1>0, <2>3, <3>2, OwedAfterCommand
      <4> QED BY <2>5, <4>1, LifeGoesOn DEF Goes
    <3> QED BY <3>1, <3>2
  <2> QED BY <1>3, <2>4, <2>5 DEF RunContainer
<1>4. CASE RunNewContainer(s)
  <2>1. PICK d \in Dyadic : status[d] = "absent" /\ Launch(s, d)
    BY <1>4 DEF RunNewContainer
  <2>2. d \in Container
    BY DEF Container
  <2>3. Command(s) # Run(c)
    BY <1>4 DEF RunNewContainer, At, Run
  <2> QED BY <1>0, <2>1, <2>2, <2>3, LaunchPromised
<1> QED BY <1>1, <1>2, <1>3, <1>4 DEF ScriptStep

\* A script that is started takes nothing from what others owe.
LEMMA StartedOwes ==
  ASSUME PcOK, NEW s \in Scripts, Start(s), NEW c \in Container, Owed(c)
  PROVE  Owed(c)'
<1>1. PICK t \in Scripts : WillRun(t, c)
  BY DEF Owed
<1>2. pc'[t] = pc[t]
  BY <1>1 DEF Start, WillRun, PcOK
<1> QED BY <1>1, <1>2 DEF Owed, WillRun

LEMMA OthersPromised ==
  ASSUME PcOK, StationOK, StationOK', [Next]_vars, ~(\E s \in Scripts : ScriptStep(s)),
         NEW c \in Container
  PROVE  Goes(LifeOf(c), LifeOf(c)', c)
<1> USE DEF script, history
<1>0. had' = had /\ status \in [Container -> Status] /\ status' \in [Container -> Status]
  BY DEF Next, vars, Start, CutOff, StartDocker, RestartDocker, EngineCrash, RestartContainer,
         ContainerExit, StopContainer, SwarmDeploysImage, PruneContainers, PruneImages, StationOK
<1>1. CASE c \notin had
  BY <1>0, <1>1, LifeIs, LifeIsNext DEF Goes
<1>2. CASE c \in had /\ UNCHANGED pc
  <2>1. Owed(c)' <=> Owed(c)
    BY <1>2 DEF Owed, WillRun
  <2>2. CASE status'[c] = status[c]
    BY <1>0, <2>1, <2>2, LifeGoesOn DEF Goes
  <2>3. CASE status[c] \in {"exited", "stopped"} /\ status'[c] = "running" /\ (status[c] = "stopped" => c \in Always)
    BY <1>0, <1>2, <2>3, LifeIs, LifeIsNext DEF Goes, Always
  <2>4. CASE status[c] = "running" /\ status'[c] = "exited"
    BY <1>0, <1>2, <2>4, LifeIs, LifeIsNext DEF Goes
  <2>5. CASE status[c] \in {"running", "exited"} /\ status'[c] = "stopped"
    BY <1>0, <1>2, <2>5, LifeIs, LifeIsNext DEF Goes
  <2>6. CASE status[c] = "stopped" /\ status'[c] = "absent" /\ mishap'
    BY <1>0, <1>2, <2>6, LifeIs, LifeIsNext DEF Goes
  <2>7. CASE StartDocker \/ RestartDocker
    BY <2>2, <2>3, <2>7 DEF StartDocker, RestartDocker, Revive
  <2>8. CASE EngineCrash \/ PruneContainers
    BY <2>2, <2>4, <2>6, <2>8 DEF EngineCrash, PruneContainers
  <2>9. ASSUME NEW d \in Container,
               RestartContainer(d) \/ ContainerExit(d) \/ StopContainer(d)
        PROVE  Goes(LifeOf(c), LifeOf(c)', c)
    BY <1>0, <2>2, <2>3, <2>4, <2>5, <2>9 DEF RestartContainer, ContainerExit, StopContainer
  <2>10. CASE UNCHANGED status
    BY <2>2, <2>10
  <2>11. \A s \in Scripts : CutOff(s) \/ Start(s) => UNCHANGED status
    BY DEF CutOff, Start
  <2> QED
    BY <2>7, <2>8, <2>9, <2>10, <2>11 DEF Next, SwarmDeploysImage, PruneImages, vars
<1>3. CASE c \in had /\ ~UNCHANGED pc
  <2>1. PICK s \in Scripts : Start(s) \/ CutOff(s)
    BY <1>3 DEF Next, StartDocker, RestartDocker, EngineCrash, RestartContainer, ContainerExit,
                StopContainer, SwarmDeploysImage, PruneContainers, PruneImages, vars
  <2>2. status' = status
    BY <2>1 DEF Start, CutOff
  <2>3. CASE Owed(c)' <=> Owed(c)
    BY <1>0, <2>2, <2>3, LifeGoesOn DEF Goes
  <2>4. CASE status[c] # "absent"
    BY <1>0, <1>3, <2>2, <2>4, LifeIs, LifeIsNext DEF Goes, Status
  <2>5. CASE status[c] = "absent" /\ Owed(c) /\ ~Owed(c)'
    <3>1. mishap'
      BY <1>0, <2>1, <2>5, StartedOwes DEF CutOff
    <3> QED BY <1>0, <1>3, <2>2, <2>5, <3>1, LifeIs, LifeIsNext DEF Goes
  <2>6. CASE status[c] = "absent" /\ ~Owed(c) /\ Owed(c)'
    BY <1>0, <1>3, <2>2, <2>6, LifeIs, LifeIsNext DEF Goes
  <2> QED BY <2>3, <2>4, <2>5, <2>6
<1> QED BY <1>1, <1>2, <1>3

\* Every step of every script, of the engine, of cron, of the swarm and of the people is one
\* that Supervised.tla allows each container, for any of the scripts and any bounds: what is
\* up is never lost at one blow, also after a mishap.
THEOREM KeepsPromise == Spec => LivesOn
<1>1. Init => Promise!Init
  BY DEF Init, Promise!Init, LifeOf
<1>2. PcOK /\ StationOK /\ StationOK' /\ [Next]_vars => [Promise!Next]_(Promise!vars)
  <2> SUFFICES ASSUME PcOK, StationOK, StationOK', [Next]_vars PROVE Promise!Next
    OBVIOUS
  <2>1. ASSUME NEW c \in Container PROVE Goes(LifeOf(c), LifeOf(c)', c)
    BY CommandPromised, OthersPromised
  <2>2. mishap => mishap'
    BY DEF Next, vars, history, ScriptStep, Start, Remove, AwaitImage, PullImage, RunContainer,
           RunNewContainer, Launch, CutOff, StartDocker, RestartDocker, EngineCrash,
           RestartContainer, ContainerExit, StopContainer, SwarmDeploysImage, PruneContainers,
           PruneImages
  <2> QED BY <2>1, <2>2, MovesPromised
<1> QED
  BY <1>1, <1>2, InitType, PcType, StationType, PTL
  DEF Spec, LivesOn, Promise!Safety
=============================================================================
