---------------------------- MODULE DockerStation ----------------------------
(***************************************************************************)
(* The docker engine of a station and everything that works on it: the     *)
(* setup scripts (setup_usb-cam.sh, setup_mic-launcher.sh,                 *)
(* setup_local-containers.sh, setup_data-tardis.sh, dyadic-interaction     *)
(* install), each a terminal of its own, root's crontab, which starts      *)
(* docker every minute and restarts it every morning, bulk-nuc-setup.sh,   *)
(* which prunes the station from elsewhere, and the swarm's manager, which *)
(* has images pulled.                                                      *)
(*                                                                         *)
(* One docker command of a script is one action, and what the others do    *)
(* comes between any two of them. No script stops at a failed command.     *)
(***************************************************************************)
EXTENDS Naturals, Sequences

CONSTANTS
  Scripts,    \* the scripts in use
  MaxStarts,  \* bound: how many scripts are started, all together
  MaxEvents   \* bound: crashes, exits, stops, prunes and cut-off scripts, all together

Camera == "s02-ros_usb-cam"
Microphone == "s02-ros_microphone-launcher"
Tardis == "data-tardis"
LocalTardis == "data-tardis_data-tardis"

\* dyadic-interaction names no container: docker takes a name that is free
\* (two names are enough while MaxStarts is 2 where that script is used).
Dyadic == {"dyadic1", "dyadic2"}
Container == Dyadic \cup {Camera, Microphone, "s02-ros_roscore", "s02-ros_rosbridge",
                          Tardis, LocalTardis}

\* triadic-interaction is a tag of the repository mitprg/ros-bundle, ros-bundle any other tag.
Image == {"ros-bundle", "synology-tardis", "data-tardis", "triadic-interaction"}
NoImage == "none"

\* The images that the swarm's manager has its members pull.
SwarmImage == {"ros-bundle", "synology-tardis"}

\* What docker images lists for a repository without a tag.
Tags(repository) ==
  IF repository = "ros-bundle" THEN {"ros-bundle", "triadic-interaction"} ELSE {repository}

\* --restart=always, and --restart=unless-stopped for the one of setup_data-tardis.sh.
Always == Container \ {Tardis}

(***************************************************************************)
(* The scripts, as the docker commands they give.                          *)
(***************************************************************************)
Rm(c) == [op |-> "rm", on |-> c]
Await(repository) == [op |-> "await", on |-> repository]   \* while [ -z "$IMAGE_ID" ]
Pull(image) == [op |-> "pull", on |-> image]
Run(c) == [op |-> "run", on |-> c]

UsbCam == <<Rm(Camera), Await("ros-bundle"), Run(Camera)>>

MicLauncher == <<Rm(Microphone), Await("ros-bundle"), Run(Microphone)>>

\* Mutant: the new containers are started before the old ones are gone.
LocalContainersLate ==
  <<Await("ros-bundle"), Run(Camera), Run("s02-ros_roscore"), Run("s02-ros_rosbridge"),
    Rm(Camera), Rm("s02-ros_roscore"), Rm("s02-ros_rosbridge"), Rm(LocalTardis),
    Await("synology-tardis"), Run(LocalTardis)>>

LocalContainers ==
  <<Rm(Camera), Rm("s02-ros_roscore"), Rm("s02-ros_rosbridge"), Rm(LocalTardis),
    Await("ros-bundle"), Run(Camera), Run("s02-ros_roscore"), Run("s02-ros_rosbridge"),
    Await("synology-tardis"), Run(LocalTardis)>>

\* Mutant: pulls the name of the other data tardis's container.
DataTardisByContainer == <<Rm(Tardis), Pull(LocalTardis), Run(Tardis)>>

DataTardis == <<Rm(Tardis), Pull("data-tardis"), Run(Tardis)>>

DyadicInstall == <<[op |-> "new", on |-> "triadic-interaction"]>>

Program(s) == CASE s = "usbCam" -> UsbCam
                [] s = "micLauncher" -> MicLauncher
                [] s = "localContainers" -> LocalContainers
                [] s = "dataTardis" -> DataTardis
                [] s = "dyadic" -> DyadicInstall

Script == {"usbCam", "micLauncher", "localContainers", "dataTardis", "dyadic"}

ASSUME ScriptsAssumption == Scripts \subseteq Script
ASSUME BoundsAssumption == MaxStarts \in Nat /\ MaxEvents \in Nat

VARIABLES
  pc,        \* the command each script gives next, 0 when it does not run
  chosen,    \* the image whose id each script found last, in ROS_IMAGE_ID or TARDIS_IMAGE_ID
  daemon,    \* is the docker engine up?
  status,    \* of each container
  from,      \* the image that each container was made of
  images,    \* the images on the station
  pruning,   \* docker system prune: the containers are gone, the images not yet
  had,       \* history: the containers the station has had
  halted,    \* history: those an operator has stopped and nobody has set up again
  mishap,    \* history: has a script been cut off, or a container been lost to a
             \* prune or to a docker run without its engine or its image?
  starts, events

script == <<pc, chosen, starts>>
containers == <<status, from>>
history == <<had, halted, mishap>>
vars == <<script, daemon, containers, images, pruning, history, events>>

\* exited: on its own or with the engine; stopped: by docker stop.
Status == {"absent", "running", "exited", "stopped"}

TypeOK ==
  /\ pc \in [Scripts -> Nat]
  /\ \A s \in Scripts : pc[s] \in 0..Len(Program(s))
  /\ daemon \in BOOLEAN /\ pruning \in BOOLEAN /\ mishap \in BOOLEAN
  /\ chosen \in [Scripts -> Image \cup {NoImage}]
  /\ status \in [Container -> Status]
  /\ from \in [Container -> Image \cup {NoImage}]
  /\ images \in SUBSET Image
  /\ had \in SUBSET Container /\ halted \in SUBSET Container
  /\ starts \in 0..MaxStarts /\ events \in 0..MaxEvents

Init ==
  /\ pc = [s \in Scripts |-> 0] /\ chosen = [s \in Scripts |-> NoImage]
  /\ daemon = TRUE /\ pruning = FALSE
  /\ status = [c \in Container |-> "absent"] /\ from = [c \in Container |-> NoImage]
  /\ images \in SUBSET SwarmImage
  /\ had = {} /\ halted = {} /\ mishap = FALSE
  /\ starts = 0 /\ events = 0

(***************************************************************************)
(* The scripts.                                                            *)
(***************************************************************************)
Command(s) == Program(s)[pc[s]]

\* The next command, or the end of the script.
Advance(s) == pc' = [pc EXCEPT ![s] = IF @ = Len(Program(s)) THEN 0 ELSE @ + 1]

At(s, op) == pc[s] # 0 /\ Command(s).op = op

Start(s) ==
  /\ pc[s] = 0 /\ starts < MaxStarts
  /\ pc' = [pc EXCEPT ![s] = 1]
  /\ starts' = starts + 1
  /\ UNCHANGED <<chosen, daemon, containers, images, pruning, history, events>>

\* docker rm -f, an error when the engine is down.
Remove(s) ==
  /\ At(s, "rm") /\ Advance(s)
  /\ \/ /\ daemon
        /\ status' = [status EXCEPT ![Command(s).on] = "absent"]
        /\ from' = [from EXCEPT ![Command(s).on] = NoImage]
        /\ halted' = halted \ {Command(s).on}
     \/ ~daemon /\ UNCHANGED <<containers, halted>>
  /\ UNCHANGED <<chosen, daemon, images, pruning, had, mishap, starts, events>>

\* docker images prints no id while the engine is down or no image of the repository is
\* there; of several, whatever their tags, awk takes the first.
AwaitImage(s) ==
  /\ At(s, "await") /\ daemon
  /\ \E image \in images \cap Tags(Command(s).on) : chosen' = [chosen EXCEPT ![s] = image]
  /\ Advance(s)
  /\ UNCHANGED <<daemon, containers, images, pruning, history, starts, events>>

\* Without the engine or the network there is no pull.
PullImage(s) ==
  /\ At(s, "pull") /\ Advance(s)
  /\ \/ daemon /\ images' = images \cup {Command(s).on}
     \/ images' = images
  /\ UNCHANGED <<chosen, daemon, containers, pruning, history, starts, events>>

\* The image is named, or it is the one whose id the script has found.
ImageFor(s, c) == CASE c = Tardis -> "data-tardis"
                    [] c \in Dyadic -> "triadic-interaction"
                    [] OTHER -> chosen[s]

\* docker run with c for its container: c runs, or nothing changes and c is missing. An
\* image that is not there is pulled by its name, but not by an id.
Launch(s, c) ==
  \/ /\ daemon /\ (ImageFor(s, c) \in images \/ c \in Dyadic \cup {Tardis})
     /\ status' = [status EXCEPT ![c] = "running"]
     /\ from' = [from EXCEPT ![c] = ImageFor(s, c)]
     /\ images' = images \cup {ImageFor(s, c)}
     /\ had' = had \cup {c}
     /\ mishap' = mishap
  \/ /\ ~daemon \/ ImageFor(s, c) \notin images
     /\ mishap' = TRUE
     /\ UNCHANGED <<containers, images, had>>

\* docker run --name, an error when there is a container of that name.
RunContainer(s) ==
  /\ At(s, "run") /\ Advance(s)
  /\ \/ status[Command(s).on] = "absent" /\ Launch(s, Command(s).on)
     \/ status[Command(s).on] # "absent" /\ UNCHANGED <<containers, images, had, mishap>>
  /\ UNCHANGED <<chosen, daemon, pruning, halted, starts, events>>

RunNewContainer(s) ==
  /\ At(s, "new") /\ Advance(s)
  /\ \E c \in Dyadic : status[c] = "absent" /\ Launch(s, c) /\ halted' = halted \ {c}
  /\ UNCHANGED <<chosen, daemon, pruning, starts, events>>

ScriptStep(s) ==
  Remove(s) \/ AwaitImage(s) \/ PullImage(s) \/ RunContainer(s) \/ RunNewContainer(s)

(***************************************************************************)
(* The engine, root's crontab and the swarm's manager.                     *)
(***************************************************************************)

\* Mutant: every container treated as unless-stopped.
ReviveUnlessStopped ==
  [c \in Container |-> IF status[c] = "exited" THEN "running" ELSE status[c]]

\* What an engine that starts makes of its containers.
Revive == [c \in Container |->
             IF status[c] = "exited" \/ (status[c] = "stopped" /\ c \in Always)
             THEN "running" ELSE status[c]]

\* */1 * * * * /bin/systemctl start docker
StartDocker ==
  /\ ~daemon
  /\ daemon' = TRUE /\ status' = Revive
  /\ UNCHANGED <<script, from, images, pruning, history, events>>

\* 00 7 * * * /bin/systemctl restart docker, which starts an engine that is down.
RestartDocker ==
  /\ daemon' = TRUE /\ status' = Revive /\ pruning' = FALSE
  /\ UNCHANGED <<script, from, images, history, events>>

\* A container that exited on its own is started again: both policies say so.
RestartContainer(c) ==
  /\ daemon /\ status[c] = "exited"
  /\ status' = [status EXCEPT ![c] = "running"]
  /\ UNCHANGED <<script, daemon, from, images, pruning, history, events>>

SwarmDeploysImage ==
  /\ daemon
  /\ \E image \in SwarmImage \ images : images' = images \cup {image}
  /\ UNCHANGED <<script, daemon, containers, pruning, history, events>>

(***************************************************************************)
(* What goes wrong, and what people do. These are the bounded events.      *)
(***************************************************************************)
Event == events < MaxEvents /\ events' = events + 1

EngineCrash ==
  /\ Event /\ daemon
  /\ daemon' = FALSE /\ pruning' = FALSE
  /\ status' = [c \in Container |-> IF status[c] = "running" THEN "exited" ELSE status[c]]
  /\ UNCHANGED <<script, from, images, history>>

ContainerExit(c) ==
  /\ Event /\ status[c] = "running"
  /\ status' = [status EXCEPT ![c] = "exited"]
  /\ UNCHANGED <<script, daemon, from, images, pruning, history>>

StopContainer(c) ==
  /\ Event /\ daemon /\ status[c] \in {"running", "exited"}
  /\ status' = [status EXCEPT ![c] = "stopped"]
  /\ halted' = halted \cup {c}
  /\ UNCHANGED <<script, daemon, from, images, pruning, had, mishap>>

CutOff(s) ==
  /\ Event /\ pc[s] # 0
  /\ pc' = [pc EXCEPT ![s] = 0]
  /\ mishap' = TRUE
  /\ UNCHANGED <<chosen, daemon, containers, images, pruning, had, halted, starts>>

\* docker system prune -a: first the stopped containers, then the unused images.
PruneContainers ==
  /\ Event /\ daemon /\ ~pruning
  /\ status' = [c \in Container |-> IF status[c] = "stopped" THEN "absent" ELSE status[c]]
  /\ from' = [c \in Container |-> IF status[c] = "stopped" THEN NoImage ELSE from[c]]
  /\ halted' = halted \ {c \in Container : status[c] = "stopped"}
  /\ mishap' = (mishap \/ \E c \in Container : status[c] = "stopped")
  /\ pruning' = TRUE
  /\ UNCHANGED <<script, daemon, images, had>>

PruneImages ==
  /\ pruning /\ daemon
  /\ images' = {image \in images : \E c \in Container : from[c] = image}
  /\ pruning' = FALSE
  /\ UNCHANGED <<script, daemon, containers, history, events>>

Next ==
  \/ \E s \in Scripts : Start(s) \/ ScriptStep(s) \/ CutOff(s)
  \/ StartDocker \/ RestartDocker \/ EngineCrash
  \/ \E c \in Container : RestartContainer(c) \/ ContainerExit(c) \/ StopContainer(c)
  \/ SwarmDeploysImage
  \/ PruneContainers \/ PruneImages

Spec == Init /\ [][Next]_vars

\* A script goes on while it can, cron is on time, and the engine keeps to the restart
\* policies. Nobody has to pull an image: the station may not be in a swarm, and the swarm
\* may not deploy it again.
FairSpec ==
  /\ Spec
  /\ \A s \in Scripts : WF_vars(ScriptStep(s))
  /\ WF_vars(StartDocker) /\ WF_vars(RestartDocker)
  /\ \A c \in Container : WF_vars(RestartContainer(c))

(***************************************************************************)
(* Properties.                                                             *)
(***************************************************************************)

\* Script s has still to run container c.
WillRun(s, c) ==
  pc[s] # 0 /\ \E k \in pc[s]..Len(Program(s)) : Program(s)[k] = Run(c)

\* However the setup scripts overlap - two of them remove and run the camera - and
\* whenever the engine goes down, a container that the station has had is there, or
\* some script is about to run it, unless one of the named mishaps befell. Follows from
\* LivesOn below, and is proved on its own.
NeverLost ==
  ~mishap => \A c \in had : status[c] # "absent" \/ \E s \in Scripts : WillRun(s, c)

\* Script s waits for an image that is not on the station.
Waits(s) == At(s, "await") /\ Tags(Command(s).on) \cap images = {}

\* A container that the station has had runs again sooner or later, without anybody setting it
\* up: a script that removed it comes round to running it, an exited one is restarted, and one
\* that an operator stopped comes back with the restart of the engine in the morning. The one
\* place to hang is the script's wait for an image that nobody brings.
Recovers ==
  \A c \in Always :
    c \in had ~> \/ status[c] = "running" \/ mishap
                 \/ \E s \in Scripts : WillRun(s, c) /\ Waits(s)

\* The data tardis is the one container that an operator can stop for good: no crash,
\* no morning restart and no cron job starts it again, only setup_data-tardis.sh. Proved.
TardisStaysStopped == Tardis \in halted => status[Tardis] = "stopped"

\* Each container lives as Supervised.tla promises, also after a mishap: nothing that
\* overlapping scripts, crashes, cron, exits or an operator's stop do loses one that is up
\* or has exited; a script that removes it owes it, and only an owed one, when its script
\* is cut off or its docker run fails, or a stopped one, by a prune, gets lost.
LifeOf(c) ==
  CASE c \notin had -> "none"
    [] c \in had /\ status[c] = "running" -> "up"
    [] c \in had /\ status[c] = "exited" -> "down"
    [] c \in had /\ status[c] = "stopped" -> "stopped"
    [] c \in had /\ status[c] = "absent" ->
         IF \E s \in Scripts : WillRun(s, c) THEN "owed" ELSE "lost"

Promise == INSTANCE Supervised WITH
  life <- [c \in Container |-> LifeOf(c)], Revived <- Container \ {Tardis}

LivesOn == Promise!Safety
=============================================================================
