------------------------------ MODULE PostClone ------------------------------
(***************************************************************************)
(* post-clone.sh, run on a station that was restored from the clone image: *)
(* it gives the station a name of its own, moves it to a swarm as a node   *)
(* of its own (switch_swarm.sh), sets its camera up again                  *)
(* (setup_usb-cam.sh) and tidies root's crontab.                           *)
(*                                                                         *)
(* One step of the script is one action. A run can end at any step, and    *)
(* the machine can lose power at any step; the operator then runs the      *)
(* script again, with the same name or another. Between two runs somebody  *)
(* may also run the installer (module NucInstall), which writes two of the *)
(* files that post-clone.sh edits.                                         *)
(***************************************************************************)
EXTENDS Naturals, FiniteSets

CONSTANTS
  Default,   \* the name in the clone image
  Valid,     \* the names that hostname(1) accepts
  Refused,   \* the names that it refuses, although sed writes them
  Swarms,    \* the swarms that switch_swarm.sh offers
  MaxRuns    \* bound: how often the operator starts the script

\* Values that are no name and no swarm.
None == "none"
Absent == "absent"     \* a file that is not there
Mangled == "mangled"   \* what a boot makes of a name that is no hostname
Cloned == "cloned"     \* the membership that every clone of the image shares

ASSUME NamesAssumption ==
  /\ Valid \cap Refused = {}
  /\ Default \notin Valid \cup Refused
  /\ {None, Absent, Mangled} \cap (Valid \cup Refused \cup {Default}) = {}
ASSUME SwarmsAssumption == {None, Cloned} \cap Swarms = {}
ASSUME MaxRunsAssumption == MaxRuns \in Nat \ {0}

Names == Valid \cup Refused
File == {"hostname", "hosts", "hostapd"}   \* the files of /etc that hold the name
CronLine == {"restartDocker", "reboot"}
Remote == {"remotepc", "teamviewer"}
Step == File \cup {"idle", "apply", "location", "leave", "join", "usbcam", "usbcam_wait",
                   "cronRestart", "cronReboot", "end"} \cup Remote

VARIABLES
  pc, runs,    \* the next step, and how often the script was started
  target,      \* $target_hn of this run
  fault,       \* has a command of this run failed?
  file,        \* the name in each file
  running,     \* the name in the kernel
  asked,       \* history: the names asked for so far
  claimed,     \* history: the last name the script reported as successfully changed to
  location,    \* the swarm chosen in this run
  swarm,       \* the membership of the docker engine
  image, camera,   \* the ros-bundle image, and the usb-cam container
  cron,        \* how many copies of each line root's crontab holds
  remote       \* the remote desktops that are installed

names == <<file, running, asked, claimed>>
docker == <<swarm, image, camera>>
vars == <<pc, runs, target, fault, names, location, docker, cron, remote>>

TypeOK ==
  /\ pc \in Step /\ runs \in 0..MaxRuns
  /\ target \in Names \cup {None}
  /\ pc # "idle" => target \in Names
  /\ fault \in BOOLEAN
  /\ file \in [File -> Names \cup {Default, Absent, Mangled}]
  /\ {file["hostname"], file["hosts"]} \subseteq Names \cup {Default}
  /\ running \in Names \cup {Default, Mangled}
  /\ asked \in SUBSET Names /\ claimed \in Valid \cup {None}
  /\ location \in Swarms \cup {None} /\ swarm \in Swarms \cup {None, Cloned}
  /\ image \in BOOLEAN /\ camera \in BOOLEAN
  /\ cron \in [CronLine -> Nat]
  /\ remote \in SUBSET Remote

\* A station as the clone image leaves it. What was installed on the machine the
\* image was taken from differs between images.
Init ==
  /\ pc = "idle" /\ runs = 0 /\ target = None /\ fault = FALSE
  /\ file \in {[f \in File |-> IF f = "hostapd" THEN ap ELSE Default] : ap \in {Default, Absent}}
  /\ running = Default
  /\ asked = {} /\ claimed = None
  /\ location = None /\ swarm = Cloned
  /\ image \in BOOLEAN /\ camera = image
  /\ cron \in [CronLine -> {0, 1}]
  /\ remote = {}

Goto(step) == pc' = step

(***************************************************************************)
(* The name.                                                               *)
(***************************************************************************)

\* ./post-clone.sh NEW_HOSTNAME (without a name it prints its usage and exits).
StartRun(name) ==
  /\ pc = "idle" /\ runs < MaxRuns
  /\ runs' = runs + 1 /\ target' = name /\ fault' = FALSE /\ location' = None
  /\ asked' = asked \cup {name}
  /\ Goto("hostname")
  /\ UNCHANGED <<file, running, claimed, docker, cron, remote>>

\* Mutant: the default is looked for in one file only.
SedFirstName(f, next) ==
  /\ pc = f
  /\ file' = IF file["hostname"] = Default THEN [file EXCEPT ![f] = target] ELSE file
  /\ Goto(next)
  /\ UNCHANGED <<runs, target, fault, running, asked, claimed, location, docker, cron, remote>>

\* sed -i 's/default/target/': it finds nothing in a file that has another name.
SedName(f, next) ==
  /\ pc = f
  /\ file' = IF file[f] = Default THEN [file EXCEPT ![f] = target] ELSE file
  /\ Goto(next)
  /\ UNCHANGED <<runs, target, fault, running, asked, claimed, location, docker, cron, remote>>

\* sudo hostname, and the report that ends the run of a name it refuses.
ApplyName ==
  /\ pc = "apply"
  /\ \/ /\ target \in Valid
        /\ running' = target /\ claimed' = target
        /\ Goto("location")
     \/ /\ target \notin Valid
        /\ Goto("idle")
        /\ UNCHANGED <<running, claimed>>
  /\ UNCHANGED <<runs, target, fault, file, asked, location, docker, cron, remote>>

(***************************************************************************)
(* switch_swarm.sh and setup_usb-cam.sh.                                   *)
(***************************************************************************)
DockerStep == UNCHANGED <<runs, target, names, cron, remote>>

\* Any other answer ends switch_swarm.sh, not post-clone.sh.
ChooseSwarm ==
  /\ pc = "location"
  /\ \/ location' \in Swarms /\ Goto("leave")
     \/ location' = None /\ Goto("usbcam")
  /\ UNCHANGED <<fault, docker>>
  /\ DockerStep

LeaveSwarm ==
  /\ pc = "leave" /\ Goto("join")
  /\ \/ swarm' = None /\ fault' = fault
     \/ swarm' = swarm /\ fault' = TRUE   \* the docker engine is down
  /\ UNCHANGED <<location, image, camera>>
  /\ DockerStep

\* A node that is in a swarm cannot join another.
JoinSwarm ==
  /\ pc = "join" /\ Goto("usbcam")
  /\ \/ swarm = None /\ swarm' = location /\ fault' = fault
     \/ swarm' = swarm /\ fault' = TRUE
  /\ UNCHANGED <<location, image, camera>>
  /\ DockerStep

\* The swarm's manager gives a member the services whose image the scripts look for.
SwarmDeploysImage ==
  /\ swarm # None /\ ~image
  /\ image' = TRUE
  /\ UNCHANGED <<pc, fault, location, swarm, camera>>
  /\ DockerStep

\* Mutant: the loop waits for an image that it asked for once.
AskUsbCamOnce ==
  /\ pc = "usbcam"
  /\ \/ Goto("cronRestart") /\ camera' = camera
     \/ Goto(IF image THEN "usbcam_wait" ELSE "usbcam_loop") /\ camera' = FALSE
  /\ UNCHANGED <<fault, location, swarm, image>>
  /\ DockerStep

AskUsbCam ==
  /\ pc = "usbcam"
  /\ \/ Goto("cronRestart") /\ camera' = camera
     \/ Goto("usbcam_wait") /\ camera' = FALSE   \* docker rm -f
  /\ UNCHANGED <<fault, location, swarm, image>>
  /\ DockerStep

\* Without a webcam docker cannot start the container.
RunUsbCam ==
  /\ pc = "usbcam_wait" /\ image
  /\ \/ camera' = TRUE /\ fault' = fault
     \/ camera' = FALSE /\ fault' = TRUE
  /\ Goto("cronRestart")
  /\ UNCHANGED <<location, swarm, image>>
  /\ DockerStep

(***************************************************************************)
(* The crontab and the remote desktops.                                    *)
(***************************************************************************)
CronStep == UNCHANGED <<runs, target, fault, names, location, docker, remote>>

\* Mutant: the reboot timer is turned into the other one, where there is one.
AddRestartDockerForReboot ==
  /\ pc = "cronRestart" /\ Goto("cronReboot")
  /\ cron' = IF cron["reboot"] # 0 THEN [cron EXCEPT !["restartDocker"] = 1] ELSE cron
  /\ CronStep

AddRestartDocker ==
  /\ pc = "cronRestart" /\ Goto("cronReboot")
  /\ cron' = IF cron["restartDocker"] = 0 THEN [cron EXCEPT !["restartDocker"] = 1] ELSE cron
  /\ CronStep

\* grep -v /sbin/reboot drops every such line, commented out or not.
DropReboot ==
  /\ pc = "cronReboot" /\ Goto("remotepc")
  /\ cron' = [cron EXCEPT !["reboot"] = 0]
  /\ CronStep

InstallRemote(app, next) ==
  /\ pc = app /\ Goto(next)
  /\ \/ remote' = remote \cup {app} /\ fault' = fault
     \/ app \notin remote /\ remote' = remote /\ fault' = TRUE
  /\ UNCHANGED <<runs, target, names, location, docker, cron>>

(***************************************************************************)
(* What else happens to the station.                                       *)
(***************************************************************************)
\* A boot takes the name from /etc/hostname.
BootName == IF file["hostname"] \in Refused THEN Mangled ELSE file["hostname"]

\* The last question, answered with or without a reboot.
Finish ==
  /\ pc = "end" /\ Goto("idle")
  /\ running' \in {running, BootName}
  /\ UNCHANGED <<runs, target, fault, file, asked, claimed, location, docker, cron, remote>>

\* Ctrl-C, or a power cut.
CutOff ==
  /\ pc # "idle" /\ Goto("idle")
  /\ running' \in {running, BootName}
  /\ UNCHANGED <<runs, target, fault, file, asked, claimed, location, docker, cron, remote>>

Reboot ==
  /\ pc = "idle" /\ running # BootName
  /\ running' = BootName
  /\ UNCHANGED <<pc, runs, target, fault, file, asked, claimed, location, docker, cron, remote>>

\* install_nuc10.sh in between: hostapd.conf gets ssid=$HOSTNAME, and root's
\* crontab the lines it lacks.
RunInstaller ==
  /\ pc = "idle"
  /\ \/ file' = [file EXCEPT !["hostapd"] = running]
     \/ file' = file   \* no WiFi dongle
  /\ cron' = [line \in CronLine |-> IF cron[line] = 0 THEN 1 ELSE cron[line]]
  /\ UNCHANGED <<pc, runs, target, fault, running, asked, claimed, location, docker, remote>>

ScriptStep ==
  \/ SedName("hostname", "hosts")
  \/ SedName("hosts", "hostapd")
  \/ SedName("hostapd", "apply")
  \/ ApplyName
  \/ ChooseSwarm \/ LeaveSwarm \/ JoinSwarm
  \/ AskUsbCam \/ RunUsbCam
  \/ AddRestartDocker \/ DropReboot
  \/ InstallRemote("remotepc", "teamviewer")
  \/ InstallRemote("teamviewer", "end")
  \/ Finish

Next ==
  \/ \E name \in Names : StartRun(name)
  \/ ScriptStep \/ CutOff
  \/ SwarmDeploysImage \/ Reboot \/ RunInstaller

Spec == Init /\ [][Next]_vars

\* The script keeps running while it can, and the swarm's manager eventually
\* gives a member its services.
FairSpec == Spec /\ WF_vars(ScriptStep) /\ WF_vars(SwarmDeploysImage)

(***************************************************************************)
(* Properties.                                                             *)
(***************************************************************************)

\* Once the script has reported its name, and as long as it is only ever given that
\* one, the name is the same everywhere: in the kernel, in both files and in the
\* access point's, across runs cut off anywhere, reboots and the installer.
NameEverywhere ==
  claimed # None /\ asked = {claimed} =>
    /\ running = claimed
    /\ \A f \in File : file[f] \in {claimed, Absent}

\* A run in which no command failed ends with the station set up, whatever earlier
\* runs left undone: in the swarm that was chosen and no longer in the image's,
\* docker restarted every morning, no reboot timer, both remote desktops there.
Converges ==
  pc = "end" /\ ~fault =>
    /\ location # None => swarm = location
    /\ cron["restartDocker"] = 1 /\ cron["reboot"] = 0
    /\ remote = Remote

\* A run that is started ends, unless it waits for an image on a station that has
\* left its swarm and joined no other.
RunEnds == pc # "idle" ~> (pc = "idle" \/ (pc = "usbcam_wait" /\ swarm = None))

\* "Hostname successfully changed to: $new_hn", printed before the swarm is chosen.
HostnameChanged == pc = "location" => file["hostname"] = target
=============================================================================
