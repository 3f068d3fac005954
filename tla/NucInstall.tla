------------------------------ MODULE NucInstall ------------------------------
(***************************************************************************)
(* install_nuc10.sh, the script that turns an Ubuntu NUC into a station.   *)
(*                                                                         *)
(* One step of the script is one action; pc names the step that runs next. *)
(* The script has no "set -e": a command that fails is passed over and the *)
(* next one runs.  A run can be cut off before any step (Ctrl-C, a power   *)
(* cut), and the operator starts the script again from its first line: the *)
(* guards at the head of its sections are all the memory it has.           *)
(*                                                                         *)
(* Commands that need the network fail or succeed freely; a local command  *)
(* fails exactly when the file or the package it needs is missing.         *)
(***************************************************************************)
EXTENDS RcLocal

CONSTANTS
  Keys,     \* the maintainers whose ssh keys are installed
  MaxRuns   \* bound: how often the operator starts the script

CronEntry == {"startDocker", "restartDocker", "rebootLine"}
WifiEntry == {"interfaces", "sysctl", "ns8888", "ns8844"}

\* Text a grep keeps the script from adding twice to a file of the system.
OnceEntry == {"sudoers"} \cup CronEntry \cup WifiEntry \cup Keys
Entry == OnceEntry \cup {"daemonConf"}

\* Whole files and settings the script writes, whatever was there before.
Artifact == {"udev", "hostapd_conf", "hostapd_enable", "hosts", "ifplugd",
             "wpa_conf", "wpa_unit", "wpa_enable", "nm"}

Step == {"idle", "sudoers", "location", "rc", "rc_blank", "rc_exit", "rc_chmod", "rc_enable",
         "audio", "keys", "docker", "swarm", "usbcam", "usbcam_wait", "dongle", "packages",
         "daemonConf", "dnsmasq_mv", "dnsmasq_tee", "hosts", "unit_cp", "unit_sed",
         "rc_wifi", "rc_write", "svc_mkdir", "svc_clone", "svc_install", "reboot"}
        \cup CronEntry \cup WifiEntry \cup Artifact

\* The steps of rc.local's creation, and with them all that only one run ever comes to: once
\* it has passed the guard before them, the guard keeps every other run away.
CreationStep == {"rc_blank", "rc_exit", "rc_chmod", "rc_enable"}
OneTimeStep == CreationStep \cup
  {"dnsmasq_tee", "hosts", "unit_sed", "rc_write", "ns8844", "svc_clone", "svc_install"}

ASSUME KeysAssumption == Keys \cap (CronEntry \cup WifiEntry \cup {"sudoers", "daemonConf"}) = {}
ASSUME MaxRunsAssumption == MaxRuns \in Nat \ {0}

VARIABLES
  pc, runs,      \* the next step, and how often the script was started
  location,      \* the deployment the operator chose
  dongle,        \* INSTALL_WIFI_DONGLE
  online,        \* has every download of this run succeeded so far?
  missed,        \* history: the steps of OneTimeStep at which a run was cut off or failed
  rcExists, rcLocal, newRc, rcExec, rcEnabled,  \* /etc/rc.local and its unit
  copies,        \* how many copies of each entry its file holds
  written,       \* the artifacts that are in place
  docker, inSwarm, image, camera,  \* docker engine, swarm member, ros-bundle image, usb-cam container
  packages,                        \* the networking packages of the WiFi section
  dnsmasqConf, dnsmasqDist, dnsmasqUnit,
  wifiService    \* /usr/local/jibo-station-wifi-service

control  == <<runs, location, dongle, online, missed>>
rcFile   == <<rcExists, rcLocal, newRc, rcExec, rcEnabled>>
dockerVars == <<docker, inSwarm, image, camera>>
dnsmasq  == <<dnsmasqConf, dnsmasqDist, dnsmasqUnit>>
vars == <<pc, control, rcFile, copies, written, dockerVars, packages, dnsmasq, wifiService>>

SettingsOK ==
  /\ location \in {"school", "home", "dha"}
  /\ dongle \in BOOLEAN /\ online \in BOOLEAN
  /\ rcExists \in BOOLEAN /\ rcExec \in BOOLEAN /\ rcEnabled \in BOOLEAN
  /\ docker \in BOOLEAN /\ inSwarm \in BOOLEAN /\ image \in BOOLEAN /\ camera \in BOOLEAN
  /\ packages \in BOOLEAN
  /\ dnsmasqConf \in {"absent", "distro", "station"}
  /\ dnsmasqDist \in {"absent", "distro", "station"}
  /\ dnsmasqUnit \in {"absent", "copied", "patched"}
  /\ wifiService \in {"absent", "empty", "cloned", "installed"}

TypeOK ==
  /\ pc \in Step
  /\ runs \in 0..MaxRuns
  /\ copies \in [Entry -> Nat]
  /\ written \in SUBSET Artifact
  /\ rcLocal \in Seq(Line) /\ newRc \in Seq(Line)
  /\ missed \in SUBSET OneTimeStep
  /\ SettingsOK

\* A freshly installed Ubuntu, with or without an rc.local of the distribution.
Init ==
  /\ pc = "idle" /\ runs = 0 /\ location = "home" /\ dongle = FALSE /\ online = TRUE
  /\ missed = {}
  /\ \E shipped \in BOOLEAN :
       /\ rcExists = shipped /\ rcExec = shipped /\ rcEnabled = shipped
       /\ rcLocal = IF shipped THEN <<"sh", "blank", "exit">> ELSE <<>>
  /\ newRc = <<>>
  /\ copies = [e \in Entry |-> 0]
  /\ written = {}
  /\ docker = FALSE /\ inSwarm = FALSE /\ image = FALSE /\ camera = FALSE
  /\ packages = FALSE
  /\ dnsmasqConf = "absent" /\ dnsmasqDist = "absent" /\ dnsmasqUnit = "absent"
  /\ wifiService = "absent"

(***************************************************************************)
(* Starting, ending and losing a run.                                      *)
(***************************************************************************)
Goto(step) == pc' = step

StartRun ==
  /\ pc = "idle" /\ runs < MaxRuns
  /\ runs' = runs + 1 /\ dongle' = FALSE /\ online' = TRUE
  /\ Goto("sudoers")
  /\ UNCHANGED <<location, missed, rcFile, copies, written, dockerVars, packages, dnsmasq,
                 wifiService>>

ChooseLocation ==
  /\ pc = "location"
  /\ \/ location' \in {"school", "home", "dha"} /\ Goto("rc")
     \/ location' = location /\ Goto("idle")   \* any other answer exits
  /\ UNCHANGED <<runs, dongle, online, missed, rcFile, copies, written, dockerVars,
                 packages, dnsmasq, wifiService>>

Interrupt ==
  /\ pc # "idle"
  /\ newRc' = <<>>
  /\ missed' = missed \cup ({pc} \cap OneTimeStep)
  /\ Goto("idle")
  /\ UNCHANGED <<runs, location, dongle, online, rcExists, rcLocal, rcExec, rcEnabled, copies, written,
                 dockerVars, packages, dnsmasq, wifiService>>

Reboot ==   \* the last question, answered either way
  /\ pc = "reboot"
  /\ Goto("idle")
  /\ UNCHANGED <<control, rcFile, copies, written, dockerVars, packages, dnsmasq, wifiService>>

(***************************************************************************)
(* The kinds of step that recur.                                           *)
(***************************************************************************)

\* Mutant: the append without its grep.
AppendUnguarded(entry, next) ==
  /\ pc = entry
  /\ copies' = [copies EXCEPT ![entry] = @ + 1]
  /\ Goto(next)
  /\ UNCHANGED <<control, rcFile, written, dockerVars, packages, dnsmasq, wifiService>>

\* if ! grep entry; then append it; fi
GuardedAppend(entry, next) ==
  /\ pc = entry
  /\ copies' = IF copies[entry] = 0 THEN [copies EXCEPT ![entry] = 1] ELSE copies
  /\ Goto(next)
  /\ UNCHANGED <<control, rcFile, written, dockerVars, packages, dnsmasq, wifiService>>

\* A file or setting written over whatever is there.
Overwrite(artifact, next) ==
  /\ pc = artifact
  /\ written' = written \cup {artifact}
  /\ Goto(next)
  /\ UNCHANGED <<control, rcFile, copies, dockerVars, packages, dnsmasq, wifiService>>

\* The same for a file in a directory that a networking package brings along.
OverwriteOfPackage(artifact, next) ==
  /\ pc = artifact
  /\ written' = IF packages THEN written \cup {artifact} ELSE written
  /\ Goto(next)
  /\ UNCHANGED <<control, rcFile, copies, dockerVars, packages, dnsmasq, wifiService>>

(***************************************************************************)
(* rc.local: five commands create it where the distribution has none.      *)
(***************************************************************************)
RcFileStep == UNCHANGED <<control, newRc, copies, written, dockerVars, packages,
                          dnsmasq, wifiService>>

CreateRcLocal ==
  /\ pc = "rc"
  /\ \/ rcExists /\ Goto("audio") /\ UNCHANGED <<rcExists, rcLocal>>
     \/ ~rcExists /\ Goto("rc_blank") /\ rcExists' = TRUE /\ rcLocal' = <<"sh">>
  /\ UNCHANGED <<rcExec, rcEnabled>>
  /\ RcFileStep

\* Mutant: a line that is misspelled.
AppendMisspelled(line, step, next) ==
  /\ pc = step
  /\ rcLocal' = Append(rcLocal, "exit0")
  /\ Goto(next)
  /\ UNCHANGED <<rcExists, rcExec, rcEnabled>>
  /\ RcFileStep

AppendToRcLocal(line, step, next) ==
  /\ pc = step
  /\ rcLocal' = Append(rcLocal, line)
  /\ Goto(next)
  /\ UNCHANGED <<rcExists, rcExec, rcEnabled>>
  /\ RcFileStep

ChmodRcLocal ==
  /\ pc = "rc_chmod" /\ Goto("rc_enable")
  /\ rcExec' = TRUE
  /\ UNCHANGED <<rcExists, rcLocal, rcEnabled>>
  /\ RcFileStep

EnableRcLocal ==
  /\ pc = "rc_enable" /\ Goto("audio")
  /\ rcEnabled' = TRUE
  /\ UNCHANGED <<rcExists, rcLocal, rcExec>>
  /\ RcFileStep

\* Only a school station starts the audio receiver at boot.
AddAudioReceiver ==
  /\ pc = "audio" /\ Goto("startDocker")
  /\ rcLocal' = IF location = "school" /\ ~Contains(rcLocal, "audio")
                THEN SedInsertAudio(rcLocal) ELSE rcLocal
  /\ UNCHANGED <<rcExists, rcExec, rcEnabled>>
  /\ RcFileStep

\* The rewrite is a tee: it empties the file, then writes the text prepared before.
AddWifiToRcLocal ==
  /\ pc = "rc_wifi"
  /\ \/ /\ ~Contains(rcLocal, "wifi") /\ EndsWith(rcLocal, "exit")
        /\ newRc' = WithWifi(rcLocal) /\ rcLocal' = <<>>
        /\ Goto("rc_write")
     \/ /\ Contains(rcLocal, "wifi") \/ ~EndsWith(rcLocal, "exit")
        /\ Goto("ns8888")
        /\ UNCHANGED <<newRc, rcLocal>>
  /\ UNCHANGED <<control, rcExists, rcExec, rcEnabled, copies, written, dockerVars,
                 packages, dnsmasq, wifiService>>

WriteRcLocal ==
  /\ pc = "rc_write" /\ Goto("ns8888")
  /\ rcLocal' = newRc /\ newRc' = <<>>
  /\ UNCHANGED <<control, rcExists, rcExec, rcEnabled, copies, written, dockerVars,
                 packages, dnsmasq, wifiService>>

(***************************************************************************)
(* ssh keys, docker, the swarm and the question about the camera.          *)
(***************************************************************************)
AddKeys ==
  /\ pc = "keys"
  /\ \/ \E k \in Keys :
          /\ copies[k] = 0
          /\ copies' = [copies EXCEPT ![k] = 1]
          /\ Goto("keys")
     \/ /\ \A k \in Keys : copies[k] # 0
        /\ Goto("docker")
        /\ UNCHANGED copies
  /\ UNCHANGED <<control, rcFile, written, dockerVars, packages, dnsmasq, wifiService>>

InstallDocker ==
  /\ pc = "docker" /\ Goto("swarm")
  /\ \/ docker' = TRUE /\ online' = online
     \/ docker' = docker /\ online' = FALSE
  /\ UNCHANGED <<runs, location, dongle, missed, rcFile, copies, written, inSwarm, image, camera,
                 packages, dnsmasq, wifiService>>

\* A node that is already in a swarm stays in it: the join fails.
JoinSwarm ==
  /\ pc = "swarm" /\ Goto("usbcam")
  /\ \/ inSwarm' = (inSwarm \/ docker) /\ online' = online
     \/ inSwarm' = inSwarm /\ online' = FALSE
  /\ UNCHANGED <<runs, location, dongle, missed, rcFile, copies, written, docker, image, camera,
                 packages, dnsmasq, wifiService>>

\* The swarm's manager gives a member the services whose image the scripts look for.
SwarmDeploysImage ==
  /\ inSwarm /\ ~image
  /\ image' = TRUE
  /\ UNCHANGED <<pc, control, rcFile, copies, written, docker, inSwarm, camera, packages,
                 dnsmasq, wifiService>>

UsbCamStep == UNCHANGED <<control, rcFile, copies, written, docker, inSwarm, image,
                          packages, dnsmasq, wifiService>>

\* setup_usb-cam.sh returns at once when declined; otherwise it removes the old
\* container, and from here on only the image can let it go on.
AskUsbCam ==
  /\ pc = "usbcam"
  /\ \/ Goto("dongle") /\ camera' = camera
     \/ Goto("usbcam_wait") /\ camera' = FALSE
  /\ UsbCamStep

RunUsbCam ==
  /\ pc = "usbcam_wait" /\ image
  /\ camera' = TRUE
  /\ Goto("dongle")
  /\ UsbCamStep

\* Mutant: no break after the answer is acted on.
AskDongleAgain ==
  /\ pc = "dongle"
  /\ dongle' \in BOOLEAN /\ Goto("dongle")
  /\ UNCHANGED <<runs, location, online, missed, rcFile, copies, written, dockerVars, packages,
                 dnsmasq, wifiService>>

\* Mutant: the directory of the service, made last, stands for the whole section.
AskDongleOnce ==
  /\ pc = "dongle"
  /\ dongle' \in BOOLEAN
  /\ Goto(IF dongle' /\ wifiService = "absent" THEN "packages" ELSE "reboot")
  /\ UNCHANGED <<runs, location, online, missed, rcFile, copies, written, dockerVars, packages,
                 dnsmasq, wifiService>>

AskDongle ==
  /\ pc = "dongle"
  /\ \/ dongle' = TRUE /\ Goto("packages")
     \/ dongle' = FALSE /\ Goto("reboot")
  /\ UNCHANGED <<runs, location, online, missed, rcFile, copies, written, dockerVars, packages,
                 dnsmasq, wifiService>>

(***************************************************************************)
(* The WiFi section.                                                       *)
(***************************************************************************)

\* Mutant: NetworkManager is disabled as soon as the packages are asked for.
InstallPackagesAndDisable ==
  /\ pc = "packages" /\ Goto("udev")
  /\ \/ /\ packages' = TRUE /\ online' = online
        /\ dnsmasqConf' = IF packages THEN dnsmasqConf ELSE "distro"
     \/ online' = FALSE /\ UNCHANGED <<packages, dnsmasqConf>>
  /\ written' = written \cup {"nm"}
  /\ UNCHANGED <<runs, location, dongle, missed, rcFile, copies, dockerVars,
                 dnsmasqDist, dnsmasqUnit, wifiService>>

\* Mutant: a complete installation puts the distribution's dnsmasq.conf back.
InstallPackagesAnew ==
  /\ pc = "packages" /\ Goto("udev")
  /\ \/ packages' = TRUE /\ online' = online /\ dnsmasqConf' = "distro"
     \/ online' = FALSE /\ UNCHANGED <<packages, dnsmasqConf>>
  /\ UNCHANGED <<runs, location, dongle, missed, rcFile, copies, written, dockerVars,
                 dnsmasqDist, dnsmasqUnit, wifiService>>

\* apt installs all of them or none; dnsmasq comes with its own dnsmasq.conf.
InstallPackages ==
  /\ pc = "packages" /\ Goto("udev")
  /\ \/ /\ packages' = TRUE /\ online' = online
        /\ dnsmasqConf' = IF packages THEN dnsmasqConf ELSE "distro"
     \/ online' = FALSE /\ UNCHANGED <<packages, dnsmasqConf>>
  /\ UNCHANGED <<runs, location, dongle, missed, rcFile, copies, written, dockerVars,
                 dnsmasqDist, dnsmasqUnit, wifiService>>

AppendDaemonConf ==   \* no grep in front of this one
  /\ pc = "daemonConf" /\ Goto("hostapd_enable")
  /\ copies' = [copies EXCEPT !["daemonConf"] = @ + 1]
  /\ UNCHANGED <<control, rcFile, written, dockerVars, packages, dnsmasq, wifiService>>

DnsmasqStep == UNCHANGED <<control, rcFile, copies, written, dockerVars, packages,
                           wifiService>>

\* Mutant: the file is moved aside by every run.
SaveDnsmasqConfAgain ==
  /\ pc = "dnsmasq_mv"
  /\ \/ /\ dnsmasqConf # "absent"
        /\ dnsmasqDist' = dnsmasqConf /\ dnsmasqConf' = "absent"
        /\ Goto("dnsmasq_tee")
     \/ /\ dnsmasqConf = "absent"
        /\ Goto("unit_cp")
        /\ UNCHANGED <<dnsmasqConf, dnsmasqDist>>
  /\ UNCHANGED dnsmasqUnit
  /\ DnsmasqStep

\* mv && tee && touch: a file that is not there to move ends the chain.
SaveDnsmasqConf ==
  /\ pc = "dnsmasq_mv"
  /\ \/ /\ dnsmasqDist = "absent" /\ dnsmasqConf # "absent"
        /\ dnsmasqDist' = dnsmasqConf /\ dnsmasqConf' = "absent"
        /\ Goto("dnsmasq_tee")
     \/ /\ dnsmasqDist # "absent" \/ dnsmasqConf = "absent"
        /\ Goto("unit_cp")
        /\ UNCHANGED <<dnsmasqConf, dnsmasqDist>>
  /\ UNCHANGED dnsmasqUnit
  /\ DnsmasqStep

WriteDnsmasqConf ==
  /\ pc = "dnsmasq_tee" /\ Goto("hosts")
  /\ dnsmasqConf' = "station"
  /\ UNCHANGED <<dnsmasqDist, dnsmasqUnit>>
  /\ DnsmasqStep

CopyDnsmasqUnit ==
  /\ pc = "unit_cp"
  /\ \/ /\ dnsmasqUnit = "absent" /\ packages
        /\ dnsmasqUnit' = "copied" /\ Goto("unit_sed")
     \/ /\ dnsmasqUnit # "absent" \/ ~packages
        /\ Goto("rc_wifi") /\ UNCHANGED dnsmasqUnit
  /\ UNCHANGED <<dnsmasqConf, dnsmasqDist>>
  /\ DnsmasqStep

PatchDnsmasqUnit ==
  /\ pc = "unit_sed" /\ Goto("rc_wifi")
  /\ dnsmasqUnit' = "patched"
  /\ UNCHANGED <<dnsmasqConf, dnsmasqDist>>
  /\ DnsmasqStep

\* One grep guards two appends to the head file of resolvconf.
AppendFirstNameserver ==
  /\ pc = "ns8888"
  /\ \/ /\ copies["ns8888"] = 0 /\ packages
        /\ copies' = [copies EXCEPT !["ns8888"] = 1]
        /\ Goto("ns8844")
     \/ /\ copies["ns8888"] # 0 \/ ~packages
        /\ Goto("ifplugd") /\ UNCHANGED copies
  /\ UNCHANGED <<control, rcFile, written, dockerVars, packages, dnsmasq, wifiService>>

AppendSecondNameserver ==
  /\ pc = "ns8844" /\ Goto("ifplugd")
  /\ copies' = [copies EXCEPT !["ns8844"] = @ + 1]
  /\ UNCHANGED <<control, rcFile, written, dockerVars, packages, dnsmasq, wifiService>>

ServiceStep == UNCHANGED <<runs, location, dongle, rcFile, copies, written, dockerVars,
                           packages, dnsmasq>>

MakeServiceDir ==
  /\ pc = "svc_mkdir"
  /\ \/ wifiService = "absent" /\ wifiService' = "empty" /\ Goto("svc_clone")
     \/ wifiService # "absent" /\ wifiService' = wifiService /\ Goto("nm")
  /\ UNCHANGED <<online, missed>>
  /\ ServiceStep

CloneService ==
  /\ pc = "svc_clone" /\ Goto("svc_install")
  /\ \/ wifiService' = "cloned" /\ UNCHANGED <<online, missed>>
     \/ wifiService' = wifiService /\ online' = FALSE /\ missed' = missed \cup {"svc_clone"}
  /\ ServiceStep

\* install.sh of the clone, which downloads too; without a clone there is none to run.
InstallService ==
  /\ pc = "svc_install" /\ Goto("nm")
  /\ \/ wifiService = "cloned" /\ wifiService' = "installed" /\ UNCHANGED <<online, missed>>
     \/ wifiService' = wifiService /\ online' = FALSE /\ missed' = missed \cup {"svc_install"}
  /\ ServiceStep

(***************************************************************************)
(* The script, step after step.                                            *)
(***************************************************************************)
ScriptStep ==
  \/ GuardedAppend("sudoers", "location")
  \/ ChooseLocation
  \/ CreateRcLocal
  \/ AppendToRcLocal("blank", "rc_blank", "rc_exit")
  \/ AppendToRcLocal("exit", "rc_exit", "rc_chmod")
  \/ ChmodRcLocal \/ EnableRcLocal
  \/ AddAudioReceiver
  \/ GuardedAppend("startDocker", "restartDocker")
  \/ GuardedAppend("restartDocker", "rebootLine")
  \/ GuardedAppend("rebootLine", "keys")
  \/ AddKeys
  \/ InstallDocker \/ JoinSwarm
  \/ AskUsbCam \/ RunUsbCam
  \/ AskDongle
  \/ InstallPackages
  \/ Overwrite("udev", "interfaces")
  \/ GuardedAppend("interfaces", "sysctl")
  \/ GuardedAppend("sysctl", "hostapd_conf")
  \/ OverwriteOfPackage("hostapd_conf", "daemonConf")
  \/ AppendDaemonConf
  \/ OverwriteOfPackage("hostapd_enable", "dnsmasq_mv")
  \/ SaveDnsmasqConf \/ WriteDnsmasqConf
  \/ Overwrite("hosts", "unit_cp")
  \/ CopyDnsmasqUnit \/ PatchDnsmasqUnit
  \/ AddWifiToRcLocal \/ WriteRcLocal
  \/ AppendFirstNameserver \/ AppendSecondNameserver
  \/ OverwriteOfPackage("ifplugd", "wpa_conf")
  \/ Overwrite("wpa_conf", "wpa_unit")
  \/ Overwrite("wpa_unit", "wpa_enable")
  \/ Overwrite("wpa_enable", "svc_mkdir")
  \/ MakeServiceDir \/ CloneService \/ InstallService
  \/ Overwrite("nm", "reboot")
  \/ Reboot

Next == StartRun \/ ScriptStep \/ Interrupt \/ SwarmDeploysImage

Spec == Init /\ [][Next]_vars

\* The script keeps running while it can, and the swarm's manager eventually
\* gives a member its services.
FairSpec == Spec /\ WF_vars(ScriptStep) /\ WF_vars(SwarmDeploysImage)

(***************************************************************************)
(* Properties.                                                             *)
(***************************************************************************)

\* Whatever runs were cut off and however often the script is started again, no
\* line that it guards with a grep is in its file twice.
AtMostOnce == \A e \in OnceEntry : copies[e] <= 1

\* dnsmasq.conf.dist only ever holds the file of the distribution, so the way
\* back to it is never lost, not even when a run ends between mv and tee.
DistPristine == dnsmasqDist \in {"absent", "distro"}

\* Once the rc-local unit is enabled, rc.local is either empty (a rewrite was cut
\* off) or a file that boots: "#!" first, the one "exit 0" after every other line,
\* and the receiver and the wifi block in it at most once.
RcLocalRuns ==
  rcEnabled => \A rc \in {rcLocal, newRc} :
    rc # <<>> => WellFormed(rc) /\ AtMostOne(rc, "audio") /\ AtMostOne(rc, "wifi")

\* A run that is not cut off never loses the receiver from rc.local: the rewrite
\* that adds the wifi block carries it over.
ReceiverKept ==
  [][(Contains(rcLocal, "audio") \/ Contains(newRc, "audio")) /\ pc' # "idle"
     => Contains(rcLocal', "audio") \/ Contains(newRc', "audio")]_vars

\* The step that takes NetworkManager away finds what replaces it: the files of
\* wpa_supplicant, the interfaces and the udev link, from whichever run, and the packages
\* of the WiFi section. Only the packages may be missing, and only in a run in which a
\* download failed, for the script passes over an apt install that failed.
NotStranded ==
  [][ "nm" \notin written /\ "nm" \in written' =>
        /\ {"wpa_conf", "wpa_unit", "udev"} \subseteq written
        /\ copies["interfaces"] >= 1
        /\ packages \/ ~online ]_vars

\* A rerun repairs what earlier runs left out: when a run that installs the dongle
\* has come to its end without a failed download, this much of the WiFi setup is
\* complete whatever happened before. (What a rerun cannot complete is
\* OnlyMissedIsLacking's part.)
Converges ==
  pc = "reboot" /\ dongle /\ online =>
    /\ packages /\ Artifact \ {"hosts"} \subseteq written
    /\ \A e \in OnceEntry \ {"ns8844"} : copies[e] = 1
    /\ rcEnabled /\ rcLocal # <<>> => Contains(rcLocal, "wifi")

\* What a rerun does not repair is left out by a cut or a failure at a step that no other
\* run comes to, by nothing else, and for good: at the end of a run that installs the dongle
\* with every download, each such part of the setup is there exactly if its step was not missed.
OnlyMissedIsLacking ==
  pc = "reboot" /\ dongle /\ online =>
    /\ rcEnabled <=> missed \cap CreationStep = {}
    /\ rcLocal # <<>> <=> "rc_write" \notin missed
    /\ dnsmasqConf = "station" <=> "dnsmasq_tee" \notin missed
    /\ "hosts" \in written <=> missed \cap {"dnsmasq_tee", "hosts"} = {}
    /\ dnsmasqUnit = "patched" <=> "unit_sed" \notin missed
    /\ copies["ns8844"] = 1 <=> "ns8844" \notin missed
    /\ wifiService = "installed" <=> missed \cap {"svc_clone", "svc_install"} = {}

\* A run that is started ends, unless it waits for the image of a swarm that the
\* station could not join.
RunEnds == pc # "idle" ~> (pc = "idle" \/ (pc = "usbcam_wait" /\ ~inSwarm))

\* "it'll be fixed when the system reboots with the new dnsmasq.conf file in place".
DnsmasqInPlace == pc = "reboot" /\ dongle /\ online => dnsmasqConf = "station"
=============================================================================
