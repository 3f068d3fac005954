--------------------------- MODULE PostCloneProofs ---------------------------
(***************************************************************************)
(* What holds of post-clone.sh for any names, swarms and number of starts. *)
(***************************************************************************)
EXTENDS PostClone, TLAPS

USE NamesAssumption, SwarmsAssumption, MaxRunsAssumption
USE DEF Names, File, CronLine, Remote, None, Absent, Mangled, Cloned, Goto

(***************************************************************************)
(* Type correctness. The parts are kept apart: the names, docker, and what *)
(* is counted.                                                             *)
(***************************************************************************)
NamesOK ==
  /\ pc \in Step
  /\ target \in Names \cup {None}
  /\ pc # "idle" => target \in Names
  /\ file \in [File -> Names \cup {Default, Absent, Mangled}]
  /\ {file["hostname"], file["hosts"]} \subseteq Names \cup {Default}
  /\ running \in Names \cup {Default, Mangled}
  /\ asked \in SUBSET Names /\ claimed \in Valid \cup {None}

DockerOK ==
  /\ fault \in BOOLEAN /\ image \in BOOLEAN /\ camera \in BOOLEAN
  /\ location \in Swarms \cup {None} /\ swarm \in Swarms \cup {None, Cloned}
  /\ remote \in SUBSET Remote

CronOK == cron \in [CronLine -> Nat]
RunsOK == runs \in 0..MaxRuns

LEMMA TypeParts == TypeOK <=> NamesOK /\ DockerOK /\ CronOK /\ RunsOK
BY DEF TypeOK, NamesOK, DockerOK, CronOK, RunsOK

LEMMA NamesType == NamesOK /\ [Next]_vars => NamesOK'
<1> SUFFICES ASSUME NamesOK, [Next]_vars PROVE NamesOK'
  OBVIOUS
<1> USE DEF NamesOK, Step
<1>1. ASSUME NEW name \in Names, StartRun(name) PROVE NamesOK'
  BY <1>1 DEF StartRun
<1>2. ASSUME NEW f \in File, NEW next \in Step, SedName(f, next) PROVE NamesOK'
  <2>1. f # "idle" /\ target \in Names /\ pc' \in Step
    BY <1>2 DEF SedName
  <2>2. file' \in [File -> Names \cup {Default, Absent, Mangled}]
    <3>1. CASE file[f] = Default
      BY <1>2, <2>1, <3>1 DEF SedName
    <3>2. CASE file[f] # Default
      BY <1>2, <3>2 DEF SedName
    <3> QED BY <3>1, <3>2
  <2>3. {file["hostname"], file["hosts"]}' \subseteq Names \cup {Default}
    BY <1>2, <2>1 DEF SedName
  <2> QED BY <1>2, <2>1, <2>2, <2>3 DEF SedName
<1>3. CASE ApplyName
  BY <1>3 DEF ApplyName
<1>4. BootName \in Names \cup {Default, Mangled}
  BY DEF BootName
<1>5. CASE Finish
  BY <1>4, <1>5 DEF Finish
<1>6. CASE CutOff
  BY <1>4, <1>6 DEF CutOff
<1>7. CASE Reboot
  BY <1>4, <1>7 DEF Reboot
<1>8. CASE RunInstaller
  BY <1>8 DEF RunInstaller
<1>9. CASE SwarmDeploysImage
  BY <1>9 DEF SwarmDeploysImage, DockerStep, names
<1>10. CASE ChooseSwarm \/ LeaveSwarm \/ JoinSwarm \/ AskUsbCam \/ RunUsbCam
  BY <1>10 DEF ChooseSwarm, LeaveSwarm, JoinSwarm, AskUsbCam, RunUsbCam, DockerStep, names
<1>11. CASE AddRestartDocker \/ DropReboot
  BY <1>11 DEF AddRestartDocker, DropReboot, CronStep, names
<1>12. CASE \/ InstallRemote("remotepc", "teamviewer")
            \/ InstallRemote("teamviewer", "end")
  BY <1>12 DEF InstallRemote, names
<1>13. CASE UNCHANGED vars
  BY <1>13 DEF vars, names
<1> QED
  BY <1>1, <1>2, <1>3, <1>5, <1>6, <1>7, <1>8, <1>9, <1>10, <1>11, <1>12, <1>13
  DEF Next, ScriptStep

LEMMA DockerType == DockerOK /\ [Next]_vars => DockerOK'
BY DEF DockerOK, Next, ScriptStep, vars, names, docker, StartRun, SedName, ApplyName,
       ChooseSwarm, LeaveSwarm, JoinSwarm, AskUsbCam, RunUsbCam, DockerStep,
       SwarmDeploysImage, AddRestartDocker, DropReboot, CronStep, InstallRemote,
       Finish, CutOff, Reboot, RunInstaller

LEMMA CronType == CronOK /\ [Next]_vars => CronOK'
BY DEF CronOK, Next, ScriptStep, vars, names, docker, StartRun, SedName, ApplyName,
       ChooseSwarm, LeaveSwarm, JoinSwarm, AskUsbCam, RunUsbCam, DockerStep,
       SwarmDeploysImage, AddRestartDocker, DropReboot, CronStep, InstallRemote,
       Finish, CutOff, Reboot, RunInstaller

LEMMA RunsType == RunsOK /\ [Next]_vars => RunsOK'
BY DEF RunsOK, Next, ScriptStep, vars, names, docker, StartRun, SedName, ApplyName,
       ChooseSwarm, LeaveSwarm, JoinSwarm, AskUsbCam, RunUsbCam, DockerStep,
       SwarmDeploysImage, AddRestartDocker, DropReboot, CronStep, InstallRemote,
       Finish, CutOff, Reboot, RunInstaller

LEMMA InitType == Init => TypeOK
<1> SUFFICES ASSUME Init PROVE TypeOK
  OBVIOUS
<1>1. NamesOK
  <2>1. PICK ap \in {Default, Absent} :
          file = [f \in File |-> IF f = "hostapd" THEN ap ELSE Default]
    BY DEF Init
  <2> QED BY <2>1 DEF Init, NamesOK, Step
<1>2. DockerOK
  BY DEF Init, DockerOK
<1>3. CronOK
  BY DEF Init, CronOK
<1>4. RunsOK
  BY DEF Init, RunsOK
<1> QED BY <1>1, <1>2, <1>3, <1>4, TypeParts

\* Every variable of post-clone.sh keeps its type.
THEOREM TypeCorrect == Spec => []TypeOK
<1>1. TypeOK /\ [Next]_vars => TypeOK'
  <2> SUFFICES ASSUME TypeOK, [Next]_vars PROVE TypeOK'
    OBVIOUS
  <2>1. NamesOK' /\ DockerOK' /\ CronOK' /\ RunsOK'
    BY TypeParts, NamesType, DockerType, CronType, RunsType
  <2> QED BY <2>1 DEF TypeOK, NamesOK, DockerOK, CronOK, RunsOK
<1> QED BY InitType, <1>1, PTL DEF Spec

(***************************************************************************)
(* One name everywhere. While only the name n has been asked for, n and    *)
(* the default are all there is; a run replaces the default file after     *)
(* file, and nothing ever brings it back.                                  *)
(***************************************************************************)
Settled(n) == running = n /\ \A f \in File : file[f] \in {n, Absent}

OnlyName(n) ==
  /\ running \in {n, Default}
  /\ \A f \in File : file[f] \in {n, Default, Absent}
  /\ pc \in {"hosts", "hostapd", "apply"} => file["hostname"] # Default
  /\ pc \in {"hostapd", "apply"} => file["hosts"] # Default
  /\ pc = "apply" => file["hostapd"] # Default
  /\ claimed # None => claimed = n /\ Settled(n)

NameInv ==
  /\ NamesOK
  /\ pc # "idle" => target \in asked
  /\ \A n \in Valid : asked \subseteq {n} => OnlyName(n)

LEMMA NameInit == Init => NameInv
<1> SUFFICES ASSUME Init PROVE NameInv
  OBVIOUS
<1>1. PICK ap \in {Default, Absent} :
        file = [f \in File |-> IF f = "hostapd" THEN ap ELSE Default]
  BY DEF Init
<1>2. NamesOK
  BY InitType, TypeParts
<1> QED BY <1>1, <1>2 DEF Init, NameInv, OnlyName, Settled

LEMMA NameStep == NameInv /\ [Next]_vars => NameInv'
<1> SUFFICES ASSUME NameInv, [Next]_vars PROVE NameInv'
  OBVIOUS
<1>1. NamesOK /\ NamesOK'
  BY NamesType DEF NameInv
<1>2. (pc # "idle" => target \in asked)'
  BY DEF NameInv, Next, ScriptStep, vars, names, docker, StartRun, SedName, ApplyName,
         ChooseSwarm, LeaveSwarm, JoinSwarm, AskUsbCam, RunUsbCam, DockerStep,
         SwarmDeploysImage, AddRestartDocker, DropReboot, CronStep, InstallRemote,
         Finish, CutOff, Reboot, RunInstaller
<1>3. ASSUME NEW n \in Valid, asked' \subseteq {n} PROVE OnlyName(n)'
  <2>1. asked \subseteq {n}
    BY <1>3 DEF Next, ScriptStep, vars, names, docker, StartRun, SedName, ApplyName,
         ChooseSwarm, LeaveSwarm, JoinSwarm, AskUsbCam, RunUsbCam, DockerStep,
         SwarmDeploysImage, AddRestartDocker, DropReboot, CronStep, InstallRemote,
         Finish, CutOff, Reboot, RunInstaller
  <2>2. OnlyName(n)
    BY <2>1 DEF NameInv
  <2>3. pc # "idle" => target = n
    BY <2>1 DEF NameInv
  <2>4. n \notin {Default, Absent, None, Mangled} /\ n \notin Refused
    OBVIOUS
  <2> USE DEF OnlyName, Settled
  <2>5. ASSUME NEW name \in Names, StartRun(name) PROVE OnlyName(n)'
    BY <2>2, <2>5 DEF StartRun
  <2>6. CASE SedName("hostname", "hosts")
    BY <1>1, <2>2, <2>3, <2>4, <2>6 DEF SedName, NamesOK
  <2>7. CASE SedName("hosts", "hostapd")
    BY <1>1, <2>2, <2>3, <2>4, <2>7 DEF SedName, NamesOK
  <2>8. CASE SedName("hostapd", "apply")
    BY <1>1, <2>2, <2>3, <2>4, <2>8 DEF SedName, NamesOK
  <2>9. CASE ApplyName
    BY <1>1, <2>2, <2>3, <2>4, <2>9 DEF ApplyName, NamesOK
  <2>10. BootName = file["hostname"] /\ BootName \in {n, Default}
    BY <1>1, <2>2, <2>4 DEF BootName, NamesOK
  <2>11. CASE Finish
    BY <2>2, <2>4, <2>10, <2>11 DEF Finish
  <2>12. CASE CutOff
    BY <2>2, <2>4, <2>10, <2>12 DEF CutOff
  <2>13. CASE Reboot
    BY <2>2, <2>4, <2>10, <2>13 DEF Reboot
  <2>14. CASE RunInstaller
    BY <1>1, <2>2, <2>4, <2>14 DEF RunInstaller, NamesOK
  <2>15. CASE SwarmDeploysImage
    BY <2>2, <2>15 DEF SwarmDeploysImage, DockerStep, names
  <2>16. CASE ChooseSwarm \/ LeaveSwarm \/ JoinSwarm \/ AskUsbCam \/ RunUsbCam
    BY <2>2, <2>16
    DEF ChooseSwarm, LeaveSwarm, JoinSwarm, AskUsbCam, RunUsbCam, DockerStep, names
  <2>17. CASE \/ AddRestartDocker \/ DropReboot
              \/ InstallRemote("remotepc", "teamviewer")
              \/ InstallRemote("teamviewer", "end")
    BY <2>2, <2>17 DEF AddRestartDocker, DropReboot, CronStep, InstallRemote, names
  <2>18. CASE UNCHANGED vars
    BY <2>2, <2>18 DEF vars, names
  <2> QED
    BY <2>5, <2>6, <2>7, <2>8, <2>9, <2>11, <2>12, <2>13, <2>14, <2>15, <2>16, <2>17, <2>18
    DEF Next, ScriptStep
<1> QED BY <1>1, <1>2, <1>3 DEF NameInv

\* A name that the script has reported, and the only one it was ever given, is the
\* station's name everywhere, whatever was cut off, rebooted or reinstalled.
THEOREM OneName == Spec => []NameEverywhere
<1>1. NameInv => NameEverywhere
  BY DEF NameInv, NamesOK, OnlyName, Settled, NameEverywhere
<1> QED BY NameInit, NameStep, <1>1, PTL DEF Spec

(***************************************************************************)
(* The end of a run in which nothing failed.                               *)
(***************************************************************************)
AfterSwarm == {"usbcam", "usbcam_wait", "cronRestart", "cronReboot", "remotepc",
               "teamviewer", "end"}

SwarmDone ==
  /\ pc = "join" /\ ~fault => swarm = None
  /\ pc \in AfterSwarm /\ ~fault /\ location # None => swarm = location

CronDone ==
  /\ pc \in {"cronReboot", "remotepc", "teamviewer", "end"} => cron["restartDocker"] = 1
  /\ pc \in {"remotepc", "teamviewer", "end"} => cron["reboot"] = 0

RemoteDone ==
  /\ pc \in {"teamviewer", "end"} /\ ~fault => "remotepc" \in remote
  /\ pc = "end" /\ ~fault => "teamviewer" \in remote

\* Whoever edits the crontab leaves no line twice: needed for the exact counts of Converges.
LinesOnce == \A line \in CronLine : cron[line] <= 1

EndInv == DockerOK /\ CronOK /\ LinesOnce /\ SwarmDone /\ CronDone /\ RemoteDone

LEMMA EndInit == Init => EndInv
<1> SUFFICES ASSUME Init PROVE EndInv
  OBVIOUS
<1>1. DockerOK /\ CronOK
  BY InitType, TypeParts
<1>2. LinesOnce
  BY DEF Init, LinesOnce
<1> QED BY <1>1, <1>2 DEF Init, EndInv, SwarmDone, CronDone, RemoteDone, AfterSwarm

LEMMA EndStep == EndInv /\ [Next]_vars => EndInv'
<1> SUFFICES ASSUME EndInv, [Next]_vars PROVE EndInv'
  OBVIOUS
<1>1. DockerOK /\ CronOK /\ DockerOK' /\ CronOK'
  BY DockerType, CronType DEF EndInv
<1>2. LinesOnce' /\ CronDone'
  BY <1>1 DEF EndInv, LinesOnce, CronDone, CronOK, Next, ScriptStep, vars, names, docker,
         StartRun, SedName, ApplyName,
         ChooseSwarm, LeaveSwarm, JoinSwarm, AskUsbCam, RunUsbCam, DockerStep,
         SwarmDeploysImage, AddRestartDocker, DropReboot, CronStep, InstallRemote,
         Finish, CutOff, Reboot, RunInstaller
<1>3. SwarmDone'
  BY <1>1 DEF EndInv, SwarmDone, AfterSwarm, DockerOK, Next, ScriptStep, vars, names, docker,
         StartRun, SedName, ApplyName,
         ChooseSwarm, LeaveSwarm, JoinSwarm, AskUsbCam, RunUsbCam, DockerStep,
         SwarmDeploysImage, AddRestartDocker, DropReboot, CronStep, InstallRemote,
         Finish, CutOff, Reboot, RunInstaller
<1>4. RemoteDone'
  BY <1>1 DEF EndInv, RemoteDone, DockerOK, Next, ScriptStep, vars, names, docker,
         StartRun, SedName, ApplyName,
         ChooseSwarm, LeaveSwarm, JoinSwarm, AskUsbCam, RunUsbCam, DockerStep,
         SwarmDeploysImage, AddRestartDocker, DropReboot, CronStep, InstallRemote,
         Finish, CutOff, Reboot, RunInstaller
<1> QED BY <1>1, <1>2, <1>3, <1>4 DEF EndInv

\* A run without a failed command leaves the station set up.
THEOREM RunsConverge == Spec => []Converges
<1>1. EndInv => Converges
  BY DEF EndInv, SwarmDone, CronDone, RemoteDone, DockerOK, AfterSwarm, Converges
<1> QED BY EndInit, EndStep, <1>1, PTL DEF Spec
=============================================================================
