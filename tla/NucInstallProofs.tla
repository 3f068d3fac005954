-------------------------- MODULE NucInstallProofs --------------------------
(***************************************************************************)
(* What holds of install_nuc10.sh for any set of keys and any number of    *)
(* starts.                                                                 *)
(***************************************************************************)
EXTENDS NucInstall, SequenceTheorems, TLAPS

(***************************************************************************)
(* rc.local stays a sequence of lines.                                     *)
(***************************************************************************)
LEMMA SedInsertAudioType ==
  ASSUME NEW rc \in Seq(Line)
  PROVE  SedInsertAudio(rc) \in Seq(Line)
<1>1. CASE rc = <<>>
  BY <1>1 DEF SedInsertAudio
<1>2. CASE rc # <<>>
  <2>1. Len(rc) \in Nat \ {0} /\ rc[Len(rc)] \in Line
    BY <1>2
  <2>2. AllButLast(rc) \in Seq(Line)
    BY <2>1 DEF AllButLast
  <2>3. <<"audio", "blank", rc[Len(rc)]>> \in Seq(Line)
    BY <2>1 DEF Line
  <2> QED BY <1>2, <2>2, <2>3 DEF SedInsertAudio
<1> QED BY <1>1, <1>2

LEMMA WithWifiType ==
  ASSUME NEW rc \in Seq(Line), rc # <<>>
  PROVE  WithWifi(rc) \in Seq(Line)
<1>1. Len(rc) \in Nat \ {0}
  OBVIOUS
<1>2. AllButLast(rc) \in Seq(Line)
  BY <1>1 DEF AllButLast
<1>3. <<"wifi", "blank", "exit">> \in Seq(Line)
  BY DEF Line
<1> QED BY <1>2, <1>3 DEF WithWifi

(***************************************************************************)
(* Which steps touch what.                                                 *)
(***************************************************************************)
LEMMA RunsFrame ==
  ASSUME [Next]_vars, ~StartRun
  PROVE  UNCHANGED runs
BY DEF Next, vars, control, rcFile, dockerVars, dnsmasq, ScriptStep, Interrupt,
             SwarmDeploysImage, ChooseLocation, Reboot, GuardedAppend, Overwrite,
             OverwriteOfPackage, RcFileStep, CreateRcLocal, AppendToRcLocal,
             ChmodRcLocal, EnableRcLocal, AddAudioReceiver, AddWifiToRcLocal,
             WriteRcLocal, AddKeys, InstallDocker, JoinSwarm, UsbCamStep, AskUsbCam,
             RunUsbCam, AskDongle, InstallPackages, AppendDaemonConf, DnsmasqStep,
             SaveDnsmasqConf, WriteDnsmasqConf, CopyDnsmasqUnit, PatchDnsmasqUnit,
             AppendFirstNameserver, AppendSecondNameserver, ServiceStep,
             MakeServiceDir, CloneService, InstallService

LEMMA CopiesFrame ==
  ASSUME [Next]_vars, ~AddKeys, ~AppendDaemonConf, ~AppendFirstNameserver,
         ~AppendSecondNameserver,
         \A e \in OnceEntry \ {"ns8888", "ns8844"}, next \in Step :
           ~GuardedAppend(e, next)
  PROVE  UNCHANGED copies
<1>1. /\ ~GuardedAppend("sudoers", "location")
      /\ ~GuardedAppend("startDocker", "restartDocker")
      /\ ~GuardedAppend("restartDocker", "rebootLine")
      /\ ~GuardedAppend("rebootLine", "keys")
      /\ ~GuardedAppend("interfaces", "sysctl")
      /\ ~GuardedAppend("sysctl", "hostapd_conf")
  BY DEF OnceEntry, CronEntry, WifiEntry, Step, Artifact
<1> QED BY <1>1 DEF Next, vars, control, rcFile, dockerVars, dnsmasq, ScriptStep,
             Interrupt, SwarmDeploysImage, StartRun, ChooseLocation, Reboot, GuardedAppend, Overwrite,
             OverwriteOfPackage, RcFileStep, CreateRcLocal, AppendToRcLocal,
             ChmodRcLocal, EnableRcLocal, AddAudioReceiver, AddWifiToRcLocal,
             WriteRcLocal, AddKeys, InstallDocker, JoinSwarm, UsbCamStep, AskUsbCam,
             RunUsbCam, AskDongle, InstallPackages, AppendDaemonConf, DnsmasqStep,
             SaveDnsmasqConf, WriteDnsmasqConf, CopyDnsmasqUnit, PatchDnsmasqUnit,
             AppendFirstNameserver, AppendSecondNameserver, ServiceStep,
             MakeServiceDir, CloneService, InstallService

LEMMA WrittenFrame ==
  ASSUME [Next]_vars,
         \A a \in Artifact, next \in Step :
           ~Overwrite(a, next) /\ ~OverwriteOfPackage(a, next)
  PROVE  UNCHANGED written
<1>1. /\ ~Overwrite("udev", "interfaces") /\ ~Overwrite("hosts", "unit_cp")
      /\ ~Overwrite("wpa_conf", "wpa_unit") /\ ~Overwrite("wpa_unit", "wpa_enable")
      /\ ~Overwrite("wpa_enable", "svc_mkdir") /\ ~Overwrite("nm", "reboot")
      /\ ~OverwriteOfPackage("hostapd_conf", "daemonConf")
      /\ ~OverwriteOfPackage("hostapd_enable", "dnsmasq_mv")
      /\ ~OverwriteOfPackage("ifplugd", "wpa_conf")
  BY DEF WifiEntry, Step, Artifact
<1> QED BY <1>1 DEF Next, vars, control, rcFile, dockerVars, dnsmasq, ScriptStep,
             Interrupt, SwarmDeploysImage, StartRun, ChooseLocation, Reboot, GuardedAppend, Overwrite,
             OverwriteOfPackage, RcFileStep, CreateRcLocal, AppendToRcLocal,
             ChmodRcLocal, EnableRcLocal, AddAudioReceiver, AddWifiToRcLocal,
             WriteRcLocal, AddKeys, InstallDocker, JoinSwarm, UsbCamStep, AskUsbCam,
             RunUsbCam, AskDongle, InstallPackages, AppendDaemonConf, DnsmasqStep,
             SaveDnsmasqConf, WriteDnsmasqConf, CopyDnsmasqUnit, PatchDnsmasqUnit,
             AppendFirstNameserver, AppendSecondNameserver, ServiceStep,
             MakeServiceDir, CloneService, InstallService

LEMMA RcFrame ==
  ASSUME [Next]_vars, ~CreateRcLocal, ~AddAudioReceiver, ~AddWifiToRcLocal,
         ~WriteRcLocal, ~Interrupt,
         \A line \in Line, step, next \in Step : ~AppendToRcLocal(line, step, next)
  PROVE  UNCHANGED <<rcLocal, newRc>>
<1>1. /\ ~AppendToRcLocal("blank", "rc_blank", "rc_exit")
      /\ ~AppendToRcLocal("exit", "rc_exit", "rc_chmod")
  BY DEF Line, Step
<1> QED BY <1>1 DEF Next, vars, control, rcFile, dockerVars, dnsmasq, ScriptStep,
             SwarmDeploysImage, StartRun, ChooseLocation, Reboot, GuardedAppend, Overwrite,
             OverwriteOfPackage, RcFileStep, CreateRcLocal, AppendToRcLocal,
             ChmodRcLocal, EnableRcLocal, AddAudioReceiver, AddWifiToRcLocal,
             WriteRcLocal, AddKeys, InstallDocker, JoinSwarm, UsbCamStep, AskUsbCam,
             RunUsbCam, AskDongle, InstallPackages, AppendDaemonConf, DnsmasqStep,
             SaveDnsmasqConf, WriteDnsmasqConf, CopyDnsmasqUnit, PatchDnsmasqUnit,
             AppendFirstNameserver, AppendSecondNameserver, ServiceStep,
             MakeServiceDir, CloneService, InstallService

(***************************************************************************)
(* Type correctness, part by part.                                         *)
(***************************************************************************)
LEMMA PcType == TypeOK /\ [Next]_vars => pc' \in Step
<1> SUFFICES ASSUME TypeOK, [Next]_vars PROVE pc' \in Step
  OBVIOUS
<1>1. pc \in Step
  BY DEF TypeOK
<1> QED BY <1>1 DEF Step, CronEntry, WifiEntry, Artifact, Goto, Next, vars,
             control, rcFile, dockerVars, dnsmasq, ScriptStep, Interrupt,
             SwarmDeploysImage, StartRun, ChooseLocation, Reboot, GuardedAppend, Overwrite,
             OverwriteOfPackage, RcFileStep, CreateRcLocal, AppendToRcLocal,
             ChmodRcLocal, EnableRcLocal, AddAudioReceiver, AddWifiToRcLocal,
             WriteRcLocal, AddKeys, InstallDocker, JoinSwarm, UsbCamStep, AskUsbCam,
             RunUsbCam, AskDongle, InstallPackages, AppendDaemonConf, DnsmasqStep,
             SaveDnsmasqConf, WriteDnsmasqConf, CopyDnsmasqUnit, PatchDnsmasqUnit,
             AppendFirstNameserver, AppendSecondNameserver, ServiceStep,
             MakeServiceDir, CloneService, InstallService

LEMMA RunsType == TypeOK /\ [Next]_vars => runs' \in 0..MaxRuns
<1> SUFFICES ASSUME TypeOK, [Next]_vars PROVE runs' \in 0..MaxRuns
  OBVIOUS
<1>1. runs \in 0..MaxRuns
  BY DEF TypeOK
<1>2. CASE StartRun
  BY <1>1, <1>2, MaxRunsAssumption DEF StartRun
<1>3. CASE ~StartRun
  BY <1>1, <1>3, RunsFrame
<1> QED BY <1>2, <1>3

LEMMA CopiesType == TypeOK /\ [Next]_vars => copies' \in [Entry -> Nat]
<1> SUFFICES ASSUME TypeOK, [Next]_vars PROVE copies' \in [Entry -> Nat]
  OBVIOUS
<1>1. copies \in [Entry -> Nat]
  BY DEF TypeOK
<1>2. ASSUME NEW e \in OnceEntry, NEW next \in Step, GuardedAppend(e, next)
      PROVE  copies' \in [Entry -> Nat]
  BY <1>1, <1>2 DEF GuardedAppend
<1>3. CASE AddKeys
  BY <1>1, <1>3 DEF AddKeys
<1>4. CASE AppendDaemonConf
  BY <1>1, <1>4 DEF AppendDaemonConf, Entry
<1>5. CASE AppendFirstNameserver \/ AppendSecondNameserver
  BY <1>1, <1>5 DEF AppendFirstNameserver, AppendSecondNameserver
<1> QED BY <1>1, <1>2, <1>3, <1>4, <1>5, CopiesFrame

LEMMA WrittenType == TypeOK /\ [Next]_vars => written' \in SUBSET Artifact
<1> SUFFICES ASSUME TypeOK, [Next]_vars PROVE written' \in SUBSET Artifact
  OBVIOUS
<1>1. written \in SUBSET Artifact
  BY DEF TypeOK
<1>2. ASSUME NEW a \in Artifact, NEW next \in Step,
             Overwrite(a, next) \/ OverwriteOfPackage(a, next)
      PROVE  written' \in SUBSET Artifact
  BY <1>1, <1>2 DEF Overwrite, OverwriteOfPackage
<1> QED BY <1>1, <1>2, WrittenFrame

LEMMA MissedType == TypeOK /\ [Next]_vars => missed' \in SUBSET OneTimeStep
<1> SUFFICES ASSUME TypeOK, [Next]_vars PROVE missed' \in SUBSET OneTimeStep
  OBVIOUS
<1>1. \/ UNCHANGED missed \/ missed' = missed \cup ({pc} \cap OneTimeStep)
      \/ missed' = missed \cup {"svc_clone"} \/ missed' = missed \cup {"svc_install"}
  BY DEF Goto, Next, vars, control, rcFile, dockerVars, dnsmasq, ScriptStep, Interrupt,
             SwarmDeploysImage, StartRun, ChooseLocation, Reboot, GuardedAppend, Overwrite,
             OverwriteOfPackage, RcFileStep, CreateRcLocal, AppendToRcLocal,
             ChmodRcLocal, EnableRcLocal, AddAudioReceiver, AddWifiToRcLocal,
             WriteRcLocal, AddKeys, InstallDocker, JoinSwarm, UsbCamStep, AskUsbCam,
             RunUsbCam, AskDongle, InstallPackages, AppendDaemonConf, DnsmasqStep,
             SaveDnsmasqConf, WriteDnsmasqConf, CopyDnsmasqUnit, PatchDnsmasqUnit,
             AppendFirstNameserver, AppendSecondNameserver, ServiceStep,
             MakeServiceDir, CloneService, InstallService
<1> QED BY <1>1 DEF TypeOK, OneTimeStep

LEMMA RcType == TypeOK /\ [Next]_vars => rcLocal' \in Seq(Line) /\ newRc' \in Seq(Line)
<1> SUFFICES ASSUME TypeOK, [Next]_vars
             PROVE  rcLocal' \in Seq(Line) /\ newRc' \in Seq(Line)
  OBVIOUS
<1>1. rcLocal \in Seq(Line) /\ newRc \in Seq(Line)
  BY DEF TypeOK
<1>2. <<>> \in Seq(Line) /\ <<"sh">> \in Seq(Line)
  BY DEF Line
<1>3. CASE CreateRcLocal
  BY <1>1, <1>2, <1>3 DEF CreateRcLocal, RcFileStep
<1>4. ASSUME NEW line \in Line, NEW step \in Step, NEW next \in Step,
             AppendToRcLocal(line, step, next)
      PROVE  rcLocal' \in Seq(Line) /\ newRc' \in Seq(Line)
  <2>1. Append(rcLocal, line) \in Seq(Line)
    BY <1>1
  <2> QED BY <1>1, <1>4, <2>1 DEF AppendToRcLocal, RcFileStep
<1>5. CASE AddAudioReceiver
  BY <1>1, <1>5, SedInsertAudioType DEF AddAudioReceiver, RcFileStep
<1>6. CASE AddWifiToRcLocal
  BY <1>1, <1>2, <1>6, WithWifiType DEF AddWifiToRcLocal, EndsWith
<1>7. CASE WriteRcLocal \/ Interrupt
  BY <1>1, <1>2, <1>7 DEF WriteRcLocal, Interrupt
<1> QED BY <1>1, <1>3, <1>4, <1>5, <1>6, <1>7, RcFrame

LEMMA SettingsType == TypeOK /\ [Next]_vars => SettingsOK'
<1> SUFFICES ASSUME SettingsOK, [Next]_vars PROVE SettingsOK'
  BY DEF TypeOK
<1> USE DEF SettingsOK, control, rcFile, dockerVars, dnsmasq
<1>1. CASE StartRun \/ ChooseLocation
  <2>1. CASE StartRun
    <3>1. dongle' \in BOOLEAN /\ online' \in BOOLEAN
      BY <2>1 DEF StartRun
    <3>2. UNCHANGED <<location, rcFile, dockerVars, packages, dnsmasq, wifiService>>
      BY <2>1 DEF StartRun
    <3> QED BY <3>1, <3>2
  <2>2. CASE ChooseLocation
    BY <2>2 DEF ChooseLocation
  <2> QED BY <1>1, <2>1, <2>2
<1>2. CASE Interrupt \/ Reboot \/ SwarmDeploysImage
  <2>1. CASE Interrupt \/ Reboot
    BY <2>1 DEF Interrupt, Reboot
  <2>2. CASE SwarmDeploysImage
    BY <2>2 DEF SwarmDeploysImage
  <2> QED BY <1>2, <2>1, <2>2
<1>3. ASSUME NEW e, NEW next,
             \/ GuardedAppend(e, next) \/ Overwrite(e, next)
             \/ OverwriteOfPackage(e, next)
      PROVE  SettingsOK'
  BY <1>3 DEF GuardedAppend, Overwrite, OverwriteOfPackage
<1>4. ASSUME NEW line, NEW step, NEW next, AppendToRcLocal(line, step, next)
      PROVE  SettingsOK'
  BY <1>4 DEF AppendToRcLocal, RcFileStep
<1>5. CASE CreateRcLocal
  <2>1. rcExists' \in BOOLEAN
    BY <1>5 DEF CreateRcLocal
  <2> QED BY <1>5, <2>1 DEF CreateRcLocal, RcFileStep
<1>6. CASE ChmodRcLocal \/ EnableRcLocal
  <2>1. CASE ChmodRcLocal
    BY <2>1 DEF ChmodRcLocal, RcFileStep
  <2>2. CASE EnableRcLocal
    BY <2>2 DEF EnableRcLocal, RcFileStep
  <2> QED BY <1>6, <2>1, <2>2
<1>7. CASE AddAudioReceiver \/ AddWifiToRcLocal \/ WriteRcLocal
  BY <1>7 DEF AddAudioReceiver, RcFileStep, AddWifiToRcLocal, WriteRcLocal
<1>8. CASE AddKeys \/ AppendFirstNameserver
  BY <1>8 DEF AddKeys, AppendFirstNameserver
<1>9. CASE AppendDaemonConf
  BY <1>9 DEF AppendDaemonConf
<1>10. CASE AppendSecondNameserver
  BY <1>10 DEF AppendSecondNameserver
<1>11. CASE InstallDocker
  <2>1. docker' \in BOOLEAN /\ online' \in BOOLEAN
    BY <1>11 DEF InstallDocker
  <2> QED BY <1>11, <2>1 DEF InstallDocker
<1>12. CASE JoinSwarm
  <2>1. inSwarm' \in BOOLEAN /\ online' \in BOOLEAN
    BY <1>12 DEF JoinSwarm
  <2> QED BY <1>12, <2>1 DEF JoinSwarm
<1>13. CASE AskUsbCam \/ RunUsbCam
  <2>1. camera' \in BOOLEAN
    BY <1>13 DEF AskUsbCam, RunUsbCam
  <2> QED BY <1>13, <2>1 DEF AskUsbCam, RunUsbCam, UsbCamStep
<1>14. CASE AskDongle
  <2>1. dongle' \in BOOLEAN
    BY <1>14 DEF AskDongle
  <2> QED BY <1>14, <2>1 DEF AskDongle
<1>15. CASE InstallPackages
  <2>1. /\ packages' \in BOOLEAN /\ online' \in BOOLEAN
        /\ dnsmasqConf' \in {"absent", "distro", "station"}
    BY <1>15 DEF InstallPackages
  <2> QED BY <1>15, <2>1 DEF InstallPackages
<1>16. CASE SaveDnsmasqConf \/ WriteDnsmasqConf \/ CopyDnsmasqUnit \/ PatchDnsmasqUnit
  BY <1>16 DEF SaveDnsmasqConf, WriteDnsmasqConf, CopyDnsmasqUnit, PatchDnsmasqUnit,
     DnsmasqStep
<1>17. CASE MakeServiceDir
  BY <1>17 DEF MakeServiceDir, ServiceStep
<1>18. CASE CloneService \/ InstallService
  <2>1. online' \in BOOLEAN /\ wifiService' \in {"absent", "empty", "cloned", "installed"}
    BY <1>18 DEF CloneService, InstallService
  <2> QED BY <1>18, <2>1 DEF CloneService, InstallService, ServiceStep
<1>19. CASE UNCHANGED vars
  BY <1>19 DEF vars
<1> QED BY <1>1, <1>2, <1>3, <1>4, <1>5, <1>6, <1>7, <1>8, <1>9, <1>10, <1>11, <1>12,
           <1>13, <1>14, <1>15, <1>16, <1>17, <1>18, <1>19 DEF Next, ScriptStep

\* Every variable keeps its type, whatever the keys are and however often the script
\* is started.
THEOREM TypeCorrect == Spec => []TypeOK
<1>1. Init => TypeOK
  <2> SUFFICES ASSUME Init PROVE TypeOK
    OBVIOUS
  <2>1. pc \in Step /\ runs \in 0..MaxRuns
    BY MaxRunsAssumption DEF Init, Step
  <2>2. copies \in [Entry -> Nat] /\ written \in SUBSET Artifact
    BY DEF Init
  <2>3. rcLocal \in Seq(Line) /\ newRc \in Seq(Line)
    <3>1. <<"sh", "blank", "exit">> \in Seq(Line) /\ <<>> \in Seq(Line)
      BY DEF Line
    <3> QED BY <3>1 DEF Init
  <2>4. SettingsOK /\ missed \in SUBSET OneTimeStep
    BY DEF Init, SettingsOK
  <2> QED BY <2>1, <2>2, <2>3, <2>4 DEF TypeOK
<1>2. TypeOK /\ [Next]_vars => TypeOK'
  BY PcType, RunsType, CopiesType, WrittenType, MissedType, RcType, SettingsType
     DEF TypeOK
<1> QED BY <1>1, <1>2, PTL DEF Spec

(***************************************************************************)
(* No guarded line twice.  The two nameservers share one grep, so the      *)
(* invariant says how the second follows the first.                        *)
(***************************************************************************)
OnceInv ==
  /\ AtMostOnce
  /\ pc = "ns8844" => copies["ns8844"] = 0 /\ copies["ns8888"] = 1
  /\ copies["ns8844"] <= copies["ns8888"]

LEMMA SecondNameserverFrame ==
  ASSUME [Next]_vars, pc' = "ns8844", ~AppendFirstNameserver
  PROVE  UNCHANGED <<pc, copies>>
BY DEF Goto, Next, vars, control, rcFile, dockerVars, dnsmasq, ScriptStep, Interrupt,
             SwarmDeploysImage, StartRun, ChooseLocation, Reboot, GuardedAppend, Overwrite,
             OverwriteOfPackage, RcFileStep, CreateRcLocal, AppendToRcLocal,
             ChmodRcLocal, EnableRcLocal, AddAudioReceiver, AddWifiToRcLocal,
             WriteRcLocal, AddKeys, InstallDocker, JoinSwarm, UsbCamStep, AskUsbCam,
             RunUsbCam, AskDongle, InstallPackages, AppendDaemonConf, DnsmasqStep,
             SaveDnsmasqConf, WriteDnsmasqConf, CopyDnsmasqUnit, PatchDnsmasqUnit,
             AppendFirstNameserver, AppendSecondNameserver, ServiceStep,
             MakeServiceDir, CloneService, InstallService

LEMMA OnceStep == TypeOK /\ OnceInv /\ [Next]_vars => OnceInv'
<1> SUFFICES ASSUME TypeOK, OnceInv, [Next]_vars PROVE OnceInv'
  OBVIOUS
<1>1. copies \in [Entry -> Nat]
  BY DEF TypeOK
<1>2. \A e \in OnceEntry : copies[e] \in Nat /\ copies[e] <= 1
  BY <1>1 DEF OnceInv, AtMostOnce, Entry
<1>3. {"ns8888", "ns8844"} \subseteq OnceEntry /\ OnceEntry \subseteq Entry
  BY DEF OnceEntry, WifiEntry, Entry
<1>4. CASE AppendFirstNameserver
  <2>1. CASE UNCHANGED copies
    <3>1. pc' # "ns8844"
      BY <1>1, <1>3, <1>4, <2>1 DEF AppendFirstNameserver, Goto
    <3> QED BY <2>1, <3>1 DEF OnceInv, AtMostOnce
  <2>2. CASE copies["ns8888"] = 0 /\ copies' = [copies EXCEPT !["ns8888"] = 1]
    <3>1. copies["ns8844"] = 0
      BY <1>2, <1>3, <2>2 DEF OnceInv
    <3>2. \A e \in OnceEntry : copies'[e] = IF e = "ns8888" THEN 1 ELSE copies[e]
      BY <1>1, <1>3, <2>2
    <3> QED BY <1>2, <1>3, <3>1, <3>2 DEF OnceInv, AtMostOnce
  <2> QED BY <1>4, <2>1, <2>2 DEF AppendFirstNameserver
<1>5. ASSUME NEW e \in OnceEntry, e # "ns8888", e # "ns8844", copies[e] = 0,
             copies' = [copies EXCEPT ![e] = 1], ~AppendFirstNameserver
      PROVE  OnceInv'
  <2>1. \A d \in OnceEntry : copies'[d] = IF d = e THEN 1 ELSE copies[d]
    BY <1>1, <1>3, <1>5
  <2>2. pc' # "ns8844"
    <3>1. copies' # copies
      BY <1>3, <1>5, <2>1
    <3> QED BY <1>5, <3>1, SecondNameserverFrame
  <2> QED BY <1>2, <1>3, <1>5, <2>1, <2>2 DEF OnceInv, AtMostOnce
<1>6. CASE UNCHANGED copies /\ ~AppendFirstNameserver
  <2>1. pc' = "ns8844" => pc = "ns8844"
    BY <1>6, SecondNameserverFrame
  <2> QED BY <1>6, <2>1 DEF OnceInv, AtMostOnce
<1>7. ASSUME NEW e \in OnceEntry \ {"ns8888", "ns8844"}, NEW next \in Step,
             GuardedAppend(e, next), ~AppendFirstNameserver
      PROVE  OnceInv'
  BY <1>5, <1>6, <1>7 DEF GuardedAppend
<1>8. CASE AddKeys /\ ~AppendFirstNameserver
  <2>1. \A k \in Keys : k \in OnceEntry /\ k # "ns8888" /\ k # "ns8844"
    BY KeysAssumption DEF OnceEntry, WifiEntry
  <2> QED BY <1>5, <1>6, <1>8, <2>1 DEF AddKeys
<1>9. CASE AppendDaemonConf /\ ~AppendFirstNameserver
  <2>1. "daemonConf" \notin OnceEntry
    BY KeysAssumption DEF OnceEntry, CronEntry, WifiEntry
  <2>2. \A e \in OnceEntry : copies'[e] = copies[e]
    BY <1>1, <1>3, <1>9, <2>1 DEF AppendDaemonConf
  <2>3. pc' # "ns8844"
    BY <1>9 DEF AppendDaemonConf, Goto
  <2> QED BY <1>3, <2>2, <2>3 DEF OnceInv, AtMostOnce
<1>10. CASE AppendSecondNameserver
  <2>1. copies["ns8844"] = 0 /\ copies["ns8888"] = 1 /\ pc' # "ns8844"
    BY <1>10 DEF AppendSecondNameserver, OnceInv, Goto
  <2>2. \A e \in OnceEntry : copies'[e] = IF e = "ns8844" THEN 1 ELSE copies[e]
    BY <1>1, <1>3, <1>10, <2>1 DEF AppendSecondNameserver
  <2> QED BY <1>2, <1>3, <2>1, <2>2 DEF OnceInv, AtMostOnce
<1>11. AppendSecondNameserver => ~AppendFirstNameserver
  BY DEF AppendFirstNameserver, AppendSecondNameserver
<1> QED BY <1>4, <1>6, <1>7, <1>8, <1>9, <1>10, <1>11, CopiesFrame

LEMMA OnceAlways == Spec => []OnceInv
<1>1. Init => OnceInv
  <2> SUFFICES ASSUME Init PROVE OnceInv
    OBVIOUS
  <2>1. \A e \in Entry : copies[e] = 0
    BY DEF Init
  <2>2. OnceEntry \subseteq Entry /\ {"ns8888", "ns8844"} \subseteq Entry /\ pc # "ns8844"
    BY DEF Init, Entry, OnceEntry, WifiEntry
  <2> QED BY <2>1, <2>2 DEF OnceInv, AtMostOnce
<1>2. TypeOK /\ OnceInv /\ [Next]_vars => OnceInv'
  BY OnceStep
<1> QED BY <1>1, <1>2, TypeCorrect, PTL DEF Spec

\* Interrupted and repeated as it may be, the script adds no line twice that it looks
\* for with grep, and the two nameservers count as one.
THEOREM AddsOnce == Spec => []AtMostOnce
<1>1. OnceInv => AtMostOnce
  BY DEF OnceInv
<1> QED BY <1>1, OnceAlways, PTL

(***************************************************************************)
(* The distribution's dnsmasq.conf.  The station's file is only ever       *)
(* written after the original was moved away, so it is never moved itself. *)
(***************************************************************************)
DistInv ==
  /\ DistPristine
  /\ dnsmasqConf = "station" \/ pc = "dnsmasq_tee" => dnsmasqDist = "distro"

LEMMA DnsmasqFrame ==
  ASSUME [Next]_vars, ~InstallPackages, ~SaveDnsmasqConf, ~WriteDnsmasqConf
  PROVE  /\ UNCHANGED <<dnsmasqConf, dnsmasqDist>>
         /\ pc' = "dnsmasq_tee" => pc = "dnsmasq_tee"
BY DEF Goto, Next, vars, control, rcFile, dockerVars, dnsmasq, ScriptStep, Interrupt,
             SwarmDeploysImage, StartRun, ChooseLocation, Reboot, GuardedAppend, Overwrite,
             OverwriteOfPackage, RcFileStep, CreateRcLocal, AppendToRcLocal,
             ChmodRcLocal, EnableRcLocal, AddAudioReceiver, AddWifiToRcLocal,
             WriteRcLocal, AddKeys, InstallDocker, JoinSwarm, UsbCamStep, AskUsbCam,
             RunUsbCam, AskDongle, InstallPackages, AppendDaemonConf, DnsmasqStep,
             SaveDnsmasqConf, WriteDnsmasqConf, CopyDnsmasqUnit, PatchDnsmasqUnit,
             AppendFirstNameserver, AppendSecondNameserver, ServiceStep,
             MakeServiceDir, CloneService, InstallService

\* However the runs end, dnsmasq.conf.dist never holds the station's own file.
THEOREM KeepsOriginal == Spec => []DistPristine
<1>1. Init => DistInv
  BY DEF Init, DistInv, DistPristine
<1>2. TypeOK /\ DistInv /\ [Next]_vars => DistInv'
  <2> SUFFICES ASSUME TypeOK, DistInv, [Next]_vars PROVE DistInv'
    OBVIOUS
  <2>1. dnsmasqConf \in {"absent", "distro", "station"}
    BY DEF TypeOK, SettingsOK
  <2>2. CASE InstallPackages
    BY <2>2 DEF DistInv, DistPristine, InstallPackages, Goto
  <2>3. CASE SaveDnsmasqConf
    BY <2>1, <2>3 DEF DistInv, DistPristine, SaveDnsmasqConf, Goto
  <2>4. CASE WriteDnsmasqConf
    BY <2>4 DEF DistInv, DistPristine, WriteDnsmasqConf, Goto
  <2>5. CASE ~InstallPackages /\ ~SaveDnsmasqConf /\ ~WriteDnsmasqConf
    BY <2>5, DnsmasqFrame DEF DistInv, DistPristine
  <2> QED BY <2>2, <2>3, <2>4, <2>5
<1>3. DistInv => DistPristine
  BY DEF DistInv
<1> QED BY <1>1, <1>2, <1>3, TypeCorrect, PTL DEF Spec

(***************************************************************************)
(* NetworkManager is disabled last.  What has been done by each step, and  *)
(* nothing done is ever undone.                                            *)
(***************************************************************************)
AfterWpaUnit == {"wpa_enable", "svc_mkdir", "svc_clone", "svc_install", "nm"}
AfterWpaConf == AfterWpaUnit \cup {"wpa_unit"}
AfterInterfaces == AfterWpaConf \cup
  {"sysctl", "hostapd_conf", "daemonConf", "hostapd_enable", "dnsmasq_mv", "dnsmasq_tee",
   "hosts", "unit_cp", "unit_sed", "rc_wifi", "rc_write", "ns8888", "ns8844", "ifplugd",
   "wpa_conf"}

PastPackages == AfterInterfaces \cup {"interfaces", "udev"}

StrandedInv ==
  /\ pc \in PastPackages => packages \/ ~online
  /\ pc \in AfterWpaUnit => "wpa_unit" \in written
  /\ pc \in AfterWpaConf => "wpa_conf" \in written
  /\ pc \in AfterInterfaces => copies["interfaces"] >= 1
  /\ pc \in AfterInterfaces \cup {"interfaces"} => "udev" \in written

LEMMA CopiesGrow ==
  TypeOK /\ [Next]_vars => \A e \in Entry : copies'[e] >= copies[e]
<1> SUFFICES ASSUME TypeOK, [Next]_vars, NEW d \in Entry PROVE copies'[d] >= copies[d]
  OBVIOUS
<1>1. copies \in [Entry -> Nat]
  BY DEF TypeOK
<1>2. ASSUME NEW e \in OnceEntry \ {"ns8888", "ns8844"}, NEW next \in Step,
             GuardedAppend(e, next)
      PROVE  copies'[d] >= copies[d]
  BY <1>1, <1>2 DEF GuardedAppend
<1>3. CASE AddKeys
  BY <1>1, <1>3 DEF AddKeys
<1>4. CASE AppendDaemonConf
  BY <1>1, <1>4 DEF AppendDaemonConf
<1>5. CASE AppendFirstNameserver
  BY <1>1, <1>5 DEF AppendFirstNameserver
<1>6. CASE AppendSecondNameserver
  BY <1>1, <1>6 DEF AppendSecondNameserver
<1> QED BY <1>1, <1>2, <1>3, <1>4, <1>5, <1>6, CopiesFrame

LEMMA WrittenGrows == [Next]_vars => written \subseteq written'
<1> SUFFICES ASSUME [Next]_vars PROVE written \subseteq written'
  OBVIOUS
<1>1. ASSUME NEW a \in Artifact, NEW next \in Step,
             Overwrite(a, next) \/ OverwriteOfPackage(a, next)
      PROVE  written \subseteq written'
  BY <1>1 DEF Overwrite, OverwriteOfPackage
<1> QED BY <1>1, WrittenFrame

\* How a step can enter each stretch of the script, and that only "nm" disables.
LEMMA OrderFrame ==
  ASSUME [Next]_vars
  PROVE  /\ pc' \in AfterWpaUnit => pc \in AfterWpaUnit \/ Overwrite("wpa_unit", "wpa_enable")
         /\ pc' \in AfterWpaConf => pc \in AfterWpaConf \/ Overwrite("wpa_conf", "wpa_unit")
         /\ pc' \in AfterInterfaces =>
              pc \in AfterInterfaces \/ GuardedAppend("interfaces", "sysctl")
         /\ pc' = "interfaces" => pc = "interfaces" \/ Overwrite("udev", "interfaces")
         /\ "nm" \in written' => "nm" \in written \/ pc = "nm"
<1> USE DEF Goto, Next, vars, control, rcFile, dockerVars, dnsmasq, ScriptStep,
             Interrupt, SwarmDeploysImage, StartRun, ChooseLocation, Reboot, GuardedAppend, Overwrite,
             OverwriteOfPackage, RcFileStep, CreateRcLocal, AppendToRcLocal,
             ChmodRcLocal, EnableRcLocal, AddAudioReceiver, AddWifiToRcLocal,
             WriteRcLocal, AddKeys, InstallDocker, JoinSwarm, UsbCamStep, AskUsbCam,
             RunUsbCam, AskDongle, InstallPackages, AppendDaemonConf, DnsmasqStep,
             SaveDnsmasqConf, WriteDnsmasqConf, CopyDnsmasqUnit, PatchDnsmasqUnit,
             AppendFirstNameserver, AppendSecondNameserver, ServiceStep,
             MakeServiceDir, CloneService, InstallService
<1>1. pc' \in AfterWpaUnit => pc \in AfterWpaUnit \/ Overwrite("wpa_unit", "wpa_enable")
  BY DEF AfterWpaUnit
<1>2. pc' \in AfterWpaConf => pc \in AfterWpaConf \/ Overwrite("wpa_conf", "wpa_unit")
  BY DEF AfterWpaConf, AfterWpaUnit
<1>3. pc' \in AfterInterfaces => pc \in AfterInterfaces \/ GuardedAppend("interfaces", "sysctl")
  BY DEF AfterInterfaces, AfterWpaConf, AfterWpaUnit
<1>4. pc' = "interfaces" => pc = "interfaces" \/ Overwrite("udev", "interfaces")
  OBVIOUS
<1>5. "nm" \in written' => "nm" \in written \/ pc = "nm"
  OBVIOUS
<1> QED BY <1>1, <1>2, <1>3, <1>4, <1>5

\* What packages and online say from the installation of the packages on: until the run
\* is over, no step takes either back.
LEMMA PackagesFrame ==
  ASSUME [Next]_vars
  PROVE  /\ pc' \in PastPackages => pc \in PastPackages \/ InstallPackages
         /\ pc \in PastPackages /\ (packages \/ ~online) => packages' \/ ~online' \/ pc' = "idle"
<1> USE DEF Goto, Next, vars, control, rcFile, dockerVars, dnsmasq, ScriptStep,
             Interrupt, SwarmDeploysImage, StartRun, ChooseLocation, Reboot, GuardedAppend, Overwrite,
             OverwriteOfPackage, RcFileStep, CreateRcLocal, AppendToRcLocal,
             ChmodRcLocal, EnableRcLocal, AddAudioReceiver, AddWifiToRcLocal,
             WriteRcLocal, AddKeys, InstallDocker, JoinSwarm, UsbCamStep, AskUsbCam,
             RunUsbCam, AskDongle, AppendDaemonConf, DnsmasqStep,
             SaveDnsmasqConf, WriteDnsmasqConf, CopyDnsmasqUnit, PatchDnsmasqUnit,
             AppendFirstNameserver, AppendSecondNameserver, ServiceStep,
             MakeServiceDir, CloneService, InstallService,
             PastPackages, AfterInterfaces, AfterWpaConf, AfterWpaUnit
<1>1. pc' \in PastPackages => pc \in PastPackages \/ InstallPackages
  OBVIOUS
<1>2. pc \in PastPackages /\ (packages \/ ~online) => packages' \/ ~online' \/ pc' = "idle"
  BY DEF InstallPackages
<1> QED BY <1>1, <1>2

\* NetworkManager is never taken away without the files of wpa_supplicant and the
\* interfaces that take its place, in whichever run each of them was written, nor without
\* its packages, unless a download of the run failed.
THEOREM NeverStranded == Spec => NotStranded
<1>1. Init => StrandedInv
  BY DEF Init, StrandedInv, PastPackages, AfterInterfaces, AfterWpaConf, AfterWpaUnit
<1>2. TypeOK /\ StrandedInv /\ [Next]_vars => StrandedInv'
  <2> SUFFICES ASSUME TypeOK, StrandedInv, [Next]_vars PROVE StrandedInv'
    OBVIOUS
  <2>1. copies \in [Entry -> Nat] /\ copies' \in [Entry -> Nat] /\ "interfaces" \in Entry
    BY CopiesType DEF TypeOK, Entry, OnceEntry, WifiEntry
  <2>2. copies'["interfaces"] >= copies["interfaces"]
    BY <2>1, CopiesGrow
  <2>3. copies["interfaces"] \in Nat /\ copies'["interfaces"] \in Nat
    BY <2>1
  <2>4. copies["interfaces"] >= 1 => copies'["interfaces"] >= 1
    BY <2>2, <2>3
  <2>5. written \subseteq written'
    BY WrittenGrows
  <2>6. pc' \in AfterWpaUnit => "wpa_unit" \in written'
    BY <2>5, OrderFrame DEF StrandedInv, Overwrite
  <2>7. pc' \in AfterWpaConf => "wpa_conf" \in written'
    BY <2>5, OrderFrame DEF StrandedInv, Overwrite
  <2>8. GuardedAppend("interfaces", "sysctl") => copies'["interfaces"] >= 1
    BY <2>1, <2>3 DEF GuardedAppend
  <2>9. pc' \in AfterInterfaces => copies'["interfaces"] >= 1
    BY <2>4, <2>8, OrderFrame DEF StrandedInv
  <2>10. pc' \in AfterInterfaces \cup {"interfaces"} => "udev" \in written'
    <3>1. Overwrite("udev", "interfaces") => "udev" \in written'
      BY DEF Overwrite
    <3>2. GuardedAppend("interfaces", "sysctl") => pc = "interfaces"
      BY DEF GuardedAppend
    <3> QED BY <2>5, <3>1, <3>2, OrderFrame DEF StrandedInv
  <2>11. pc' \in PastPackages => packages' \/ ~online'
    <3>1. InstallPackages => packages' \/ ~online'
      BY DEF InstallPackages
    <3>2. pc' = "idle" => pc' \notin PastPackages
      BY DEF PastPackages, AfterInterfaces, AfterWpaConf, AfterWpaUnit
    <3> QED BY <3>1, <3>2, PackagesFrame DEF StrandedInv
  <2> QED BY <2>6, <2>7, <2>9, <2>10, <2>11 DEF StrandedInv
<1>3. TypeOK /\ StrandedInv /\ [Next]_vars
      => ["nm" \notin written /\ "nm" \in written' =>
            /\ {"wpa_conf", "wpa_unit", "udev"} \subseteq written
            /\ copies["interfaces"] >= 1
            /\ packages \/ ~online]_vars
  <2> SUFFICES ASSUME StrandedInv, [Next]_vars, "nm" \notin written, "nm" \in written'
               PROVE  /\ {"wpa_conf", "wpa_unit", "udev"} \subseteq written
                      /\ copies["interfaces"] >= 1
                      /\ packages \/ ~online
    OBVIOUS
  <2>1. pc = "nm"
    BY OrderFrame
  <2>2. /\ pc \in AfterWpaUnit /\ pc \in AfterWpaConf
        /\ pc \in AfterInterfaces /\ pc \in PastPackages
    BY <2>1 DEF AfterWpaUnit, AfterWpaConf, AfterInterfaces, PastPackages
  <2> QED BY <2>2 DEF StrandedInv
<1> QED BY <1>1, <1>2, <1>3, TypeCorrect, PTL DEF Spec, NotStranded

(***************************************************************************)
(* rc.local stays a script that boots and runs what is in it.              *)
(***************************************************************************)
Runs(rc) == rc # <<>> => WellFormed(rc) /\ AtMostOne(rc, "audio") /\ AtMostOne(rc, "wifi")

\* Lines put in front of the last one, which is then "exit 0" again, keep a file
\* that runs running, if they hold no "exit 0" and nothing twice.
LEMMA InsertBeforeExit ==
  ASSUME NEW rc \in Seq(Line), rc # <<>>, Runs(rc),
         NEW out \in Seq(Line),
         NEW line \in {"audio", "wifi"}, ~Contains(rc, line),
         out = AllButLast(rc) \o <<line, "blank", "exit">>
  PROVE  out # <<>> /\ Runs(out)
<1> DEFINE front == AllButLast(rc)
           back == <<line, "blank", "exit">>
<1>1. PICK n \in Nat : n = Len(rc) /\ n >= 1
  OBVIOUS
<1>2. rc[1] = "sh" /\ \A i \in 1..n : rc[i] = "exit" <=> i = n
  <2>1. WellFormed(rc)
    BY DEF Runs
  <2>2. DOMAIN rc = 1..n
    BY <1>1
  <2> QED BY <1>1, <2>1, <2>2 DEF WellFormed
<1>3. n >= 2
  BY <1>1, <1>2
<1>4. front \in Seq(Line) /\ Len(front) = n - 1 /\ \A i \in 1..(n - 1) : front[i] = rc[i]
  <2>1. front = SubSeq(rc, 1, n - 1)
    BY <1>1 DEF AllButLast
  <2>2. \A i \in 1..(n - 1) : rc[i] \in Line
    BY <1>1
  <2>3. 1 <= n - 1 /\ (n - 1) - 1 + 1 = n - 1 /\ \A i \in 1..(n - 1) : 1 + i - 1 = i
    BY <1>1, <1>3
  <2> QED BY <2>1, <2>2, <2>3, SubSeqProperties
<1>5. back \in Seq(Line) /\ Len(back) = 3
      /\ back[1] = line /\ back[2] = "blank" /\ back[3] = "exit"
  BY DEF Line
<1> HIDE DEF front, back
<1>6. Len(out) = n + 2
  BY <1>4, <1>5, ConcatProperties DEF front, back
<1>7. \A i \in 1..(n + 2) : out[i] = IF i <= n - 1 THEN front[i] ELSE back[i - (n - 1)]
  BY <1>4, <1>5, ConcatProperties DEF front, back
<1>8. \A i \in 1..(n - 1) : out[i] = rc[i]
  <2>1. ASSUME NEW i \in 1..(n - 1) PROVE i \in 1..(n + 2) /\ i <= n - 1
    BY <2>1
  <2> QED BY <1>4, <1>7, <2>1
<1>9. out[n] = line /\ out[n + 1] = "blank" /\ out[n + 2] = "exit"
  BY <1>1, <1>5, <1>7
<1>10. \A i \in 1..(n + 2) : i \in 1..(n - 1) \/ i = n \/ i = n + 1 \/ i = n + 2
  OBVIOUS
<1>11. DOMAIN out = 1..(n + 2) /\ DOMAIN rc = 1..n
  BY <1>1, <1>6
<1>12. WellFormed(out)
  <2>1. out[1] = "sh"
    BY <1>2, <1>3, <1>8
  <2>2. ASSUME NEW i \in 1..(n + 2) PROVE out[i] = "exit" <=> i = n + 2
    <3>1. CASE i \in 1..(n - 1)
      <4>1. i \in 1..n /\ i # n /\ i # n + 2
        BY <3>1
      <4> QED BY <1>2, <1>8, <3>1, <4>1
    <3>2. CASE i = n
      BY <1>9, <3>2
    <3>3. CASE i = n + 1
      BY <1>9, <3>3
    <3>4. CASE i = n + 2
      BY <1>9, <3>4
    <3> QED BY <1>10, <3>1, <3>2, <3>3, <3>4
  <2> QED BY <1>6, <1>11, <2>1, <2>2 DEF WellFormed
<1>13. ASSUME NEW other \in {"audio", "wifi"} PROVE AtMostOne(out, other)
  <2>1. AtMostOne(rc, other)
    BY DEF Runs
  <2> SUFFICES ASSUME NEW i \in 1..(n + 2), NEW j \in 1..(n + 2), out[i] = other, out[j] = other
               PROVE  i = j
    BY <1>11 DEF AtMostOne
  <2>2. (i \in 1..(n - 1) \/ i = n) /\ (j \in 1..(n - 1) \/ j = n)
    BY <1>9, <1>10
  <2>3. \A k \in 1..(n - 1) : k \in 1..n
    OBVIOUS
  <2>4. CASE other = line
    <3>1. \A k \in 1..(n - 1) : out[k] # line
      BY <1>8, <1>11, <2>3 DEF Contains
    <3> QED BY <2>2, <2>4, <3>1
  <2>5. CASE other # line
    <3>1. i \in 1..(n - 1) /\ j \in 1..(n - 1)
      BY <1>9, <2>2, <2>5
    <3> QED BY <1>8, <1>11, <2>1, <2>3, <3>1 DEF AtMostOne
  <2> QED BY <2>4, <2>5
<1>14. out # <<>>
  BY <1>6
<1> QED BY <1>12, <1>13, <1>14 DEF Runs

\* The lines the five commands of the creation have written after the first, the second
\* and the third.
Created(rc, k) ==
  /\ Len(rc) = k
  /\ rc[1] = "sh" /\ (k >= 2 => rc[2] = "blank") /\ (k >= 3 => rc[3] = "exit")

\* Where the file stands in each step that creates it; nothing but the creation
\* touches a file whose unit is not enabled with "exit 0" missing.
RcInv ==
  /\ RcLocalRuns
  /\ rcEnabled => rcExists
  /\ pc \in {"rc_blank", "rc_exit", "rc_chmod", "rc_enable"} => ~rcEnabled /\ rcExists
  /\ pc = "rc_blank" => Created(rcLocal, 1)
  /\ pc = "rc_exit" => Created(rcLocal, 2)
  /\ pc \in {"rc_chmod", "rc_enable"} => Created(rcLocal, 3)
  /\ newRc # <<>> => pc = "rc_write"

LEMMA CreatedAppend ==
  ASSUME NEW rc \in Seq(Line)
  PROVE  /\ Created(rc, 1) => Created(Append(rc, "blank"), 2)
         /\ Created(rc, 2) => Created(Append(rc, "exit"), 3)
<1>1. "blank" \in Line /\ "exit" \in Line
  BY DEF Line
<1>2. ASSUME Created(rc, 1) PROVE Created(Append(rc, "blank"), 2)
  <2>1. Len(rc) = 1 /\ rc[1] = "sh"
    BY <1>2 DEF Created
  <2> DEFINE out == Append(rc, "blank")
  <2>2. Len(out) = Len(rc) + 1 /\ out[Len(rc) + 1] = "blank"
        /\ \A i \in 1..Len(rc) : out[i] = rc[i]
    BY <1>1, AppendProperties
  <2> HIDE DEF out
  <2>3. Len(out) = 2 /\ out[1] = "sh" /\ out[2] = "blank"
    BY <2>1, <2>2
  <2> QED BY <2>3 DEF Created, out
<1>3. ASSUME Created(rc, 2) PROVE Created(Append(rc, "exit"), 3)
  <2>1. Len(rc) = 2 /\ rc[1] = "sh" /\ rc[2] = "blank"
    BY <1>3 DEF Created
  <2> DEFINE out == Append(rc, "exit")
  <2>2. Len(out) = Len(rc) + 1 /\ out[Len(rc) + 1] = "exit"
        /\ \A i \in 1..Len(rc) : out[i] = rc[i]
    BY <1>1, AppendProperties
  <2> HIDE DEF out
  <2>3. Len(out) = 3 /\ out[1] = "sh" /\ out[2] = "blank" /\ out[3] = "exit"
    BY <2>1, <2>2
  <2> QED BY <2>3 DEF Created, out
<1> QED BY <1>2, <1>3

LEMMA FreshFileRuns ==
  ASSUME NEW rc \in Seq(Line), Created(rc, 3)
  PROVE  Runs(rc)
<1>1. DOMAIN rc = 1..3 /\ rc[1] = "sh" /\ rc[2] = "blank" /\ rc[3] = "exit" /\ Len(rc) = 3
  BY DEF Created
<1>2. \A i \in 1..3 : i = 1 \/ i = 2 \/ i = 3
  OBVIOUS
<1>3. WellFormed(rc)
  BY <1>1, <1>2 DEF WellFormed
<1>4. AtMostOne(rc, "audio") /\ AtMostOne(rc, "wifi")
  BY <1>1, <1>2 DEF AtMostOne
<1> QED BY <1>3, <1>4 DEF Runs

LEMMA RcOtherFrame ==
  ASSUME [Next]_vars, ~CreateRcLocal, ~AddAudioReceiver, ~AddWifiToRcLocal,
         ~WriteRcLocal, ~Interrupt, ~ChmodRcLocal, ~EnableRcLocal,
         ~AppendToRcLocal("blank", "rc_blank", "rc_exit"),
         ~AppendToRcLocal("exit", "rc_exit", "rc_chmod")
  PROVE  /\ UNCHANGED <<rcLocal, newRc, rcEnabled, rcExists>>
         /\ pc = pc' \/ pc' \notin {"rc_blank", "rc_exit", "rc_chmod", "rc_enable"}
         /\ pc = "rc_write" => pc' = "rc_write"
BY DEF Goto, Next, vars, control, rcFile, dockerVars, dnsmasq, ScriptStep,
             SwarmDeploysImage, StartRun, ChooseLocation, Reboot, GuardedAppend, Overwrite,
             OverwriteOfPackage, RcFileStep, CreateRcLocal, AppendToRcLocal,
             ChmodRcLocal, EnableRcLocal, AddAudioReceiver, AddWifiToRcLocal,
             WriteRcLocal, AddKeys, InstallDocker, JoinSwarm, UsbCamStep, AskUsbCam,
             RunUsbCam, AskDongle, InstallPackages, AppendDaemonConf, DnsmasqStep,
             SaveDnsmasqConf, WriteDnsmasqConf, CopyDnsmasqUnit, PatchDnsmasqUnit,
             AppendFirstNameserver, AppendSecondNameserver, ServiceStep,
             MakeServiceDir, CloneService, InstallService

LEMMA RcStep == TypeOK /\ RcInv /\ [Next]_vars => RcInv'
<1> SUFFICES ASSUME TypeOK, RcInv, [Next]_vars PROVE RcInv'
  OBVIOUS
<1>1. rcLocal \in Seq(Line) /\ newRc \in Seq(Line)
  BY DEF TypeOK
<1>2. rcEnabled => Runs(rcLocal) /\ Runs(newRc)
  BY DEF RcInv, RcLocalRuns, Runs
<1>3. SUFFICES /\ rcEnabled' => Runs(rcLocal') /\ Runs(newRc')
               /\ (RcInv!2)' /\ (RcInv!3)' /\ (RcInv!4)' /\ (RcInv!5)' /\ (RcInv!6)' /\ (RcInv!7)'
  BY DEF RcInv, RcLocalRuns, Runs
<1>4. Runs(<<>>)
  BY DEF Runs
<1>5. CASE CreateRcLocal
  <2>1. Created(<<"sh">>, 1)
    BY DEF Created
  <2> QED BY <1>2, <1>5, <2>1 DEF CreateRcLocal, RcFileStep, RcInv, Goto
<1>6. CASE AppendToRcLocal("blank", "rc_blank", "rc_exit")
  <2>1. Created(rcLocal, 1) /\ rcLocal' = Append(rcLocal, "blank") /\ pc' = "rc_exit"
        /\ ~rcEnabled /\ rcExists /\ UNCHANGED <<newRc, rcEnabled, rcExists>> /\ newRc = <<>>
    BY <1>6 DEF AppendToRcLocal, RcFileStep, RcInv, Goto
  <2>2. Created(rcLocal', 2)
    BY <1>1, <2>1, CreatedAppend DEF Line
  <2> QED BY <2>1, <2>2
<1>7. CASE AppendToRcLocal("exit", "rc_exit", "rc_chmod")
  <2>1. Created(rcLocal, 2) /\ rcLocal' = Append(rcLocal, "exit") /\ pc' = "rc_chmod"
        /\ ~rcEnabled /\ rcExists /\ UNCHANGED <<newRc, rcEnabled, rcExists>> /\ newRc = <<>>
    BY <1>7 DEF AppendToRcLocal, RcFileStep, RcInv, Goto
  <2>2. Created(rcLocal', 3)
    BY <1>1, <2>1, CreatedAppend DEF Line
  <2> QED BY <2>1, <2>2
<1>8. CASE ChmodRcLocal
  BY <1>8 DEF ChmodRcLocal, RcFileStep, RcInv, Goto
<1>9. CASE EnableRcLocal
  BY <1>1, <1>4, <1>9, FreshFileRuns DEF EnableRcLocal, RcFileStep, RcInv, Goto
<1>10. CASE AddAudioReceiver
  <2>1. newRc' = newRc /\ pc' = "startDocker" /\ UNCHANGED <<rcEnabled, rcExists>> /\ newRc = <<>>
    BY <1>10 DEF AddAudioReceiver, RcFileStep, RcInv, Goto
  <2>2. rcEnabled => Runs(rcLocal')
    <3>1. CASE rcLocal' = rcLocal
      BY <1>2, <3>1
    <3>2. CASE rcEnabled /\ rcLocal # <<>> /\ ~Contains(rcLocal, "audio")
               /\ rcLocal' = SedInsertAudio(rcLocal)
      <4>1. rcLocal[Len(rcLocal)] = "exit"
        BY <1>1, <1>2, <3>2 DEF Runs, WellFormed
      <4>2. rcLocal' = AllButLast(rcLocal) \o <<"audio", "blank", "exit">>
        BY <3>2, <4>1 DEF SedInsertAudio
      <4>3. rcLocal' \in Seq(Line)
        BY <1>1, <3>2, SedInsertAudioType
      <4> QED BY <1>1, <1>2, <3>2, <4>2, <4>3, InsertBeforeExit
    <3> QED BY <1>10, <3>1, <3>2 DEF AddAudioReceiver, SedInsertAudio
  <2> QED BY <1>4, <2>1, <2>2 DEF RcInv
<1>11. CASE AddWifiToRcLocal
  <2>1. CASE UNCHANGED <<newRc, rcLocal>>
    BY <1>2, <1>11, <2>1 DEF AddWifiToRcLocal, RcInv, Goto
  <2>2. CASE /\ ~Contains(rcLocal, "wifi") /\ EndsWith(rcLocal, "exit")
             /\ newRc' = WithWifi(rcLocal) /\ rcLocal' = <<>> /\ pc' = "rc_write"
    <3>1. UNCHANGED <<rcEnabled, rcExists>>
      BY <1>11 DEF AddWifiToRcLocal
    <3>2. rcEnabled => Runs(newRc')
      <4>1. rcLocal # <<>> /\ newRc' \in Seq(Line)
        BY <1>1, <2>2, WithWifiType DEF EndsWith
      <4> QED BY <1>1, <1>2, <2>2, <4>1, InsertBeforeExit DEF WithWifi
    <3> QED BY <1>4, <2>2, <3>1, <3>2 DEF RcInv
  <2> QED BY <1>11, <2>1, <2>2 DEF AddWifiToRcLocal, Goto
<1>12. CASE WriteRcLocal
  BY <1>2, <1>4, <1>12 DEF WriteRcLocal, RcInv, Goto
<1>13. CASE Interrupt
  BY <1>2, <1>4, <1>13 DEF Interrupt, RcInv, Goto
<1>14. CASE /\ ~CreateRcLocal /\ ~AddAudioReceiver /\ ~AddWifiToRcLocal /\ ~WriteRcLocal
            /\ ~Interrupt /\ ~ChmodRcLocal /\ ~EnableRcLocal
            /\ ~AppendToRcLocal("blank", "rc_blank", "rc_exit")
            /\ ~AppendToRcLocal("exit", "rc_exit", "rc_chmod")
  BY <1>2, <1>14, RcOtherFrame DEF RcInv
<1> QED BY <1>5, <1>6, <1>7, <1>8, <1>9, <1>10, <1>11, <1>12, <1>13, <1>14

\* An rc.local whose unit is enabled is empty or runs from its "#!" to its only "exit 0",
\* with no line of the scripts twice, and so is the text a rewrite is about to write.
THEOREM KeepsRcLocalRunning == Spec => []RcLocalRuns
<1>1. Init => RcInv
  <2> SUFFICES ASSUME Init PROVE RcInv
    OBVIOUS
  <2>1. newRc = <<>> /\ pc = "idle" /\ rcEnabled = rcExists
        /\ (rcEnabled => rcLocal = <<"sh", "blank", "exit">>)
    BY DEF Init
  <2>2. <<"sh", "blank", "exit">> \in Seq(Line) /\ Created(<<"sh", "blank", "exit">>, 3)
    BY DEF Line, Created
  <2>3. RcLocalRuns
    BY <2>1, <2>2, FreshFileRuns DEF RcLocalRuns, Runs
  <2> QED BY <2>1, <2>3 DEF RcInv
<1>2. TypeOK /\ RcInv /\ [Next]_vars => RcInv'
  BY RcStep
<1>3. RcInv => RcLocalRuns
  BY DEF RcInv
<1> QED BY <1>1, <1>2, <1>3, TypeCorrect, PTL DEF Spec

(***************************************************************************)
(* A rewrite of rc.local that is not cut off carries the receiver over.    *)
(***************************************************************************)
HasReceiver == Contains(rcLocal, "audio") \/ Contains(newRc, "audio")

\* The steps before rc.local is created where it is missing.
Early == {"idle", "sudoers", "location", "rc"}

\* The text of a rewrite exists while the file is empty, and only then.
RewriteInv ==
  /\ pc = "rc_write" => rcLocal = <<>>
  /\ newRc # <<>> => pc = "rc_write"
  /\ ~rcExists => rcLocal = <<>> /\ pc \in Early

\* What replaces the last line leaves the lines before it where they are.
LEMMA TailReplaced ==
  ASSUME NEW rc \in Seq(Line), rc # <<>>, NEW tail \in Seq(Line), NEW line \in Line,
         NEW i \in 1..Len(rc), i # Len(rc), rc[i] = line
  PROVE  Contains(AllButLast(rc) \o tail, line)
<1> DEFINE front == AllButLast(rc)
<1>0. PICK n \in Nat : n = Len(rc)
  OBVIOUS
<1>1. n >= 1 /\ i \in 1..(n - 1)
  BY <1>0
<1>2. front \in Seq(Line) /\ Len(front) = n - 1 /\ front[i] = rc[i]
  <2>1. front = SubSeq(rc, 1, n - 1)
    BY <1>0 DEF AllButLast
  <2>2. \A j \in 1..(n - 1) : rc[j] \in Line
    BY <1>0, <1>1
  <2>3. 1 <= n - 1 /\ (n - 1) - 1 + 1 = n - 1 /\ 1 + i - 1 = i
    BY <1>1
  <2> QED BY <1>1, <2>1, <2>2, <2>3, SubSeqProperties
<1>3. tail \in Seq(Line) /\ Len(tail) \in Nat
  OBVIOUS
<1> HIDE DEF front
<1> DEFINE out == front \o tail
<1>4. out \in Seq(Line) /\ Len(out) = n - 1 + Len(tail) /\ out[i] = front[i]
  <2>1. out \in Seq(Line) /\ Len(out) = Len(front) + Len(tail)
    BY <1>2, <1>3, ConcatProperties
  <2>2. i \in 1..(Len(front) + Len(tail)) /\ i <= Len(front)
    BY <1>1, <1>2, <1>3
  <2> QED BY <1>2, <1>3, <2>1, <2>2, ConcatProperties
<1>5. i \in 1..Len(out) /\ out[i] = line
  BY <1>1, <1>2, <1>3, <1>4
<1>6. i \in DOMAIN out
  BY <1>4, <1>5
<1> QED BY <1>5, <1>6 DEF Contains, front

LEMMA WifiKeepsReceiver ==
  ASSUME NEW rc \in Seq(Line), EndsWith(rc, "exit"), Contains(rc, "audio")
  PROVE  Contains(WithWifi(rc), "audio")
<1>1. rc # <<>> /\ rc[Len(rc)] = "exit"
  BY DEF EndsWith
<1>2. PICK i \in 1..Len(rc) : rc[i] = "audio"
  BY DEF Contains
<1>3. i # Len(rc)
  BY <1>1, <1>2
<1>4. <<"wifi", "blank", "exit">> \in Seq(Line) /\ "audio" \in Line
  BY DEF Line
<1> QED BY <1>1, <1>2, <1>3, <1>4, TailReplaced DEF WithWifi

LEMMA AppendKeepsReceiver ==
  ASSUME NEW rc \in Seq(Line), NEW line \in Line, Contains(rc, "audio")
  PROVE  Contains(Append(rc, line), "audio")
<1>1. PICK i \in 1..Len(rc) : rc[i] = "audio"
  BY DEF Contains
<1> DEFINE out == Append(rc, line)
<1>2. out \in Seq(Line) /\ Len(out) = Len(rc) + 1 /\ out[i] = rc[i]
  BY AppendProperties
<1>3. i \in DOMAIN out
  BY <1>2
<1> QED BY <1>1, <1>2, <1>3 DEF Contains

\* Only the rewrite touches its text, and before the creation nothing touches the file.
LEMMA RewriteFrame ==
  ASSUME [Next]_vars
  PROVE  /\ pc' = "rc_write" => \/ pc = "rc_write" /\ UNCHANGED <<rcLocal, newRc>>
                                \/ AddWifiToRcLocal
         /\ pc = "rc_write" => \/ UNCHANGED <<pc, rcLocal, newRc, rcExists>>
                               \/ WriteRcLocal \/ Interrupt
         /\ UNCHANGED newRc \/ AddWifiToRcLocal \/ WriteRcLocal \/ Interrupt
         /\ rcExists => rcExists'
         /\ ~rcExists' /\ pc \in Early => pc' \in Early /\ UNCHANGED rcLocal
<1> USE DEF Goto, Next, vars, control, rcFile, dockerVars, dnsmasq, ScriptStep, Interrupt,
             SwarmDeploysImage, StartRun, ChooseLocation, Reboot, GuardedAppend, Overwrite,
             OverwriteOfPackage, RcFileStep, CreateRcLocal, AppendToRcLocal,
             ChmodRcLocal, EnableRcLocal, AddAudioReceiver, AddWifiToRcLocal,
             WriteRcLocal, AddKeys, InstallDocker, JoinSwarm, UsbCamStep, AskUsbCam,
             RunUsbCam, AskDongle, InstallPackages, AppendDaemonConf, DnsmasqStep,
             SaveDnsmasqConf, WriteDnsmasqConf, CopyDnsmasqUnit, PatchDnsmasqUnit,
             AppendFirstNameserver, AppendSecondNameserver, ServiceStep,
             MakeServiceDir, CloneService, InstallService
<1>1. pc' = "rc_write" => \/ pc = "rc_write" /\ UNCHANGED <<rcLocal, newRc>>
                          \/ AddWifiToRcLocal
  OBVIOUS
<1>2. pc = "rc_write" => \/ UNCHANGED <<pc, rcLocal, newRc, rcExists>>
                         \/ WriteRcLocal \/ Interrupt
  OBVIOUS
<1>3. UNCHANGED newRc \/ AddWifiToRcLocal \/ WriteRcLocal \/ Interrupt
  OBVIOUS
<1>4. rcExists => rcExists'
  OBVIOUS
<1>5. ~rcExists' /\ pc \in Early => pc' \in Early /\ UNCHANGED rcLocal
  BY DEF Early
<1> QED BY <1>1, <1>2, <1>3, <1>4, <1>5

LEMMA RewriteStep == TypeOK /\ RewriteInv /\ [Next]_vars => RewriteInv'
<1> SUFFICES ASSUME TypeOK, RewriteInv, [Next]_vars PROVE RewriteInv'
  OBVIOUS
<1>1. pc' = "rc_write" => rcLocal' = <<>>
  <2>1. AddWifiToRcLocal /\ pc' = "rc_write" => rcLocal' = <<>>
    BY DEF AddWifiToRcLocal, Goto
  <2> QED BY <2>1, RewriteFrame DEF RewriteInv
<1>2. newRc' # <<>> => pc' = "rc_write"
  <2>1. WriteRcLocal \/ Interrupt => newRc' = <<>>
    BY DEF WriteRcLocal, Interrupt
  <2>2. AddWifiToRcLocal => pc = "rc_wifi" /\ (newRc' = newRc \/ pc' = "rc_write")
    BY DEF AddWifiToRcLocal, Goto
  <2> QED BY <2>1, <2>2, RewriteFrame DEF RewriteInv
<1>3. ~rcExists' => rcLocal' = <<>> /\ pc' \in Early
  BY RewriteFrame DEF RewriteInv
<1> QED BY <1>1, <1>2, <1>3 DEF RewriteInv

LEMMA ReceiverStep ==
  ASSUME TypeOK, RewriteInv, [Next]_vars, HasReceiver, pc' # "idle"
  PROVE  HasReceiver'
<1>1. rcLocal \in Seq(Line) /\ newRc \in Seq(Line)
  BY DEF TypeOK
<1>2. CASE CreateRcLocal
  <2>1. rcExists
    <3>1. SUFFICES ASSUME ~rcExists PROVE FALSE
      OBVIOUS
    <3>2. rcLocal = <<>> /\ newRc = <<>>
      BY <3>1 DEF RewriteInv, Early
    <3> QED BY <3>2 DEF HasReceiver, Contains
  <2> QED BY <1>2, <2>1 DEF CreateRcLocal, RcFileStep, HasReceiver, Contains
<1>3. ASSUME NEW line \in Line, NEW step \in Step, NEW next \in Step,
             AppendToRcLocal(line, step, next)
      PROVE  HasReceiver'
  <2>1. rcLocal' = Append(rcLocal, line) /\ newRc' = newRc
    BY <1>3 DEF AppendToRcLocal, RcFileStep
  <2>2. CASE Contains(rcLocal, "audio")
    <3>1. Contains(Append(rcLocal, line), "audio")
      BY <1>1, <2>2, AppendKeepsReceiver
    <3> QED BY <2>1, <3>1 DEF HasReceiver
  <2>3. CASE Contains(newRc, "audio")
    BY <2>1, <2>3 DEF HasReceiver
  <2> QED BY <2>2, <2>3 DEF HasReceiver
<1>4. CASE AddAudioReceiver
  <2>1. newRc = <<>>
    BY <1>4 DEF AddAudioReceiver, RewriteInv
  <2>2. Contains(rcLocal, "audio")
    BY <2>1 DEF HasReceiver, Contains
  <2>3. rcLocal' = rcLocal
    BY <1>4, <2>2 DEF AddAudioReceiver
  <2> QED BY <2>2, <2>3 DEF HasReceiver
<1>5. CASE AddWifiToRcLocal
  <2>1. newRc = <<>>
    BY <1>5 DEF AddWifiToRcLocal, RewriteInv
  <2>2. Contains(rcLocal, "audio")
    BY <2>1 DEF HasReceiver, Contains
  <2>3. CASE EndsWith(rcLocal, "exit") /\ newRc' = WithWifi(rcLocal)
    <3>1. Contains(WithWifi(rcLocal), "audio")
      BY <1>1, <2>2, <2>3, WifiKeepsReceiver
    <3> QED BY <2>3, <3>1 DEF HasReceiver
  <2>4. CASE rcLocal' = rcLocal
    BY <2>2, <2>4 DEF HasReceiver
  <2> QED BY <1>5, <2>3, <2>4 DEF AddWifiToRcLocal
<1>6. CASE WriteRcLocal
  <2>1. rcLocal = <<>>
    BY <1>6 DEF WriteRcLocal, RewriteInv
  <2>2. Contains(newRc, "audio")
    BY <2>1 DEF HasReceiver, Contains
  <2>3. rcLocal' = newRc
    BY <1>6 DEF WriteRcLocal
  <2> QED BY <2>2, <2>3 DEF HasReceiver
<1>7. CASE Interrupt
  BY <1>7 DEF Interrupt, Goto
<1>8. CASE UNCHANGED <<rcLocal, newRc>>
  BY <1>8 DEF HasReceiver
<1> QED BY <1>2, <1>3, <1>4, <1>5, <1>6, <1>7, <1>8, RcFrame

\* From one step to the next of a run that is not cut off, the receiver's line stays in
\* rc.local or in the text that is about to be written to it, for any number of runs.
THEOREM KeepsReceiver == Spec => ReceiverKept
<1>1. Init => RewriteInv
  BY DEF Init, RewriteInv, Early
<1>2. TypeOK /\ RewriteInv /\ [Next]_vars
      => [(Contains(rcLocal, "audio") \/ Contains(newRc, "audio")) /\ pc' # "idle"
          => Contains(rcLocal', "audio") \/ Contains(newRc', "audio")]_vars
  BY ReceiverStep DEF HasReceiver
<1> QED BY <1>1, <1>2, RewriteStep, TypeCorrect, PTL DEF Spec, ReceiverKept
=============================================================================
