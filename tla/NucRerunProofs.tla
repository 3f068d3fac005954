--------------------------- MODULE NucRerunProofs ---------------------------
(***************************************************************************)
(* What a rerun of install_nuc10.sh repairs, and what it never does.       *)
(***************************************************************************)
EXTENDS NucInstallProofs

(***************************************************************************)
(* A rerun repairs.  What a run has achieved by each stretch of the script *)
(* that comes after the step in question, whatever was there before it.    *)
(***************************************************************************)
AfterNm == {}
AfterWpaEnable == {"svc_mkdir", "svc_clone", "svc_install", "nm"}
AfterIfplugd == AfterWpaConf \cup {"wpa_conf"}
AfterNameserver == AfterIfplugd \cup {"ns8844", "ifplugd"}
AfterRcWifi == AfterNameserver \cup {"ns8888"}
AfterHostapdEnable == AfterRcWifi \cup
  {"dnsmasq_mv", "dnsmasq_tee", "hosts", "unit_cp", "unit_sed", "rc_wifi", "rc_write"}
AfterHostapdConf == AfterHostapdEnable \cup {"daemonConf", "hostapd_enable"}
AfterSysctl == AfterHostapdConf \cup {"hostapd_conf"}
AfterUdev == AfterInterfaces \cup {"interfaces"}
AfterPackages == AfterUdev \cup {"udev"}
AfterKeys == AfterPackages \cup
  {"docker", "swarm", "usbcam", "usbcam_wait", "dongle", "packages"}
AfterRebootLine == AfterKeys \cup {"keys"}
AfterRestartDocker == AfterRebootLine \cup {"rebootLine"}
AfterStartDocker == AfterRestartDocker \cup {"restartDocker"}
AfterSudoers == AfterStartDocker \cup
  {"location", "rc", "rc_blank", "rc_exit", "rc_chmod", "rc_enable", "audio", "startDocker"}

\* The run is in this stretch of the script, or at the end of it by way of the dongle.
Past(stretch) == pc \in stretch \/ (pc = "reboot" /\ dongle)

AppendsDone ==
  /\ Past(AfterSudoers) => copies["sudoers"] >= 1
  /\ Past(AfterStartDocker) => copies["startDocker"] >= 1
  /\ Past(AfterRestartDocker) => copies["restartDocker"] >= 1
  /\ Past(AfterRebootLine) => copies["rebootLine"] >= 1
  /\ Past(AfterKeys) => \A k \in Keys : copies[k] >= 1
  /\ Past(AfterInterfaces) => copies["interfaces"] >= 1
  /\ Past(AfterSysctl) => copies["sysctl"] >= 1

FilesDone ==
  /\ Past(AfterUdev) => "udev" \in written
  /\ Past(AfterWpaConf) => "wpa_conf" \in written
  /\ Past(AfterWpaUnit) => "wpa_unit" \in written
  /\ Past(AfterWpaEnable) => "wpa_enable" \in written
  /\ Past(AfterNm) => "nm" \in written

\* What hangs on a download.
PackagesDone ==
  online =>
    /\ Past(AfterPackages) => packages
    /\ Past(AfterHostapdConf) => "hostapd_conf" \in written
    /\ Past(AfterHostapdEnable) => "hostapd_enable" \in written
    /\ Past(AfterNameserver) => copies["ns8888"] >= 1
    /\ Past(AfterIfplugd) => "ifplugd" \in written

WifiDone ==
  /\ pc = "rc_write" => Contains(newRc, "wifi")
  /\ Past(AfterRcWifi) => (rcEnabled /\ rcLocal # <<>> => Contains(rcLocal, "wifi"))

\* How a run comes into each stretch.
LEMMA PastFrame ==
  ASSUME [Next]_vars
  PROVE  /\ Past(AfterSudoers)' => Past(AfterSudoers) \/ GuardedAppend("sudoers", "location")
         /\ Past(AfterStartDocker)' => Past(AfterStartDocker) \/ GuardedAppend("startDocker", "restartDocker")
         /\ Past(AfterRestartDocker)' => Past(AfterRestartDocker) \/ GuardedAppend("restartDocker", "rebootLine")
         /\ Past(AfterRebootLine)' => Past(AfterRebootLine) \/ GuardedAppend("rebootLine", "keys")
         /\ Past(AfterKeys)' => Past(AfterKeys) \/ AddKeys
         /\ Past(AfterPackages)' => Past(AfterPackages) \/ InstallPackages
         /\ Past(AfterUdev)' => Past(AfterUdev) \/ Overwrite("udev", "interfaces")
         /\ Past(AfterInterfaces)' => Past(AfterInterfaces) \/ GuardedAppend("interfaces", "sysctl")
         /\ Past(AfterSysctl)' => Past(AfterSysctl) \/ GuardedAppend("sysctl", "hostapd_conf")
         /\ Past(AfterHostapdConf)' => Past(AfterHostapdConf) \/ OverwriteOfPackage("hostapd_conf", "daemonConf")
         /\ Past(AfterHostapdEnable)' => Past(AfterHostapdEnable) \/ OverwriteOfPackage("hostapd_enable", "dnsmasq_mv")
         /\ Past(AfterRcWifi)' => Past(AfterRcWifi) \/ (AddWifiToRcLocal \/ WriteRcLocal)
         /\ Past(AfterNameserver)' => Past(AfterNameserver) \/ AppendFirstNameserver
         /\ Past(AfterIfplugd)' => Past(AfterIfplugd) \/ OverwriteOfPackage("ifplugd", "wpa_conf")
         /\ Past(AfterWpaConf)' => Past(AfterWpaConf) \/ Overwrite("wpa_conf", "wpa_unit")
         /\ Past(AfterWpaUnit)' => Past(AfterWpaUnit) \/ Overwrite("wpa_unit", "wpa_enable")
         /\ Past(AfterWpaEnable)' => Past(AfterWpaEnable) \/ Overwrite("wpa_enable", "svc_mkdir")
         /\ Past(AfterNm)' => Past(AfterNm) \/ Overwrite("nm", "reboot")
<1> USE DEF Goto, Next, vars, control, rcFile, dockerVars, dnsmasq, ScriptStep, Interrupt,
             SwarmDeploysImage, StartRun, ChooseLocation, Reboot, GuardedAppend, Overwrite,
             OverwriteOfPackage, RcFileStep, CreateRcLocal, AppendToRcLocal,
             ChmodRcLocal, EnableRcLocal, AddAudioReceiver, AddWifiToRcLocal,
             WriteRcLocal, AddKeys, InstallDocker, JoinSwarm, UsbCamStep, AskUsbCam,
             RunUsbCam, AskDongle, InstallPackages, AppendDaemonConf, DnsmasqStep,
             SaveDnsmasqConf, WriteDnsmasqConf, CopyDnsmasqUnit, PatchDnsmasqUnit,
             AppendFirstNameserver, AppendSecondNameserver, ServiceStep,
             MakeServiceDir, CloneService, InstallService
<1>1. Past(AfterSudoers)' => Past(AfterSudoers) \/ GuardedAppend("sudoers", "location")
  BY DEF Past, AfterSudoers, AfterStartDocker, AfterRestartDocker, AfterRebootLine,
     AfterKeys, AfterPackages, AfterUdev, AfterInterfaces, AfterWpaConf, AfterWpaUnit
<1>2. Past(AfterStartDocker)' =>
      Past(AfterStartDocker) \/ GuardedAppend("startDocker", "restartDocker")
  BY DEF Past, AfterStartDocker, AfterRestartDocker, AfterRebootLine, AfterKeys,
     AfterPackages, AfterUdev, AfterInterfaces, AfterWpaConf, AfterWpaUnit
<1>3. Past(AfterRestartDocker)' =>
      Past(AfterRestartDocker) \/ GuardedAppend("restartDocker", "rebootLine")
  BY DEF Past, AfterRestartDocker, AfterRebootLine, AfterKeys, AfterPackages,
     AfterUdev, AfterInterfaces, AfterWpaConf, AfterWpaUnit
<1>4. Past(AfterRebootLine)' => Past(AfterRebootLine) \/ GuardedAppend("rebootLine", "keys")
  BY DEF Past, AfterRebootLine, AfterKeys, AfterPackages, AfterUdev, AfterInterfaces,
     AfterWpaConf, AfterWpaUnit
<1>5. Past(AfterKeys)' => Past(AfterKeys) \/ AddKeys
  BY DEF Past, AfterKeys, AfterPackages, AfterUdev, AfterInterfaces, AfterWpaConf,
     AfterWpaUnit
<1>6. Past(AfterPackages)' => Past(AfterPackages) \/ InstallPackages
  BY DEF Past, AfterPackages, AfterUdev, AfterInterfaces, AfterWpaConf, AfterWpaUnit
<1>7. Past(AfterUdev)' => Past(AfterUdev) \/ Overwrite("udev", "interfaces")
  BY DEF Past, AfterUdev, AfterInterfaces, AfterWpaConf, AfterWpaUnit
<1>8. Past(AfterInterfaces)' =>
      Past(AfterInterfaces) \/ GuardedAppend("interfaces", "sysctl")
  BY DEF Past, AfterInterfaces, AfterWpaConf, AfterWpaUnit
<1>9. Past(AfterSysctl)' => Past(AfterSysctl) \/ GuardedAppend("sysctl", "hostapd_conf")
  BY DEF Past, AfterSysctl, AfterHostapdConf, AfterHostapdEnable, AfterRcWifi,
     AfterNameserver, AfterIfplugd, AfterWpaConf, AfterWpaUnit
<1>10. Past(AfterHostapdConf)' =>
      Past(AfterHostapdConf) \/ OverwriteOfPackage("hostapd_conf", "daemonConf")
  BY DEF Past, AfterHostapdConf, AfterHostapdEnable, AfterRcWifi, AfterNameserver,
     AfterIfplugd, AfterWpaConf, AfterWpaUnit
<1>11. Past(AfterHostapdEnable)' =>
      Past(AfterHostapdEnable) \/ OverwriteOfPackage("hostapd_enable", "dnsmasq_mv")
  BY DEF Past, AfterHostapdEnable, AfterRcWifi, AfterNameserver, AfterIfplugd,
     AfterWpaConf, AfterWpaUnit
<1>12. Past(AfterRcWifi)' => Past(AfterRcWifi) \/ (AddWifiToRcLocal \/ WriteRcLocal)
  BY DEF Past, AfterRcWifi, AfterNameserver, AfterIfplugd, AfterWpaConf, AfterWpaUnit
<1>13. Past(AfterNameserver)' => Past(AfterNameserver) \/ AppendFirstNameserver
  BY DEF Past, AfterNameserver, AfterIfplugd, AfterWpaConf, AfterWpaUnit
<1>14. Past(AfterIfplugd)' =>
      Past(AfterIfplugd) \/ OverwriteOfPackage("ifplugd", "wpa_conf")
  BY DEF Past, AfterIfplugd, AfterWpaConf, AfterWpaUnit
<1>15. Past(AfterWpaConf)' => Past(AfterWpaConf) \/ Overwrite("wpa_conf", "wpa_unit")
  BY DEF Past, AfterWpaConf, AfterWpaUnit
<1>16. Past(AfterWpaUnit)' => Past(AfterWpaUnit) \/ Overwrite("wpa_unit", "wpa_enable")
  BY DEF Past, AfterWpaUnit
<1>17. Past(AfterWpaEnable)' => Past(AfterWpaEnable) \/ Overwrite("wpa_enable", "svc_mkdir")
  BY DEF Past, AfterWpaEnable
<1>18. Past(AfterNm)' => Past(AfterNm) \/ Overwrite("nm", "reboot")
  BY DEF Past, AfterNm
<1> QED BY <1>1, <1>2, <1>3, <1>4, <1>5, <1>6, <1>7, <1>8, <1>9, <1>10, <1>11, <1>12,
           <1>13, <1>14, <1>15, <1>16, <1>17, <1>18

\* A failed download is not forgotten within a run, and packages stay installed.
LEMMA RunFrame ==
  ASSUME [Next]_vars
  PROVE  /\ online' => online \/ pc' = "sudoers"
         /\ packages => packages'
         /\ Past(AfterRcWifi)' => \/ AddWifiToRcLocal \/ WriteRcLocal
                                  \/ Past(AfterRcWifi) /\ UNCHANGED <<rcLocal, rcEnabled>>
<1> USE DEF Goto, Next, vars, control, rcFile, dockerVars, dnsmasq, ScriptStep, Interrupt,
             SwarmDeploysImage, StartRun, ChooseLocation, Reboot, GuardedAppend, Overwrite,
             OverwriteOfPackage, RcFileStep, CreateRcLocal, AppendToRcLocal,
             ChmodRcLocal, EnableRcLocal, AddAudioReceiver, AddWifiToRcLocal,
             WriteRcLocal, AddKeys, InstallDocker, JoinSwarm, UsbCamStep, AskUsbCam,
             RunUsbCam, AskDongle, InstallPackages, AppendDaemonConf, DnsmasqStep,
             SaveDnsmasqConf, WriteDnsmasqConf, CopyDnsmasqUnit, PatchDnsmasqUnit,
             AppendFirstNameserver, AppendSecondNameserver, ServiceStep,
             MakeServiceDir, CloneService, InstallService
<1>1. online' => online \/ pc' = "sudoers"
  OBVIOUS
<1>2. packages => packages'
  OBVIOUS
<1>3. Past(AfterRcWifi)' => \/ AddWifiToRcLocal \/ WriteRcLocal
                            \/ Past(AfterRcWifi) /\ UNCHANGED <<rcLocal, rcEnabled>>
  BY DEF Past, AfterRcWifi, AfterNameserver, AfterIfplugd, AfterWpaConf, AfterWpaUnit
<1> QED BY <1>1, <1>2, <1>3

LEMMA AppendsStep == TypeOK /\ AppendsDone /\ [Next]_vars => AppendsDone'
<1> SUFFICES ASSUME TypeOK, AppendsDone, [Next]_vars PROVE AppendsDone'
  OBVIOUS
<1>1. /\ copies \in [Entry -> Nat] /\ copies' \in [Entry -> Nat]
      /\ \A e \in Entry : copies'[e] >= copies[e]
  BY CopiesType, CopiesGrow DEF TypeOK
<1>2. /\ {"sudoers", "startDocker", "restartDocker", "rebootLine", "interfaces", "sysctl"}
           \subseteq Entry
      /\ Keys \subseteq Entry
  BY DEF Entry, OnceEntry, CronEntry, WifiEntry
<1>3. ASSUME NEW e \in Entry, copies[e] >= 1 PROVE copies'[e] >= 1
  <2>1. copies[e] \in Nat /\ copies'[e] \in Nat /\ copies'[e] >= copies[e]
    BY <1>1
  <2> QED BY <1>3, <2>1
<1>4. ASSUME NEW e \in Entry, NEW next, GuardedAppend(e, next) PROVE copies'[e] >= 1
  <2>1. copies[e] \in Nat
    BY <1>1
  <2> QED BY <1>1, <1>4, <2>1 DEF GuardedAppend
<1>5. Past(AfterSudoers)' => copies'["sudoers"] >= 1
  BY <1>2, <1>3, <1>4, PastFrame DEF AppendsDone
<1>6. Past(AfterStartDocker)' => copies'["startDocker"] >= 1
  BY <1>2, <1>3, <1>4, PastFrame DEF AppendsDone
<1>7. Past(AfterRestartDocker)' => copies'["restartDocker"] >= 1
  BY <1>2, <1>3, <1>4, PastFrame DEF AppendsDone
<1>8. Past(AfterRebootLine)' => copies'["rebootLine"] >= 1
  BY <1>2, <1>3, <1>4, PastFrame DEF AppendsDone
<1>9. Past(AfterKeys)' => \A k \in Keys : copies'[k] >= 1
  <2>1. CASE Past(AfterKeys)
    BY <1>2, <1>3, <2>1 DEF AppendsDone
  <2>2. CASE AddKeys /\ Past(AfterKeys)'
    <3>1. pc' # "keys"
      BY <2>2 DEF Past, AfterKeys, AfterPackages, AfterUdev, AfterInterfaces, AfterWpaConf,
                  AfterWpaUnit
    <3>2. copies' = copies /\ \A k \in Keys : copies[k] # 0
      BY <2>2, <3>1 DEF AddKeys, Goto
    <3>3. \A k \in Keys : copies[k] \in Nat
      BY <1>1, <1>2
    <3> QED BY <3>2, <3>3
  <2> QED BY <2>1, <2>2, PastFrame
<1>10. Past(AfterInterfaces)' => copies'["interfaces"] >= 1
  BY <1>2, <1>3, <1>4, PastFrame DEF AppendsDone
<1>11. Past(AfterSysctl)' => copies'["sysctl"] >= 1
  BY <1>2, <1>3, <1>4, PastFrame DEF AppendsDone
<1> QED BY <1>5, <1>6, <1>7, <1>8, <1>9, <1>10, <1>11 DEF AppendsDone

LEMMA FilesStep == FilesDone /\ [Next]_vars => FilesDone'
<1> SUFFICES ASSUME FilesDone, [Next]_vars PROVE FilesDone'
  OBVIOUS
<1>1. written \subseteq written'
  BY WrittenGrows
<1>2. \A a, next : Overwrite(a, next) => a \in written'
  BY DEF Overwrite
<1> QED BY <1>1, <1>2, PastFrame DEF FilesDone

LEMMA PackagesStep == TypeOK /\ PackagesDone /\ [Next]_vars => PackagesDone'
<1>0. pc' = "sudoers" => PackagesDone'
  BY DEF PackagesDone, Past, AfterPackages, AfterUdev, AfterInterfaces, AfterHostapdConf,
         AfterHostapdEnable, AfterRcWifi, AfterNameserver, AfterIfplugd, AfterWpaConf,
         AfterWpaUnit
<1> SUFFICES ASSUME TypeOK, PackagesDone, [Next]_vars, online', pc' # "sudoers"
             PROVE  PackagesDone'
  BY <1>0 DEF PackagesDone
<1>1. /\ online
      /\ Past(AfterPackages) => packages
      /\ Past(AfterHostapdConf) => "hostapd_conf" \in written
      /\ Past(AfterHostapdEnable) => "hostapd_enable" \in written
      /\ Past(AfterNameserver) => copies["ns8888"] >= 1
      /\ Past(AfterIfplugd) => "ifplugd" \in written
  BY RunFrame DEF PackagesDone
<1>2. written \subseteq written'
  BY WrittenGrows
<1>3. ASSUME NEW a, NEW next, OverwriteOfPackage(a, next),
             a \in {"hostapd_conf", "hostapd_enable", "ifplugd"}
      PROVE  a \in written'
  <2>1. Past(AfterPackages)
    BY <1>3 DEF OverwriteOfPackage, Past, AfterPackages, AfterUdev, AfterInterfaces
  <2> QED BY <1>1, <1>3, <2>1 DEF OverwriteOfPackage
<1>4. Past(AfterPackages)' => packages'
  <2>1. InstallPackages => packages'
    BY DEF InstallPackages
  <2> QED BY <1>1, <2>1, PastFrame, RunFrame
<1>5. Past(AfterHostapdConf)' => "hostapd_conf" \in written'
  BY <1>1, <1>2, <1>3, PastFrame
<1>6. Past(AfterHostapdEnable)' => "hostapd_enable" \in written'
  BY <1>1, <1>2, <1>3, PastFrame
<1>7. Past(AfterIfplugd)' => "ifplugd" \in written'
  BY <1>1, <1>2, <1>3, PastFrame
<1>8. Past(AfterNameserver)' => copies'["ns8888"] >= 1
  <2>1. copies["ns8888"] \in Nat /\ copies'["ns8888"] \in Nat
        /\ copies'["ns8888"] >= copies["ns8888"]
    BY CopiesType, CopiesGrow DEF TypeOK, Entry, OnceEntry, WifiEntry
  <2>2. CASE Past(AfterNameserver)
    BY <1>1, <2>1, <2>2
  <2>3. CASE AppendFirstNameserver
    <3>1. Past(AfterPackages)
      BY <2>3 DEF AppendFirstNameserver, Past, AfterPackages, AfterUdev, AfterInterfaces
    <3>2. packages
      BY <1>1, <3>1
    <3>3. CASE copies["ns8888"] = 0
      <4>1. copies \in [Entry -> Nat] /\ "ns8888" \in Entry
        BY DEF TypeOK, Entry, OnceEntry, WifiEntry
      <4>2. copies' = [copies EXCEPT !["ns8888"] = 1]
        BY <2>3, <3>2, <3>3 DEF AppendFirstNameserver
      <4> QED BY <4>1, <4>2
    <3>4. CASE copies["ns8888"] # 0
      BY <2>1, <3>4
    <3> QED BY <3>3, <3>4
  <2> QED BY <2>2, <2>3, PastFrame
<1> QED BY <1>4, <1>5, <1>6, <1>7, <1>8 DEF PackagesDone

LEMMA WithWifiContains ==
  ASSUME NEW rc \in Seq(Line), rc # <<>>
  PROVE  Contains(WithWifi(rc), "wifi")
<1> DEFINE front == AllButLast(rc)
           back == <<"wifi", "blank", "exit">>
<1>1. PICK n \in Nat : n = Len(rc) /\ n >= 1
  OBVIOUS
<1>2. front \in Seq(Line) /\ Len(front) = n - 1
  BY <1>1 DEF AllButLast
<1>3. back \in Seq(Line) /\ Len(back) = 3 /\ back[1] = "wifi"
  BY DEF Line
<1> HIDE DEF front, back
<1>4. Len(front \o back) = n + 2 /\ (front \o back)[n] = "wifi"
  <2>1. /\ Len(front \o back) = Len(front) + Len(back)
        /\ \A i \in 1..(Len(front) + Len(back)) : (front \o back)[i] =
             IF i <= Len(front) THEN front[i] ELSE back[i - Len(front)]
    BY <1>2, <1>3, ConcatProperties
  <2>2. n \in 1..(n - 1 + 3) /\ ~(n <= n - 1) /\ n - (n - 1) = 1 /\ n - 1 + 3 = n + 2
    BY <1>1
  <2> QED BY <1>2, <1>3, <2>1, <2>2
<1>5. (front \o back) \in Seq(Line)
  BY <1>2, <1>3, ConcatProperties
<1>6. n \in DOMAIN (front \o back)
  BY <1>1, <1>4, <1>5
<1> QED BY <1>4, <1>6 DEF Contains, WithWifi, front, back

LEMMA WifiStep == TypeOK /\ RcLocalRuns /\ WifiDone /\ [Next]_vars => WifiDone'
<1> SUFFICES ASSUME TypeOK, RcLocalRuns, WifiDone, [Next]_vars PROVE WifiDone'
  OBVIOUS
<1>1. rcLocal \in Seq(Line)
  BY DEF TypeOK
<1>2. pc' = "rc_write" => Contains(newRc', "wifi")
  <2>1. CASE AddWifiToRcLocal /\ pc' = "rc_write"
    <3>1. newRc' = WithWifi(rcLocal) /\ rcLocal # <<>>
      BY <2>1 DEF AddWifiToRcLocal, EndsWith, Goto
    <3>2. Contains(WithWifi(rcLocal), "wifi")
      BY <1>1, <3>1, WithWifiContains
    <3> QED BY <3>1, <3>2
  <2>2. CASE pc = "rc_write" /\ UNCHANGED newRc
    BY <2>2 DEF WifiDone
  <2> QED BY <2>1, <2>2, RewriteFrame
<1>3. ASSUME Past(AfterRcWifi)', rcEnabled', rcLocal' # <<>>
      PROVE  Contains(rcLocal', "wifi")
  <2>1. CASE AddWifiToRcLocal
    <3>1. rcLocal' = rcLocal /\ rcEnabled
      BY <1>3, <2>1 DEF AddWifiToRcLocal
    <3>2. EndsWith(rcLocal, "exit")
      BY <1>1, <1>3, <3>1 DEF RcLocalRuns, WellFormed, EndsWith
    <3>3. rcLocal # rcLocal' \/ Contains(rcLocal, "wifi")
      BY <1>3, <2>1, <3>2 DEF AddWifiToRcLocal
    <3> QED BY <3>1, <3>3
  <2>2. CASE WriteRcLocal
    BY <2>2 DEF WriteRcLocal, WifiDone
  <2>3. CASE Past(AfterRcWifi) /\ UNCHANGED <<rcLocal, rcEnabled>>
    BY <1>3, <2>3 DEF WifiDone
  <2> QED BY <1>3, <2>1, <2>2, <2>3, RunFrame
<1> QED BY <1>2, <1>3 DEF WifiDone

LEMMA DoneAlways == Spec => [](AppendsDone /\ FilesDone /\ PackagesDone /\ WifiDone)
<1>1. Init => AppendsDone /\ FilesDone /\ PackagesDone /\ WifiDone
  <2> SUFFICES ASSUME pc = "idle" PROVE AppendsDone /\ FilesDone /\ PackagesDone /\ WifiDone
    BY DEF Init
  <2> USE DEF Past, AfterNm, AfterWpaEnable, AfterWpaUnit, AfterWpaConf, AfterIfplugd,
              AfterNameserver, AfterRcWifi, AfterHostapdEnable, AfterHostapdConf, AfterSysctl,
              AfterInterfaces, AfterUdev, AfterPackages, AfterKeys, AfterRebootLine,
              AfterRestartDocker, AfterStartDocker, AfterSudoers
  <2>1. AppendsDone
    BY DEF AppendsDone
  <2>2. FilesDone
    BY DEF FilesDone
  <2>3. PackagesDone
    BY DEF PackagesDone
  <2>4. WifiDone
    BY DEF WifiDone
  <2> QED BY <2>1, <2>2, <2>3, <2>4
<1> QED
  BY <1>1, AppendsStep, FilesStep, PackagesStep, WifiStep, TypeCorrect, KeepsRcLocalRunning,
     PTL DEF Spec

\* Whatever earlier runs left out or were cut off in, a run that installs the dongle and
\* comes to its end with every download has the WiFi setup complete.
THEOREM RerunsConverge == Spec => []Converges
<1>1. ASSUME TypeOK, AtMostOnce, AppendsDone, FilesDone, PackagesDone, WifiDone
      PROVE  Converges
  <2> SUFFICES ASSUME pc = "reboot", dongle, online
               PROVE  /\ packages /\ Artifact \ {"hosts"} \subseteq written
                      /\ \A e \in OnceEntry \ {"ns8844"} : copies[e] = 1
                      /\ rcEnabled /\ rcLocal # <<>> => Contains(rcLocal, "wifi")
    BY <1>1 DEF Converges
  <2>1. packages /\ Artifact \ {"hosts"} \subseteq written
    BY <1>1 DEF Past, FilesDone, PackagesDone, Artifact
  <2>2. ASSUME NEW e \in OnceEntry \ {"ns8844"} PROVE copies[e] = 1
    <3>1. copies[e] \in Nat /\ copies[e] <= 1
      BY <1>1 DEF TypeOK, AtMostOnce, Entry
    <3>2. copies[e] >= 1
      BY <1>1 DEF Past, AppendsDone, PackagesDone, OnceEntry, CronEntry, WifiEntry
    <3> QED BY <3>1, <3>2
  <2>3. rcEnabled /\ rcLocal # <<>> => Contains(rcLocal, "wifi")
    BY <1>1 DEF Past, WifiDone
  <2> QED BY <2>1, <2>2, <2>3
<1> QED BY <1>1, DoneAlways, TypeCorrect, AddsOnce, PTL

(***************************************************************************)
(* What a rerun never makes up for.  Each part of the setup that has a     *)
(* guard of its own, with the steps that only the run that passes it takes *)
(* and those at which such a run was lost.                                 *)
(***************************************************************************)
AfterUnitCp == AfterRcWifi \cup {"unit_sed", "rc_wifi", "rc_write"}
AfterDnsmasqMv == AfterUnitCp \cup {"dnsmasq_tee", "hosts", "unit_cp"}
AfterSvcMkdir == {"svc_clone", "svc_install", "nm"}

CreationKept ==
  /\ ~rcExists => ~rcEnabled
  /\ pc \in CreationStep \/ missed \cap CreationStep # {} => rcExists /\ ~rcEnabled
  /\ pc \in CreationStep => missed \cap CreationStep = {}
  /\ rcExists /\ ~rcEnabled => pc \in CreationStep \/ missed \cap CreationStep # {}

DnsmasqConfKept ==
  /\ dnsmasqDist = "absent" =>
       /\ packages <=> dnsmasqConf # "absent"
       /\ pc \notin {"dnsmasq_tee", "hosts"} /\ missed \cap {"dnsmasq_tee", "hosts"} = {}
       /\ "hosts" \notin written
  /\ dnsmasqDist # "absent" =>
       /\ packages /\ dnsmasqConf # "distro"
       /\ dnsmasqConf = "station" <=> pc # "dnsmasq_tee" /\ "dnsmasq_tee" \notin missed
       /\ "hosts" \in written <=>
            pc \notin {"dnsmasq_tee", "hosts"} /\ missed \cap {"dnsmasq_tee", "hosts"} = {}
  /\ pc \in {"dnsmasq_tee", "hosts"} => missed \cap {"dnsmasq_tee", "hosts"} = {}
  /\ online /\ Past(AfterDnsmasqMv) => dnsmasqDist # "absent"

DnsmasqUnitKept ==
  /\ pc = "unit_sed" \/ "unit_sed" \in missed => dnsmasqUnit = "copied"
  /\ dnsmasqUnit = "copied" => pc = "unit_sed" \/ "unit_sed" \in missed
  /\ pc = "unit_sed" => "unit_sed" \notin missed
  /\ online /\ Past(AfterUnitCp) => dnsmasqUnit # "absent"

NameserversKept ==
  /\ pc = "ns8844" \/ "ns8844" \in missed => copies["ns8888"] >= 1 /\ copies["ns8844"] = 0
  /\ copies["ns8888"] >= 1 /\ copies["ns8844"] = 0 => pc = "ns8844" \/ "ns8844" \in missed
  /\ pc = "ns8844" => "ns8844" \notin missed

ServiceKept ==
  /\ wifiService = "absent" =>
       pc \notin {"svc_clone", "svc_install"} /\ missed \cap {"svc_clone", "svc_install"} = {}
  /\ wifiService = "installed" =>
       pc \notin {"svc_clone", "svc_install"} /\ missed \cap {"svc_clone", "svc_install"} = {}
  /\ wifiService \in {"empty", "cloned"} =>
       pc \in {"svc_clone", "svc_install"} \/ missed \cap {"svc_clone", "svc_install"} # {}
  /\ pc = "svc_clone" =>
       wifiService = "empty" /\ missed \cap {"svc_clone", "svc_install"} = {}
  /\ pc = "svc_install" =>
       "svc_install" \notin missed /\ (wifiService = "empty" <=> "svc_clone" \in missed)
  /\ Past(AfterSvcMkdir) => wifiService # "absent"

\* None of the steps is begun, ended or lost.
SameMissed(steps) ==
  /\ missed' \cap steps = missed \cap steps
  /\ pc' = pc \/ {pc, pc'} \cap steps = {}

\* Who else does what.
LEMMA KeptFrame ==
  ASSUME [Next]_vars
  PROVE  /\ \/ CreateRcLocal \/ ChmodRcLocal \/ EnableRcLocal \/ Interrupt
            \/ AppendToRcLocal("blank", "rc_blank", "rc_exit")
            \/ AppendToRcLocal("exit", "rc_exit", "rc_chmod")
            \/ /\ UNCHANGED <<rcExists, rcEnabled>> /\ SameMissed(CreationStep)
         /\ \/ InstallPackages \/ SaveDnsmasqConf \/ WriteDnsmasqConf \/ Interrupt
            \/ Overwrite("hosts", "unit_cp")
            \/ /\ UNCHANGED <<dnsmasqConf, dnsmasqDist, packages>>
               /\ "hosts" \in written' <=> "hosts" \in written
               /\ SameMissed({"dnsmasq_tee", "hosts"})
         /\ \/ CopyDnsmasqUnit \/ PatchDnsmasqUnit \/ Interrupt
            \/ UNCHANGED dnsmasqUnit /\ SameMissed({"unit_sed"})
         /\ \/ AppendFirstNameserver \/ AppendSecondNameserver \/ Interrupt
            \/ SameMissed({"ns8844"})
         /\ \/ MakeServiceDir \/ CloneService \/ InstallService \/ Interrupt
            \/ UNCHANGED wifiService /\ SameMissed({"svc_clone", "svc_install"})
         /\ /\ Past(AfterDnsmasqMv)' => Past(AfterDnsmasqMv) \/ SaveDnsmasqConf
            /\ Past(AfterUnitCp)' => Past(AfterUnitCp) \/ CopyDnsmasqUnit
            /\ Past(AfterSvcMkdir)' => Past(AfterSvcMkdir) \/ MakeServiceDir
<1> USE DEF Goto, Next, vars, control, rcFile, dockerVars, dnsmasq, ScriptStep, Interrupt,
             SwarmDeploysImage, StartRun, ChooseLocation, Reboot, GuardedAppend, Overwrite,
             OverwriteOfPackage, RcFileStep, CreateRcLocal, AppendToRcLocal,
             ChmodRcLocal, EnableRcLocal, AddAudioReceiver, AddWifiToRcLocal,
             WriteRcLocal, AddKeys, InstallDocker, JoinSwarm, UsbCamStep, AskUsbCam,
             RunUsbCam, AskDongle, InstallPackages, AppendDaemonConf, DnsmasqStep,
             SaveDnsmasqConf, WriteDnsmasqConf, CopyDnsmasqUnit, PatchDnsmasqUnit,
             AppendFirstNameserver, AppendSecondNameserver, ServiceStep,
             MakeServiceDir, CloneService, InstallService
<1>1. \/ CreateRcLocal \/ ChmodRcLocal \/ EnableRcLocal \/ Interrupt
      \/ AppendToRcLocal("blank", "rc_blank", "rc_exit")
      \/ AppendToRcLocal("exit", "rc_exit", "rc_chmod")
      \/ /\ UNCHANGED <<rcExists, rcEnabled>> /\ SameMissed(CreationStep)
  BY DEF SameMissed, CreationStep
<1>2. \/ InstallPackages \/ SaveDnsmasqConf \/ WriteDnsmasqConf \/ Interrupt
      \/ Overwrite("hosts", "unit_cp")
      \/ /\ UNCHANGED <<dnsmasqConf, dnsmasqDist, packages>>
         /\ "hosts" \in written' <=> "hosts" \in written
         /\ SameMissed({"dnsmasq_tee", "hosts"})
  BY DEF SameMissed
<1>3. \/ CopyDnsmasqUnit \/ PatchDnsmasqUnit \/ Interrupt
      \/ UNCHANGED dnsmasqUnit /\ SameMissed({"unit_sed"})
  BY DEF SameMissed
<1>4. \/ AppendFirstNameserver \/ AppendSecondNameserver \/ Interrupt
      \/ SameMissed({"ns8844"})
  BY DEF SameMissed
<1>5. \/ MakeServiceDir \/ CloneService \/ InstallService \/ Interrupt
      \/ UNCHANGED wifiService /\ SameMissed({"svc_clone", "svc_install"})
  BY DEF SameMissed
<1>6. /\ Past(AfterDnsmasqMv)' => Past(AfterDnsmasqMv) \/ SaveDnsmasqConf
      /\ Past(AfterUnitCp)' => Past(AfterUnitCp) \/ CopyDnsmasqUnit
      /\ Past(AfterSvcMkdir)' => Past(AfterSvcMkdir) \/ MakeServiceDir
  BY DEF Past, AfterSvcMkdir, AfterUnitCp, AfterDnsmasqMv, AfterRcWifi, AfterNameserver,
     AfterIfplugd, AfterWpaConf, AfterWpaUnit
<1> QED BY <1>1, <1>2, <1>3, <1>4, <1>5, <1>6

LEMMA CreationStepKept == CreationKept /\ [Next]_vars => CreationKept'
<1> SUFFICES ASSUME CreationKept, [Next]_vars PROVE CreationKept'
  OBVIOUS
<1>1. CASE CreateRcLocal
  BY <1>1 DEF CreationKept, CreationStep, CreateRcLocal, RcFileStep, control, Goto
<1>2. CASE AppendToRcLocal("blank", "rc_blank", "rc_exit")
  BY <1>2 DEF CreationKept, CreationStep, AppendToRcLocal, RcFileStep, control, Goto
<1>3. CASE AppendToRcLocal("exit", "rc_exit", "rc_chmod")
  BY <1>3 DEF CreationKept, CreationStep, AppendToRcLocal, RcFileStep, control, Goto
<1>4. CASE ChmodRcLocal
  BY <1>4 DEF CreationKept, CreationStep, ChmodRcLocal, RcFileStep, control, Goto
<1>5. CASE EnableRcLocal
  BY <1>5 DEF CreationKept, CreationStep, EnableRcLocal, RcFileStep, control, Goto
<1>6. CASE Interrupt
  BY <1>6 DEF CreationKept, CreationStep, OneTimeStep, Interrupt, Goto
<1>7. CASE UNCHANGED <<rcExists, rcEnabled>> /\ SameMissed(CreationStep)
  BY <1>7 DEF CreationKept, SameMissed
<1> QED BY <1>1, <1>2, <1>3, <1>4, <1>5, <1>6, <1>7, KeptFrame

LEMMA DnsmasqConfStepKept ==
  TypeOK /\ PackagesDone /\ DnsmasqConfKept /\ [Next]_vars => DnsmasqConfKept'
<1> SUFFICES ASSUME TypeOK, PackagesDone, DnsmasqConfKept, [Next]_vars
             PROVE  DnsmasqConfKept'
  OBVIOUS
<1> DEFINE steps == {"dnsmasq_tee", "hosts"}
           Files ==
             /\ dnsmasqDist = "absent" =>
                  /\ packages <=> dnsmasqConf # "absent"
                  /\ pc \notin steps /\ missed \cap steps = {}
                  /\ "hosts" \notin written
             /\ dnsmasqDist # "absent" =>
                  /\ packages /\ dnsmasqConf # "distro"
                  /\ dnsmasqConf = "station" <=> pc # "dnsmasq_tee" /\ "dnsmasq_tee" \notin missed
                  /\ "hosts" \in written <=> pc \notin steps /\ missed \cap steps = {}
             /\ pc \in steps => missed \cap steps = {}
<1>1. Files
  BY DEF DnsmasqConfKept
<1>2. dnsmasqConf \in {"absent", "distro", "station"}
  BY DEF TypeOK, SettingsOK
<1>3. Files'
  <2>1. CASE InstallPackages
    BY <1>1, <2>1 DEF InstallPackages, Goto
  <2>2. CASE SaveDnsmasqConf
    BY <1>1, <2>2 DEF SaveDnsmasqConf, DnsmasqStep, control, Goto
  <2>3. CASE WriteDnsmasqConf
    BY <1>1, <2>3 DEF WriteDnsmasqConf, DnsmasqStep, control, Goto
  <2>4. CASE Overwrite("hosts", "unit_cp")
    BY <1>1, <2>4 DEF Overwrite, dnsmasq, control, Goto
  <2>5. CASE Interrupt
    BY <1>1, <1>2, <2>5 DEF Interrupt, OneTimeStep, CreationStep, dnsmasq, Goto
  <2>6. CASE /\ UNCHANGED <<dnsmasqConf, dnsmasqDist, packages>>
             /\ "hosts" \in written' <=> "hosts" \in written
             /\ SameMissed({"dnsmasq_tee", "hosts"})
    BY <1>1, <2>6 DEF SameMissed
  <2> QED BY <2>1, <2>2, <2>3, <2>4, <2>5, <2>6, KeptFrame
<1>4. ASSUME online', Past(AfterDnsmasqMv)' PROVE dnsmasqDist' # "absent"
  <2>1. online
    BY <1>4, RunFrame DEF Past, AfterDnsmasqMv, AfterUnitCp, AfterRcWifi, AfterNameserver,
       AfterIfplugd, AfterWpaConf, AfterWpaUnit
  <2>2. dnsmasqDist # "absent" => dnsmasqDist' # "absent"
    BY KeptFrame DEF InstallPackages, SaveDnsmasqConf, WriteDnsmasqConf, Overwrite, Interrupt,
       dnsmasq
  <2>3. CASE SaveDnsmasqConf
    <3>1. packages
      BY <2>1, <2>3 DEF SaveDnsmasqConf, PackagesDone, Past, AfterPackages, AfterUdev,
         AfterInterfaces
    <3> QED BY <1>1, <2>2, <2>3, <3>1 DEF SaveDnsmasqConf
  <2> QED BY <1>4, <2>1, <2>2, <2>3, KeptFrame DEF DnsmasqConfKept
<1> QED BY <1>3, <1>4 DEF DnsmasqConfKept

LEMMA DnsmasqUnitStepKept ==
  TypeOK /\ PackagesDone /\ DnsmasqUnitKept /\ [Next]_vars => DnsmasqUnitKept'
<1> SUFFICES ASSUME TypeOK, PackagesDone, DnsmasqUnitKept, [Next]_vars
             PROVE  DnsmasqUnitKept'
  OBVIOUS
<1> DEFINE Unit ==
             /\ pc = "unit_sed" \/ "unit_sed" \in missed => dnsmasqUnit = "copied"
             /\ dnsmasqUnit = "copied" => pc = "unit_sed" \/ "unit_sed" \in missed
             /\ pc = "unit_sed" => "unit_sed" \notin missed
<1>1. Unit
  BY DEF DnsmasqUnitKept
<1>2. Unit'
  <2>1. CASE CopyDnsmasqUnit
    BY <1>1, <2>1 DEF CopyDnsmasqUnit, DnsmasqStep, control, Goto
  <2>2. CASE PatchDnsmasqUnit
    BY <1>1, <2>2 DEF PatchDnsmasqUnit, DnsmasqStep, control, Goto
  <2>3. CASE Interrupt
    BY <1>1, <2>3 DEF Interrupt, OneTimeStep, dnsmasq, Goto
  <2>4. CASE UNCHANGED dnsmasqUnit /\ SameMissed({"unit_sed"})
    BY <1>1, <2>4 DEF SameMissed
  <2> QED BY <2>1, <2>2, <2>3, <2>4, KeptFrame
<1>3. ASSUME online', Past(AfterUnitCp)' PROVE dnsmasqUnit' # "absent"
  <2>1. online
    BY <1>3, RunFrame DEF Past, AfterUnitCp, AfterRcWifi, AfterNameserver, AfterIfplugd,
       AfterWpaConf, AfterWpaUnit
  <2>2. dnsmasqUnit # "absent" => dnsmasqUnit' # "absent"
    BY KeptFrame DEF CopyDnsmasqUnit, PatchDnsmasqUnit, Interrupt, dnsmasq
  <2>3. CASE CopyDnsmasqUnit
    <3>1. packages
      BY <2>1, <2>3 DEF CopyDnsmasqUnit, PackagesDone, Past, AfterPackages, AfterUdev,
         AfterInterfaces
    <3> QED BY <2>2, <2>3, <3>1 DEF CopyDnsmasqUnit
  <2> QED BY <1>3, <2>1, <2>2, <2>3, KeptFrame DEF DnsmasqUnitKept
<1> QED BY <1>2, <1>3 DEF DnsmasqUnitKept

LEMMA ServiceStepKept == TypeOK /\ ServiceKept /\ [Next]_vars => ServiceKept'
<1> SUFFICES ASSUME TypeOK, ServiceKept, [Next]_vars PROVE ServiceKept'
  OBVIOUS
<1>1. wifiService \in {"absent", "empty", "cloned", "installed"}
  BY DEF TypeOK, SettingsOK
<1>2. CASE MakeServiceDir
  BY <1>1, <1>2 DEF ServiceKept, MakeServiceDir, Goto
<1>3. CASE CloneService
  BY <1>1, <1>3 DEF ServiceKept, CloneService, Goto
<1>4. CASE InstallService
  BY <1>1, <1>4 DEF ServiceKept, InstallService, Goto
<1>5. CASE Interrupt
  BY <1>1, <1>5 DEF ServiceKept, Interrupt, OneTimeStep, Past, AfterSvcMkdir, Goto
<1>6. CASE UNCHANGED wifiService /\ SameMissed({"svc_clone", "svc_install"})
  <2>1. Past(AfterSvcMkdir)' => wifiService' # "absent"
    <3>1. MakeServiceDir => wifiService' # "absent"
      BY DEF MakeServiceDir
    <3> QED BY <1>6, <3>1, KeptFrame DEF ServiceKept
  <2> QED BY <1>6, <2>1 DEF ServiceKept, SameMissed
<1> QED BY <1>2, <1>3, <1>4, <1>5, <1>6, KeptFrame


LEMMA NameserverFrame ==
  ASSUME TypeOK, [Next]_vars, ~AppendFirstNameserver, ~AppendSecondNameserver
  PROVE  copies'["ns8888"] = copies["ns8888"] /\ copies'["ns8844"] = copies["ns8844"]
<1>1. copies \in [Entry -> Nat] /\ "ns8888" \in Entry /\ "ns8844" \in Entry
  BY DEF TypeOK, Entry, OnceEntry, WifiEntry
<1>2. ASSUME NEW e \in OnceEntry \ {"ns8888", "ns8844"}, NEW next \in Step,
             GuardedAppend(e, next)
      PROVE  copies'["ns8888"] = copies["ns8888"] /\ copies'["ns8844"] = copies["ns8844"]
  BY <1>1, <1>2 DEF GuardedAppend
<1>3. CASE AddKeys
  BY <1>1, <1>3, KeysAssumption DEF AddKeys, WifiEntry
<1>4. CASE AppendDaemonConf
  BY <1>1, <1>4 DEF AppendDaemonConf
<1> QED BY <1>2, <1>3, <1>4, CopiesFrame

LEMMA NameserversStepKept ==
  TypeOK /\ OnceInv /\ NameserversKept /\ [Next]_vars => NameserversKept'
<1> SUFFICES ASSUME TypeOK, OnceInv, NameserversKept, [Next]_vars
             PROVE  NameserversKept'
  OBVIOUS
<1>1. /\ copies \in [Entry -> Nat] /\ "ns8888" \in Entry /\ "ns8844" \in Entry
      /\ copies["ns8888"] \in Nat /\ copies["ns8844"] \in Nat
  BY DEF TypeOK, Entry, OnceEntry, WifiEntry
<1>2. CASE AppendFirstNameserver
  <2>1. CASE copies["ns8888"] = 0 /\ packages
    <3>1. /\ copies' = [copies EXCEPT !["ns8888"] = 1]
          /\ pc' = "ns8844" /\ missed' = missed
      BY <1>2, <2>1 DEF AppendFirstNameserver, Goto, control
    <3>2. copies'["ns8888"] = 1 /\ copies'["ns8844"] = copies["ns8844"]
      BY <1>1, <3>1
    <3>3. "ns8844" \notin missed
      BY <1>1, <2>1 DEF NameserversKept
    <3>4. copies["ns8844"] = 0
      BY <1>1, <2>1 DEF OnceInv
    <3> QED BY <3>1, <3>2, <3>3, <3>4 DEF NameserversKept
  <2>2. CASE copies["ns8888"] # 0 \/ ~packages
    <3>1. copies' = copies /\ pc' = "ifplugd" /\ pc = "ns8888" /\ missed' = missed
      BY <1>2, <2>2 DEF AppendFirstNameserver, Goto, control
    <3> QED BY <3>1 DEF NameserversKept
  <2> QED BY <2>1, <2>2
<1>3. CASE AppendSecondNameserver
  <2>1. /\ copies' = [copies EXCEPT !["ns8844"] = @ + 1] /\ pc = "ns8844"
        /\ pc' = "ifplugd" /\ missed' = missed
    BY <1>3 DEF AppendSecondNameserver, Goto, control
  <2>2. copies'["ns8844"] = 1
    BY <1>1, <2>1 DEF NameserversKept
  <2> QED BY <2>1, <2>2 DEF NameserversKept
<1>4. CASE Interrupt
  BY <1>1, <1>4 DEF NameserversKept, Interrupt, OneTimeStep, Goto
<1>5. CASE SameMissed({"ns8844"}) /\ ~AppendFirstNameserver /\ ~AppendSecondNameserver
  BY <1>5, NameserverFrame DEF NameserversKept, SameMissed
<1> QED BY <1>2, <1>3, <1>4, <1>5, KeptFrame

(***************************************************************************)
(* The lines of rc.local, once it is there.                                *)
(***************************************************************************)
RewriteKept ==
  /\ rcExists => (rcLocal = <<>> <=> pc = "rc_write" \/ "rc_write" \in missed)
  /\ pc = "rc_write" => newRc # <<>> /\ "rc_write" \notin missed
  /\ pc \in CreationStep => rcLocal # <<>>
  /\ pc = "rc_write" \/ "rc_write" \in missed => rcExists

LEMMA LinesFrame ==
  ASSUME [Next]_vars
  PROVE  \/ CreateRcLocal \/ AddAudioReceiver \/ AddWifiToRcLocal \/ WriteRcLocal \/ Interrupt
         \/ AppendToRcLocal("blank", "rc_blank", "rc_exit")
         \/ AppendToRcLocal("exit", "rc_exit", "rc_chmod")
         \/ /\ UNCHANGED <<rcExists, rcLocal, newRc>> /\ SameMissed({"rc_write"})
            /\ pc' \in CreationStep => pc \in CreationStep
BY DEF SameMissed, CreationStep, Goto, Next, vars, control, rcFile, dockerVars, dnsmasq, ScriptStep, Interrupt,
             SwarmDeploysImage, StartRun, ChooseLocation, Reboot, GuardedAppend, Overwrite,
             OverwriteOfPackage, RcFileStep, CreateRcLocal, AppendToRcLocal,
             ChmodRcLocal, EnableRcLocal, AddAudioReceiver, AddWifiToRcLocal,
             WriteRcLocal, AddKeys, InstallDocker, JoinSwarm, UsbCamStep, AskUsbCam,
             RunUsbCam, AskDongle, InstallPackages, AppendDaemonConf, DnsmasqStep,
             SaveDnsmasqConf, WriteDnsmasqConf, CopyDnsmasqUnit, PatchDnsmasqUnit,
             AppendFirstNameserver, AppendSecondNameserver, ServiceStep,
             MakeServiceDir, CloneService, InstallService

LEMMA SedKeepsEmpty ==
  ASSUME NEW rc \in Seq(Line)
  PROVE  SedInsertAudio(rc) = <<>> <=> rc = <<>>
<1> SUFFICES ASSUME rc # <<>> PROVE SedInsertAudio(rc) # <<>>
  BY DEF SedInsertAudio
<1> DEFINE front == AllButLast(rc)
           back == <<"audio", "blank", rc[Len(rc)]>>
<1>1. rc[Len(rc)] \in Line
  OBVIOUS
<1>2. front \in Seq(Line) /\ back \in Seq(Line) /\ Len(front) \in Nat /\ Len(back) = 3
  BY <1>1 DEF AllButLast, Line
<1> HIDE DEF front, back
<1>3. Len(front \o back) = Len(front) + Len(back)
  BY <1>2, ConcatProperties
<1>4. Len(front \o back) # 0
  BY <1>2, <1>3
<1>5. front \o back # <<>>
  BY <1>4
<1> QED BY <1>5 DEF SedInsertAudio, front, back

LEMMA RewriteStepKept == TypeOK /\ RewriteInv /\ RewriteKept /\ [Next]_vars => RewriteKept'
<1> SUFFICES ASSUME TypeOK, RewriteInv, RewriteKept, [Next]_vars PROVE RewriteKept'
  OBVIOUS
<1>1. rcLocal \in Seq(Line) /\ rcLocal' \in Seq(Line)
  BY RcType DEF TypeOK
<1>2. CASE CreateRcLocal
  BY <1>2 DEF CreateRcLocal, RewriteKept, RcFileStep, control, CreationStep, Goto
<1>3. ASSUME NEW line \in Line, NEW step, NEW next, AppendToRcLocal(line, step, next),
             step \in CreationStep, next # "rc_write"
      PROVE  RewriteKept'
  <2>1. rcLocal' # <<>>
    BY <1>1, <1>3 DEF AppendToRcLocal
  <2> QED BY <1>3, <2>1 DEF AppendToRcLocal, RewriteKept, RcFileStep, control, CreationStep, Goto
<1>4. CASE AddAudioReceiver
  <2>1. rcLocal' = <<>> <=> rcLocal = <<>>
    <3>1. CASE rcLocal' = rcLocal
      BY <3>1
    <3>2. CASE rcLocal' = SedInsertAudio(rcLocal)
      BY <1>1, <3>2, SedKeepsEmpty
    <3> QED BY <1>4, <3>1, <3>2 DEF AddAudioReceiver
  <2> QED BY <1>4, <2>1 DEF AddAudioReceiver, RewriteKept, RcFileStep, control, CreationStep, Goto
<1>5. CASE AddWifiToRcLocal
  <2>1. CASE EndsWith(rcLocal, "exit") /\ newRc' = WithWifi(rcLocal) /\ rcLocal' = <<>>
             /\ pc' = "rc_write"
    <3>1. rcLocal # <<>>
      BY <2>1 DEF EndsWith
    <3>2. WithWifi(rcLocal) # <<>>
      <4>1. Contains(WithWifi(rcLocal), "wifi")
        BY <1>1, <3>1, WithWifiContains
      <4> QED BY <4>1 DEF Contains
    <3>3. rcExists
      BY <3>1 DEF RewriteInv
    <3> QED BY <1>5, <2>1, <3>1, <3>2, <3>3
            DEF AddWifiToRcLocal, RewriteKept, control, CreationStep
  <2>2. CASE UNCHANGED <<newRc, rcLocal>> /\ pc' = "ns8888"
    BY <1>5, <2>2 DEF AddWifiToRcLocal, RewriteKept, control, CreationStep
  <2> QED BY <1>5, <2>1, <2>2 DEF AddWifiToRcLocal, Goto
<1>6. CASE WriteRcLocal
  BY <1>6 DEF WriteRcLocal, RewriteKept, control, CreationStep, Goto
<1>7. CASE Interrupt
  BY <1>7 DEF Interrupt, RewriteKept, OneTimeStep, CreationStep, Goto
<1>8. CASE /\ UNCHANGED <<rcExists, rcLocal, newRc>> /\ SameMissed({"rc_write"})
           /\ pc' \in CreationStep => pc \in CreationStep
  BY <1>8 DEF RewriteKept, SameMissed
<1> QED
  <2>1. "blank" \in Line /\ "exit" \in Line /\ {"rc_blank", "rc_exit"} \subseteq CreationStep
    BY DEF Line, CreationStep
  <2> QED BY <1>2, <1>3, <1>4, <1>5, <1>6, <1>7, <1>8, <2>1, LinesFrame

LEMMA KeptAlways ==
  Spec => [](/\ RewriteInv /\ CreationKept /\ RewriteKept /\ DnsmasqConfKept
             /\ DnsmasqUnitKept /\ NameserversKept /\ ServiceKept)
<1>1. Init => /\ RewriteInv /\ CreationKept /\ RewriteKept /\ DnsmasqConfKept
              /\ DnsmasqUnitKept /\ NameserversKept /\ ServiceKept
  <2> SUFFICES ASSUME Init
               PROVE  /\ RewriteInv /\ CreationKept /\ RewriteKept /\ DnsmasqConfKept
                      /\ DnsmasqUnitKept /\ NameserversKept /\ ServiceKept
    OBVIOUS
  <2>1. RewriteInv /\ CreationKept /\ RewriteKept
    BY DEF Init, RewriteInv, Early, CreationKept, RewriteKept, CreationStep
  <2>2. DnsmasqConfKept /\ DnsmasqUnitKept /\ ServiceKept
    BY DEF Init, DnsmasqConfKept, DnsmasqUnitKept, ServiceKept, Past, AfterSvcMkdir,
           AfterDnsmasqMv, AfterUnitCp, AfterRcWifi, AfterNameserver, AfterIfplugd,
           AfterWpaConf, AfterWpaUnit
  <2>3. NameserversKept
    BY DEF Init, NameserversKept, Entry, OnceEntry, WifiEntry
  <2> QED BY <2>1, <2>2, <2>3
<1> QED
  BY <1>1, RewriteStep, CreationStepKept, RewriteStepKept, DnsmasqConfStepKept,
     DnsmasqUnitStepKept, NameserversStepKept, ServiceStepKept, TypeCorrect, OnceAlways,
     DoneAlways, PTL DEF Spec

\* A run that comes to its end with every download finds each part of the setup that has
\* a guard of its own as complete as the run that passed that guard left it: it is there
\* exactly if no step that only that run comes to was cut off or failed.
THEOREM OnlyMissedLacks == Spec => []OnlyMissedIsLacking
<1>1. ASSUME TypeOK, OnceInv, PackagesDone, RewriteInv, CreationKept, RewriteKept,
             DnsmasqConfKept, DnsmasqUnitKept, NameserversKept, ServiceKept
      PROVE  OnlyMissedIsLacking
  <2> SUFFICES ASSUME pc = "reboot", dongle, online
      PROVE  /\ rcEnabled <=> missed \cap CreationStep = {}
             /\ rcLocal # <<>> <=> "rc_write" \notin missed
             /\ dnsmasqConf = "station" <=> "dnsmasq_tee" \notin missed
             /\ "hosts" \in written <=> missed \cap {"dnsmasq_tee", "hosts"} = {}
             /\ dnsmasqUnit = "patched" <=> "unit_sed" \notin missed
             /\ copies["ns8844"] = 1 <=> "ns8844" \notin missed
             /\ wifiService = "installed" <=> missed \cap {"svc_clone", "svc_install"} = {}
    BY <1>1 DEF OnlyMissedIsLacking
  <2>1. rcExists /\ pc \notin CreationStep
    BY <1>1 DEF RewriteInv, Early, CreationStep
  <2>2. rcEnabled <=> missed \cap CreationStep = {}
    BY <1>1, <2>1 DEF CreationKept
  <2>3. rcLocal # <<>> <=> "rc_write" \notin missed
    BY <1>1, <2>1 DEF RewriteKept
  <2>4. /\ dnsmasqConf = "station" <=> "dnsmasq_tee" \notin missed
        /\ "hosts" \in written <=> missed \cap {"dnsmasq_tee", "hosts"} = {}
    BY <1>1 DEF DnsmasqConfKept, Past
  <2>5. dnsmasqUnit = "patched" <=> "unit_sed" \notin missed
    BY <1>1 DEF DnsmasqUnitKept, Past, TypeOK, SettingsOK
  <2>6. copies["ns8844"] = 1 <=> "ns8844" \notin missed
    <3>1. copies["ns8888"] >= 1
      BY <1>1 DEF PackagesDone, Past
    <3>2. copies["ns8844"] \in Nat /\ copies["ns8844"] <= 1
      BY <1>1 DEF TypeOK, OnceInv, AtMostOnce, Entry, OnceEntry, WifiEntry
    <3> QED BY <1>1, <3>1, <3>2 DEF NameserversKept
  <2>7. wifiService = "installed" <=> missed \cap {"svc_clone", "svc_install"} = {}
    BY <1>1 DEF ServiceKept, Past, TypeOK, SettingsOK
  <2> QED BY <2>2, <2>3, <2>4, <2>5, <2>6, <2>7
<1> QED BY <1>1, KeptAlways, OnceAlways, DoneAlways, TypeCorrect, PTL
=============================================================================
