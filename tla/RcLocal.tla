------------------------------- MODULE RcLocal -------------------------------
(***************************************************************************)
(* The file /etc/rc.local as the provisioning scripts edit it.  systemd    *)
(* runs it at boot through rc-local.service, so what matters about it is   *)
(* which lines come before its "exit 0" and whether it still starts with   *)
(* its "#!" line.  The file is a sequence of lines; the fourteen lines of  *)
(* wifi_rclocal_config.txt always travel together and are one element.     *)
(***************************************************************************)
EXTENDS Naturals, Sequences

\* "sh" is the #!/bin/sh -e line, "audio" the line that starts the Jibo audio
\* receiver, "wifi" the block that sets up NAT, "exit" the line "exit 0".
Line == {"sh", "blank", "audio", "wifi", "exit"}

Contains(rc, line) == \E i \in DOMAIN rc : rc[i] = line

\* tail -1 | test = line.  The last line of an empty file is the empty string.
EndsWith(rc, line) == rc # <<>> /\ rc[Len(rc)] = line

\* head -n -1: everything but the last line.
AllButLast(rc) == SubSeq(rc, 1, Len(rc) - 1)

\* sed -i '$i \LINE\n': the line and an empty one go in front of the last
\* line; sed never reaches an address in an empty file, which stays empty.
SedInsertAudio(rc) ==
  IF rc = <<>> THEN rc
  ELSE AllButLast(rc) \o <<"audio", "blank", rc[Len(rc)]>>

\* Mutant: the last line stays where it is.
WithWifiAfterExit(rc) == rc \o <<"wifi", "blank", "exit">>

\* Mutant: the file is written from scratch.
WithWifiAlone(rc) == <<"sh", "blank", "wifi", "blank", "exit">>

\* NEW_RC_LOCAL: the wifi block, an empty line and "exit 0" replace the last line.
WithWifi(rc) == AllButLast(rc) \o <<"wifi", "blank", "exit">>

\* A file the kernel can execute and that runs every line put into it: the "#!"
\* line comes first, and "exit 0" comes last and nowhere else.
WellFormed(rc) ==
  /\ rc[1] = "sh"
  /\ \A i \in DOMAIN rc : rc[i] = "exit" <=> i = Len(rc)

\* At most one copy of the line.
AtMostOne(rc, line) ==
  \A i, j \in DOMAIN rc : rc[i] = line /\ rc[j] = line => i = j

=============================================================================
