# Specifications of the S02 station setup

The repository sets up and runs Intel NUC "stations" for a social-robot study: shell
scripts install a station, rename a cloned one, put its docker containers in place and
launch sessions, and a ROS node records audio. None of these is covered by a test. What
goes wrong in such code goes wrong between the steps: a run that is cut off and started
again, two scripts in two terminals, an engine that restarts, threads that end in the
wrong order. These TLA+ modules model that.

The repository also carries an unmodified CPython 3.7.4, the interpreter that
`teleop_station_setup.sh` (lines 10-23) builds for the stations and that their controllers,
programs of many threads, run on. Of it the modules take what is concurrent at its core:
the global interpreter lock, the pending calls and signals, and the queue that threads
hand items over with.

1. [Inventory](#1-inventory)
2. [Modules](#2-modules)
3. [Runs, bounds and fairness](#3-runs-bounds-and-fairness)
4. [Proofs](#4-proofs)
5. [Disagreements between code and documents](#5-disagreements-between-code-and-documents)
6. [What is not modelled](#6-what-is-not-modelled)
7. [Plan](#7-plan)

How to run: `tlc -config X.cfg M` checks module `M` (table in section 3);
`tlapm M.tla` checks the proofs of each module `...Proofs`.

## 1. Inventory

| part | source | state it keeps | operations | what makes it correct |
|---|---|---|---|---|
| NUC installer | `install_nuc10.sh` | the station's files: sudoers, rc.local, root's crontab, authorized_keys, interfaces, sysctl, hostapd, dnsmasq, resolvconf, wpa_supplicant, the WiFi service; docker and its swarm | about forty steps, no `set -e`, guards of their own | a rerun adds nothing twice, loses no original, leaves a file that boots, repairs what is missing; NetworkManager is not taken away before what replaces it is there |
| Ubuntu 16 installer | `install_nuc.sh` | the same | the same, its WiFi section behind one guard | the same |
| post-clone | `post-clone.sh`, `switch_swarm.sh` | three files with the name, the kernel's name, the swarm membership, the camera, root's crontab | rename, leave and join, set up the camera, cron, remote desktops | one name everywhere; a node of its own in the chosen swarm; the crontab as the run leaves it |
| container setup | `setup_usb-cam.sh`, `setup_mic-launcher.sh`, `setup_local-containers.sh`, `setup_data-tardis.sh` | the docker engine's containers and images | `docker rm -f`, wait for an image, `docker run` | no container is lost, each comes back by its restart policy |
| launchers | `src/dyadic-interaction`, `src/triadic-interaction` | a container without a name | parse arguments, `docker run` | the image, command and restart policy asked for |
| bulk setup | `bulk-nuc-setup.sh` | none | over ssh on every station: `docker system prune -a` | does not take away what a station needs |
| remote commands | `src/s02-machine-commands.sh` | none of its own | ssh through expect, wait for a robot that reboots, install keys and scripts | success means done; a wait ends, and not too early |
| audio capture | `family_setup/audio_capture.cpp` | pipeline, main loop, three threads | build, play, sample, error, shutdown | no thread uses what is gone; an error or a shutdown ends the node |
| audio receiver | `src/jibo-audio-streaming-receiver.sh` | none | restart gst-launch for ever | started once, by rc.local |
| monitor | `src/s02-docker_monitor`, `src/docker-ros` | none | windows on the containers' logs | - |
| family setup | `family_setup/*.sh`, `*.launch`, `register_participants.py` | pulse, v4l2 and bashrc files; a remote database | straight-line scripts | - |
| teleop setup | `teleop_station_setup.sh` | packages, repositories | straight-line script | - |
| data | `rc-local.service`, `wpa_supplicant.service.nuc10`, `wifi_rclocal_config.txt`, router backups, VPN archive | - | copied or unpacked | - |
| interpreter: global lock | `Python-3.7.4/Python/ceval_gil.h`, `ceval.c` | the lock and who had it last, two mutexes with a condition each, gil_drop_request, eval_breaker, the flags behind it | take, drop, ask for a drop, force a switch, recompute the flag, start and end threads, fork, finalize | one holder; every request obeyed by somebody and made by somebody; no wake-up lost |
| interpreter: pending calls and signals | `ceval.c`, `Modules/signalmodule.c` | a ring of calls and its lock, calls_to_do, is_tripped and a flag for each signal | add a call from any thread or handler, make the calls, trip a signal, check signals | each call made once and in order; nothing left unannounced, however the calls nest; no handler waits for the thread that it stopped |
| interpreter: SimpleQueue | `Modules/_queuemodule.c` | a list with a position, a lock, locked | put, get with or without a timeout | first in first out; no getter asleep beside an item; a timeout is kept |
| interpreter: all else | the rest of `Python-3.7.4` | - | - | - |

How they interact:

- The installer, `post-clone.sh` and the operator's reruns of both write the same files
  (`hostapd.conf`, root's crontab). Nothing locks them; the model lets the installer run
  between two runs of `post-clone.sh`.
- The installer and `post-clone.sh` both call `setup_usb-cam.sh`, which waits for an image
  that only the manager of the swarm sends, so the wait depends on the swarm step before it.
- The setup scripts share the docker engine with one another, with cron (installed by the
  installer) and with `bulk-nuc-setup.sh`, which comes from another machine.
- The installer writes the line that starts the audio receiver into `rc.local`, and later
  rewrites the whole file to add the WiFi block.
- The eval loop looks at one flag, `eval_breaker`, which the global lock, signal handlers,
  pending calls and asynchronous exceptions all set and all recompute; `Gil` has that flag
  and what feeds it, `PendingCalls` what the eval loop then finds to do. A `get` of a
  `SimpleQueue` gives the global lock up to wait, and runs the pending calls when a signal
  interrupts it.
- In `audio_capture`, gstreamer's streaming thread and GLib's loop thread call back into an
  object that the main thread owns.

Behaviours that are hard: runs cut off at any step and repeated (all scripts); downloads
that fail while the script goes on; guards that test one thing and protect several; scripts
that overlap on one container name; prune and engine restarts between a query and its use;
waits that only someone else can end; threads that are not joined; flags that are read and
stored without a lock; a handler that stops the thread whose lock it wants; wake-ups that
are sent once. `PROJECT.json` lists
them one by one ("hazards"), each with the properties that would notice.

## 2. Modules

| module | models | extends |
|---|---|---|
| `RcLocal` | the lines of /etc/rc.local and the three edits of it | Sequences, SequencesExt |
| `NucInstall` | `install_nuc10.sh` | `RcLocal` |
| `MCNucInstall` | two model keys | `NucInstall` |
| `PostClone` | `post-clone.sh`, `switch_swarm.sh`, and the camera script as they call it | |
| `MCPostClone` | names and swarms | `PostClone` |
| `Supervised` | what a station promises of each container, without scripts, images or an engine | |
| `DockerStation` | the setup scripts on one docker engine, cron, prune, dyadic-interaction install; implements `Supervised` | (INSTANCE `Supervised`) |
| `AudioCapture` | the threads of `audio_capture.cpp` | |
| `Baton` | what the global lock promises, without its mutexes and conditions | |
| `Gil` | `ceval_gil.h`, and of `ceval.c` the eval loop's checks and who takes and drops the lock; implements `Baton` | (INSTANCE `Baton`) |
| `Channel` | what both queues of the interpreter promise, without lists, rings or locks | |
| `PendingCalls` | `Py_AddPendingCall`, `Py_MakePendingCalls`, `trip_signal`, `PyErr_CheckSignals`; implements `Channel` | (INSTANCE `Channel`) |
| `SimpleQueue` | `_queuemodule.c`; implements `Channel` | (INSTANCE `Channel`) |
| `...Proofs` | the theorems about the module of that name | the module, TLAPS |
| `NucRerunProofs` | the theorems about reruns of the installer | `NucInstallProofs` |

Conventions. One command (or a group that nothing can come between in a way that matters)
is one action; `pc` names the step that comes next. A script is started again from its first
line. `Interrupt` and `CutOff` end a run before any step. Commands that need the network
succeed or fail freely; local commands fail when what they work on is missing. Definitions
marked "Mutant" are plausible mistakes in the code beside them: they are in no specification,
and serve to show that each property notices one.

### NucInstall and RcLocal

State: `copies` counts how often each guarded text is in its file; `written` holds the files
and settings that are simply overwritten; rc.local is a sequence of lines (`rcLocal`, with
`newRc` for `$NEW_RC_LOCAL` between its computation and its write), `rcExists`, `rcExec` and
`rcEnabled` its existence, mode and unit; `dnsmasqConf`, `dnsmasqDist` and `dnsmasqUnit` the
three files of that section; `wifiService` how far `/usr/local/jibo-station-wifi-service` has
got. A step whose guard and effect are those of many others is an instance of
`GuardedAppend` (grep, then append), `Overwrite` (tee, cp, systemctl enable) or
`OverwriteOfPackage` (the same, in a directory that a package brings); `ScriptStep` is the
script, in order. The order of lines in files other than rc.local makes no difference to
anything and is not kept. `tee` of the rc.local rewrite is two steps, so that a cut can leave
the file empty (`AddWifiToRcLocal`, `WriteRcLocal`). `missed` is a history variable: the
steps at which a run was cut off or failed although no other run comes to them, because what
their guard looks for is there by then (`OneTimeStep`; `CreationStep` those of rc.local).

Left out: apt's package lists other than the networking packages, Chromium, the VPN archive,
the remote desktops, groups and file modes, texts shown to the operator.

### PostClone

State: `file[f]` is the name in each of /etc/hostname, /etc/hosts and hostapd.conf (absent
without a dongle), `running` the kernel's. `SedName` replaces the image's default name and
nothing else; `ApplyName` asks hostname(1), which refuses a name with characters it does not
know, after the files have been edited; `Reboot` takes the kernel's name from the file, and
what systemd does with an invalid one is `Mangled`. Names that sed itself cannot take (with a
slash) make every command of the run fail and are like a run cut off at its start.
`ChooseSwarm`, `LeaveSwarm` and `JoinSwarm` are `switch_swarm.sh`; `RunInstaller` is what
`install_nuc10.sh` does to the files this script edits. `fault` says whether a command of the
run has failed, `claimed` is the last name reported as set, `asked` the names asked for.

### DockerStation

A script is its sequence of docker commands (`UsbCam`, `MicLauncher`, `LocalContainers`,
`DataTardis`, `DyadicInstall`), `pc[s]` the command it has come to. Every command is an action,
so the scripts and everything else interleave at each. `Start` is the operator's answer to the
prompt; `AwaitImage` stays until the engine is up and has an image of the
repository, with any tag, and keeps the one it finds in `chosen`: the filter of the scripts
has no tag, and the dyadic launcher's image is of the same repository `mitprg/ros-bundle`, so a
camera's script may take that one (`Tags`). `from` is the image each container was made of, which
a prune spares. `RunContainer` does nothing when the name is taken. `Revive` is docker's reading of `--restart=always` and
`unless-stopped` when the engine starts. Cron's lines are `StartDocker` and `RestartDocker`,
`docker system prune -a` is `PruneContainers` then `PruneImages`. `mishap` remembers the
things after which a container may be missing for good: a script cut off, a stopped container
pruned, a `docker run` without an engine or an image. One terminal runs a script at a time
(the same script in two terminals is what `usbCam` and `localContainers` do to the camera).
Left out: a container that cannot be created because its device is missing (the webcam; that
case is in `PostClone`), and what runs inside the containers.

`Supervised` is the abstract specification: each container has a life (none, up, down,
stopped, owed, lost) and few moves from one to another; `lost` is reached only with a mishap.
`LifeOf` reads the life off the status, the containers that the station has had and what the
scripts have still to run; `mishap` is the variable of that name.

### AudioCapture

`main`, `loopThread` and `stream` say where each thread is. The module relies on this
behaviour of libraries, which are not in the repository: `g_main_loop_run` sets the running
flag and `g_main_loop_quit` clears it, so a quit that comes first is lost; the loop is freed
with its last reference, and the running thread has one; setting the pipeline to NULL waits
for the streaming thread and flushes the bus; one `new-sample` comes per queued buffer and
its handler pulls one, so the queue limit of 100 is not reached; `exit` runs ROS's exit
handler, which shuts ROS down and ends `ros::spin`; `boost::thread` detaches in its
destructor. Using what is freed is undefined: either the process crashes or goes on
(`Crash`). Left out: the parameters, the encoder, the data.

### Gil and Baton

State: `pc[t]` is the place of each thread in `take_gil`, `drop_gil` or the eval loop; `why[t]`
says what it takes or drops the lock for, and so where it goes afterwards; the remaining
variables bear the code's names. `unswitched` stands for the comparison of `switch_number`
with the number saved: it holds the waiters since whose wait began the number is the same,
so no counter is needed. What lies between two points where a mutex is given up is one
step unless others read it without the mutex: the two stores of `SET_GIL_DROP_REQUEST`
and of `SIGNAL_PENDING_CALLS`, and the reading and the storing of `COMPUTE_EVAL_BREAKER`, are
steps of their own, and a signal handler may stop its thread between any two. A thread that
waits for the lock is woken by `DropLock`, by its timeout or for no reason. Forks follow the
child. A thread state may be given out again after its thread has ended, so that
`last_holder` names a thread that never had the lock.

`Baton` is the abstract specification: one owner; who gave the lock up on request and finds
that nobody has had it since owes the others a turn, and neither takes the lock nor goes on
until another has had it. `Gil` implements it with `owner` the last holder while the lock is
taken, and `owed` the threads that wait for the switch.

Left out: sub-interpreters and `PyGILState`, changes of the switch interval, builds without
FORCE_SWITCHING. All loads and stores are taken as they come in program order: relaxed
atomics on the stations' x86 processors, where a store can be delayed but not overtaken by
a later one, and each thread that reads the flags does so again and again.

### PendingCalls

State: the ring (`calls`, `first`, `last`) and its `lock`; `main`, where the main thread is, and
`below`, the stack of what it goes back to (`Frame`); `add[a]` and `local[a]` for whoever is in
`Py_AddPendingCall`: the main thread (in its code, in a call or in a Python handler), other
threads and the signal handler. `handler` is the step of the running C handler and the thread
that it has stopped; that thread does nothing meanwhile, even if it has the ring's lock, and
so the tries for the lock are counted. `kept` and `done` record what was put in and taken out.
A Python signal handler and a pending call are code like any other: in them too the eval loop
may enter `Py_MakePendingCalls`, when it is not busy, and an interruptible call may look for
signals (`Running`). So a check nests in a handler, a round in the handler of a direct check, and
a further check in each of its calls; `nested` remembers that a round was made in a handler.
When the eval loop looks at `calls_to_do` is left open: it reads `eval_breaker` first, which a
recomputation may overwrite (`ceval.c:97`, modelled in `Gil`), so `MakePendingCalls` may come at
any time or never. A direct check that finds `is_tripped` 0 returns at once and is no step.
Left out: the time before `PyEval_InitThreads` makes the ring's lock, a fork, one C handler
interrupting another.

It implements `Channel` with the ring as its queue, `done` as what was taken, and a capacity of
one less than the ring has places: a call is in from the store of `last` on and out from the
store of `first` on, whatever the others are in the middle of.

### SimpleQueue

State: the list `lst` with `lst_pos`, `locked`, the semaphore below the lock, and for each thread
where its `get` is, what is left of its timeout (`none` is to wait for ever) and whether its
time has passed. What happens between taking and giving up the global lock is one step.
`FindEmpty` is the loop's body when the queue is empty, with the tries that do not wait, and
`Resume` what follows a wait. The handlers of a signal that interrupts a wait may put an item
or raise an exception. A `get` that finds the lock free has its rest computed anew. It implements
`Channel` with what the list holds from `lst_pos` on as the queue, and `got` as what was taken.

## 3. Runs, bounds and fairness

| cfg (module) | bounds | shows |
|---|---|---|
| `MCNucInstall` | 3 starts, 2 keys | `AtMostOnce`, `DistPristine`, `RcLocalRuns`, `NotStranded`, `Converges`, `OnlyMissedIsLacking`, `ReceiverKept`, `RunEnds` |
| `NucInstallDnsmasqInPlace` (MCNucInstall) | 2 starts | a disagreement, section 5 |
| `MCPostClone` | 3 starts, 2 good names, 1 refused, 2 swarms | `NameEverywhere`, `Converges`, `RunEnds` |
| `PostCloneHostnameChanged` (MCPostClone) | 2 starts | a disagreement |
| `MCDockerStation` (DockerStation) | all 5 scripts, 2 starts, 2 events | `LivesOn`, `Recovers` |
| `MCAudioCapture` (AudioCapture) | none needed | `StreamSafe`, `CrashOnlyInShutdown`, `ErrorEnds`, `StopEnds` |
| `MCGil` (Gil) | 2 threads, 2 events | `OneHolder`, `RequestHasWaiter`, `SwitchHasTaker`, `AsyncNoticed`, `RequestServed`, `HandsOver` |
| `GilFinalizesAlone` (Gil) | 2 threads, no events | a disagreement |
| `MCSimpleQueue` (SimpleQueue) | 3 threads, 4 puts, 2 interrupts | `HandsItemsOver`, `NoLostWakeUp`, `WaiterServed` |
| `SimpleQueueTimeout` (SimpleQueue) | 2 threads, 1 put, 1 interrupt | a disagreement |
| `MCPendingCalls` (PendingCalls) | 3 places, 2 signals, 1 other thread, 3 calls, 2 arrivals, 1 more try | `HandsCallsOver`, `CallsAnnounced`, `AnnouncedUnlessNested`, `SignalSeen`, `RoundEnds` |
| `PendingCallsSignalAnnounced` (PendingCalls) | 2 places, 2 signals, no other thread, no calls, 2 arrivals, no more tries | a disagreement |

Each module's `TypeOK` is checked too. Deadlock is checked in `MCPostClone`,
`MCDockerStation` and `MCGil`. It is not where the system may stop: a station
after its last start (`NucInstall`), a node that has ended (`AudioCapture`), threads that all
wait in `get` with nothing left to be put (`SimpleQueue`), a main thread with no call to add and
no signal to come, for its own code is not in the model (`PendingCalls`; that nobody is stuck in a
round is `RoundEnds` instead). In `Gil` a process without threads
has ended, and that is an action of its own (`Ended`), so that every other standstill is
reported.

What the main properties say, and what holds them up:

- `Converges` (NucInstall): at the end of a run without a failed download the packages, the
  overwritten files, the guarded entries and the WiFi block are all there, whatever earlier
  runs were cut off where. It leaves out what the code does not achieve: rc.local's
  unit (guarded by the file), the second name server (guarded by the first), dnsmasq's file and
  unit (guarded by a step before the last), the WiFi service (guarded by its directory).
- `OnlyMissedIsLacking`: of those, a run that reaches its end lacks exactly what an earlier one
  missed behind its guard, and nothing else; what is lacking is never made up for by a later
  run. One of them is also a disagreement (section 5).
- `NotStranded`: about the one step that takes NetworkManager away, in whichever run: the files
  that replace it are there, because the steps that write them need no network. The packages
  (ifupdown, resolvconf and others) do: the script passes over a failed `apt install` (line 331)
  and disables NetworkManager all the same, so all that can be said of them, and is, is that
  they are there unless a download of this very run failed.
- `ReceiverKept`: the rewrite of rc.local carries the receiver's line over; only a run cut off
  inside the `tee` loses it.
- `NameEverywhere`: claims nothing once two names were asked for; with two, section 5.
- `Converges` (PostClone) has the crontab in it: docker's line once and no reboot line, whatever the
  installer and earlier runs left there. A mistyped swarm leaves `location` unset, and the
  property says nothing of the swarm then (section 5).
- `LivesOn`, `Recovers`: two scripts that remove and run the same container cannot between
  them lose it, because each that removes goes on to run, and the run that comes second finds
  the name taken by the other's container.
- `LivesOn` says of every step, after mishaps too, that what is up or about to come up again is
  not lost by it. Only what was stopped (by a prune) or owed (by a script cut off, or a failed
  `docker run`) is. It contains two invariants that are proved on their own (section 4) and cost
  no run: `NeverLost`, since nothing is lost before a mishap, and what `TardisStaysStopped` is
  about, since a stopped tardis does not come up until a script has removed it. The latter
  depends on the one policy that differs from the others'.
- `Recovers` exempts the wait for an image that is not there. Nobody has to bring one: the station
  may be in no swarm, or a prune may have removed the image while a script was waiting, and the
  code has no way out of that wait (`setup_usb-cam.sh:18`).
- `SwitchHasTaker`: the one wake-up of a forced switch is sent after the waiter has begun to
  wait, because both look at `last_holder` under the switch mutex; and there is somebody to send
  it, because a request is only there with one who waits (`RequestHasWaiter`): it is withdrawn
  by whoever takes the lock. `HandsOver` says the same as an implementation of `Baton`.
- `RequestServed` is what the comment on `COMPUTE_EVAL_BREAKER` believes: a request whose flag
  was overwritten is made again after the next timeout. The same overwriting can hide a
  signal's flag until the next event, which the comment does not speak of; no property claims
  that signals are seen in `Gil`.
- `AsyncNoticed`: the flag for all threads' exceptions is cleared by one and set again by the
  next that takes the lock and has one.
- `NoLostWakeUp`: `locked` is set even by a getter that did not get the lock. That makes an
  early release possible, never a lost one; setting it only with the lock loses wake-ups.
- `HandsItemsOver`, `HandsCallsOver`: each put and each take happens at one moment, in order, and
  nothing else shows of a list that is cut, a cut that fails, or a thread stopped between two
  stores of the ring. That what is in the ring gets out at last is not claimed: see `PendingCalls`
  above on `calls_to_do`.
  In a channel what was given is what was taken followed by what waits, so `FirstInFirstOut`
  and `CallsKept` are part of these two; they are proved on their own and cost no run. No call is
  lost or made twice, for a full ring too, although a handler may add a call on the thread that
  is just taking one off; the lock that it then cannot get makes it give up instead.
- `CallsAnnounced`: a round makes as many calls as the ring has places, one more than it holds,
  so it empties a ring to which nobody adds; who adds announces.
- `SignalSeen`: `is_tripped` is cleared before the signals' flags are looked at, so a signal that
  comes meanwhile is looked at now or next time, also when the handler looks itself: what a nested
  check passes over, a suspended one still comes to.
- `AnnouncedUnlessNested`: a failing round sets `calls_to_do` again for the signals it leaves. It is
  about histories in which no round was made inside a Python handler; with one, the statement
  without that exemption, `SignalAnnounced`, fails (section 5).
- `RoundEnds`: whoever tries for the ring's lock gives up in the end, and a round makes a bounded
  number of calls, so `busy`, which keeps all other rounds away, is always taken back. A handler
  that waited for the lock of the thread it stopped would break this.
- `StopEnds` holds because the destructor does not join the loop thread; with the join it
  fails (the lost quit). `CrashOnlyInShutdown` is the price.

Why the bounds are enough. Three starts of a script are one that is cut off, one that is cut
off having found what the first left, and a last one that must put up with both; every
guard remembers one bit or a few lines, so a fourth start meets no new state. Two keys or
names or swarms show what one does to the other. In `MCDockerStation` two starts give every
pair of scripts, also the same one again, and two events a stop or a crash with a prune.
In `Gil`, events are signals, exceptions sent to a thread, forks and spurious wake-ups;
everything else is unbounded, so two threads hand the lock to and fro for ever. A third
thread matters where a switch is watched by one who is not part of it; its safety was
checked with one event (1.6 million states) and is proved for all. In `MCSimpleQueue` three
threads are two getters and a putter, or three getters with a handler that puts; four
items make the list be cut more than once. A ring of 3 holds 2 calls, so three calls fill it,
turn one away and wrap around; two arrivals are the same signal again or two. One more try
for the lock shows both outcomes of trying (the code has 99). The theorems hold for every
value of these bounds.

Fairness. The scripts' steps are weakly fair: bash runs the next command when the last has
returned, and the operator is taken to answer. In `NucInstall` and `PostClone` the manager of a
swarm deploys its services to every member (`SwarmDeploysImage`); in `DockerStation`, which does
not model membership, nobody has to. `StartDocker` and `RestartDocker` are cron's, every minute
and every day. Docker restarts an exited container (`RestartContainer`). No failure, stop,
prune or start of a script is fair. In `AudioCapture` each thread is scheduled.
`RunEnds` names the wait that fairness does not end: a station in no swarm. In `Gil` a thread
that can go on does; the steps that need a mutex are strongly fair, since a thread that
asks for a mutex that others take and leave again and again gets it in the end (this is the
kernel's promise, not the code's; without it nobody would get anything); what the program
chooses to do - block, return, start, end, fork, finalize - is not fair, nor are the bounded
events. In `SimpleQueue` a thread that can go on does and the clock goes on; no call of `put` or
`get` is fair. In `PendingCalls` threads and C handlers go on, and a pending call or
a Python handler comes to its end, in whichever way, which a program that loops in one would not
grant; no start of a call, a check or a round is fair.

## 4. Proofs

All by TLAPS, for every value of the constants, from the named assumptions on them (keys and
names are different from the model's own values; the bounds are naturals).

- `NucInstallProofs`: `TypeCorrect`; `AddsOnce` (inductive: each guarded entry has at most one
  copy, and the second name server's count is at most the first's, except between the two
  appends); `KeepsOriginal` (inductive: at the write, the distribution's file has been moved
  away); `NeverStranded` (inductive: at each step after the packages they are there or a download
  has failed, and at each step after the files of wpa_supplicant those are, so both hold
  at the step that disables NetworkManager, the only one that does); `KeepsRcLocalRunning` (inductive: rc.local is
  well-formed or one of the prefixes that the creation goes through, with lemmas on what each
  edit does to a well-formed file); `KeepsReceiver` (inductive: the prepared text exists only
  while the file is empty, so the write loses nothing).
- `NucRerunProofs`: `RerunsConverge` (for each stretch of
  the script, what a run has achieved once it is past the step in question, since nothing that
  is done is undone; that a file without the block ends with `exit 0` is
  `KeepsRcLocalRunning`); `OnlyMissedLacks` (inductive, one part for each guard that is set before
  its work is done: before the guard nothing of it is missed; at a step behind it the earlier ones
  are done; and when no run is behind it, the part is complete or a step of it was missed. A
  frame lemma says which few steps touch each part, so that each part's proof is about those).
- `PostCloneProofs`: `TypeCorrect`; `OneName` (inductive: the files a run has passed hold its
  name or are absent, as long as one name is asked for); `RunsConverge` (inductive:
  step by step, what a run without a failure has achieved, and no crontab line twice).
- `DockerStationProofs`: `TypeCorrect`; `ContainersKept`, that is `NeverLost`, from two lemmas:
  every script that removes a container runs it later (`RemovedIsRun`), and a step takes from
  what a script has still to run only what it runs (`KeepsToRun`); `TardisStays` (inductive as
  it stands: an engine that starts spares what is not in `Always`, and docker run needs the
  name to be free); `KeepsPromise` (the refinement of `Supervised`: for each step and container one
  of the moves it allows, from the same two lemmas and `OwedAfterCommand`; it needs the types and
  no other invariant).
- `AudioCaptureProofs`: `TypeCorrect`; `SamplesOnLiveObject` (the stages of the main thread fix
  the pipeline's state); `CrashesInShutdown`.

- `GilProofs`: `TypeCorrect`; `HolderIsAlone` and the three others from inductive invariants
  that say which mutex a thread has at each place, that one who is about to take the lock finds
  it free, and that one who is on his way into the forced switch has a taker;
  `KeepsPromise`: the initial state and every step of `Gil` map to those of `Baton` or to none, which
  is the safety part of the refinement (its liveness part is model-checked as `HandsOver`).
- `SimpleQueueProofs`: `TypeCorrect`; `InOrder` (inductive: what was got and what the list still
  has are together the puts so far, with lemmas on the list's cut); `WakeUpKept` (inductive:
  `locked` is off while there is an item, and while it is off the semaphore has a permit or
  somebody is on his way with it); `KeepsPromise` (the refinement of `Channel`: after a put the items
  of the list are those before with one more, after a pop those before without the first,
  whether or not the list was cut).
- `PendingCallsProofs`: `TypeCorrect`; `SignalsSeen` (inductive with the shape of the stack: what
  `PyErr_CheckSignals` is suspended at) and `AnnouncedIfNotNested` (from the same, as long as
  `nested` is off);
  `CallsInOrder` (inductive: call number n that was kept has been taken off, or is at the n-th
  place after; the arithmetic of the ring is in lemmas `ModOnce`, `Distance`, `StoreMoves`,
  `PopMoves`, for every size); `CallsAreAnnounced` (inductive: what is in the ring plus the turns
  taken is less than the ring's size as long as nobody has announced anything); `KeepsPromise` (the safety
  part of the refinement of `Channel`: the store of `last` appends to the ring and that of
  `first` takes its head, since whoever is at either has the lock and the place he has read is
  still the last).

Every invariant that a passing run checks is also proved, and so are `ReceiverKept`,
`NotStranded`, the refinements `LivesOn`, `HandsItemsOver` and `HandsCallsOver`, which claim no
liveness, and the safety part of `HandsOver`. Only
model-checked are the liveness properties (`RunEnds`, `Recovers`, `ErrorEnds`,
`StopEnds`, `RequestServed`, the liveness in `HandsOver`, `WaiterServed`, `RoundEnds`): they
need fairness and ENABLED and are out of the prover's reach.

## 5. Disagreements between code and documents

- `DnsmasqInPlace`: after a run cut off between `mv` and `tee`, no run writes dnsmasq.conf,
  although the script says it will be in place after the reboot (`install_nuc10.sh:352`).
- `HostnameChanged`: a second run of `post-clone.sh` with another name reports success
  (`post-clone.sh:29`) and leaves /etc/hostname as it was.
- `FinalizesAlone`: a thread that was started, but gets the lock only after the main thread has
  begun to finalize, runs on: it takes the lock by `PyEval_AcquireThread` (`ceval.c:196`), which does
  not look at `_Py_Finalizing`, although `pylifecycle.c:1159` says that remaining threads exit
  after taking the lock. In TLC's trace main even starts the thread while it finalizes; the
  other order fails in the same way.
- `TimeoutEnds`: `SimpleQueue.get` with a timeout computes its rest anew after a lock that it got
  for nothing (the first try, got late, too) or a wait that a signal interrupted. The rest may be
  negative by then (`_queuemodule.c:236`), which the lock takes for "wait for ever";
  line 166 promises "at most 'timeout' seconds". `acquire_timed` (`_threadmodule.c:78`) has the check
  that is missing here.
- `SignalAnnounced`: two signals are tripped, and a direct `PyErr_CheckSignals`, such as that of an
  interrupted sleep, runs the first one's Python handler. The handler's eval loop enters
  `Py_MakePendingCalls`, which takes `calls_to_do` back and finds `is_tripped` 0; then the handler
  raises (`signalmodule.c:1552`), `is_tripped` is set again and `calls_to_do` is not. The second
  signal waits for another event, although `Doc/library/signal.rst:32` says that a flag tells the
  virtual machine to run its handler at a later point.

Three more that no run is spent on, seen while modelling: a mistyped answer ends `switch_swarm.sh`
only (line 20), and the clone stays the node that its image was, under "Joining swarm as a new
node" (`post-clone.sh:37`); `dyadic-interaction install` announces
`--restart unless-stopped` (line 44) and passes `--restart always` (line 51), which is what the
model does; and `install_nuc10.sh:246` calls the WiFi service installed after a clone that failed.

## 6. What is not modelled

Most of the repository by lines (99.9 %) is the vendored CPython: object types, compiler,
Unicode tables, decimal arithmetic, wrappers of system calls, the standard library. That is
sequential code, run under the lock that `Gil` models, with nothing of the stations in it;
a model of it would be a copy. The map covers the scripts and the audio node in full where
they are modelled, and of the interpreter the functions where threads and signal handlers
meet. Its share of all lines is therefore small, and stays so.

The straight-line scripts (`teleop_station_setup.sh`, `install_new_wifi.sh`, the family
setup) keep no state that their next step depends on. The monitor shows logs. Router backups
and the VPN archive are data. The other parts not modelled are in the
plan.

## 7. Plan

In this order; the first seven and number 9 are done.

1. `NucInstall` with `RcLocal`, its runs and proofs.
2. `PostClone`, which takes the installer's and the camera script's part in it.
3. `DockerStation`, the scripts composed on one engine.
4. `AudioCapture`.
5. `Gil` with `Baton`, the lock under every thread of a station's programs, and its refinement.
6. `SimpleQueue`, which gives that lock up to wait.
7. `PendingCalls`, what the eval loop finds to do.
8. `StationWifi16`: the WiFi section of `install_nuc.sh`, behind one guard, against the file
   that its comment (lines 265-272) says the interfaces file should look like.
9. `Supervised`, the lives of the containers, and `DockerStation` as its implementation.
10. An abstract specification of a setup that may be repeated (things are only ever added,
    each once), implemented by `NucInstall` and `PostClone`.
11. `RemoteCommands`: the expect session of `ssh_cmd` with its timeout, `wait_for_jibo_on_network`
    and `reboot_for_phase_2` with lost pings.
12. `LaunchArgs`: the argument parsing of the two launchers as operators, against what their
    usage says, over all short argument lists.
13. Registration (`register_participants.py`) against the sessions that write the same records.
14. Proofs: the step part of the refinement of 10.
