----------------------------- MODULE Supervision -----------------------------
(***************************************************************************)
(* How afrd is kept running: the command line afrd -k -D kills a daemon by *)
(* its PID file and starts another (main.c), the daemon makes and removes  *)
(* afrd.ipc and its PID file, the application's service looks at afrd.ipc  *)
(* every three seconds, counts its failures to open it and restarts the    *)
(* daemon (AFRService, Status, FailureDetector, Control), and the settings *)
(* replace the configuration file (Config.save).                           *)
(*                                                                         *)
(* A status is looked at in one step, as StatusBoard allows: a page holds  *)
(* the version of the daemon that wrote it, the zeroes of shmem_init or    *)
(* the size 0 of shmem_fini.  Seconds pass between the ticks of the        *)
(* service: a daemon starts in less, and a failure grows older.            *)
(***************************************************************************)
EXTENDS Naturals

CONSTANTS
  Daemon,     \* process numbers of daemons
  Launcher,   \* processes of the command line
  File,       \* the files that are afrd.ipc, one after another
  Scenario    \* what an instance begins with and may meet

NoPid == "no pid"
NoFile == "no file"
Null == "null"          \* mVersion before the first status
Version == {"old", "new"}
Mine == "new"           \* BuildConfig.VERSION_NAME
service == "service"    \* the launcher of Control.restart

ASSUME ProcessAssumption ==
  /\ service \in Launcher /\ NoPid \notin Daemon /\ NoFile \notin File
  /\ Daemon # {} /\ File # {}
\* first: the version that runs at first, or none; faults: "crash", "kill",
\* "slow" (a daemon does not end in two seconds) and "tab" (the status tab is
\* open); launchers: the processes that start as afrd -D does, beside the
\* service's; MaxFaults bounds the crashes, kills and slow ends, MaxSaves the
\* saved configurations.
ASSUME ScenarioAssumption ==
  \A s \in Scenario :
    /\ s.first \in Version \union {Null} /\ s.launchers \subseteq Launcher
    /\ s.MaxFaults \in Nat /\ s.MaxSaves \in Nat

VARIABLES
  pidfile,    \* the process number in afrd.pid
  path,       \* the file that has the name afrd.ipc
  page,       \* what every file shows: "zero", "ended" or a version
  daemon,     \* the daemons
  launcher,   \* the command lines at work
  app,        \* AFRService and its Status
  fail,       \* Status.mFail, shared by the service and the status tab
  ini,        \* afrd.ini: whether it exists, its number in time and the second
              \* it was written in
  faults,     \* crashes, kills and slow ends so far
  scenario

ipc == <<path, page>>
ui == <<app, fail>>
world == <<faults, scenario>>
vars == <<pidfile, ipc, daemon, launcher, ui, ini, world>>

May(f) == f \in scenario.faults
Fault(f) == May(f) /\ faults < scenario.MaxFaults /\ faults' = faults + 1
Alive(d) == daemon[d].pc # "gone"
\* History: the number and the second of the file that was loaded, and whether
\* the look at mtime found another.
GoneDaemon == [pc |-> "gone", file |-> NoFile, version |-> Mine, sig |-> FALSE,
               loaded |-> 0, second |-> 0, overtaken |-> FALSE, mtime |-> 0]
DaemonTo(d, p) == daemon' = [daemon EXCEPT ![d].pc = p]

-----------------------------------------------------------------------------
(* afrd -k -D and afrd -D *)

LauncherTo(l, p) == launcher' = [launcher EXCEPT ![l].pc = p]

\* kill_daemon: SIGINT to the daemon of the PID file. It ends a daemon that
\* has not called signal() yet.
KillDaemon(l) ==
  /\ launcher[l].pc = "kill"
  /\ \/ /\ pidfile = NoPid
        /\ LauncherTo(l, "check")
        /\ UNCHANGED <<pidfile, daemon>>
     \/ /\ pidfile # NoPid /\ ~Alive(pidfile)
        /\ pidfile' = NoPid /\ LauncherTo(l, "check")
        /\ UNCHANGED daemon
     \/ /\ pidfile # NoPid /\ Alive(pidfile)
        /\ launcher' = [launcher EXCEPT ![l].pc = "wait", ![l].pid = pidfile]
        /\ daemon' = [daemon EXCEPT ![pidfile] =
             IF @.pc = "forked" THEN GoneDaemon ELSE [@ EXCEPT !.sig = TRUE]]
        /\ UNCHANGED pidfile
  /\ UNCHANGED <<ipc, ui, ini, world>>

\* It waits until the daemon has ended, or for two seconds, and removes the PID
\* file in any case.
KillWaited_bug(l) ==
  /\ launcher[l].pc = "wait"
  /\ pidfile' = NoPid
  /\ launcher' = [launcher EXCEPT ![l].pc = "check", ![l].pid = NoPid]
  /\ UNCHANGED <<ipc, daemon, ui, ini, world>>
KillWaited(l) ==
  /\ launcher[l].pc = "wait"
  /\ ~Alive(launcher[l].pid)
  /\ pidfile' = NoPid
  /\ launcher' = [launcher EXCEPT ![l].pc = "check", ![l].pid = NoPid]
  /\ UNCHANGED <<ipc, daemon, ui, ini, world>>
KillTimesOut(l) ==
  /\ launcher[l].pc = "wait" /\ Fault("slow")
  /\ Alive(launcher[l].pid)
  /\ pidfile' = NoPid
  /\ launcher' = [launcher EXCEPT ![l].pc = "check", ![l].pid = NoPid]
  /\ UNCHANGED <<ipc, daemon, ui, ini, scenario>>

DaemonizeCheck(l) ==
  /\ launcher[l].pc = "check"
  /\ LauncherTo(l, IF pidfile # NoPid /\ Alive(pidfile) THEN "done" ELSE "fork")
  /\ UNCHANGED <<pidfile, ipc, daemon, ui, ini, world>>

\* The child goes on while the parent writes the PID file. Process numbers
\* are not used again while a file or a command line has them.
DaemonizeFork(l) ==
  /\ launcher[l].pc = "fork"
  /\ \E d \in Daemon :
       /\ ~Alive(d) /\ d # pidfile /\ \A k \in Launcher : launcher[k].pid # d
       /\ daemon' = [daemon EXCEPT ![d] =
            [GoneDaemon EXCEPT !.pc = "forked", !.version = launcher[l].version]]
       /\ launcher' = [launcher EXCEPT ![l].pc = "write", ![l].pid = d]
  /\ UNCHANGED <<pidfile, ipc, ui, ini, world>>

DaemonizeWrite(l) ==
  /\ launcher[l].pc = "write"
  /\ pidfile' = launcher[l].pid
  /\ launcher' = [launcher EXCEPT ![l].pc = "done", ![l].pid = NoPid]
  /\ UNCHANGED <<ipc, daemon, ui, ini, world>>

-----------------------------------------------------------------------------
(* The daemon *)

\* A file that nobody maps and that has no name is as good as a new one.
Unused(f) == f # path /\ f # app.map /\ \A d \in Daemon : daemon[d].file # f

\* load_config and shmem_init: the file of a daemon that was killed is adopted.
\* An instance has files enough for one to be unused.
AfrdInit(d) ==
  /\ daemon[d].pc \in {"forked", "reload"}
  /\ \/ /\ ~ini.exists
        /\ DaemonTo(d, "exit")
        /\ UNCHANGED ipc
     \/ /\ ini.exists /\ \E f \in File : f = path \/ Unused(f)
        /\ path' = IF path # NoFile THEN path ELSE CHOOSE f \in File : Unused(f)
        /\ page' = [page EXCEPT ![path'] = "zero"]
        /\ daemon' = [daemon EXCEPT ![d].pc = "init", ![d].file = path',
                                    ![d].loaded = ini.rev, ![d].second = ini.sec]
  /\ UNCHANGED <<pidfile, launcher, ui, ini, world>>

\* afrd_run looks at the time of the file, if it still exists, in whole seconds,
\* and publishes the first status.
AfrdRun(d) ==
  /\ daemon[d].pc = "init"
  /\ page' = [page EXCEPT ![daemon[d].file] = daemon[d].version]
  /\ daemon' = [daemon EXCEPT ![d].pc = "run",
       ![d].mtime = IF ini.exists THEN ini.sec ELSE 0,
       ![d].overtaken = ini.exists /\ ini.rev # daemon[d].loaded]
  /\ UNCHANGED <<pidfile, path, launcher, ui, ini, world>>

UpdateStats(d) ==
  /\ daemon[d].pc = "run" /\ page[daemon[d].file] # daemon[d].version
  /\ page' = [page EXCEPT ![daemon[d].file] = daemon[d].version]
  /\ UNCHANGED <<pidfile, path, daemon, launcher, ui, ini, world>>

\* shmem_fini, before the configuration is loaded again or the process ends.
AfrdFini(d, p) ==
  /\ page' = [page EXCEPT ![daemon[d].file] = "ended"]
  /\ path' = NoFile
  /\ daemon' = [daemon EXCEPT ![d].pc = p, ![d].file = NoFile]

Reload_bug(d) ==
  /\ daemon[d].pc = "run" /\ ~daemon[d].sig
  /\ ini.exists /\ ini.sec # daemon[d].mtime /\ daemon[d].mtime # 0
  /\ AfrdFini(d, "reload")
  /\ UNCHANGED <<pidfile, launcher, ui, ini, world>>
Reload(d) ==
  /\ daemon[d].pc = "run" /\ ~daemon[d].sig
  /\ ini.exists /\ ini.sec # daemon[d].mtime
  /\ AfrdFini(d, "reload")
  /\ UNCHANGED <<pidfile, launcher, ui, ini, world>>

Shutdown(d) ==
  /\ daemon[d].pc = "run" /\ daemon[d].sig
  /\ AfrdFini(d, "exit")
  /\ UNCHANGED <<pidfile, launcher, ui, ini, world>>

\* main removes the PID file, whoever is in it.
Exit(d) ==
  /\ daemon[d].pc = "exit"
  /\ pidfile' = NoPid
  /\ daemon' = [daemon EXCEPT ![d] = GoneDaemon]
  /\ UNCHANGED <<ipc, launcher, ui, ini, world>>

\* signal_emerg: both files are removed; restoring the display publishes again.
SignalEmerg(d) ==
  /\ daemon[d].pc \in {"init", "run"} /\ Fault("crash")
  /\ pidfile' = NoPid /\ path' = NoFile
  /\ page' \in {[page EXCEPT ![daemon[d].file] = p] : p \in {"ended", daemon[d].version}}
  /\ daemon' = [daemon EXCEPT ![d] = GoneDaemon]
  /\ UNCHANGED <<launcher, ui, ini, scenario>>

\* SIGKILL leaves the files as they are.
SigKill(d) ==
  /\ Alive(d) /\ Fault("kill")
  /\ daemon' = [daemon EXCEPT ![d] = GoneDaemon]
  /\ UNCHANGED <<pidfile, ipc, launcher, ui, ini, scenario>>

-----------------------------------------------------------------------------
(* The application *)

\* FailureDetector: the age of the last failure is "none", less than a second
\* ("fresh"), up to ten seconds ("due") or more ("old").
NoFailures == [count |-> 0, age |-> "none", giveUp |-> FALSE]
Failure_bug(f) ==
  CASE f.age = "none" -> [f EXCEPT !.count = 1, !.age = "fresh"]
    [] f.age = "fresh" -> f
    [] f.age = "old" -> [f EXCEPT !.age = "fresh"]
    [] f.age = "due" -> [count |-> f.count + 1, age |-> "fresh", giveUp |-> f.count + 1 > 3]
Failure(f) ==
  CASE f.age = "none" -> [f EXCEPT !.count = 1, !.age = "fresh"]
    [] f.age = "fresh" -> f
    [] f.age = "old" -> [f EXCEPT !.age = "fresh"]
    [] f.age = "due" -> [count |-> f.count + 1, age |-> "fresh", giveUp |-> f.count + 1 >= 3]

NewApp == [pc |-> "start", map |-> NoFile, version |-> Null, first |-> TRUE]

\* Status.open: the service's map and the failure detector after it.
OpenFailed == ~fail.giveUp /\ path = NoFile
Opened == IF app.map = NoFile /\ ~fail.giveUp THEN path ELSE app.map
FailAfterOpen == IF app.map = NoFile /\ OpenFailed THEN Failure(fail) ELSE fail

\* Status.refresh: a file that has lost its name or ended is closed, and the
\* name is opened again.
Refreshed ==
  IF Opened = NoFile \/ path = NoFile THEN NoFile
  ELSE IF FailAfterOpen.giveUp \/ page[Opened] # "ended" THEN Opened
  ELSE IF page[path] = "ended" THEN NoFile ELSE path
VersionRead ==
  IF Refreshed # NoFile /\ ~FailAfterOpen.giveUp /\ page[Refreshed] \in Version
  THEN page[Refreshed] ELSE app.version

\* checkDaemon: whether the daemon is to be restarted.
CheckDaemon ==
  IF Refreshed # NoFile THEN VersionRead # Mine ELSE FailAfterOpen.giveUp \/ app.first

AfterUpdate(p) == IF p = "start" THEN "again" ELSE "idle"

\* onCreate calls updateAll twice without a pause. The timer's three seconds,
\* and the system's time to start the application, are enough for a daemon.
Settled == \A d \in Daemon : daemon[d].pc \notin {"forked", "init", "reload"}

UpdateAll ==
  /\ app.pc \in {"start", "again", "idle"} /\ (app.pc = "again" \/ Settled)
  /\ \/ \* mVersion is null: the exception ends the application
        /\ Refreshed # NoFile /\ VersionRead = Null
        /\ app' = NewApp /\ fail' = NoFailures
        /\ UNCHANGED launcher
     \/ /\ ~(Refreshed # NoFile /\ VersionRead = Null) /\ ~CheckDaemon
        /\ app' = [app EXCEPT !.pc = AfterUpdate(@), !.map = Refreshed, !.version = VersionRead]
        /\ fail' = FailAfterOpen
        /\ UNCHANGED launcher
     \/ \* Control.restart runs afrd -k -D and waits for it
        /\ ~(Refreshed # NoFile /\ VersionRead = Null) /\ CheckDaemon
        /\ app' = [pc |-> IF app.pc = "start" THEN "restart_again" ELSE "restart",
                   map |-> NoFile, version |-> VersionRead, first |-> FALSE]
        /\ fail' = FailAfterOpen
        /\ launcher' = [launcher EXCEPT ![service] = [pc |-> "kill", pid |-> NoPid, version |-> Mine]]
  /\ UNCHANGED <<pidfile, ipc, daemon, ini, world>>

\* Only a restart gives the status another chance.
Restarted_bug ==
  /\ app.pc \in {"restart", "restart_again"} /\ launcher[service].pc = "done"
  /\ app' = [app EXCEPT !.pc = IF @ = "restart" THEN "idle" ELSE "again"]
  /\ UNCHANGED <<pidfile, ipc, daemon, launcher, fail, ini, world>>
Restarted ==
  /\ app.pc \in {"restart", "restart_again"} /\ launcher[service].pc = "done"
  /\ app' = [app EXCEPT !.pc = IF @ = "restart" THEN "idle" ELSE "again"]
  /\ fail' = NoFailures
  /\ UNCHANGED <<pidfile, ipc, daemon, launcher, ini, world>>

\* The status tab, which has a Status of its own, fails to open afrd.ipc.
TabFails ==
  /\ May("tab") /\ OpenFailed
  /\ fail' = Failure(fail)
  /\ UNCHANGED <<pidfile, ipc, daemon, launcher, app, ini, world>>

SecondPasses ==
  /\ fail.age = "fresh" /\ Settled
  /\ fail' = [fail EXCEPT !.age = "due"]
  /\ UNCHANGED <<pidfile, ipc, daemon, launcher, app, ini, world>>

\* The service fails every three seconds as long as it has no file.
TenSecondsPass ==
  /\ fail.age = "due" /\ app.map # NoFile
  /\ fail' = [fail EXCEPT !.age = "old"]
  /\ UNCHANGED <<pidfile, ipc, daemon, launcher, app, ini, world>>

\* Config.save deletes the file, then gives its name to the new one, which may
\* be written in the same second as the one before.
SaveDelete ==
  /\ ini.exists /\ ini.rev <= scenario.MaxSaves
  /\ ini' = [ini EXCEPT !.exists = FALSE]
  /\ UNCHANGED <<pidfile, ipc, daemon, launcher, ui, world>>
SaveRename ==
  /\ ~ini.exists
  /\ ini' \in [exists : {TRUE}, rev : {ini.rev + 1}, sec : {ini.sec, ini.sec + 1}]
  /\ UNCHANGED <<pidfile, ipc, daemon, launcher, ui, world>>

-----------------------------------------------------------------------------
Init ==
  /\ scenario \in Scenario
  /\ LET d == CHOOSE x \in Daemon : TRUE
         f == CHOOSE x \in File : TRUE
     IN IF scenario.first = Null
        THEN /\ pidfile = NoPid /\ path = NoFile
             /\ page = [x \in File |-> "ended"]
             /\ daemon = [x \in Daemon |-> GoneDaemon]
        ELSE /\ pidfile = d /\ path = f
             /\ page = [x \in File |-> IF x = f THEN scenario.first ELSE "ended"]
             /\ daemon = [x \in Daemon |->
                  IF x # d THEN GoneDaemon
                  ELSE [pc |-> "run", file |-> f, version |-> scenario.first,
                        sig |-> FALSE, loaded |-> 1, second |-> 1,
                        overtaken |-> FALSE, mtime |-> 1]]
  /\ launcher = [l \in Launcher |->
       [pc |-> IF l \in scenario.launchers THEN "check" ELSE "done",
        pid |-> NoPid, version |-> "old"]]
  /\ app = NewApp /\ fail = NoFailures
  /\ ini = [exists |-> TRUE, rev |-> 1, sec |-> 1]
  /\ faults = 0

LauncherStep(l) ==
  \/ KillDaemon(l) \/ KillWaited(l)
  \/ DaemonizeCheck(l) \/ DaemonizeFork(l) \/ DaemonizeWrite(l)
DaemonStep(d) == AfrdInit(d) \/ AfrdRun(d) \/ Reload(d) \/ Shutdown(d) \/ Exit(d)

Next ==
  \/ \E l \in Launcher : LauncherStep(l) \/ KillTimesOut(l)
  \/ \E d \in Daemon : DaemonStep(d) \/ UpdateStats(d) \/ SignalEmerg(d) \/ SigKill(d)
  \/ UpdateAll \/ Restarted \/ TabFails \/ SecondPasses \/ TenSecondsPass
  \/ SaveDelete \/ SaveRename

Spec == Init /\ [][Next]_vars

\* Processes run, timers go off, and a file that was deleted gets its name again.
FairSpec ==
  /\ Spec
  /\ \A l \in Launcher : WF_vars(LauncherStep(l))
  /\ \A d \in Daemon : WF_vars(DaemonStep(d))
  /\ WF_vars(UpdateAll) /\ WF_vars(Restarted) /\ WF_vars(SecondPasses)
  /\ WF_vars(SaveRename)

-----------------------------------------------------------------------------
(* Properties *)

TypeOK ==
  /\ pidfile \in Daemon \union {NoPid} /\ path \in File \union {NoFile}
  /\ page \in [File -> Version \union {"zero", "ended"}]
  /\ daemon \in [Daemon ->
       [pc : {"gone", "forked", "init", "run", "reload", "exit"}, file : File \union {NoFile},
        version : Version, sig : BOOLEAN, loaded : Nat, second : Nat,
        overtaken : BOOLEAN, mtime : Nat]]
  /\ \A d \in Daemon : daemon[d].pc \in {"init", "run"} => daemon[d].file # NoFile
  /\ launcher \in [Launcher ->
       [pc : {"kill", "wait", "check", "fork", "write", "done"},
        pid : Daemon \union {NoPid}, version : Version]]
  /\ app \in [pc : {"start", "again", "idle", "restart", "restart_again"},
              map : File \union {NoFile}, version : Version \union {Null}, first : BOOLEAN]
  /\ fail \in [count : 0..3, age : {"none", "fresh", "due", "old"}, giveUp : BOOLEAN]
  /\ ini \in [exists : BOOLEAN, rev : Nat \ {0}, sec : Nat \ {0}]
  /\ faults \in Nat /\ scenario \in Scenario

\* Launches one after another never have two daemons at work on the display, as
\* long as a daemon ends in the two seconds kill_daemon waits.
OneDaemon ==
  scenario.launchers = {} /\ ~May("slow") =>
    \A d, e \in Daemon : Alive(d) /\ Alive(e) => d = e

\* In the end the service has the page of a running daemon of its version,
\* unless a daemon was killed with its files in place, or one crashes beside
\* another that outlived the two seconds of kill_daemon.
Seen ==
  \E d \in Daemon :
    /\ daemon[d].pc = "run" /\ daemon[d].version = Mine
    /\ app.map = daemon[d].file /\ app.version = Mine
Supervised == ~May("kill") /\ ~(May("slow") /\ May("crash")) => <>[]Seen

\* A daemon that goes on runs with the configuration that was saved last, also
\* when it looked for the file between the delete and the rename of Config.save.
\* Two saves are missed, as times are whole seconds and the look at the time comes
\* after the load: one in the second of the file that was loaded, and one between
\* the two, until something is saved in a later second.
Missed(d) ==
  \/ ini.sec = daemon[d].second
  \/ daemon[d].overtaken /\ ini.sec = daemon[d].mtime
ConfigFollowed ==
  \A d \in Daemon :
    <>[](daemon[d].pc = "run")
    => <>[](ini.exists => daemon[d].loaded = ini.rev \/ Missed(d))
=============================================================================
