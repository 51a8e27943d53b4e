-------------------------- MODULE SupervisionProofs --------------------------
(***************************************************************************)
(* Daemons and their launchers for any number of processes and files: the  *)
(* variables keep their types, and launches one after another never have   *)
(* two daemons at work.                                                    *)
(***************************************************************************)
EXTENDS Supervision, TLAPS

DaemonRecord ==
  [pc : {"gone", "forked", "init", "run", "reload", "exit"}, file : File \union {NoFile},
   version : Version, sig : BOOLEAN, loaded : Nat, second : Nat,
   overtaken : BOOLEAN, mtime : Nat]
LauncherRecord ==
  [pc : {"kill", "wait", "check", "fork", "write", "done"},
   pid : Daemon \union {NoPid}, version : Version]
AppRecord ==
  [pc : {"start", "again", "idle", "restart", "restart_again"},
   map : File \union {NoFile}, version : Version \union {Null}, first : BOOLEAN]
FailRecord == [count : 0..3, age : {"none", "fresh", "due", "old"}, giveUp : BOOLEAN]
PageType == [File -> Version \union {"zero", "ended"}]

FilesType ==
  /\ pidfile \in Daemon \union {NoPid} /\ path \in File \union {NoFile}
  /\ page \in PageType
DaemonsType ==
  /\ daemon \in [Daemon -> DaemonRecord]
  /\ \A d \in Daemon : daemon[d].pc \in {"init", "run"} => daemon[d].file # NoFile
LaunchersType == launcher \in [Launcher -> LauncherRecord]
AppType == app \in AppRecord
FailType == fail \in FailRecord
WorldType ==
  /\ ini \in [exists : BOOLEAN, rev : Nat \ {0}, sec : Nat \ {0}]
  /\ faults \in Nat /\ scenario \in Scenario

Typed ==
  FilesType /\ DaemonsType /\ LaunchersType /\ AppType /\ FailType /\ WorldType

\* The type invariant, in parts: every action leaves most of them alone.
LEMMA TypeParts == (TypeOK <=> Typed) /\ (TypeOK' <=> Typed')
BY DEF Typed, TypeOK, FilesType, DaemonsType, LaunchersType, AppType, FailType, WorldType,
       DaemonRecord, LauncherRecord, AppRecord, FailRecord, PageType

\* The third failure gives up, and after it none is counted.
CountBounded == fail.giveUp \/ fail.count < 3
TypeInv == TypeOK /\ CountBounded

-----------------------------------------------------------------------------
(* Types *)

\* No action leaves a part of the state it does not mention without its type.
LEMMA FilesUnchanged == FilesType /\ UNCHANGED <<pidfile, path, page>> => FilesType'
BY DEF FilesType
LEMMA DaemonsUnchanged == DaemonsType /\ UNCHANGED daemon => DaemonsType'
BY DEF DaemonsType
LEMMA LaunchersUnchanged == LaunchersType /\ UNCHANGED launcher => LaunchersType'
BY DEF LaunchersType
LEMMA AppUnchanged == AppType /\ UNCHANGED app => AppType'
BY DEF AppType
LEMMA FailUnchanged == FailType /\ UNCHANGED fail => FailType'
BY DEF FailType
LEMMA WorldUnchanged ==
  WorldType /\ UNCHANGED <<ini, scenario>> /\ (UNCHANGED faults \/ faults' = faults + 1) => WorldType'
BY DEF WorldType

\* A daemon that has gone is a daemon.
LEMMA GoneType ==
  ASSUME NEW v \in Version, NEW p \in {"gone", "forked"}
  PROVE  [GoneDaemon EXCEPT !.pc = p, !.version = v] \in DaemonRecord /\ GoneDaemon \in DaemonRecord
BY DEF GoneDaemon, DaemonRecord, Version, Mine

\* An application that begins, and a count that begins anew.
LEMMA FreshType == NoFailures \in FailRecord /\ NoFailures.count < 3 /\ NewApp \in AppRecord
BY DEF NoFailures, FailRecord, NewApp, AppRecord

LEMMA InitType ==
  ASSUME Init
  PROVE  TypeInv
<1>1. scenario \in Scenario /\ scenario.first \in Version \union {Null}
  BY ScenarioAssumption DEF Init
<1>2. FilesType /\ DaemonsType
  <2> DEFINE d == CHOOSE x \in Daemon : TRUE
             f == CHOOSE x \in File : TRUE
  <2>1. d \in Daemon /\ f \in File
    BY ProcessAssumption
  <2>2. GoneDaemon \in DaemonRecord /\ GoneDaemon.pc = "gone"
    BY DEF GoneDaemon, DaemonRecord, Version, Mine
  <2>3. CASE scenario.first = Null
    BY <2>2, <2>3 DEF Init, FilesType, DaemonsType, PageType
  <2>4. CASE scenario.first # Null
    <3>1. scenario.first \in Version
      BY <1>1, <2>4
    <3>2. /\ pidfile = d /\ path = f
          /\ page = [x \in File |-> IF x = f THEN scenario.first ELSE "ended"]
          /\ daemon = [x \in Daemon |->
               IF x # d THEN GoneDaemon
               ELSE [pc |-> "run", file |-> f, version |-> scenario.first,
                     sig |-> FALSE, loaded |-> 1, second |-> 1, overtaken |-> FALSE,
           mtime |-> 1]]
      BY <2>4 DEF Init
    <3>3. FilesType
      BY <2>1, <3>1, <3>2 DEF FilesType, PageType
    <3>4. f # NoFile
      BY <2>1, ProcessAssumption
    <3>5. [pc |-> "run", file |-> f, version |-> scenario.first,
           sig |-> FALSE, loaded |-> 1, second |-> 1, overtaken |-> FALSE,
           mtime |-> 1] \in DaemonRecord
      BY <2>1, <3>1 DEF DaemonRecord
    <3>6. DaemonsType
      BY <2>2, <3>2, <3>4, <3>5 DEF DaemonsType
    <3> QED
      BY <3>3, <3>6
  <2> QED
    BY <2>3, <2>4
<1>3. LaunchersType
  BY DEF Init, LaunchersType, LauncherRecord, Version
<1>4. AppType /\ FailType /\ CountBounded
  BY FreshType DEF Init, AppType, FailType, CountBounded
<1>5. WorldType
  <2>1. [exists |-> TRUE, rev |-> 1] \in [exists : BOOLEAN, rev : Nat \ {0}]
    OBVIOUS
  <2> QED
    BY <1>1, <2>1 DEF Init, WorldType
<1> QED
  BY <1>2, <1>3, <1>4, <1>5, TypeParts DEF TypeInv, Typed

\* The command lines keep the types.
LEMMA LauncherType ==
  ASSUME TypeInv, NEW l \in Launcher, LauncherStep(l) \/ KillTimesOut(l)
  PROVE  TypeInv'
<1>1. FilesType /\ DaemonsType /\ LaunchersType /\ AppType /\ FailType /\ WorldType
  BY TypeParts DEF TypeInv, Typed
<1>2. UNCHANGED <<path, page, app, fail, ini, scenario>>
      /\ (UNCHANGED faults \/ faults' = faults + 1)
  BY DEF LauncherStep, KillDaemon, KillWaited, KillTimesOut, Fault, DaemonizeCheck,
         DaemonizeFork, DaemonizeWrite, ipc, ui, world
<1>3. CountBounded' /\ AppType' /\ FailType' /\ WorldType'
  BY <1>1, <1>2, AppUnchanged, FailUnchanged, WorldUnchanged DEF TypeInv, CountBounded
<1>4. launcher[l] \in LauncherRecord
  BY <1>1 DEF LaunchersType
<1>5. LaunchersType' /\ FilesType'
  <2>1. pidfile' \in Daemon \union {NoPid} /\ FilesType'
    <3>1. launcher[l].pid \in Daemon \union {NoPid} /\ pidfile \in Daemon \union {NoPid}
      BY <1>1, <1>4 DEF LauncherRecord, FilesType
    <3>2. pidfile' \in {pidfile, NoPid, launcher[l].pid}
      BY DEF LauncherStep, KillDaemon, KillWaited, KillTimesOut, DaemonizeCheck,
             DaemonizeFork, DaemonizeWrite
    <3> QED
      BY <1>1, <1>2, <3>1, <3>2 DEF FilesType
  <2>2. \E r \in LauncherRecord : launcher' = [launcher EXCEPT ![l] = r]
    <3>1. CASE KillDaemon(l)
      <4>1. \E p \in {"wait", "check"}, n \in {launcher[l].pid, pidfile} :
              launcher' = [launcher EXCEPT ![l].pc = p, ![l].pid = n]
        <5>1. \A p : LauncherTo(l, p) => launcher' = [launcher EXCEPT ![l].pc = p, ![l].pid = launcher[l].pid]
          BY <1>1, <1>4 DEF LauncherTo, LaunchersType, LauncherRecord
        <5> QED
          BY <3>1, <5>1 DEF KillDaemon
      <4> QED
        BY <1>1, <1>4, <4>1 DEF LauncherRecord, LaunchersType, FilesType
    <3>2. CASE KillWaited(l) \/ KillTimesOut(l) \/ DaemonizeWrite(l)
      BY <1>1, <1>4, <3>2 DEF KillWaited, KillTimesOut, DaemonizeWrite, LauncherRecord, LaunchersType
    <3>3. CASE DaemonizeCheck(l)
      BY <1>1, <1>4, <3>3 DEF DaemonizeCheck, LauncherTo, LauncherRecord, LaunchersType
    <3>4. CASE DaemonizeFork(l)
      BY <1>1, <1>4, <3>4 DEF DaemonizeFork, LauncherRecord, LaunchersType
    <3> QED
      BY <3>1, <3>2, <3>3, <3>4 DEF LauncherStep
  <2> QED
    BY <1>1, <2>1, <2>2 DEF LaunchersType
<1>6. DaemonsType'
  <2>1. CASE KillDaemon(l)
    <3>1. CASE UNCHANGED daemon
      BY <1>1, <3>1, DaemonsUnchanged
    <3>2. CASE daemon' # daemon
      <4>1. pidfile \in Daemon
        BY <1>1, <2>1, <3>2 DEF KillDaemon, FilesType
      <4>2. daemon[pidfile] \in DaemonRecord
        BY <1>1, <4>1 DEF DaemonsType
      <4>3. \E r \in DaemonRecord :
              /\ daemon' = [daemon EXCEPT ![pidfile] = r]
              /\ r = GoneDaemon
                 \/ (r.pc = daemon[pidfile].pc /\ r.file = daemon[pidfile].file)
        <5>1. CASE daemon[pidfile].pc = "forked"
          BY <2>1, <3>2, <4>2, <5>1, GoneType DEF KillDaemon, Version
        <5>2. CASE daemon[pidfile].pc # "forked"
          <6>1. daemon' = [daemon EXCEPT ![pidfile] = [daemon[pidfile] EXCEPT !.sig = TRUE]]
            BY <2>1, <3>2, <5>2 DEF KillDaemon
          <6>2. [daemon[pidfile] EXCEPT !.sig = TRUE] \in DaemonRecord
            BY <4>2 DEF DaemonRecord
          <6> QED
            BY <4>2, <6>1, <6>2 DEF DaemonRecord
        <5> QED
          BY <5>1, <5>2
      <4> QED
        BY <1>1, <4>1, <4>3 DEF DaemonsType, GoneDaemon
    <3> QED
      BY <3>1, <3>2
  <2>2. CASE DaemonizeFork(l)
    <3>1. launcher[l].version \in Version
      BY <1>4 DEF LauncherRecord
    <3> DEFINE r == [GoneDaemon EXCEPT !.pc = "forked", !.version = launcher[l].version]
    <3>2. r \in DaemonRecord /\ r.pc = "forked"
      BY <3>1 DEF GoneDaemon, DaemonRecord
    <3>3. PICK d \in Daemon : daemon' = [daemon EXCEPT ![d] = r]
      BY <2>2 DEF DaemonizeFork
    <3> HIDE DEF r
    <3> QED
      BY <1>1, <3>2, <3>3 DEF DaemonsType
  <2>3. CASE ~KillDaemon(l) /\ ~DaemonizeFork(l)
    BY <1>1, <2>3, DaemonsUnchanged DEF LauncherStep, KillWaited, KillTimesOut,
       DaemonizeCheck, DaemonizeWrite
  <2> QED
    BY <2>1, <2>2, <2>3
<1> QED
  BY <1>3, <1>5, <1>6, TypeParts DEF TypeInv, Typed

\* A daemon keeps the types.
LEMMA DaemonType ==
  ASSUME TypeInv, NEW d \in Daemon,
         DaemonStep(d) \/ UpdateStats(d) \/ SignalEmerg(d) \/ SigKill(d)
  PROVE  TypeInv'
<1>1. FilesType /\ DaemonsType /\ LaunchersType /\ AppType /\ FailType /\ WorldType
  BY TypeParts DEF TypeInv, Typed
<1>2. UNCHANGED <<launcher, app, fail, ini, scenario>>
      /\ (UNCHANGED faults \/ faults' = faults + 1)
  BY DEF DaemonStep, AfrdInit, AfrdRun, UpdateStats, Reload, Shutdown, Exit, AfrdFini,
         SignalEmerg, SigKill, Fault, ipc, ui, world
<1>3. CountBounded' /\ AppType' /\ FailType' /\ WorldType' /\ LaunchersType'
  BY <1>1, <1>2, AppUnchanged, FailUnchanged, WorldUnchanged, LaunchersUnchanged
     DEF TypeInv, CountBounded
<1>4. daemon[d] \in DaemonRecord /\ daemon[d].version \in Version
      /\ (daemon[d].pc \in {"init", "run"} => daemon[d].file \in File)
  BY <1>1 DEF DaemonsType, DaemonRecord
<1>5. GoneDaemon \in DaemonRecord /\ GoneDaemon.pc = "gone"
  BY DEF GoneDaemon, DaemonRecord, Version, Mine
<1>6. CASE AfrdInit(d)
  <2>1. CASE ini.exists
    <3>1. path' \in File
      <4>1. CASE path # NoFile
        BY <1>1, <1>6, <2>1, <4>1 DEF AfrdInit, FilesType
      <4>2. CASE path = NoFile
        <5>1. \E f \in File : Unused(f)
          BY <1>6, <2>1, <4>2, ProcessAssumption DEF AfrdInit
        <5>2. path' = CHOOSE f \in File : Unused(f)
          BY <1>6, <2>1, <4>2 DEF AfrdInit
        <5> HIDE DEF Unused
        <5> QED
          BY <5>1, <5>2
      <4> QED
        BY <4>1, <4>2
    <3>2. page' = [page EXCEPT ![path'] = "zero"] /\ pidfile' = pidfile
          /\ daemon' = [daemon EXCEPT ![d].pc = "init", ![d].file = path',
                                      ![d].loaded = ini.rev, ![d].second = ini.sec]
      BY <1>6, <2>1 DEF AfrdInit
    <3>3. FilesType'
      BY <1>1, <3>1, <3>2 DEF FilesType, PageType
    <3>4. path' # NoFile /\ ini.rev \in Nat /\ ini.sec \in Nat
      BY <1>1, <3>1, ProcessAssumption DEF WorldType
    <3> DEFINE r == [daemon[d] EXCEPT !.pc = "init", !.file = path', !.loaded = ini.rev,
                                      !.second = ini.sec]
    <3>5. r \in DaemonRecord /\ r.file = path' /\ daemon' = [daemon EXCEPT ![d] = r]
      BY <1>1, <1>4, <3>1, <3>2, <3>4 DEF DaemonRecord, DaemonsType
    <3> HIDE DEF r
    <3>6. DaemonsType'
      BY <1>1, <3>4, <3>5 DEF DaemonsType
    <3> QED
      BY <1>3, <3>3, <3>6, TypeParts DEF TypeInv, Typed
  <2>2. CASE ~ini.exists
    <3>1. daemon' = [daemon EXCEPT ![d].pc = "exit"] /\ UNCHANGED <<pidfile, path, page>>
      BY <1>6, <2>2 DEF AfrdInit, DaemonTo, ipc
    <3>2. DaemonsType'
      BY <1>1, <1>4, <3>1 DEF DaemonsType, DaemonRecord
    <3> QED
      BY <1>1, <1>3, <3>1, <3>2, FilesUnchanged, TypeParts DEF TypeInv, Typed
  <2> QED
    BY <2>1, <2>2
<1>7. CASE AfrdRun(d) \/ UpdateStats(d)
  <2>1. page' = [page EXCEPT ![daemon[d].file] = daemon[d].version]
        /\ UNCHANGED <<pidfile, path>> /\ daemon[d].file \in File
    BY <1>4, <1>7 DEF AfrdRun, UpdateStats
  <2>2. FilesType'
    BY <1>1, <1>4, <2>1 DEF FilesType, PageType
  <2>3. DaemonsType'
    <3>1. CASE AfrdRun(d)
      <4>1. \E n \in Nat, o \in BOOLEAN : daemon' =
              [daemon EXCEPT ![d].pc = "run", ![d].mtime = n, ![d].overtaken = o]
        BY <1>1, <3>1 DEF AfrdRun, WorldType
      <4> QED
        <5>1. PICK n \in Nat, o \in BOOLEAN : daemon' =
                [daemon EXCEPT ![d].pc = "run", ![d].mtime = n, ![d].overtaken = o]
          BY <4>1
        <5> DEFINE r == [daemon[d] EXCEPT !.pc = "run", !.mtime = n, !.overtaken = o]
        <5>2. r \in DaemonRecord /\ r.file \in File /\ daemon' = [daemon EXCEPT ![d] = r]
          BY <1>1, <1>4, <3>1, <5>1 DEF DaemonsType, DaemonRecord, AfrdRun
        <5> HIDE DEF r
        <5> QED
          BY <1>1, <5>2, ProcessAssumption DEF DaemonsType
    <3>2. CASE UpdateStats(d)
      BY <1>1, <3>2, DaemonsUnchanged DEF UpdateStats
    <3> QED
      BY <1>7, <3>1, <3>2
  <2> QED
    BY <1>3, <2>2, <2>3, TypeParts DEF TypeInv, Typed
<1>8. CASE Reload(d) \/ Shutdown(d)
  <2>1. PICK p \in {"reload", "exit"} : AfrdFini(d, p) /\ pidfile' = pidfile /\ daemon[d].pc = "run"
    BY <1>8 DEF Reload, Shutdown
  <2>2. FilesType'
    BY <1>1, <1>4, <2>1 DEF AfrdFini, FilesType, PageType
  <2>3. DaemonsType'
    BY <1>1, <1>4, <2>1 DEF AfrdFini, DaemonsType, DaemonRecord
  <2> QED
    BY <1>3, <2>2, <2>3, TypeParts DEF TypeInv, Typed
<1>9. CASE Exit(d) \/ SignalEmerg(d) \/ SigKill(d)
  <2>1. daemon' = [daemon EXCEPT ![d] = GoneDaemon]
        /\ pidfile' \in {pidfile, NoPid} /\ path' \in {path, NoFile}
    BY <1>9 DEF Exit, SignalEmerg, SigKill, ipc
  <2>2. page' \in PageType
    <3>1. CASE SignalEmerg(d)
      <4>1. daemon[d].file \in File
        BY <1>4, <3>1 DEF SignalEmerg
      <4> QED
        BY <1>1, <1>4, <3>1, <4>1 DEF SignalEmerg, FilesType, PageType
    <3>2. CASE Exit(d) \/ SigKill(d)
      BY <1>1, <3>2 DEF Exit, SigKill, ipc, FilesType
    <3> QED
      BY <1>9, <3>1, <3>2
  <2>3. FilesType'
    BY <1>1, <2>1, <2>2 DEF FilesType
  <2>4. DaemonsType'
    BY <1>1, <1>5, <2>1 DEF DaemonsType
  <2> QED
    BY <1>3, <2>3, <2>4, TypeParts DEF TypeInv, Typed
<1> QED
  BY <1>6, <1>7, <1>8, <1>9 DEF DaemonStep

\* The application keeps the types.
LEMMA FailureType ==
  ASSUME fail \in FailRecord, CountBounded, OpenFailed
  PROVE  Failure(fail) \in FailRecord /\ (Failure(fail).giveUp \/ Failure(fail).count < 3)
<1>1. fail.count \in 0..3 /\ fail.count < 3 /\ fail.age \in {"none", "fresh", "due", "old"}
  BY DEF FailRecord, CountBounded, OpenFailed
<1>2. CASE fail.age = "none"
  <2>1. Failure(fail) = [fail EXCEPT !.count = 1, !.age = "fresh"]
    BY <1>2 DEF Failure
  <2>2. [fail EXCEPT !.count = 1, !.age = "fresh"] \in FailRecord
    <3>1. 1 \in 0..3
      OBVIOUS
    <3> QED
      BY <3>1, Zenon DEF FailRecord
  <2>3. Failure(fail).count < 3
    BY <2>1 DEF FailRecord
  <2> QED
    BY <2>1, <2>2, <2>3
<1>3. CASE fail.age = "fresh"
  <2>1. Failure(fail) = fail
    BY <1>3 DEF Failure
  <2>2. Failure(fail).count < 3
    BY <1>1, <2>1
  <2> QED
    BY <2>1, <2>2
<1>4. CASE fail.age = "old"
  BY <1>1, <1>4 DEF Failure, FailRecord, CountBounded
<1>5. CASE fail.age = "due"
  <2>1. Failure(fail) = [count |-> fail.count + 1, age |-> "fresh",
                         giveUp |-> fail.count + 1 >= 3]
    BY <1>5 DEF Failure
  <2>2. fail.count + 1 \in 0..3 /\ (fail.count + 1 >= 3 \/ fail.count + 1 < 3)
    BY <1>1
  <2>3. CASE fail.count + 1 >= 3
    <3>1. Failure(fail) = [count |-> fail.count + 1, age |-> "fresh", giveUp |-> TRUE]
      BY <2>1, <2>3
    <3> QED
      BY <2>2, <3>1 DEF FailRecord
  <2>4. CASE ~(fail.count + 1 >= 3)
    <3>1. Failure(fail) = [count |-> fail.count + 1, age |-> "fresh", giveUp |-> FALSE]
      <4>1. (fail.count + 1 >= 3) = FALSE
        BY <2>4
      <4> QED
        BY <2>1, <4>1
    <3> QED
      BY <2>2, <2>4, <3>1 DEF FailRecord
  <2> QED
    BY <2>3, <2>4
<1> QED
  BY <1>1, <1>2, <1>3, <1>4, <1>5

LEMMA RefreshedType ==
  ASSUME TypeOK
  PROVE  Refreshed \in File \union {NoFile} /\ VersionRead \in Version \union {Null}
<1>1. app.map \in File \union {NoFile} /\ path \in File \union {NoFile}
      /\ app.version \in Version \union {Null}
  BY DEF TypeOK
<1>2. Opened \in File \union {NoFile}
  BY <1>1 DEF Opened
<1> QED
  BY <1>1, <1>2 DEF Refreshed, VersionRead

LEMMA AppKeepsType ==
  ASSUME TypeInv, UpdateAll \/ Restarted \/ TabFails \/ SecondPasses \/ TenSecondsPass
  PROVE  TypeInv'
<1>1. FilesType /\ DaemonsType /\ LaunchersType /\ AppType /\ FailType /\ WorldType
  BY TypeParts DEF TypeInv, Typed
<1>2. UNCHANGED <<pidfile, path, page, daemon, ini, faults, scenario>>
  BY DEF UpdateAll, Restarted, TabFails, SecondPasses, TenSecondsPass, ipc, world
<1>3. FilesType' /\ DaemonsType' /\ WorldType'
  BY <1>1, <1>2, FilesUnchanged, DaemonsUnchanged, WorldUnchanged
<1>4. NoFailures \in FailRecord /\ NoFailures.count < 3 /\ NewApp \in AppRecord
  BY FreshType
<1>5. CASE UpdateAll
  <2>1. LaunchersType'
    <3>1. [pc |-> "kill", pid |-> NoPid, version |-> Mine] \in LauncherRecord
      BY DEF LauncherRecord, Version, Mine
    <3> QED
      BY <1>1, <1>5, <3>1 DEF UpdateAll, LaunchersType
  <2>2. FailType' /\ CountBounded'
    <3>1. FailAfterOpen \in FailRecord /\ (FailAfterOpen.giveUp \/ FailAfterOpen.count < 3)
      BY <1>1, FailureType DEF FailAfterOpen, FailType, TypeInv, CountBounded
    <3>2. fail' \in {NoFailures, FailAfterOpen}
      BY <1>5 DEF UpdateAll
    <3> QED
      BY <1>4, <3>1, <3>2 DEF FailType, CountBounded
  <2>3. AppType'
    <3>1. app \in AppRecord /\ Refreshed \in File \union {NoFile}
          /\ VersionRead \in Version \union {Null}
      BY <1>1, RefreshedType DEF AppType, TypeInv
    <3> HIDE DEF Refreshed, VersionRead
    <3>2. CASE app' = NewApp
      BY <1>4, <3>2 DEF AppType
    <3>3. CASE app' = [app EXCEPT !.pc = AfterUpdate(@), !.map = Refreshed, !.version = VersionRead]
      BY <3>1, <3>3 DEF AppType, AppRecord, AfterUpdate
    <3>4. CASE app' = [pc |-> IF app.pc = "start" THEN "restart_again" ELSE "restart",
                       map |-> NoFile, version |-> VersionRead, first |-> FALSE]
      BY <3>1, <3>4 DEF AppType, AppRecord
    <3> QED
      BY <1>5, <3>2, <3>3, <3>4 DEF UpdateAll
  <2> QED
    BY <1>3, <2>1, <2>2, <2>3, TypeParts DEF TypeInv, Typed
<1>6. CASE Restarted
  <2>1. AppType'
    BY <1>1, <1>6 DEF Restarted, AppType, AppRecord
  <2>2. FailType' /\ CountBounded' /\ LaunchersType'
    BY <1>1, <1>4, <1>6, LaunchersUnchanged DEF Restarted, FailType, CountBounded
  <2> QED
    BY <1>3, <2>1, <2>2, TypeParts DEF TypeInv, Typed
<1>7. CASE TabFails \/ SecondPasses \/ TenSecondsPass
  <2>1. AppType' /\ LaunchersType'
    BY <1>1, <1>7, AppUnchanged, LaunchersUnchanged DEF TabFails, SecondPasses, TenSecondsPass
  <2>2. FailType' /\ CountBounded'
    <3>1. CASE TabFails
      BY <1>1, <3>1, FailureType DEF TabFails, FailType, CountBounded, TypeInv
    <3>2. CASE SecondPasses \/ TenSecondsPass
      <4>1. PICK a \in {"due", "old"} : fail' = [fail EXCEPT !.age = a]
        BY <3>2 DEF SecondPasses, TenSecondsPass
      <4> QED
        BY <1>1, <4>1 DEF FailType, FailRecord, CountBounded, TypeInv
    <3> QED
      BY <1>7, <3>1, <3>2
  <2> QED
    BY <1>3, <2>1, <2>2, TypeParts DEF TypeInv, Typed
<1> QED
  BY <1>5, <1>6, <1>7

\* Saving the settings keeps the types.
LEMMA SaveKeepsType ==
  ASSUME TypeInv, SaveDelete \/ SaveRename
  PROVE  TypeInv'
<1>1. FilesType /\ DaemonsType /\ LaunchersType /\ AppType /\ FailType /\ WorldType
  BY TypeParts DEF TypeInv, Typed
<1>2. UNCHANGED <<pidfile, path, page, daemon, launcher, app, fail, faults, scenario>>
  BY DEF SaveDelete, SaveRename, ipc, ui, world
<1>3. WorldType'
  <2>1. /\ ini.rev \in Nat \ {0} /\ ini.rev + 1 \in Nat \ {0}
        /\ ini.sec \in Nat \ {0} /\ ini.sec + 1 \in Nat \ {0}
    BY <1>1 DEF WorldType
  <2>2. ini' \in [exists : BOOLEAN, rev : Nat \ {0}, sec : Nat \ {0}]
    <3>1. CASE SaveDelete
      BY <1>1, <3>1 DEF WorldType, SaveDelete
    <3>2. CASE SaveRename
      BY <2>1, <3>2 DEF SaveRename
    <3> QED
      BY <3>1, <3>2
  <2> QED
    BY <1>1, <1>2, <2>2 DEF WorldType
<1> QED
  BY <1>1, <1>2, <1>3, FilesUnchanged, DaemonsUnchanged, LaunchersUnchanged, AppUnchanged,
     FailUnchanged, TypeParts DEF TypeInv, Typed, CountBounded

LEMMA TypeStep == TypeInv /\ [Next]_vars => TypeInv'
<1> SUFFICES ASSUME TypeInv, [Next]_vars PROVE TypeInv'
  OBVIOUS
<1>1. CASE UNCHANGED vars
  BY <1>1 DEF vars, ipc, ui, world, TypeInv, TypeOK, CountBounded
<1>2. CASE Next
  BY <1>2, LauncherType, DaemonType, AppKeepsType, SaveKeepsType DEF Next
<1> QED
  BY <1>1, <1>2

\* The variables of launchers, daemons and the application keep their types, the
\* count of failures among them ("three and the rest is given up").
THEOREM TypeCorrect == Spec => []TypeOK
<1>1. TypeInv => TypeOK
  BY DEF TypeInv
<1> QED
  BY <1>1, InitType, TypeStep, PTL DEF Spec

-----------------------------------------------------------------------------
(* One daemon *)

\* The process that may be alive: the one of the PID file, or the one that the
\* service's command line waits for or has just made.
InCharge ==
  CASE launcher[service].pc \in {"done", "kill"} -> pidfile
    [] launcher[service].pc \in {"wait", "write"} -> launcher[service].pid
    [] launcher[service].pc \in {"check", "fork"} -> NoPid

\* Nobody else starts daemons, the service does it once at a time, and nobody but
\* the one in charge is alive.
OneAtATime ==
  /\ \A l \in Launcher \ {service} : launcher[l].pc = "done"
  /\ app.pc \in {"start", "again", "idle"} => launcher[service].pc = "done"
  /\ \A d \in Daemon : Alive(d) => d = InCharge

Alone == scenario.launchers = {} /\ ~May("slow")
OneInv == TypeInv /\ (Alone => OneAtATime)

LEMMA InitAlone ==
  ASSUME Init, Alone
  PROVE  OneAtATime
<1>1. service \in Launcher
  BY ProcessAssumption
<1>2. \A l \in Launcher : launcher[l].pc = "done"
  BY DEF Init, Alone
<1>3. \A d \in Daemon : Alive(d) => d = pidfile
  <2>1. CASE scenario.first = Null
    BY <2>1 DEF Init, Alive, GoneDaemon
  <2>2. CASE scenario.first # Null
    <3> DEFINE x == CHOOSE x \in Daemon : TRUE
    <3>1. pidfile = x /\ \A d \in Daemon : d # x => daemon[d] = GoneDaemon
      BY <2>2 DEF Init
    <3> QED
      BY <3>1 DEF Alive, GoneDaemon
  <2> QED
    BY <2>1, <2>2
<1> QED
  BY <1>1, <1>2, <1>3 DEF OneAtATime, InCharge

\* What the service's command line does while it works alone.
LEMMA LauncherAlone ==
  ASSUME OneInv, Alone, NEW l \in Launcher, LauncherStep(l) \/ KillTimesOut(l)
  PROVE  OneAtATime'
<1>1. OneAtATime /\ service \in Launcher /\ NoPid \notin Daemon
  BY ProcessAssumption DEF OneInv
<1>2. launcher \in [Launcher -> LauncherRecord] /\ daemon \in [Daemon -> DaemonRecord]
      /\ pidfile \in Daemon \union {NoPid}
  BY TypeParts DEF OneInv, TypeInv, Typed, LaunchersType, DaemonsType, FilesType
<1>3. ~KillTimesOut(l)
  BY DEF KillTimesOut, Fault, Alone
<1>4. l = service
  BY <1>1, <1>3 DEF OneAtATime, LauncherStep, KillDaemon, KillWaited, DaemonizeCheck,
                    DaemonizeFork, DaemonizeWrite
<1>5. /\ UNCHANGED app
      /\ \A k \in Launcher \ {service} : launcher'[k] = launcher[k]
      /\ app.pc \notin {"start", "again", "idle"}
  BY <1>1, <1>2, <1>3, <1>4 DEF OneAtATime, LauncherStep, KillDaemon, KillWaited, DaemonizeCheck,
     DaemonizeFork, DaemonizeWrite, LauncherTo, ui
<1>6. \A d \in Daemon : Alive(d)' => d = InCharge'
  <2> SUFFICES ASSUME NEW d \in Daemon, Alive(d)' PROVE d = InCharge'
    OBVIOUS
  <2>1. CASE KillDaemon(service)
    <3>1. Alive(d)
      BY <1>2, <2>1 DEF KillDaemon, Alive, GoneDaemon
    <3>2. d = pidfile /\ Alive(pidfile)
      BY <1>1, <2>1, <3>1 DEF OneAtATime, InCharge, KillDaemon
    <3>3. launcher'[service].pc = "wait" /\ launcher'[service].pid = pidfile
      BY <1>1, <1>2, <2>1, <3>2 DEF KillDaemon, LauncherRecord
    <3> QED
      BY <3>2, <3>3 DEF InCharge
  <2>2. CASE KillWaited(service)
    BY <1>1, <2>2 DEF KillWaited, OneAtATime, InCharge, Alive
  <2>3. CASE DaemonizeCheck(service)
    BY <1>1, <2>3 DEF DaemonizeCheck, OneAtATime, InCharge, Alive
  <2>4. CASE DaemonizeFork(service)
    <3>1. PICK e \in Daemon :
            /\ daemon' = [daemon EXCEPT ![e] =
                 [GoneDaemon EXCEPT !.pc = "forked", !.version = launcher[service].version]]
            /\ launcher' = [launcher EXCEPT ![service].pc = "write", ![service].pid = e]
      BY <2>4 DEF DaemonizeFork
    <3>2. d # e => Alive(d)
      BY <1>2, <3>1 DEF Alive
    <3>3. ~Alive(d)
      BY <1>1, <2>4 DEF OneAtATime, InCharge, DaemonizeFork
    <3>4. launcher'[service].pc = "write" /\ launcher'[service].pid = e
      BY <1>1, <1>2, <3>1 DEF LauncherRecord
    <3> QED
      BY <3>2, <3>3, <3>4 DEF InCharge
  <2>5. CASE DaemonizeWrite(service)
    <3>1. launcher'[service].pc = "done" /\ pidfile' = launcher[service].pid
          /\ Alive(d) /\ launcher[service].pc = "write"
      BY <1>1, <1>2, <2>5 DEF DaemonizeWrite, LauncherRecord, Alive
    <3> QED
      BY <1>1, <3>1 DEF OneAtATime, InCharge
  <2> QED
    BY <1>3, <1>4, <2>1, <2>2, <2>3, <2>4, <2>5 DEF LauncherStep
<1> QED
  BY <1>1, <1>5, <1>6 DEF OneAtATime

\* A daemon wakes nobody; when it ends and removes the PID file, nobody is left.
LEMMA DaemonAlone ==
  ASSUME OneInv, Alone, NEW d \in Daemon,
         DaemonStep(d) \/ UpdateStats(d) \/ SignalEmerg(d) \/ SigKill(d)
  PROVE  OneAtATime'
<1>1. OneAtATime /\ daemon \in [Daemon -> DaemonRecord]
  BY TypeParts DEF OneInv, TypeInv, Typed, DaemonsType
<1>2. UNCHANGED <<launcher, app>>
  BY DEF DaemonStep, AfrdInit, AfrdRun, UpdateStats, Reload, Shutdown, Exit, SignalEmerg, SigKill, ui
<1>3. Alive(d) /\ \A e \in Daemon : Alive(e)' => Alive(e)
  BY <1>1 DEF DaemonStep, AfrdInit, AfrdRun, UpdateStats, Reload, Shutdown, Exit, AfrdFini,
              DaemonTo, SignalEmerg, SigKill, Alive, GoneDaemon
<1>4. UNCHANGED pidfile \/ \A e \in Daemon : ~Alive(e)'
  <2>1. CASE Exit(d) \/ SignalEmerg(d)
    <3>1. daemon' = [daemon EXCEPT ![d] = GoneDaemon]
      BY <2>1 DEF Exit, SignalEmerg
    <3>2. \A e \in Daemon : Alive(e) => e = d
      BY <1>1, <1>3 DEF OneAtATime
    <3> QED
      BY <1>1, <1>3, <3>1, <3>2 DEF Alive, GoneDaemon
  <2>2. CASE ~(Exit(d) \/ SignalEmerg(d))
    BY <2>2 DEF DaemonStep, AfrdInit, AfrdRun, UpdateStats, Reload, Shutdown, SigKill
  <2> QED
    BY <2>1, <2>2
<1> QED
  BY <1>1, <1>2, <1>3, <1>4 DEF OneAtATime, InCharge

LEMMA AppAlone ==
  ASSUME OneInv, Alone, UpdateAll \/ Restarted
  PROVE  OneAtATime'
<1>1. OneAtATime /\ launcher \in [Launcher -> LauncherRecord] /\ service \in Launcher
      /\ app \in AppRecord
  BY TypeParts, ProcessAssumption DEF OneInv, TypeInv, Typed, LaunchersType, AppType
<1>2. UNCHANGED <<pidfile, daemon>>
      /\ launcher[service].pc = "done"
      /\ \A k \in Launcher \ {service} : launcher'[k] = launcher[k]
  BY <1>1 DEF UpdateAll, Restarted, OneAtATime
<1>3. launcher'[service].pc \in {"done", "kill"}
      /\ (launcher'[service].pc = "kill" => app'.pc \in {"restart", "restart_again"})
  BY <1>1, <1>2 DEF UpdateAll, Restarted
<1>4. InCharge' = pidfile /\ InCharge = pidfile
  BY <1>2, <1>3 DEF InCharge
<1> QED
  BY <1>1, <1>2, <1>3, <1>4 DEF OneAtATime, Alive

LEMMA OneStep == OneInv /\ [Next]_vars => OneInv'
<1> SUFFICES ASSUME OneInv, [Next]_vars PROVE OneInv'
  OBVIOUS
<1>1. TypeInv'
  BY TypeStep DEF OneInv
<1>2. UNCHANGED scenario
  BY DEF Next, LauncherStep, KillDaemon, KillWaited, KillTimesOut, DaemonizeCheck, DaemonizeFork,
         DaemonizeWrite, DaemonStep, AfrdInit, AfrdRun, UpdateStats, Reload, Shutdown, Exit,
         SignalEmerg, SigKill, UpdateAll, Restarted, TabFails, SecondPasses, TenSecondsPass,
         SaveDelete, SaveRename, vars, world
<1>3. ASSUME Alone
      PROVE  OneAtATime'
  <2>1. CASE UNCHANGED <<pidfile, daemon, launcher, app>>
    BY <1>3, <2>1 DEF OneInv, OneAtATime, Alive, InCharge
  <2>2. CASE ~UNCHANGED <<pidfile, daemon, launcher, app>>
    <3>1. \/ \E l \in Launcher : LauncherStep(l) \/ KillTimesOut(l)
          \/ \E d \in Daemon : DaemonStep(d) \/ UpdateStats(d) \/ SignalEmerg(d) \/ SigKill(d)
          \/ UpdateAll \/ Restarted
      BY <2>2 DEF Next, TabFails, SecondPasses, TenSecondsPass, SaveDelete, SaveRename, vars, ui
    <3> QED
      BY <1>3, <3>1, LauncherAlone, DaemonAlone, AppAlone
  <2> QED
    BY <2>1, <2>2
<1> QED
  BY <1>1, <1>2, <1>3 DEF OneInv, Alone, May

\* Commands to restart that come one after another never have two daemons at
\* work on the display, however daemons crash, are killed, reload or find no
\* configuration, if each ends in the time that kill_daemon gives it.
THEOREM NeverTwoDaemons == Spec => []OneDaemon
<1>1. Init => OneInv
  BY InitType, InitAlone DEF OneInv
<1>2. OneInv => OneDaemon
  BY DEF OneInv, OneDaemon, Alone, OneAtATime
<1> QED
  BY <1>1, <1>2, OneStep, PTL DEF Spec
=============================================================================
