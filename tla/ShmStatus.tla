------------------------------ MODULE ShmStatus ------------------------------
(***************************************************************************)
(* The status page of afrd: the daemon copies g_afrd_stats word by word    *)
(* into a file mapped by its clients (shmem.c), and a client copies the    *)
(* page word by word out of its own mapping (Status.java; shmem_read does  *)
(* the same for afrd -s).  No lock is taken; a client trusts a copy whose  *)
(* two checksums agree with each other and with the words between them.    *)
(*                                                                         *)
(* The file lives as long as somebody maps it: daemons and clients hold an *)
(* inode, `path' is the inode the name afrd.ipc stands for.  A daemon that *)
(* was killed leaves its file behind, and the next one adopts it.          *)
(*                                                                         *)
(* A checksum stands for the words it was computed from: CRC32 is taken to *)
(* be injective, and neither 0 nor an incremented checksum to be one of    *)
(* words that occur.  The words of a memcpy are stored in any order that    *)
(* respects Before; the client loads them from the first to the last.      *)
(***************************************************************************)
EXTENDS Naturals, Sequences, Functions

CONSTANTS
  Daemon, Client,   \* processes
  Inode,            \* files that may be created, numbered from 1
  Field, Value,     \* the words between the checksums, "size" among them
  Order,            \* the words as they follow each other in afrd_shmem_t
  Before,           \* pairs of words that memcpy stores one before the other
  Status,           \* what update_stats may publish
  Full, Zero,       \* sizeof (afrd_shmem_t) and 0
  Bumped,           \* a checksum that crc32++ has made wrong
  NoView,           \* the client has shown nothing yet
  Scenario          \* what an instance lets happen to its daemons

ASSUME FieldAssumption ==
  /\ "size" \in Field /\ {"crc", "copy"} \cap Field = {}
  /\ Full \in Value /\ Zero \in Value /\ Full # Zero
  /\ Order \in Seq(Field \union {"crc", "copy"})
ASSUME StatusAssumption ==
  /\ Status \subseteq [Field -> Value]
  /\ \A s \in Status : s["size"] = Full
  /\ Zero \notin [Field -> Value] /\ Bumped \notin [Field -> Value]
  /\ NoView \notin Status
\* The ways a daemon may end early, "kill" and "emerg"; whether daemons may
\* "overlap"; which take part; bounds on the statuses published (but for the
\* last one of an emergency) and on the files.
ASSUME ScenarioAssumption ==
  \A s \in Scenario :
    s.daemons \subseteq Daemon /\ s.MaxPosts \in Nat /\ s.MaxFiles \in Nat
ASSUME InodeAssumption == Inode \subseteq Nat \ {0}

VARIABLES
  path,     \* the inode of afrd.ipc, 0 if there is no such file
  created,  \* inodes created so far
  page,     \* the words of every inode
  long,     \* whether the inode has the length of a page, or is still empty
  log,      \* history: the statuses whose checksum was stored in the inode
  ver,      \* history: the number in log of the checksum now in the page
  daemon,   \* shmem.c of every daemon
  client,   \* Status.java of every client
  giveUp,   \* whether mFail of the client has given up
  seen,     \* history: the inode and number of what the client shows
  view,     \* the fields of Status.java
  scenario

files == <<path, created, page, long, log, ver>>
shown == <<seen, view>>
vars == <<files, daemon, client, giveUp, shown, scenario>>

Word == Field \union {"crc", "copy"}
Body(p) == [f \in Field |-> p[f]]
PageOf(s) == [w \in Word |-> IF w \in Field THEN s[w] ELSE s]
ZeroPage == [w \in Word |-> IF w = "size" THEN Full ELSE Zero]

\* The checks of refresh and of shmem_read on a copy.
Consistent_bug(p) == p["crc"] = p["copy"]
Consistent(p) == p["crc"] = p["copy"] /\ p["crc"] = Body(p)

-----------------------------------------------------------------------------
(* The daemon *)

\* What is being copied into the page: a status, or the zeroes of shmem_init.
Source(d) == IF daemon[d].src = Zero THEN ZeroPage ELSE PageOf(daemon[d].src)
Mine(d) == daemon[d].inode
Ended(d) == daemon[d].pc \in {"off", "dead"}
faults == scenario.faults
Enter(d, p) == daemon' = [daemon EXCEPT ![d].pc = p]

\* The file is created, or the one left by a daemon that was killed is opened.
ShmemInit(d) ==
  /\ d \in scenario.daemons /\ Ended(d)
  /\ "overlap" \in faults \/ \A e \in Daemon : Ended(e)
  /\ IF path = 0
     THEN /\ created < scenario.MaxFiles /\ created + 1 \in Inode
          /\ created' = created + 1 /\ path' = created + 1
     ELSE UNCHANGED <<created, path>>
  /\ daemon' = [daemon EXCEPT ![d] =
       IF path # 0 /\ long[path]
       THEN [pc |-> "run", inode |-> path, src |-> Zero, todo |-> Word]
       ELSE [pc |-> "extend", inode |-> path', src |-> Zero, todo |-> {}]]
  /\ UNCHANGED <<page, long, log, ver, client, giveUp, shown, scenario>>

\* The first write to an empty file gives it its length.
Extend(d) ==
  /\ daemon[d].pc = "extend"
  /\ page' = [page EXCEPT ![Mine(d)] = ZeroPage]
  /\ long' = [long EXCEPT ![Mine(d)] = TRUE]
  /\ Enter(d, "run")
  /\ UNCHANGED <<path, created, log, ver, client, giveUp, shown, scenario>>

Copying(d, s, p) ==
  daemon' = [daemon EXCEPT ![d].pc = p, ![d].src = s, ![d].todo = Word]

Posts == FoldFunction(LAMBDA l, n : n + Len(l), 0, log)

ShmemUpdate(d, s) ==
  /\ daemon[d].pc = "run" /\ daemon[d].todo = {}
  /\ Posts < scenario.MaxPosts
  /\ Copying(d, s, "run")
  /\ UNCHANGED <<files, client, giveUp, shown, scenario>>

\* One word of memcpy. The history counts a status from its first checksum on.
Store(d, w) ==
  /\ daemon[d].pc \in {"run", "emerg_copy"} /\ w \in daemon[d].todo
  /\ \A v \in daemon[d].todo : <<v, w>> \notin Before
  /\ page' = [page EXCEPT ![Mine(d)][w] = Source(d)[w]]
  /\ daemon' = [daemon EXCEPT ![d].todo = @ \ {w}]
  /\ IF w = "crc" /\ daemon[d].src # Zero
     THEN /\ log' = [log EXCEPT ![Mine(d)] = Append(@, daemon[d].src)]
          /\ ver' = [ver EXCEPT ![Mine(d)] = Len(log[Mine(d)]) + 1]
     ELSE UNCHANGED <<log, ver>>
  /\ UNCHANGED <<path, created, long, client, giveUp, shown, scenario>>

ClearSize(d, from, to) ==
  /\ daemon[d].pc = from
  /\ page' = [page EXCEPT ![Mine(d)]["size"] = Zero]
  /\ Enter(d, to)
  /\ UNCHANGED <<path, created, long, log, ver, client, giveUp, shown, scenario>>

BumpCrc_bug(d, from, to) ==
  /\ daemon[d].pc = from
  /\ Enter(d, to)
  /\ UNCHANGED <<files, client, giveUp, shown, scenario>>
BumpCrc(d, from, to) ==
  /\ daemon[d].pc = from
  /\ page' = [page EXCEPT ![Mine(d)]["crc"] = Bumped]
  /\ Enter(d, to)
  /\ UNCHANGED <<path, created, long, log, ver, client, giveUp, shown, scenario>>

\* shmem_fini: size=0, crc32++, then the name is removed, whoever made it.
ShmemFini(d) == daemon[d].todo = {} /\ ClearSize(d, "run", "fini_crc")
FiniCrc(d) == BumpCrc(d, "fini_crc", "unlink")
Unlink(d) ==
  /\ daemon[d].pc = "unlink"
  /\ path' = 0
  /\ Enter(d, "off")
  /\ UNCHANGED <<created, page, long, log, ver, client, giveUp, shown, scenario>>

\* signal_emerg interrupts whatever was being copied: shmem_emerg, then the
\* restoration of the display, if it is switched, with its update_stats.
ShmemEmerg(d) ==
  /\ daemon[d].pc = "run" /\ "emerg" \in faults
  /\ path' = 0
  /\ daemon' = [daemon EXCEPT ![d].pc = "emerg_size", ![d].todo = {}]
  /\ UNCHANGED <<created, page, long, log, ver, client, giveUp, shown, scenario>>
EmergSize(d) == ClearSize(d, "emerg_size", "emerg_crc")
EmergCrc(d) == BumpCrc(d, "emerg_crc", "restore")
EmergRestore(d) ==
  /\ daemon[d].pc = "restore"
  /\ \/ Enter(d, "dead")
     \/ daemon[d].src # Zero /\ \E s \in Status : Copying(d, s, "emerg_copy")
  /\ UNCHANGED <<files, client, giveUp, shown, scenario>>
EmergEnd(d) ==
  /\ daemon[d].pc = "emerg_copy" /\ daemon[d].todo = {}
  /\ Enter(d, "dead")
  /\ UNCHANGED <<files, client, giveUp, shown, scenario>>

\* SIGKILL, or the power is cut: nothing is cleaned up.
Kill(d) ==
  /\ ~Ended(d) /\ "kill" \in faults
  /\ daemon' = [daemon EXCEPT ![d].pc = "dead", ![d].todo = {}]
  /\ UNCHANGED <<files, client, giveUp, shown, scenario>>

-----------------------------------------------------------------------------
(* The client. Its timer calls open, if there is no mapping, and refresh.  *)

Goto(c, p) == client' = [client EXCEPT ![c].pc = p]
Unmapped == [pc |-> "idle", map |-> 0, long |-> FALSE, last |-> Zero,
             copy |-> ZeroPage, loaded |-> 0, ver |-> 0]
Mapped_bug(p) == [Unmapped EXCEPT !.pc = p, !.long = long[path]]
Mapped(p) == [Unmapped EXCEPT !.pc = p, !.map = path, !.long = long[path]]
CLIENT == UNCHANGED <<files, daemon, shown, scenario>>

\* An open that fails may be the one after which mFail gives up (failures less
\* than a second or more than ten apart do not count; Supervision counts them).
OpenFails(c) ==
  /\ path = 0 /\ client' = [client EXCEPT ![c] = Unmapped]
  /\ giveUp' \in {giveUp, [giveUp EXCEPT ![c] = TRUE]}
Opens(c, p) ==
  path # 0 /\ client' = [client EXCEPT ![c] = Mapped(p)] /\ UNCHANGED giveUp

Tick(c) ==
  /\ client[c].pc = "idle"
  /\ \/ client[c].map # 0 /\ Goto(c, "exists") /\ UNCHANGED giveUp
     \/ client[c].map = 0 /\ ~giveUp[c] /\ (OpenFails(c) \/ Opens(c, "exists"))
  /\ CLIENT

\* mFail is shared with the status tab, whose attempts to open may fail as well;
\* Control.restart gives it another chance.
TabFails(c) ==
  /\ client[c].pc = "idle" /\ path = 0
  /\ giveUp' = [giveUp EXCEPT ![c] = TRUE]
  /\ UNCHANGED client /\ CLIENT
Restart(c) ==
  /\ client[c].pc = "idle" /\ giveUp' = [giveUp EXCEPT ![c] = FALSE]
  /\ UNCHANGED client /\ CLIENT

CheckShm(c) ==
  /\ client[c].pc = "exists"
  /\ client' = [client EXCEPT ![c] =
       IF path = 0 THEN Unmapped ELSE [client[c] EXCEPT !.pc = "stamp"]]
  /\ UNCHANGED giveUp /\ CLIENT

\* A mapping of an empty file: getInt and getShort throw, and the application
\* ends; the system starts it again.
AppEnds(c) ==
  /\ client[c].pc \in {"stamp", "size", "size_again"} /\ ~client[c].long
  /\ client[c].pc = "stamp" => ~giveUp[c]
  /\ giveUp' = [giveUp EXCEPT ![c] = FALSE]
  /\ client' = [client EXCEPT ![c] = Unmapped]
  /\ seen' = [seen EXCEPT ![c] = <<0, 0>>]
  /\ view' = [view EXCEPT ![c] = NoView]
  /\ UNCHANGED <<files, daemon, scenario>>

\* A last stamp of Zero stands for !mLastStampValid.
Changed_bug(c) == client[c].last = Zero \/ page[client[c].map]["copy"] # client[c].last
Changed(c) == client[c].last = Zero \/ page[client[c].map]["crc"] # client[c].last

CompareStamp(c) ==
  /\ client[c].pc = "stamp" /\ (client[c].long \/ giveUp[c])
  /\ Goto(c, IF ~giveUp[c] /\ Changed(c) THEN "size" ELSE "idle")
  /\ UNCHANGED giveUp /\ CLIENT

SizeFits(c) == page[client[c].map]["size"] = Full
StartCopy(c) ==
  client' = [client EXCEPT ![c].pc = "copy", ![c].loaded = 0]

\* The page of a daemon that has ended: the client opens the name again.
CheckSize(c) ==
  /\ client[c].pc = "size" /\ client[c].long
  /\ IF SizeFits(c) THEN StartCopy(c) /\ UNCHANGED giveUp
     ELSE OpenFails(c) \/ Opens(c, "size_again")
  /\ CLIENT

CheckSizeAgain(c) ==
  /\ client[c].pc = "size_again" /\ client[c].long
  /\ IF SizeFits(c) THEN StartCopy(c)
     ELSE client' = [client EXCEPT ![c] = Unmapped]
  /\ UNCHANGED giveUp /\ CLIENT

Load(c) ==
  LET w == Order[client[c].loaded + 1]
  IN /\ client[c].pc = "copy" /\ client[c].loaded < Len(Order)
     /\ client' = [client EXCEPT
          ![c].copy[w] = page[client[c].map][w],
          ![c].loaded = @ + 1,
          ![c].ver = IF w = "crc" THEN ver[client[c].map] ELSE @]
     /\ UNCHANGED giveUp /\ CLIENT

Take(c) ==
  /\ client[c].pc = "copy" /\ client[c].loaded = Len(Order)
  /\ client' = [client EXCEPT ![c].pc = "idle", ![c].copy = ZeroPage,
       ![c].loaded = 0, ![c].ver = 0,
       ![c].last = IF Consistent(client[c].copy) THEN client[c].copy["crc"] ELSE @]
  /\ IF Consistent(client[c].copy)
     THEN /\ view' = [view EXCEPT ![c] = Body(client[c].copy)]
          /\ seen' = [seen EXCEPT ![c] = <<client[c].map, client[c].ver>>]
     ELSE UNCHANGED shown
  /\ UNCHANGED <<files, daemon, giveUp, scenario>>

-----------------------------------------------------------------------------
Init ==
  /\ path = 0 /\ created = 0
  /\ page = [i \in Inode |-> ZeroPage]
  /\ long = [i \in Inode |-> FALSE]
  /\ log = [i \in Inode |-> <<>>]
  /\ ver = [i \in Inode |-> 0]
  /\ daemon = [d \in Daemon |->
                 [pc |-> "off", inode |-> 0, src |-> Zero, todo |-> {}]]
  /\ client = [c \in Client |-> Unmapped]
  /\ giveUp = [c \in Client |-> FALSE]
  /\ seen = [c \in Client |-> <<0, 0>>]
  /\ view = [c \in Client |-> NoView]
  /\ scenario \in Scenario

\* The steps that complete what a daemon has begun.
DaemonStep(d) ==
  \/ Extend(d) \/ FiniCrc(d) \/ Unlink(d)
  \/ EmergSize(d) \/ EmergCrc(d) \/ EmergRestore(d) \/ EmergEnd(d)
  \/ \E w \in Word : Store(d, w)

DaemonEvent(d) ==
  \/ ShmemInit(d) \/ ShmemFini(d) \/ ShmemEmerg(d) \/ Kill(d)
  \/ \E s \in Status : ShmemUpdate(d, s)

ClientStep(c) ==
  \/ Tick(c) \/ CheckShm(c) \/ AppEnds(c) \/ CompareStamp(c)
  \/ CheckSize(c) \/ CheckSizeAgain(c) \/ Load(c) \/ Take(c)

ClientEvent(c) == TabFails(c) \/ Restart(c)

Next ==
  \/ \E d \in Daemon : DaemonStep(d) \/ DaemonEvent(d)
  \/ \E c \in Client : ClientStep(c) \/ ClientEvent(c)

Spec == Init /\ [][Next]_vars

\* A daemon completes what it began, and the timers of the clients go on.
FairSpec ==
  /\ Spec
  /\ \A d \in Daemon : WF_vars(DaemonStep(d))
  /\ \A c \in Client : WF_vars(ClientStep(c))

-----------------------------------------------------------------------------
(* Properties *)

Stamp == [Field -> Value] \union {Zero, Bumped}
PageType == {p \in [Word -> Value \union Stamp] :
               Body(p) \in [Field -> Value] /\ p["crc"] \in Stamp /\ p["copy"] \in Stamp}
DaemonPc == {"off", "extend", "run", "fini_crc", "unlink", "emerg_size",
             "emerg_crc", "restore", "emerg_copy", "dead"}
ClientPc == {"idle", "exists", "stamp", "size", "size_again", "copy"}
DaemonType ==
  [pc : DaemonPc, inode : Inode \union {0}, src : Status \union {Zero},
   todo : SUBSET Word]
ClientType ==
  [pc : ClientPc, map : Inode \union {0}, long : BOOLEAN, last : Stamp,
   copy : PageType, loaded : 0..Len(Order), ver : Nat]

\* Every variable keeps its range; a process that uses a file has one.
TypeOK ==
  /\ path \in Inode \union {0} /\ created \in Nat
  /\ page \in [Inode -> PageType] /\ long \in [Inode -> BOOLEAN]
  /\ log \in [Inode -> Seq(Status)] /\ ver \in [Inode -> Nat]
  /\ daemon \in [Daemon -> DaemonType]
  /\ \A d \in Daemon : daemon[d].inode = 0 => daemon[d].pc \in {"off", "dead"}
  /\ client \in [Client -> ClientType]
  /\ \A c \in Client : client[c].map = 0 => client[c].pc = "idle"
  /\ giveUp \in [Client -> BOOLEAN]
  /\ seen \in [Client -> (Inode \union {0}) \X Nat]
  /\ view \in [Client -> Status \union {NoView}]

\* What a client shows is never put together from two statuses: it is, word for
\* word, the status its place in the history names.
ShownWhole ==
  \A c \in Client :
    IF view[c] = NoView THEN seen[c] = <<0, 0>>
    ELSE /\ seen[c][2] \in DOMAIN log[seen[c][1]]
         /\ view[c] = log[seen[c][1]][seen[c][2]]

Board == INSTANCE StatusBoard WITH Edition <- Inode, board <- log

\* The word-by-word protocol without locks implements the board on which
\* statuses are posted and looked at in one step each, in the order posted.
ImplementsStatusBoard == Board!Spec

\* A status that daemons go on serving is shown in the end, whatever file was mapped
\* ("force clients to re-open the shm"), by every client that does not give up for
\* good: after three failures only Control.restart makes it open the page again.
Serves(d, s) ==
  /\ daemon[d].pc = "run" /\ daemon[d].inode = path
  /\ daemon[d].todo = {} /\ daemon[d].src = s
CatchesUp ==
  \A c \in Client, s \in Status :
    <>[](\E d \in Daemon : Serves(d, s)) /\ []<>~giveUp[c] => <>[](view[c] = s)

\* That holds after daemons that stopped as they should or were killed.
CatchesUpAfterEnd == faults \subseteq {"kill"} => CatchesUp
=============================================================================
