--------------------------- MODULE ShmStatusProofs ---------------------------
(***************************************************************************)
(* The status page for any number of daemons and clients, any words, any   *)
(* order in which memcpy may store them and any statuses: what a client    *)
(* shows was posted as it stands, and is never older than what it showed.  *)
(***************************************************************************)
EXTENDS ShmStatus, TLAPS

FilesType ==
  /\ path \in Inode \union {0} /\ created \in Nat
  /\ page \in [Inode -> PageType] /\ long \in [Inode -> BOOLEAN]
  /\ log \in [Inode -> Seq(Status)] /\ ver \in [Inode -> Nat]
DaemonsType ==
  /\ daemon \in [Daemon -> DaemonType]
  /\ \A d \in Daemon : daemon[d].inode = 0 => daemon[d].pc \in {"off", "dead"}
ClientsType ==
  /\ client \in [Client -> ClientType]
  /\ \A c \in Client : client[c].map = 0 => client[c].pc = "idle"
GiveUpType == giveUp \in [Client -> BOOLEAN]
ShownType ==
  /\ seen \in [Client -> (Inode \union {0}) \X Nat]
  /\ view \in [Client -> Status \union {NoView}]

\* The type invariant, in parts: every action leaves most of them alone.
LEMMA TypeParts ==
  TypeOK <=> FilesType /\ DaemonsType /\ ClientsType /\ GiveUpType /\ ShownType
BY DEF TypeOK, FilesType, DaemonsType, ClientsType, GiveUpType, ShownType

-----------------------------------------------------------------------------
(* Pages *)

\* A page of zeroes, and the page of a status, are pages.
LEMMA ZeroPageType == ZeroPage \in PageType
BY FieldAssumption DEF ZeroPage, PageType, Word, Stamp, Body

LEMMA PageOfType ==
  ASSUME NEW s \in Status
  PROVE  PageOf(s) \in PageType
<1>1. s \in [Field -> Value] /\ s \in Stamp
  BY StatusAssumption DEF Stamp
<1>2. \A f \in Field : f # "crc" /\ f # "copy"
  BY FieldAssumption
<1>3. PageOf(s) \in [Word -> Value \union Stamp]
  BY <1>1 DEF PageOf, Word
<1>4. \A f \in Field : Body(PageOf(s))[f] = s[f]
  BY DEF PageOf, Word, Body
<1>5. Body(PageOf(s)) \in [Field -> Value]
  BY <1>1, <1>4 DEF Body
<1> QED
  BY <1>1, <1>2, <1>3, <1>5 DEF PageType, PageOf, Word

\* A word is of its kind, and one of its kind may take its place.
Fits(w, x) == IF w \in Field THEN x \in Value ELSE x \in Stamp

LEMMA WordFits ==
  ASSUME NEW p \in PageType, NEW w \in Word
  PROVE  Fits(w, p[w])
<1>1. CASE w \in Field
  <2>1. Body(p)[w] = p[w] /\ Body(p) \in [Field -> Value]
    BY <1>1 DEF Body, PageType
  <2> QED BY <1>1, <2>1 DEF Fits
<1>2. CASE w \notin Field
  BY <1>2 DEF Fits, PageType, Word
<1> QED BY <1>1, <1>2

LEMMA WordStored ==
  ASSUME NEW p \in PageType, NEW w \in Word, NEW x, Fits(w, x)
  PROVE  [p EXCEPT ![w] = x] \in PageType
<1> DEFINE r == [p EXCEPT ![w] = x]
<1>0. x \in Value \union Stamp
  BY DEF Fits
<1>1. r \in [Word -> Value \union Stamp]
  BY <1>0 DEF PageType
<1>2. \A v \in Word : r[v] = IF v = w THEN x ELSE p[v]
  BY DEF PageType
<1>3. \A f \in Field : r[f] \in Value
  BY <1>2, WordFits DEF Fits, Word
<1>4. Body(r) \in [Field -> Value]
  BY <1>3 DEF Body
<1>5. "crc" \notin Field /\ "copy" \notin Field
  BY FieldAssumption
<1>6. r["crc"] \in Stamp /\ r["copy"] \in Stamp
  BY <1>2, <1>5 DEF PageType, Word, Fits
<1> QED
  BY <1>1, <1>4, <1>6 DEF PageType

LEMMA EndFits == Fits("size", Zero) /\ Fits("crc", Bumped) /\ "size" \in Word /\ "crc" \in Word
BY FieldAssumption DEF Fits, Word, Stamp

LEMMA SourceType ==
  ASSUME DaemonsType, NEW d \in Daemon
  PROVE  Source(d) \in PageType
BY ZeroPageType, PageOfType DEF DaemonsType, DaemonType, Source

-----------------------------------------------------------------------------
(* Type correctness *)

\* A daemon that is at work has a file.
LEMMA WorkingDaemonHasFile ==
  ASSUME DaemonsType, NEW d \in Daemon, daemon[d].pc \notin {"off", "dead"}
  PROVE  Mine(d) \in Inode
BY DEF DaemonsType, DaemonType, Mine

LEMMA FilesWordStored ==
  ASSUME FilesType, NEW i \in Inode, NEW w \in Word, NEW x, Fits(w, x),
         page' = [page EXCEPT ![i][w] = x]
  PROVE  page' \in [Inode -> PageType]
<1>1. [page[i] EXCEPT ![w] = x] \in PageType
  BY WordStored DEF FilesType
<1> QED
  BY <1>1 DEF FilesType

LEMMA InitTyped == Init => TypeOK
<1> SUFFICES ASSUME Init PROVE TypeOK
  OBVIOUS
<1>1. FilesType
  BY ZeroPageType DEF Init, FilesType
<1>2. DaemonsType
  BY DEF Init, DaemonsType, DaemonType, DaemonPc
<1>3. ClientsType
  BY ZeroPageType DEF Init, ClientsType, ClientType, ClientPc, Unmapped, Stamp
<1>4. ShownType
  BY DEF Init, ShownType
<1>5. GiveUpType
  BY DEF Init, GiveUpType
<1> QED
  BY <1>1, <1>2, <1>3, <1>4, <1>5, TypeParts

\* What the steps of a daemon keep.
LEMMA DaemonTyped ==
  ASSUME TypeOK, NEW d \in Daemon, DaemonStep(d) \/ DaemonEvent(d)
  PROVE  FilesType' /\ DaemonsType'
<1> USE TypeParts
<1>1. CASE ShmemInit(d)
  <2>1. path' \in Inode /\ created' \in Nat
    BY <1>1 DEF ShmemInit, FilesType
  <2>2. FilesType'
    BY <1>1, <2>1 DEF ShmemInit, FilesType
  <2>3. DaemonsType'
    BY <1>1, <2>1 DEF ShmemInit, DaemonsType, DaemonType, DaemonPc, FilesType
  <2> QED
    BY <2>2, <2>3
<1>2. CASE Extend(d)
  <2>1. FilesType'
    BY <1>2, ZeroPageType DEF Extend, FilesType
  <2>2. DaemonsType'
    BY <1>2 DEF Extend, Enter, DaemonsType, DaemonType, DaemonPc
  <2> QED
    BY <2>1, <2>2
<1>3. ASSUME NEW s \in Status, ShmemUpdate(d, s)
      PROVE  FilesType' /\ DaemonsType'
  <2>1. FilesType'
    BY <1>3 DEF ShmemUpdate, files, FilesType
  <2> DEFINE n == [daemon[d] EXCEPT !.pc = "run", !.src = s, !.todo = Word]
  <2>2. n \in DaemonType /\ n.inode # 0
    BY <1>3 DEF ShmemUpdate, DaemonsType, DaemonType, DaemonPc
  <2>3. daemon' = [daemon EXCEPT ![d] = n]
    BY <1>3 DEF ShmemUpdate, Copying
  <2> HIDE DEF n
  <2>4. DaemonsType'
    BY <2>2, <2>3 DEF DaemonsType
  <2> QED
    BY <2>1, <2>4
<1>4. ASSUME NEW w \in Word, Store(d, w)
      PROVE  FilesType' /\ DaemonsType'
  <2>1. Mine(d) \in Inode
    BY <1>4, WorkingDaemonHasFile DEF Store
  <2>2. Fits(w, Source(d)[w])
    BY SourceType, WordFits
  <2>3. page' \in [Inode -> PageType]
    BY <1>4, <2>1, <2>2, FilesWordStored DEF Store
  <2>4. log' \in [Inode -> Seq(Status)] /\ ver' \in [Inode -> Nat]
    <3>1. CASE w = "crc" /\ daemon[d].src # Zero
      <4>1. daemon[d].src \in Status
        BY <3>1 DEF DaemonsType, DaemonType
      <4>2. Append(log[Mine(d)], daemon[d].src) \in Seq(Status)
        BY <2>1, <4>1 DEF FilesType
      <4>3. Len(log[Mine(d)]) + 1 \in Nat
        BY <2>1 DEF FilesType
      <4> QED
        BY <1>4, <3>1, <4>2, <4>3 DEF Store, FilesType
    <3>2. CASE ~(w = "crc" /\ daemon[d].src # Zero)
      BY <1>4, <3>2 DEF Store, FilesType
    <3> QED
      BY <3>1, <3>2
  <2>5. DaemonsType'
    BY <1>4 DEF Store, DaemonsType, DaemonType
  <2> QED
    BY <1>4, <2>3, <2>4, <2>5 DEF Store, FilesType
<1>5. ASSUME NEW from \in DaemonPc, from \notin {"off", "dead"}, NEW to \in DaemonPc,
             ClearSize(d, from, to) \/ BumpCrc(d, from, to)
      PROVE  FilesType' /\ DaemonsType'
  <2>1. Mine(d) \in Inode
    BY <1>5, WorkingDaemonHasFile DEF ClearSize, BumpCrc
  <2>2. page' \in [Inode -> PageType]
    BY <1>5, <2>1, FilesWordStored, EndFits DEF ClearSize, BumpCrc
  <2>3. FilesType'
    BY <1>5, <2>2 DEF ClearSize, BumpCrc, FilesType
  <2>4. DaemonsType'
    BY <1>5 DEF ClearSize, BumpCrc, Enter, DaemonsType, DaemonType
  <2> QED
    BY <2>3, <2>4
<1>6. CASE ShmemFini(d) \/ FiniCrc(d) \/ EmergSize(d) \/ EmergCrc(d)
  BY <1>5, <1>6 DEF ShmemFini, FiniCrc, EmergSize, EmergCrc, DaemonPc
<1>7. CASE Unlink(d) \/ ShmemEmerg(d) \/ EmergRestore(d) \/ EmergEnd(d) \/ Kill(d)
  <2>1. FilesType'
    BY <1>7 DEF Unlink, ShmemEmerg, EmergRestore, EmergEnd, Kill, files, FilesType
  <2>2. DaemonsType'
    <3> USE DEF DaemonsType, DaemonType, DaemonPc
    <3>1. CASE Unlink(d) \/ EmergEnd(d)
      BY <3>1 DEF Unlink, EmergEnd, Enter
    <3>2. CASE ShmemEmerg(d) \/ Kill(d)
      BY <3>2 DEF ShmemEmerg, Kill
    <3>3. CASE EmergRestore(d)
      <4>1. CASE Enter(d, "dead")
        BY <4>1 DEF Enter
      <4>2. ASSUME NEW s \in Status, Copying(d, s, "emerg_copy") PROVE DaemonsType'
        <5> DEFINE n == [daemon[d] EXCEPT !.pc = "emerg_copy", !.src = s, !.todo = Word]
        <5>1. n \in DaemonType /\ n.inode # 0
          BY <3>3 DEF EmergRestore
        <5>2. daemon' = [daemon EXCEPT ![d] = n]
          BY <4>2 DEF Copying
        <5> HIDE DEF n
        <5> QED
          BY <5>1, <5>2
      <4> QED
        BY <3>3, <4>1, <4>2 DEF EmergRestore
    <3> QED
      BY <1>7, <3>1, <3>2, <3>3
  <2> QED
    BY <2>1, <2>2
<1> QED
  BY <1>1, <1>2, <1>3, <1>4, <1>6, <1>7 DEF DaemonStep, DaemonEvent

\* What the steps of a client keep.
LEMMA UnmappedTyped == Unmapped \in ClientType /\ Unmapped.pc = "idle"
BY ZeroPageType DEF Unmapped, ClientType, ClientPc, Stamp

LEMMA OrderLength == Len(Order) \in Nat
BY FieldAssumption

LEMMA MovedTyped ==
  ASSUME ClientsType, NEW c \in Client, client[c].pc # "idle", NEW p \in ClientPc
  PROVE  /\ [client[c] EXCEPT !.pc = p] \in ClientType
         /\ [client[c] EXCEPT !.pc = p].map # 0
         /\ [client[c] EXCEPT !.pc = p, !.loaded = 0] \in ClientType
         /\ [client[c] EXCEPT !.pc = p, !.loaded = 0].map # 0
<1>1. client[c] \in ClientType /\ client[c].map # 0
  BY DEF ClientsType
<1>2. 0 \in 0..Len(Order)
  BY OrderLength
<1>3. [client[c] EXCEPT !.pc = p] \in ClientType
  BY <1>1 DEF ClientType
<1>4. [client[c] EXCEPT !.pc = p, !.loaded = 0] \in ClientType
  BY <1>1, <1>2 DEF ClientType
<1> QED
  BY <1>1, <1>3, <1>4 DEF ClientType

LEMMA MappedTyped ==
  ASSUME FilesType, path # 0, NEW p \in ClientPc
  PROVE  Mapped(p) \in ClientType /\ Mapped(p).map # 0
<1>1. path \in Inode /\ long[path] \in BOOLEAN
  BY DEF FilesType
<1> QED
  BY <1>1, UnmappedTyped DEF Mapped, ClientType

\* The word that is loaded next, and where from.
LEMMA NextWord ==
  ASSUME ClientsType, NEW c \in Client, Load(c)
  PROVE  Order[client[c].loaded + 1] \in Word /\ client[c].map \in Inode
BY FieldAssumption DEF Load, ClientsType, ClientType, Word

LEMMA ClientTyped ==
  ASSUME TypeOK, NEW c \in Client, ClientStep(c)
  PROVE  ClientsType' /\ (~Take(c) => ShownType')
<1> USE TypeParts
<1>1. CASE Tick(c) \/ CheckShm(c) \/ CompareStamp(c) \/ CheckSize(c) \/ CheckSizeAgain(c)
  <2>1. ShownType'
    BY <1>1 DEF Tick, CheckShm, CompareStamp, CheckSize, CheckSizeAgain, CLIENT,
                shown, ShownType
  <2>2. PICK n \in ClientType :
          /\ client' = [client EXCEPT ![c] = n]
          /\ n.map = 0 => n.pc = "idle"
    <3>1. client[c] \in ClientType /\ (client[c].map = 0 => client[c].pc = "idle")
      BY DEF ClientsType
    <3>2. CASE Tick(c)
      <4>1. CASE client[c].map # 0
        <5> DEFINE n == [client[c] EXCEPT !.pc = "exists"]
        <5>1. n \in ClientType /\ n.map # 0
          BY <3>1, <4>1 DEF ClientType, ClientPc
        <5>2. client' = [client EXCEPT ![c] = n]
          BY <3>2, <4>1 DEF Tick, Goto
        <5> HIDE DEF n
        <5> QED
          BY <5>1, <5>2
      <4>2. CASE client[c].map = 0 /\ path = 0
        BY <3>2, <4>2, UnmappedTyped DEF Tick, OpenFails, Opens
      <4>3. CASE client[c].map = 0 /\ path # 0
        BY <3>2, <4>3, MappedTyped DEF Tick, OpenFails, Opens, ClientPc
      <4> QED
        BY <4>1, <4>2, <4>3
    <3>3. CASE CheckShm(c)
      <4>1. CASE path = 0
        BY <3>3, <4>1, UnmappedTyped DEF CheckShm
      <4>2. CASE path # 0
        BY <3>3, <4>2, MovedTyped DEF CheckShm, ClientPc
      <4> QED
        BY <4>1, <4>2
    <3>4. CASE CompareStamp(c)
      <4>1. PICK p \in ClientPc : client' = [client EXCEPT ![c] = [client[c] EXCEPT !.pc = p]]
        BY <3>4 DEF CompareStamp, Goto, ClientPc
      <4> QED
        BY <3>4, <4>1, MovedTyped DEF CompareStamp
    <3>5. CASE CheckSize(c)
      <4>1. CASE SizeFits(c)
        <5>1. client' = [client EXCEPT ![c] = [client[c] EXCEPT !.pc = "copy", !.loaded = 0]]
          BY <3>5, <4>1 DEF CheckSize, StartCopy
        <5> QED
          BY <3>5, <5>1, MovedTyped DEF CheckSize, ClientPc
      <4>2. CASE ~SizeFits(c) /\ path = 0
        BY <3>5, <4>2, UnmappedTyped DEF CheckSize, OpenFails, Opens
      <4>3. CASE ~SizeFits(c) /\ path # 0
        BY <3>5, <4>3, MappedTyped DEF CheckSize, OpenFails, Opens, ClientPc
      <4> QED
        BY <4>1, <4>2, <4>3
    <3>6. CASE CheckSizeAgain(c)
      <4>1. CASE SizeFits(c)
        <5>1. client' = [client EXCEPT ![c] = [client[c] EXCEPT !.pc = "copy", !.loaded = 0]]
          BY <3>6, <4>1 DEF CheckSizeAgain, StartCopy
        <5> QED
          BY <3>6, <5>1, MovedTyped DEF CheckSizeAgain, ClientPc
      <4>2. CASE ~SizeFits(c)
        BY <3>6, <4>2, UnmappedTyped DEF CheckSizeAgain
      <4> QED
        BY <4>1, <4>2
    <3> QED
      BY <1>1, <3>2, <3>3, <3>4, <3>5, <3>6
  <2> QED
    BY <2>1, <2>2 DEF ClientsType
<1>2. CASE AppEnds(c)
  <2>1. ClientsType'
    BY <1>2, UnmappedTyped DEF AppEnds, ClientsType
  <2>2. ShownType'
    BY <1>2 DEF AppEnds, ShownType
  <2> QED
    BY <2>1, <2>2
<1>3. CASE Load(c)
  <2> DEFINE w == Order[client[c].loaded + 1]
             m == client[c].map
  <2>1. w \in Word /\ m \in Inode
    BY <1>3, NextWord
  <2>2. page[m] \in PageType /\ ver[m] \in Nat
    BY <2>1 DEF FilesType
  <2>3. [client[c].copy EXCEPT ![w] = page[m][w]] \in PageType
    BY <2>1, <2>2, WordFits, WordStored DEF ClientsType, ClientType
  <2>4. client[c].loaded + 1 \in 0..Len(Order)
    BY <1>3, FieldAssumption DEF Load, ClientsType, ClientType
  <2>5. ClientsType'
    <3> DEFINE v == IF w = "crc" THEN ver[m] ELSE client[c].ver
               n == [client[c] EXCEPT !.copy = [@ EXCEPT ![w] = page[m][w]],
                                      !.loaded = @ + 1, !.ver = v]
    <3>1. client[c] \in ClientType
      BY DEF ClientsType
    <3>2. v \in Nat
      BY <2>2, <3>1 DEF ClientType
    <3>3. n \in ClientType
      BY <2>3, <2>4, <3>1, <3>2 DEF ClientType
    <3>4. client' = [client EXCEPT ![c] = n]
      BY <1>3 DEF Load, ClientsType, ClientType
    <3>5. n.map # 0
      BY <2>1, InodeAssumption
    <3> HIDE DEF n
    <3> QED
      BY <3>3, <3>4, <3>5 DEF ClientsType
  <2> QED
    BY <1>3, <2>5 DEF Load, CLIENT, shown, ShownType
<1>4. CASE Take(c)
  <2> DEFINE copy == client[c].copy
  <2>1. copy \in PageType /\ client[c].map \in Inode /\ client[c].ver \in Nat
    BY <1>4 DEF Take, ClientsType, ClientType
  <2>2. copy["crc"] \in Stamp
    BY <2>1 DEF PageType
  <2>3. ClientsType'
    <3> DEFINE l == IF Consistent(copy) THEN copy["crc"] ELSE client[c].last
               n == [client[c] EXCEPT !.pc = "idle", !.copy = ZeroPage, !.loaded = 0,
                       !.ver = 0, !.last = l]
    <3>1. client[c] \in ClientType
      BY DEF ClientsType
    <3>4. l \in Stamp
      BY <2>2, <3>1 DEF ClientType
    <3> HIDE DEF l
    <3>2. n \in ClientType /\ n.pc = "idle"
      <4>1. 0 \in 0..Len(Order) /\ 0 \in Nat
        BY OrderLength
      <4> QED
        BY <3>1, <3>4, <4>1, ZeroPageType DEF ClientType, ClientPc
    <3>3. client' = [client EXCEPT ![c] = n]
      BY <1>4 DEF Take, l
    <3> HIDE DEF n
    <3> QED
      BY <3>2, <3>3 DEF ClientsType
  <2> QED
    BY <1>4, <2>3 DEF Take
<1> QED
  BY <1>1, <1>2, <1>3, <1>4 DEF ClientStep

-----------------------------------------------------------------------------
(* The inductive invariant *)

\* A page whose checksum is one of words says which status was posted last.
PageLogged ==
  \A i \in Inode :
    /\ ver[i] <= Len(log[i])
    /\ page[i]["crc"] \in [Field -> Value] =>
         ver[i] \in DOMAIN log[i] /\ page[i]["crc"] = log[i][ver[i]]

\* So does a checksum that a client has loaded, though words that follow it
\* may be of a later status; and it is not an older one than the client shows.
CopyLogged ==
  \A c \in Client :
    client[c].copy["crc"] \in [Field -> Value] =>
      /\ client[c].map # 0
      /\ client[c].ver \in DOMAIN log[client[c].map]
      /\ client[c].copy["crc"] = log[client[c].map][client[c].ver]
      /\ client[c].ver <= ver[client[c].map]
      /\ seen[c][1] = client[c].map => seen[c][2] <= client[c].ver

\* Only the file created last can have the name, so a client goes forward.
Newest ==
  /\ path \in {0, created}
  /\ \A c \in Client :
       /\ client[c].map <= created
       /\ seen[c][1] <= created
       /\ client[c].map # 0 => seen[c][1] <= client[c].map
       /\ seen[c][1] # 0 => seen[c][2] <= ver[seen[c][1]]
       /\ view[c] # NoView => seen[c][1] # 0

IInv == TypeOK /\ PageLogged /\ CopyLogged /\ Newest /\ ShownWhole

LEMMA InitIInv == Init => IInv
<1> SUFFICES ASSUME Init PROVE IInv
  OBVIOUS
<1>1. TypeOK
  BY InitTyped
<1>2. ZeroPage["crc"] \notin [Field -> Value]
  BY FieldAssumption, StatusAssumption DEF ZeroPage, Word
<1>3. PageLogged
  BY <1>2 DEF Init, PageLogged
<1>4. CopyLogged
  BY <1>2 DEF Init, CopyLogged, Unmapped
<1>5. Newest
  BY DEF Init, Newest, Unmapped
<1>6. ShownWhole
  BY DEF Init, ShownWhole
<1> QED
  BY <1>1, <1>3, <1>4, <1>5, <1>6 DEF IInv

\* Files, statuses posted and their numbers only become more.
Grows ==
  /\ created <= created'
  /\ \A i \in Inode :
       /\ ver[i] <= ver'[i]
       /\ \A n \in DOMAIN log[i] : n \in DOMAIN log'[i] /\ log'[i][n] = log[i][n]

LEMMA PostGrows ==
  ASSUME FilesType, DaemonsType, PageLogged,
         NEW d \in Daemon, NEW w \in Word, Store(d, w)
  PROVE  Grows /\ PageLogged'
<1> DEFINE i == Mine(d)
           s == daemon[d].src
<1>1. i \in Inode
  BY WorkingDaemonHasFile DEF Store
<1>2. log[i] \in Seq(Status) /\ ver[i] \in Nat /\ ver[i] <= Len(log[i])
  BY <1>1 DEF FilesType, PageLogged
<1>3. page' = [page EXCEPT ![i][w] = Source(d)[w]] /\ created' = created
  BY DEF Store
<1>4. created <= created'
  BY <1>3 DEF FilesType
<1>5. \A j \in Inode : page'[j] = IF j = i THEN [page[j] EXCEPT ![w] = Source(d)[w]]
                                           ELSE page[j]
  BY <1>3 DEF FilesType
<1>6. CASE w = "crc" /\ s # Zero
  <2>1. s \in Status /\ s \in [Field -> Value]
    BY <1>6, StatusAssumption DEF DaemonsType, DaemonType
  <2>2. log' = [log EXCEPT ![i] = Append(@, s)] /\ ver' = [ver EXCEPT ![i] = Len(log[i]) + 1]
    BY <1>6 DEF Store
  <2>3. Append(log[i], s) \in Seq(Status) /\ Len(Append(log[i], s)) = Len(log[i]) + 1
        /\ Append(log[i], s)[Len(log[i]) + 1] = s
        /\ \A n \in DOMAIN log[i] : n \in DOMAIN Append(log[i], s)
                                    /\ Append(log[i], s)[n] = log[i][n]
    BY <1>2, <2>1
  <2>4. log'[i] = Append(log[i], s) /\ ver'[i] = Len(log[i]) + 1
    BY <1>1, <2>2 DEF FilesType
  <2>5. \A j \in Inode : j # i => log'[j] = log[j] /\ ver'[j] = ver[j] /\ ver[j] \in Nat
    BY <2>2 DEF FilesType
  <2>6. Grows
    BY <1>2, <1>4, <2>3, <2>4, <2>5 DEF Grows
  <2>7. "crc" \in Word /\ "crc" \notin Field
    BY FieldAssumption DEF Word
  <2>8. Source(d)["crc"] = s
    BY <1>6, <2>7 DEF Source, PageOf
  <2>9. page[i] \in PageType
    BY <1>1 DEF FilesType
  <2>10. page'[i]["crc"] = s
    BY <1>1, <1>5, <1>6, <2>8, <2>9 DEF PageType
  <2>11. Len(log[i]) + 1 \in DOMAIN log'[i] /\ log'[i][Len(log[i]) + 1] = s
    BY <1>2, <2>3, <2>4
  <2>12. PageLogged'
    <3> SUFFICES ASSUME NEW j \in Inode
        PROVE  /\ ver'[j] <= Len(log'[j])
               /\ page'[j]["crc"] \in [Field -> Value] =>
                    ver'[j] \in DOMAIN log'[j] /\ page'[j]["crc"] = log'[j][ver'[j]]
      BY DEF PageLogged
    <3>1. CASE j = i
      BY <1>2, <2>3, <2>4, <2>10, <2>11, <3>1
    <3>2. CASE j # i
      BY <1>5, <2>5, <3>2 DEF PageLogged
    <3> QED
      BY <3>1, <3>2
  <2> QED
    BY <2>6, <2>12
<1>7. CASE ~(w = "crc" /\ s # Zero)
  <2>1. UNCHANGED <<log, ver>>
    BY <1>7 DEF Store
  <2>2. Grows
    BY <1>4, <2>1 DEF Grows, FilesType
  <2>3. \A j \in Inode : page'[j]["crc"] \in [Field -> Value] => page'[j]["crc"] = page[j]["crc"]
    <3> SUFFICES ASSUME NEW j \in Inode, page'[j]["crc"] \in [Field -> Value]
        PROVE  page'[j]["crc"] = page[j]["crc"]
      OBVIOUS
    <3>1. page[j] \in [Word -> Value \union Stamp] /\ "crc" \in Word /\ "crc" \notin Field
      BY FieldAssumption DEF FilesType, PageType, Word
    <3>2. CASE j = i /\ w = "crc"
      <4>1. page'[j]["crc"] = Source(d)["crc"]
        BY <1>5, <3>1, <3>2
      <4>2. Source(d)["crc"] = Zero
        BY <1>7, <3>1, <3>2, FieldAssumption DEF Source, ZeroPage
      <4> QED
        BY <4>1, <4>2, StatusAssumption
    <3>3. CASE ~(j = i /\ w = "crc")
      BY <1>5, <3>1, <3>3
    <3> QED
      BY <3>2, <3>3
  <2> QED
    BY <2>1, <2>2, <2>3 DEF PageLogged
<1> QED
  BY <1>6, <1>7

\* A page that is emptied or ended names no status.
LEMMA EndLogged ==
  ASSUME FilesType, PageLogged, UNCHANGED <<log, ver, created>>, NEW i \in Inode,
         \/ page' = [page EXCEPT ![i] = ZeroPage]
         \/ page' = [page EXCEPT ![i]["size"] = Zero]
         \/ page' = [page EXCEPT ![i]["crc"] = Bumped]
  PROVE  Grows /\ PageLogged'
<1>1. Grows
  BY DEF Grows, FilesType
<1>2. \A j \in Inode : page'[j]["crc"] \in [Field -> Value] => page'[j]["crc"] = page[j]["crc"]
  <2> SUFFICES ASSUME NEW j \in Inode, page'[j]["crc"] \in [Field -> Value]
      PROVE  page'[j]["crc"] = page[j]["crc"]
    OBVIOUS
  <2>1. page[j] \in [Word -> Value \union Stamp] /\ "crc" \in Word /\ page \in [Inode -> PageType]
    BY FieldAssumption DEF FilesType, PageType, Word
  <2>2. ZeroPage["crc"] = Zero
    BY FieldAssumption DEF ZeroPage, Word
  <2>3. CASE page' = [page EXCEPT ![i] = ZeroPage]
    BY <2>1, <2>2, <2>3, StatusAssumption
  <2>4. CASE page' = [page EXCEPT ![i]["size"] = Zero]
    BY <2>1, <2>4
  <2>5. CASE page' = [page EXCEPT ![i]["crc"] = Bumped]
    BY <2>1, <2>5, StatusAssumption
  <2> QED
    BY <2>3, <2>4, <2>5
<1>3. PageLogged'
  BY <1>2 DEF PageLogged
<1> QED
  BY <1>1, <1>3

\* Every step of a daemon does so, and shows its clients nothing.
LEMMA DaemonGrows ==
  ASSUME TypeOK, PageLogged, path \in {0, created},
         NEW d \in Daemon, DaemonStep(d) \/ DaemonEvent(d)
  PROVE  /\ Grows /\ PageLogged' /\ path' \in {0, created'}
         /\ UNCHANGED <<client, giveUp, seen, view>>
<1> USE TypeParts
<1>1. CASE ShmemInit(d)
  BY <1>1 DEF ShmemInit, Grows, PageLogged, FilesType, shown
<1>2. CASE Extend(d)
  <2>1. Mine(d) \in Inode
    BY <1>2, WorkingDaemonHasFile DEF Extend
  <2> QED
    BY <1>2, <2>1, EndLogged DEF Extend, shown
<1>3. ASSUME NEW w \in Word, Store(d, w)
      PROVE  /\ Grows /\ PageLogged' /\ path' \in {0, created'}
             /\ UNCHANGED <<client, giveUp, seen, view>>
  BY <1>3, PostGrows DEF Store, shown
<1>4. ASSUME NEW from \in DaemonPc, from \notin {"off", "dead"}, NEW to,
             ClearSize(d, from, to) \/ BumpCrc(d, from, to)
      PROVE  /\ Grows /\ PageLogged' /\ path' \in {0, created'}
             /\ UNCHANGED <<client, giveUp, seen, view>>
  <2>1. Mine(d) \in Inode
    BY <1>4, WorkingDaemonHasFile DEF ClearSize, BumpCrc
  <2> QED
    BY <1>4, <2>1, EndLogged DEF ClearSize, BumpCrc, shown
<1>5. CASE ShmemFini(d) \/ FiniCrc(d) \/ EmergSize(d) \/ EmergCrc(d)
  BY <1>4, <1>5 DEF ShmemFini, FiniCrc, EmergSize, EmergCrc, DaemonPc
<1>6. CASE Unlink(d) \/ ShmemEmerg(d) \/ EmergRestore(d) \/ EmergEnd(d) \/ Kill(d)
           \/ \E s \in Status : ShmemUpdate(d, s)
  <2>1. UNCHANGED <<created, page, log, ver, client, giveUp, seen, view>> /\ path' \in {0, path}
    BY <1>6 DEF Unlink, ShmemEmerg, EmergRestore, EmergEnd, Kill, ShmemUpdate, files, shown
  <2> QED
    BY <2>1 DEF Grows, PageLogged, FilesType
<1> QED
  BY <1>1, <1>2, <1>3, <1>5, <1>6 DEF DaemonStep, DaemonEvent

\* Files have numbers, from 1.
LEMMA InodeNumbers == \A i \in Inode \union {0} : i \in Nat
BY InodeAssumption

LEMMA Places ==
  ASSUME FilesType, ClientsType, ShownType, NEW c \in Client
  PROVE  /\ client[c].map \in Inode \union {0} /\ client[c].map \in Nat
         /\ seen[c][1] \in Inode \union {0} /\ seen[c][1] \in Nat /\ seen[c][2] \in Nat
         /\ client[c].ver \in Nat
         /\ path \in Nat /\ created \in Nat
<1>1. client[c].map \in Inode \union {0} /\ client[c].ver \in Nat
  BY DEF ClientsType, ClientType
<1>2. seen[c] \in (Inode \union {0}) \X Nat
  BY DEF ShownType
<1>3. seen[c][1] \in Inode \union {0} /\ seen[c][2] \in Nat
  BY <1>2
<1>4. path \in Inode \union {0} /\ created \in Nat
  BY DEF FilesType
<1> QED
  BY <1>1, <1>3, <1>4, InodeNumbers

\* What a client has loaded and shows stays true of a history that grows.
LEMMA ClientKept ==
  ASSUME IInv, Grows, path' \in {0, created'}, created' \in Nat, ver' \in [Inode -> Nat],
         UNCHANGED <<client, seen, view>>
  PROVE  CopyLogged' /\ Newest' /\ ShownWhole'
<1>0. FilesType /\ ClientsType /\ ShownType
  BY TypeParts DEF IInv
<1> SUFFICES ASSUME NEW c \in Client
    PROVE  /\ client[c].copy["crc"] \in [Field -> Value] =>
                /\ client[c].map # 0
                /\ client[c].ver \in DOMAIN log'[client[c].map]
                /\ client[c].copy["crc"] = log'[client[c].map][client[c].ver]
                /\ client[c].ver <= ver'[client[c].map]
                /\ seen[c][1] = client[c].map => seen[c][2] <= client[c].ver
           /\ client[c].map <= created'
           /\ seen[c][1] <= created'
           /\ client[c].map # 0 => seen[c][1] <= client[c].map
           /\ seen[c][1] # 0 => seen[c][2] <= ver'[seen[c][1]]
           /\ view[c] # NoView => seen[c][1] # 0
           /\ IF view[c] = NoView THEN seen[c] = <<0, 0>>
              ELSE /\ seen[c][2] \in DOMAIN log'[seen[c][1]]
                   /\ view[c] = log'[seen[c][1]][seen[c][2]]
  BY DEF CopyLogged, Newest, ShownWhole
<1> DEFINE m == client[c].map
           i == seen[c][1]
           n == seen[c][2]
<1>1. m \in Inode \union {0} /\ i \in Inode \union {0} /\ n \in Nat
      /\ m \in Nat /\ i \in Nat /\ created \in Nat
  BY <1>0, Places
<1>2. \A j \in Inode : /\ ver[j] <= ver'[j] /\ ver[j] \in Nat /\ ver'[j] \in Nat
                       /\ \A k \in DOMAIN log[j] : k \in DOMAIN log'[j] /\ log'[j][k] = log[j][k]
  BY <1>0 DEF Grows, FilesType
<1>3. CopyLogged /\ Newest /\ ShownWhole /\ created <= created'
  BY DEF IInv, Grows
<1>4. client[c].copy["crc"] \in [Field -> Value] =>
        /\ m # 0
        /\ client[c].ver \in DOMAIN log'[m]
        /\ client[c].copy["crc"] = log'[m][client[c].ver]
        /\ client[c].ver <= ver'[m]
        /\ i = m => n <= client[c].ver
  <2>1. client[c].ver \in Nat
    BY <1>0 DEF ClientsType, ClientType
  <2> QED
    BY <1>1, <1>2, <1>3, <2>1 DEF CopyLogged
<1>5. /\ m <= created' /\ i <= created'
      /\ m # 0 => i <= m
      /\ view[c] # NoView => i # 0
  BY <1>1, <1>3 DEF Newest
<1>6. i # 0 => n <= ver'[i]
  BY <1>1, <1>2, <1>3 DEF Newest
<1>7. IF view[c] = NoView THEN seen[c] = <<0, 0>>
      ELSE n \in DOMAIN log'[i] /\ view[c] = log'[i][n]
  BY <1>1, <1>2, <1>3, <1>5 DEF ShownWhole
<1> QED
  BY <1>4, <1>5, <1>6, <1>7

LEMMA DaemonKeepsIInv ==
  ASSUME IInv, NEW d \in Daemon, DaemonStep(d) \/ DaemonEvent(d)
  PROVE  IInv'
<1>1. TypeOK /\ PageLogged /\ path \in {0, created}
  BY DEF IInv, Newest
<1>2. FilesType' /\ DaemonsType'
  BY <1>1, DaemonTyped
<1>3. Grows /\ PageLogged' /\ path' \in {0, created'} /\ UNCHANGED <<client, giveUp, seen, view>>
  BY <1>1, DaemonGrows
<1>4. CopyLogged' /\ Newest' /\ ShownWhole'
  BY <1>2, <1>3, ClientKept DEF FilesType
<1>5. ClientsType' /\ GiveUpType' /\ ShownType'
  BY <1>1, <1>3, TypeParts DEF ClientsType, GiveUpType, ShownType
<1>6. TypeOK'
  BY <1>2, <1>5 DEF TypeOK, FilesType, DaemonsType, ClientsType, GiveUpType, ShownType
<1> QED
  BY <1>3, <1>4, <1>6 DEF IInv

\* A client changes no file, and no other client.
LEMMA OtherClients ==
  ASSUME IInv, NEW c \in Client, ClientStep(c)
  PROVE  /\ UNCHANGED <<files, daemon>>
         /\ \A e \in Client \ {c} : client'[e] = client[e] /\ seen'[e] = seen[e] /\ view'[e] = view[e]
         /\ ~Take(c) /\ ~AppEnds(c) => UNCHANGED shown
<1>1. ClientsType /\ ShownType
  BY TypeParts DEF IInv
<1>2. CASE Tick(c) \/ CheckShm(c) \/ CompareStamp(c) \/ CheckSize(c) \/ CheckSizeAgain(c) \/ Load(c)
  BY <1>1, <1>2 DEF Tick, OpenFails, Opens, CheckShm, CompareStamp, Goto, CheckSize,
                    CheckSizeAgain, StartCopy, Load, CLIENT, shown, ClientsType
<1>3. CASE AppEnds(c)
  BY <1>1, <1>3 DEF AppEnds, ClientsType, ShownType
<1>4. CASE Take(c)
  BY <1>1, <1>4 DEF Take, ClientsType, ShownType, shown
<1> QED
  BY <1>2, <1>3, <1>4 DEF ClientStep

\* A client that takes a copy takes one status, not older than what it showed.
LEMMA TakesWhole ==
  ASSUME IInv, NEW c \in Client, Take(c), Consistent(client[c].copy)
  PROVE  LET m == client[c].map
             v == client[c].ver
         IN /\ m \in Inode /\ v \in DOMAIN log[m] /\ v \in Nat
            /\ Body(client[c].copy) = log[m][v] /\ log[m][v] \in Status
            /\ seen[c][1] <= m /\ (seen[c][1] = m => seen[c][2] <= v)
            /\ v <= ver[m]
<1> DEFINE m == client[c].map
           v == client[c].ver
<1>1. client[c] \in ClientType /\ FilesType /\ ShownType
  BY TypeParts DEF IInv, ClientsType
<1>2. Body(client[c].copy) \in [Field -> Value] /\ client[c].copy["crc"] = Body(client[c].copy)
  BY <1>1 DEF ClientType, PageType, Consistent
<1>3. /\ m # 0 /\ v \in DOMAIN log[m]
      /\ client[c].copy["crc"] = log[m][v]
      /\ v <= ver[m]
      /\ seen[c][1] = m => seen[c][2] <= v
  BY <1>2 DEF IInv, CopyLogged
<1>4. m \in Inode /\ v \in Nat /\ log[m] \in Seq(Status)
  BY <1>1, <1>3 DEF ClientType, FilesType
<1>5. log[m][v] \in Status
  BY <1>3, <1>4
<1>6. seen[c][1] <= m
  BY <1>3 DEF IInv, Newest
<1> QED
  BY <1>2, <1>3, <1>4, <1>5, <1>6

LEMMA ClientGivesUp ==
  ASSUME TypeOK, NEW c \in Client, ClientStep(c)
  PROVE  GiveUpType'
BY TypeParts DEF ClientStep, Tick, OpenFails, Opens, CheckShm, AppEnds, CompareStamp,
                 CheckSize, CheckSizeAgain, Load, Take, GiveUpType

LEMMA ClientKeepsIInv ==
  ASSUME IInv, NEW c \in Client, ClientStep(c)
  PROVE  IInv'
<1>1. /\ UNCHANGED <<path, created, page, long, log, ver, daemon>>
      /\ \A e \in Client \ {c} : client'[e] = client[e] /\ seen'[e] = seen[e] /\ view'[e] = view[e]
  BY OtherClients DEF files
<1>2. FilesType /\ ClientsType /\ ShownType /\ ClientsType' /\ (~Take(c) => ShownType')
  BY TypeParts, ClientTyped DEF IInv
<1>3. FilesType' /\ DaemonsType' /\ PageLogged'
  BY <1>1, TypeParts DEF IInv, FilesType, DaemonsType, PageLogged
<1>4. /\ client[c].map \in Nat /\ seen[c][1] \in Nat /\ seen[c][2] \in Nat
      /\ path \in Nat /\ created \in Nat
  BY <1>2, Places
<1>5. ZeroPage["crc"] \notin [Field -> Value]
  BY FieldAssumption, StatusAssumption DEF ZeroPage, Word
<1> DEFINE CopyOf(cl, sn) ==
             cl.copy["crc"] \in [Field -> Value] =>
               /\ cl.map # 0
               /\ cl.ver \in DOMAIN log[cl.map]
               /\ cl.copy["crc"] = log[cl.map][cl.ver]
               /\ cl.ver <= ver[cl.map]
               /\ sn[1] = cl.map => sn[2] <= cl.ver
           NewestOf(cl, sn, vw) ==
             /\ cl.map <= created
             /\ sn[1] <= created
             /\ cl.map # 0 => sn[1] <= cl.map
             /\ sn[1] # 0 => sn[2] <= ver[sn[1]]
             /\ vw # NoView => sn[1] # 0
           WholeOf(sn, vw) ==
             IF vw = NoView THEN sn = <<0, 0>>
             ELSE sn[2] \in DOMAIN log[sn[1]] /\ vw = log[sn[1]][sn[2]]
<1>6. /\ CopyOf(client[c], seen[c]) /\ NewestOf(client[c], seen[c], view[c])
      /\ WholeOf(seen[c], view[c]) /\ path \in {0, created}
  BY DEF IInv, CopyLogged, Newest, ShownWhole
<1>7. Unmapped.map = 0 /\ Unmapped.copy = ZeroPage
      /\ \A p : Mapped(p).map = path /\ Mapped(p).copy = ZeroPage
  BY DEF Unmapped, Mapped
<1>8. /\ CopyOf(client'[c], seen'[c]) /\ NewestOf(client'[c], seen'[c], view'[c])
      /\ WholeOf(seen'[c], view'[c])
  <2>1. CASE Tick(c) \/ CheckShm(c) \/ CompareStamp(c) \/ CheckSize(c) \/ CheckSizeAgain(c)
    <3>1. \/ client'[c].map = client[c].map /\ client'[c].copy = client[c].copy
             /\ client'[c].ver = client[c].ver
          \/ client'[c].map \in {0, path} /\ client'[c].copy = ZeroPage
      <4> DEFINE Same == client'[c].map = client[c].map /\ client'[c].copy = client[c].copy
                         /\ client'[c].ver = client[c].ver
                 New == client'[c].map \in {0, path} /\ client'[c].copy = ZeroPage
      <4>1. CASE Tick(c)
        BY <1>2, <1>7, <4>1 DEF Tick, Goto, OpenFails, Opens, ClientsType, ClientType
      <4>2. CASE CheckShm(c)
        BY <1>2, <1>7, <4>2 DEF CheckShm, ClientsType, ClientType
      <4>3. CASE CompareStamp(c)
        BY <1>2, <4>3 DEF CompareStamp, Goto, ClientsType, ClientType
      <4>4. CASE CheckSize(c)
        BY <1>2, <1>7, <4>4 DEF CheckSize, StartCopy, OpenFails, Opens, ClientsType, ClientType
      <4>5. CASE CheckSizeAgain(c)
        BY <1>2, <1>7, <4>5 DEF CheckSizeAgain, StartCopy, ClientsType, ClientType
      <4> QED
        BY <2>1, <4>1, <4>2, <4>3, <4>4, <4>5
    <3>2. seen'[c] = seen[c] /\ view'[c] = view[c]
      BY <2>1 DEF Tick, CheckShm, CompareStamp, CheckSize, CheckSizeAgain, CLIENT, shown
    <3>3. seen[c][1] <= created /\ seen[c][1] \in Nat
      BY <1>4, <1>6
    <3> QED
      BY <1>4, <1>5, <1>6, <3>1, <3>2, <3>3
  <2>2. CASE AppEnds(c)
    <3>1. client'[c].map = 0 /\ client'[c].copy = ZeroPage /\ seen'[c] = <<0, 0>> /\ view'[c] = NoView
      BY <1>2, <1>7, <2>2 DEF AppEnds, ClientsType, ShownType
    <3> QED
      BY <1>4, <1>5, <3>1
  <2>3. CASE Load(c)
    <3> DEFINE w == Order[client[c].loaded + 1]
               m == client[c].map
    <3>1. m \in Inode /\ w \in Word /\ "crc" \in Word
      BY <1>2, <2>3, NextWord DEF Word
    <3>2. client[c].copy \in PageType
      BY <1>2 DEF ClientsType, ClientType
    <3>3. /\ client'[c].map = m /\ seen'[c] = seen[c] /\ view'[c] = view[c]
          /\ client'[c].copy = [client[c].copy EXCEPT ![w] = page[m][w]]
          /\ client'[c].ver = IF w = "crc" THEN ver[m] ELSE client[c].ver
      BY <1>2, <2>3 DEF Load, CLIENT, shown, ClientsType, ClientType
    <3>4. CASE w = "crc"
      <4>1. client'[c].copy["crc"] = page[m]["crc"] /\ client'[c].ver = ver[m]
        BY <3>1, <3>2, <3>3, <3>4 DEF PageType
      <4>2. /\ page[m]["crc"] \in [Field -> Value] =>
                 ver[m] \in DOMAIN log[m] /\ page[m]["crc"] = log[m][ver[m]]
            /\ ver[m] \in Nat
        BY <1>2, <3>1 DEF IInv, PageLogged, FilesType
      <4>3. m # 0 /\ seen[c][1] = m => seen[c][2] <= ver[m]
        BY <1>6
      <4>4. m # 0
        BY <3>1, InodeAssumption
      <4>5. client'[c].map = m /\ seen'[c] = seen[c] /\ ver[m] <= ver[m]
        BY <3>3, <4>2
      <4>6. NewestOf(client'[c], seen'[c], view'[c]) /\ WholeOf(seen'[c], view'[c])
        BY <1>6, <3>3
      <4> HIDE DEF m, w
      <4>7. CopyOf(client'[c], seen'[c])
        BY <4>1, <4>2, <4>3, <4>4, <4>5
      <4> QED
        BY <4>6, <4>7
    <3>5. CASE w # "crc"
      <4>1. client'[c].copy["crc"] = client[c].copy["crc"] /\ client'[c].ver = client[c].ver
        BY <3>1, <3>2, <3>3, <3>5 DEF PageType
      <4>2. CopyOf(client'[c], seen'[c])
        BY <1>6, <3>3, <4>1
      <4>3. NewestOf(client'[c], seen'[c], view'[c]) /\ WholeOf(seen'[c], view'[c])
        BY <1>6, <3>3
      <4> QED
        BY <4>2, <4>3
    <3> QED
      BY <3>4, <3>5
  <2>4. CASE Take(c)
    <3>1. client'[c].copy = ZeroPage /\ client'[c].map = client[c].map
      BY <1>2, <2>4 DEF Take, ClientsType, ClientType
    <3>2. CASE Consistent(client[c].copy)
      <4> DEFINE m == client[c].map
                 v == client[c].ver
      <4>1. /\ m \in Inode /\ v \in DOMAIN log[m] /\ v \in Nat
            /\ Body(client[c].copy) = log[m][v] /\ log[m][v] \in Status
            /\ v <= ver[m]
        BY <2>4, <3>2, TakesWhole
      <4>2. seen'[c] = <<m, v>> /\ view'[c] = log[m][v]
        BY <1>2, <2>4, <3>2, <4>1 DEF Take, ShownType
      <4>3. m # 0
        BY <4>1, InodeAssumption
      <4>4. log[m][v] # NoView
        BY <4>1, StatusAssumption
      <4> QED
        BY <1>4, <1>5, <1>6, <3>1, <4>1, <4>2, <4>3, <4>4
    <3>3. CASE ~Consistent(client[c].copy)
      <4>1. seen'[c] = seen[c] /\ view'[c] = view[c]
        BY <2>4, <3>3 DEF Take, shown
      <4> QED
        BY <1>5, <1>6, <3>1, <4>1
    <3> QED
      BY <3>2, <3>3
  <2> QED
    BY <2>1, <2>2, <2>3, <2>4 DEF ClientStep
<1>9. CopyLogged' /\ Newest' /\ ShownWhole'
  <2> SUFFICES ASSUME NEW e \in Client
      PROVE  /\ CopyOf(client'[e], seen'[e]) /\ NewestOf(client'[e], seen'[e], view'[e])
             /\ WholeOf(seen'[e], view'[e])
    BY <1>1, <1>6 DEF CopyLogged, Newest, ShownWhole
  <2>1. CASE e = c
    BY <1>8, <2>1
  <2>2. CASE e # c
    <3>1. /\ CopyOf(client[e], seen[e]) /\ NewestOf(client[e], seen[e], view[e])
          /\ WholeOf(seen[e], view[e])
      BY DEF IInv, CopyLogged, Newest, ShownWhole
    <3>2. client'[e] = client[e] /\ seen'[e] = seen[e] /\ view'[e] = view[e]
      BY <1>1, <2>2
    <3> HIDE DEF CopyOf, NewestOf, WholeOf
    <3> QED
      BY <3>1, <3>2
  <2> QED
    BY <2>1, <2>2
<1>10. ShownType'
  <2>1. CASE Take(c) /\ Consistent(client[c].copy)
    <3>1. /\ <<client[c].map, client[c].ver>> \in (Inode \union {0}) \X Nat
          /\ Body(client[c].copy) \in Status
      BY <2>1, TakesWhole
    <3> QED
      BY <1>2, <2>1, <3>1 DEF Take, ShownType
  <2>2. CASE Take(c) /\ ~Consistent(client[c].copy)
    BY <1>2, <2>2 DEF Take, ShownType, shown
  <2> QED
    BY <1>2, <2>1, <2>2
<1>11. GiveUpType'
  BY ClientGivesUp DEF IInv
<1>12. TypeOK'
  BY <1>2, <1>3, <1>10, <1>11 DEF TypeOK, FilesType, DaemonsType, ClientsType, GiveUpType, ShownType
<1> QED
  BY <1>3, <1>9, <1>12 DEF IInv

\* The status tab and Control change nothing but whether a client has given up.
LEMMA ClientEventKeeps ==
  ASSUME TypeOK, NEW c \in Client, ClientEvent(c)
  PROVE  GiveUpType' /\ UNCHANGED <<files, daemon, client, shown>>
BY TypeParts DEF ClientEvent, TabFails, Restart, CLIENT, GiveUpType

LEMMA ClientEventKeepsIInv ==
  ASSUME IInv, NEW c \in Client, ClientEvent(c)
  PROVE  IInv'
<1>1. GiveUpType' /\ UNCHANGED <<files, daemon, client, shown>>
  BY ClientEventKeeps DEF IInv
<1>2. TypeOK'
  BY <1>1 DEF IInv, TypeOK, GiveUpType, files, shown
<1> QED
  BY <1>1, <1>2 DEF IInv, files, shown, PageLogged, CopyLogged, Newest, ShownWhole

LEMMA StepKeepsIInv == IInv /\ [Next]_vars => IInv'
<1> SUFFICES ASSUME IInv, [Next]_vars PROVE IInv'
  OBVIOUS
<1>1. CASE UNCHANGED vars
  BY <1>1 DEF vars, files, shown, IInv, TypeOK, PageLogged, CopyLogged, Newest, ShownWhole
<1>2. CASE Next
  BY <1>2, DaemonKeepsIInv, ClientKeepsIInv, ClientEventKeepsIInv DEF Next
<1> QED
  BY <1>1, <1>2

LEMMA InductiveInvariant == Spec => []IInv
BY InitIInv, StepKeepsIInv, PTL DEF Spec

\* No step of shmem.c or of Status.java takes a variable out of its range, and
\* none uses a page it has not mapped.
THEOREM TypeCorrect == Spec => []TypeOK
<1>1. IInv => TypeOK
  BY DEF IInv
<1> QED
  BY <1>1, InductiveInvariant, PTL

\* A client never shows a status put together from two: the two checksums of
\* refresh are enough without a lock, in whatever order memcpy stores.
THEOREM WholeStatuses == Spec => []ShownWhole
<1>1. IInv => ShownWhole
  BY DEF IInv
<1> QED
  BY <1>1, InductiveInvariant, PTL

-----------------------------------------------------------------------------
(* The status board *)

LEMMA BoardInit == Init => Board!Init
BY DEF Init, Board!Init

LEMMA DaemonRefines ==
  ASSUME IInv, NEW d \in Daemon, DaemonStep(d) \/ DaemonEvent(d)
  PROVE  [Board!Next]_(Board!vars)
<1>1. TypeOK /\ PageLogged /\ path \in {0, created}
  BY DEF IInv, Newest
<1>2. UNCHANGED <<client, giveUp, seen, view>>
  BY <1>1, DaemonGrows
<1>3. ASSUME NEW w \in Word, Store(d, w), w = "crc", daemon[d].src # Zero
      PROVE  Board!Next
  <2>1. daemon[d].src \in Status /\ Mine(d) \in Inode
    BY <1>1, <1>3, TypeParts, WorkingDaemonHasFile DEF Store, DaemonsType, DaemonType
  <2>2. log' = [log EXCEPT ![Mine(d)] = Append(@, daemon[d].src)]
    BY <1>3 DEF Store
  <2>3. Board!Post(Mine(d), daemon[d].src)
    BY <1>2, <2>2 DEF Board!Post
  <2> QED
    BY <2>1, <2>3 DEF Board!Next
<1>4. (\A w \in Word : Store(d, w) => ~(w = "crc" /\ daemon[d].src # Zero)) => UNCHANGED log
  BY DEF DaemonStep, DaemonEvent, ShmemInit, Extend, ShmemUpdate, Store, ShmemFini, FiniCrc,
         ClearSize, BumpCrc, Unlink, ShmemEmerg, EmergSize, EmergCrc, EmergRestore, EmergEnd,
         Kill, files
<1> QED
  BY <1>2, <1>3, <1>4 DEF Board!vars

LEMMA ClientRefines ==
  ASSUME IInv, NEW c \in Client, ClientStep(c)
  PROVE  [Board!Next]_(Board!vars)
<1>1. UNCHANGED log /\ (~Take(c) /\ ~AppEnds(c) => UNCHANGED <<seen, view>>)
  BY OtherClients DEF files, shown
<1>2. CASE AppEnds(c)
  BY <1>1, <1>2 DEF AppEnds, Board!Forget, Board!Next
<1>3. CASE Take(c) /\ Consistent(client[c].copy)
  <2> DEFINE m == client[c].map
             v == client[c].ver
  <2>1. /\ m \in Inode /\ v \in DOMAIN log[m] /\ Body(client[c].copy) = log[m][v]
        /\ seen[c][1] <= m /\ (seen[c][1] = m => seen[c][2] <= v)
    BY <1>3, TakesWhole
  <2>2. seen[c][1] \in Nat /\ m \in Nat
    BY TypeParts, Places DEF IInv
  <2>3. Board!NotAfter(seen[c], <<m, v>>)
    BY <2>1, <2>2 DEF Board!NotAfter
  <2>4. seen' = [seen EXCEPT ![c] = <<m, v>>] /\ view' = [view EXCEPT ![c] = log[m][v]]
    BY <1>3, <2>1 DEF Take
  <2>5. Board!Look(c, m, v)
    BY <1>1, <2>3, <2>4 DEF Board!Look
  <2> QED
    BY <2>1, <2>5 DEF Board!Next
<1>4. CASE Take(c) /\ ~Consistent(client[c].copy)
  BY <1>1, <1>4 DEF Take, shown, Board!vars
<1> QED
  BY <1>1, <1>2, <1>3, <1>4 DEF Board!vars

\* The pages, the words and the checksums implement the board: statuses are
\* posted and looked at whole, and no client goes back to an older one.
THEOREM StatusBoardImplemented == Spec => ImplementsStatusBoard
<1>1. IInv /\ [Next]_vars => [Board!Next]_(Board!vars)
  <2> SUFFICES ASSUME IInv, [Next]_vars PROVE [Board!Next]_(Board!vars)
    OBVIOUS
  <2>1. CASE UNCHANGED vars
    BY <2>1 DEF vars, files, shown, Board!vars
  <2>2. CASE Next
    <3>1. ASSUME NEW c \in Client, ClientEvent(c) PROVE UNCHANGED Board!vars
      BY <3>1, ClientEventKeeps DEF IInv, files, shown, Board!vars
    <3> QED
      BY <2>2, <3>1, DaemonRefines, ClientRefines DEF Next
  <2> QED
    BY <2>1, <2>2
<1> QED
  BY <1>1, BoardInit, InductiveInvariant, PTL DEF Spec, Board!Spec, ImplementsStatusBoard
=============================================================================
