------------------------------- MODULE LogStore ------------------------------
(***************************************************************************)
(* The log of a group on its disk: LogStore appends the records to files   *)
(* of a fixed size (<vfile>/<id>.f), a meta file holds the id of the file  *)
(* in use, and Database keeps in LevelDB where the record of each instance *)
(* is, with the system and the master variables beside it.                 *)
(*                                                                         *)
(* A file is an array of units; a record is a header of HeaderLen units    *)
(* (its length), one unit for its instance id, and its data.  Unit k of    *)
(* the w-th write is <<w, k>>, and the write stands for the content of its *)
(* record, so two records have the same checksum only if they are the same *)
(* write.  Data that is not all of one write is taken not to parse: the    *)
(* fields of AcceptorStateData are required and the last ends the record.  *)
(*                                                                         *)
(* The process may crash between any two system calls.  The machine may    *)
(* crash, too: it then loses what was not synced, from some unit on in a   *)
(* file and from some operation on in LevelDB.  That a file exists, its    *)
(* length and the meta file count as durable at once.                      *)
(***************************************************************************)
EXTENDS Integers, Sequences, FiniteSets, FiniteSetsExt, SequencesExt

CONSTANTS
    FileSize,       \* LOG_FILE_MAX_SIZE
    HeaderLen,      \* sizeof(int); the id behind it is one unit
    Sizes,          \* the sizes of records, header included
    Sync,           \* the values of bSync the calls of Put have
    MaxFile,        \* bound: file ids
    MaxInstance,    \* bound: instances
    MaxWrites,      \* bound: calls of Put
    KeysSet,        \* bound: the variables that are set while it runs
    MaxEvents,      \* bound: system calls that fail, crashes, calls of
                    \* ClearAllLog and of SetVariables
    Clearing        \* bound: the last instance when ClearAllLog is called

ASSUME StoreAssumption ==
    /\ HeaderLen \in Nat \ {0}
    /\ \A z \in Sizes : z \in Nat /\ z > HeaderLen + 1 /\ z <= FileSize
    /\ Sync \subseteq BOOLEAN
    /\ FileSize \in Nat /\ MaxFile \in Nat /\ MaxInstance \in Nat
    /\ MaxWrites \in Nat /\ MaxEvents \in Nat

VARIABLES
    \* The disk.
    files,     \* what the system has of every file: its length, -1 if there
               \* is none, and its units
    synced,    \* the units of the files the disk is sure to have
    meta,      \* the meta file: the id of the file in use and its checksum
    base,      \* LevelDB: where a record is, by instance, up to the last sync
    wal,       \* LevelDB: the operations since
    variables, \* LevelDB: the system and the master variables
    \* The process.
    state,     \* "down", "up", or "broken" when Init has failed
    fileID,    \* m_iFileID
    isOpen,    \* m_iFd # -1
    offset,    \* m_iNowFileOffset
    size,      \* m_iNowFileSize
    deletedMax,\* m_iDeletedMaxFileID
    step,      \* where the call of Put or ClearAllLog is
    kept,      \* the variables ClearAllLog has read
    deleting,  \* the instance the cleaner's thread deletes, or none
    \* What has been asked and answered.
    log,       \* the calls of Put: instance, size and bSync
    acked,     \* the write last acknowledged, by instance
    ackedSync, \* the one last acknowledged with bSync
    deleted,   \* the instances whose deletion has begun
    asked,     \* the variables last set
    tailMet,   \* a restart has met a file that ends within a header or a
               \* record
    cleared,   \* a crash has come in the middle of ClearAllLog
    lost,      \* the writes not synced when the machine crashed, the index
               \* of which it kept
    events     \* the number of events so far

disk     == <<files, synced, meta, base, wal, variables>>
process  == <<state, fileID, isOpen, offset, size, deletedMax>>
history  == <<log, acked, ackedSync, deleted, asked, tailMet, cleared,
              lost>>
vars == <<disk, process, step, kept, deleting, history, events>>

Instance == 0 .. MaxInstance
File     == 0 .. MaxFile
Zero     == <<0, 0>>
Blank    == [u \in 0 .. FileSize - 1 |-> Zero]
NoFile   == [len |-> -1, unit |-> Blank]
NoEntry  == [file |-> -1, off |-> 0, write |-> 0]
NoMeta   == [id |-> 0, sum |-> 0]
Idle     == [at |-> "idle"]
Keys     == {"system", "master"}
NoVariables == [k \in Keys |-> 0]

Init ==
    /\ files = [f \in File |-> NoFile]
    /\ synced = [f \in File |-> Blank]
    /\ meta = NoMeta
    /\ base = [i \in Instance |-> NoEntry] /\ wal = <<>>
    /\ variables = [k \in Keys |-> 1]
    /\ state = "down" /\ fileID = 0 /\ isOpen = FALSE
    /\ offset = 0 /\ size = 0 /\ deletedMax = -1
    /\ step = Idle /\ kept = NoVariables /\ deleting = -1
    /\ log = <<>>
    /\ acked = [i \in Instance |-> 0] /\ ackedSync = acked
    /\ deleted = {} /\ asked = variables
    /\ tailMet = FALSE /\ cleared = FALSE /\ lost = {}
    /\ events = 0
-----------------------------------------------------------------------------
(* LevelDB: an operation sets or removes the entry of an instance, and is  *)
(* durable once a later operation has been synced.                         *)

Apply(idx, ops) ==
    FoldLeft(LAMBDA r, op : [r EXCEPT ![op.inst] = op.entry], idx, ops)

Index == Apply(base, wal)

PutToLevelDB(inst, entry) ==
    /\ wal' = Append(wal, [inst |-> inst, entry |-> entry])
    /\ UNCHANGED base

(* An operation with sync = true makes those before it durable.            *)
SyncLevelDB == base' = Index /\ wal' = <<>>

(* GetMaxInstanceIDFileID: the entry of the last instance.                 *)
HasEntry(idx) == {i \in Instance : idx[i] # NoEntry}

LastEntry(idx) ==
    IF HasEntry(idx) = {} THEN [NoEntry EXCEPT !.file = 0]
    ELSE idx[Max(HasEntry(idx))]
-----------------------------------------------------------------------------
(* Reading.                                                                *)

SizeOf(w) == log[w].size

(* The header at o of file f says z, whichever write has put it there.     *)
HeaderIs(f, o, z) ==
    \A k \in 1 .. HeaderLen :
        LET u == files[f].unit[o + k - 1]
        IN  u[2] = k /\ SizeOf(u[1]) = z

(* The record of write w is at o of file f, as it was written.             *)
IsRecord(f, o, w) ==
    /\ o + SizeOf(w) <= files[f].len
    /\ HeaderIs(f, o, SizeOf(w))
    /\ \A k \in HeaderLen + 1 .. SizeOf(w) : files[f].unit[o + k - 1] = <<w, k>>

(* Read finds the record, with the checksum of the index.                  *)
Readable(entry) ==
    /\ entry.file \in File
    /\ IsRecord(entry.file, entry.off, entry.write)

(* The length (iLen) and the instance id read at o of file f.  Zeros are   *)
(* read as 0; what is neither zeros nor whole is read as anything, chosen  *)
(* by garbage: a length of which a part is missing, or what is left of an  *)
(* older record.                                                           *)
LengthRead(f, o, garbage) ==
    LET head == {files[f].unit[u] : u \in o .. o + HeaderLen - 1}
        said == {z \in Sizes : HeaderIs(f, o, z)}
    IN  CASE head = {Zero} -> 0
          [] said # {}     -> Max(said) - HeaderLen
          [] OTHER         -> garbage.len

IDRead(f, o, garbage) ==
    LET u == files[f].unit[o + HeaderLen]
    IN  CASE u = Zero             -> 0
          [] u[2] = HeaderLen + 1 -> log[u[1]].inst
          [] OTHER                -> garbage.id

(* RebuildIndexForOneFile: the records of file f from offset o on, the ids *)
(* read, where they end and how.  A file that ends within a header or a    *)
(* record is cut, and so is one whose last record does not parse; only the *)
(* latter tells the caller the offset.  The id is looked at before the     *)
(* record is parsed.                                                       *)
Scan(f, garbage) ==
    LET len == files[f].len
        Stop(o, how, ids) == [recs |-> <<>>, ids |-> ids, end |-> o, how |-> how]
        scan[o \in 0 .. FileSize] ==
            IF o >= len THEN Stop(o, "end", <<>>)
            ELSE IF len - o < HeaderLen THEN Stop(o, "short", <<>>)
            ELSE
            LET iLen == LengthRead(f, o, garbage)
                next == o + HeaderLen + iLen
                id   == IDRead(f, o, garbage)
                w    == files[f].unit[o + HeaderLen][1]
            IN  IF iLen = 0 THEN Stop(o, "end", <<>>)
                ELSE IF iLen > len THEN Stop(o, "wrong", <<>>)
                ELSE IF next > len THEN Stop(o, "short", <<>>)
                ELSE IF ~(/\ w # 0 /\ next = o + SizeOf(w)
                          /\ \A k \in HeaderLen + 1 .. SizeOf(w) :
                                 files[f].unit[o + k - 1] = <<w, k>>)
                THEN Stop(o, "torn", <<id>>)
                ELSE LET rest == scan[next] IN
                     [rest EXCEPT
                         !.ids  = <<id>> \o @,
                         !.recs = <<[inst  |-> id,
                                     entry |-> [file |-> f, off |-> o,
                                                write |-> w]]>> \o @]
    IN  scan

(* Mutant of TellsOffset: no cut file tells the offset.                    *)
TellsNoOffset(how) == how = "end"

TellsOffset(how) == how \in {"end", "torn"}

IsCut(how) == how \in {"short", "torn"}

(* InstanceID must be ascending order.                                     *)
Ascending(ids) == \A j \in 1 .. Len(ids) - 1 : ids[j] <= ids[j + 1]

(* ExpandFile: a new file is given its full length.                        *)
Expanded(file) == IF file.len = 0 THEN [file EXCEPT !.len = FileSize] ELSE file

(* OpenFile, with O_CREAT.                                                 *)
Opened(file) == IF file.len = -1 THEN [file EXCEPT !.len = 0] ELSE file

MetaWrong == meta.sum # meta.id

(* The rest of a longer record is behind a shorter one.                    *)
RestLeft ==
    \E f \in File : \E u \in 1 .. FileSize - 1 :
        LET w == files[f].unit[u][1]
            k == files[f].unit[u][2]
        IN  k > 1 /\ files[f].unit[u - 1] # <<w, k - 1>>

(* A write has ended, or been lost from there on, within the length and    *)
(* the id of its record.                                                   *)
HeadCut ==
    \E f \in File : \E u \in 0 .. FileSize - 2 :
        LET w == files[f].unit[u][1]
            k == files[f].unit[u][2]
        IN  k \in 1 .. HeaderLen /\ files[f].unit[u + 1] # <<w, k + 1>>

(* Garbage as a length: anything up to what is longer than any file.  An   *)
(* id is garbage only where an older record is left.                       *)
Garbage ==
    IF ~RestLeft /\ ~HeadCut THEN {[len |-> 0, id |-> 0]}
    ELSE [len : 0 .. FileSize + 1,
          id  : IF RestLeft THEN 0 .. MaxInstance + 1 ELSE {0}]

(* RebuildIndex: the files there are from that of the last entry on are    *)
(* read one after the other, up to the first that is missing, which must   *)
(* be the one behind the file in use.                                      *)
Rebuild(garbage) ==
    LET last    == LastEntry(Index)
        present == {f \in File : f >= last.file
                        /\ \A g \in last.file .. f : files[g].len # -1}
        missing == last.file + Cardinality(present)
        found   == [f \in present |->
                       Scan(f, garbage)[IF f = last.file THEN last.off ELSE 0]]
        scans   == [j \in 1 .. Cardinality(present) |->
                       found[last.file + j - 1]]
        now     == IF HasEntry(Index) = {} THEN 0 ELSE Max(HasEntry(Index))
        telling == {f \in present : TellsOffset(found[f].how)}
    IN  [recs  |-> FlattenSeq([j \in DOMAIN scans |-> scans[j].recs]),
         end   |-> IF telling = {} THEN 0 ELSE found[Max(telling)].end,
         cut   |-> [f \in {g \in present : IsCut(found[g].how)} |->
                       found[f].end],
         short |-> \E f \in present : found[f].how = "short",
         fails |-> \/ last.file > meta.id
                   \/ \E f \in present : found[f].how = "wrong"
                   \/ ~Ascending(<<now>> \o FlattenSeq([j \in DOMAIN scans |->
                                                            scans[j].ids]))
                   \/ missing # 0 /\ missing # meta.id + 1]

Truncated(file, len) ==
    [len  |-> len,
     unit |-> [u \in DOMAIN Blank |-> IF u < len THEN file.unit[u] ELSE Zero]]

(* LogStore::Init: the index is completed, files are cut behind their      *)
(* records, and the file of the meta file is opened.                       *)
Start ==
    /\ state = "down"
    /\ \E r \in {Rebuild(garbage) : garbage \in Garbage} :
         LET cut   == [f \in File |-> IF f \in DOMAIN r.cut
                                      THEN Truncated(files[f], r.cut[f])
                                      ELSE files[f]]
             inUse == Opened(cut[meta.id])
         IN  /\ tailMet' = (tailMet \/ r.short)
             /\ \/ /\ MetaWrong \/ r.fails
                   /\ state' = "broken"
                   /\ UNCHANGED <<disk, fileID, isOpen, offset, size>>
                \/ /\ ~MetaWrong /\ ~r.fails
                   /\ state' = "up"
                   /\ fileID' = meta.id
                   /\ isOpen' = TRUE
                   /\ wal' = wal \o r.recs
                   /\ files' = [cut EXCEPT ![meta.id] = Expanded(inUse)]
                   /\ synced' = [f \in File |->
                                    [u \in DOMAIN Blank |->
                                        IF cut[f].unit[u] = Zero THEN Zero
                                        ELSE synced[f][u]]]
                   /\ size' = Expanded(inUse).len
                   /\ offset' = IF inUse.len = 0 THEN 0 ELSE r.end
                   /\ UNCHANGED <<meta, base, variables>>
    /\ deletedMax' = -1
    /\ UNCHANGED <<step, kept, deleting, log, acked, ackedSync, deleted,
                   asked, cleared, lost, events>>
-----------------------------------------------------------------------------
(* Database::Put: LogStore::Append, then the index.                        *)

Event == events < MaxEvents /\ events' = events + 1

Ready == state = "up" /\ step.at = "idle"

(* The call returns an error.                                              *)
PutFails == step' = Idle

Fits(z) == offset + z <= size

CurrentWrite == Len(log)

(* The instances are put in order, each as often as its record changes;    *)
(* what is learned ends an instance and is put without a sync.             *)
MaxPut == IF log = <<>> THEN 0 ELSE log[Len(log)].inst

NextPut ==
    (IF log # <<>> /\ ~log[Len(log)].sync /\ acked[MaxPut] = Len(log)
     THEN {MaxPut + 1} ELSE {MaxPut, MaxPut + 1}) \cap Instance

(* GetFileFD finds the file broken, with room, or closes it.               *)
Put(inst, z, sync) ==
    /\ Ready
    /\ Len(log) < MaxWrites
    /\ inst \in NextPut
    /\ inst \notin deleted
    /\ log' = Append(log, [inst |-> inst, size |-> z, sync |-> sync])
    /\ \/ /\ ~isOpen
          /\ PutFails
          /\ UNCHANGED isOpen
       \/ /\ isOpen /\ Fits(z)
          /\ step' = [at |-> "write"]
          /\ UNCHANGED isOpen
       \/ /\ isOpen /\ ~Fits(z)
          /\ fileID < MaxFile
          /\ step' = [at |-> "fileid"]
          /\ isOpen' = FALSE
    /\ UNCHANGED <<disk, state, fileID, offset, size, deletedMax, kept,
                   deleting, acked, ackedSync, deleted, asked, tailMet,
                   cleared, lost, events>>

(* IncreaseFileID: the id, the checksum and the sync.  The id in memory    *)
(* follows when all has been written.                                      *)
WriteFileID ==
    /\ state = "up" /\ step.at = "fileid"
    /\ \/ /\ meta' = [meta EXCEPT !.id = fileID + 1]
          /\ step' = [at |-> "checksum"]
          /\ UNCHANGED events
       \/ /\ Event
          /\ PutFails
          /\ UNCHANGED meta
    /\ UNCHANGED <<files, synced, base, wal, variables, process, kept,
                   deleting, history>>

WriteMetaChecksum ==
    /\ state = "up" /\ step.at = "checksum"
    /\ \/ /\ meta' = [meta EXCEPT !.sum = fileID + 1]
          /\ fileID' = fileID + 1
          /\ step' = [at |-> "open"]
          /\ UNCHANGED events
       \/ /\ Event
          /\ PutFails
          /\ UNCHANGED <<meta, fileID>>
    /\ UNCHANGED <<files, synced, base, wal, variables, state, isOpen, offset,
                   size, deletedMax, kept, deleting, history>>

(* OpenFile and ExpandFile for the new file.  If it cannot be expanded the *)
(* file is closed again, and stays there with no length.                   *)
OpenNewFile ==
    /\ state = "up" /\ step.at = "open"
    /\ \/ /\ files' = [files EXCEPT ![fileID] = Expanded(Opened(@))]
          /\ isOpen' = TRUE
          /\ size' = FileSize /\ offset' = 0
          /\ step' = [at |-> "write"]
          /\ UNCHANGED events
       \/ /\ Event
          /\ PutFails
          /\ files' \in {files, [files EXCEPT ![fileID] = Opened(@)]}
          /\ UNCHANGED <<isOpen, size, offset>>
    /\ UNCHANGED <<synced, meta, base, wal, variables, state, fileID,
                   deletedMax, kept, deleting, history>>

(* The units of file f with the first n units of write w at o.             *)
Written(f, o, w, n) ==
    [u \in DOMAIN Blank |-> IF u \in o .. o + n - 1 THEN <<w, u - o + 1>>
                            ELSE files[f].unit[u]]

(* The offset stays, and the next record is written over what there is.    *)
WriteFailed(n) == UNCHANGED offset

(* write: all of the record, or, when it fails, any part of it.            *)
WriteRecord ==
    /\ state = "up" /\ step.at = "write"
    /\ LET w == CurrentWrite
           Write(n) == files' =
               [files EXCEPT ![fileID].unit = Written(fileID, offset, w, n)]
       IN  \/ /\ Write(SizeOf(w))
              /\ step' = [at |-> "sync"]
              /\ UNCHANGED <<offset, events>>
           \/ /\ Event
              /\ PutFails
              /\ \E n \in 0 .. SizeOf(w) - 1 : Write(n) /\ WriteFailed(n)
    /\ UNCHANGED <<synced, meta, base, wal, variables, state, fileID, isOpen,
                   size, deletedMax, kept, deleting, history>>

(* fdatasync, if asked for; then the offset moves on.                      *)
SyncRecord ==
    /\ state = "up" /\ step.at = "sync"
    /\ \/ /\ synced' = IF log[CurrentWrite].sync
                       THEN [synced EXCEPT ![fileID] = files[fileID].unit]
                       ELSE synced
          /\ offset' = offset + SizeOf(CurrentWrite)
          /\ step' = [at |-> "index"]
          /\ UNCHANGED events
       \/ /\ log[CurrentWrite].sync
          /\ Event
          /\ PutFails
          /\ UNCHANGED <<synced, offset>>
    /\ UNCHANGED <<files, meta, base, wal, variables, state, fileID, isOpen,
                   size, deletedMax, kept, deleting, history>>

(* PutToLevelDB, never with a sync; the call returns.                      *)
PutIndex ==
    /\ state = "up" /\ step.at = "index"
    /\ LET w    == CurrentWrite
           inst == log[w].inst
       IN  \/ /\ PutToLevelDB(inst, [file  |-> fileID,
                                     off   |-> offset - SizeOf(w),
                                     write |-> w])
              /\ acked' = [acked EXCEPT ![inst] = w]
              /\ ackedSync' = IF log[w].sync
                              THEN [ackedSync EXCEPT ![inst] = w]
                              ELSE ackedSync
              /\ UNCHANGED events
           \/ /\ Event
              /\ UNCHANGED <<base, wal, acked, ackedSync>>
    /\ step' = Idle
    /\ UNCHANGED <<files, synced, meta, variables, process, kept, deleting,
                   log, deleted, asked, tailMet, cleared, lost>>
-----------------------------------------------------------------------------
(* Database::Del, called by the thread of Cleaner for the oldest instance  *)
(* there is.  The cleaner saves how far it has got with a sync and keeps   *)
(* many instances: that a later one is in what is synced stands for that.  *)

MayDelete(i) ==
    /\ state = "up" /\ deleting = -1
    /\ i \notin deleted /\ \A j \in Instance \ deleted : i <= j
    /\ Index[i] # NoEntry
    /\ \E j \in HasEntry(base) : j > i

(* Mutant of DeletedFiles: with the file of the instance.                  *)
DeletedFilesAll(entry) == deletedMax + 1 .. entry.file

(* The files of earlier ids.                                               *)
DeletedFiles(entry) == deletedMax + 1 .. entry.file - 1

(* LogStore::Del comes first, once in a while.                             *)
DelFiles(i) ==
    /\ MayDelete(i)
    /\ deleting' = i
    /\ deleted' = deleted \cup {i}
    /\ LET gone == DeletedFiles(Index[i])
       IN  \/ UNCHANGED <<files, synced, deletedMax>>
           \/ /\ Index[i].file <= fileID
              /\ gone # {}
              /\ files' = [f \in File |-> IF f \in gone THEN NoFile
                                          ELSE files[f]]
              /\ synced' = [f \in File |-> IF f \in gone THEN Blank
                                           ELSE synced[f]]
              /\ deletedMax' = Max(gone)
    /\ UNCHANGED <<meta, base, wal, variables, state, fileID, isOpen, offset,
                   size, step, kept, log, acked, ackedSync, asked, tailMet,
                   cleared, lost, events>>

DelIndex ==
    /\ state = "up" /\ deleting # -1
    /\ deleting' = -1
    /\ PutToLevelDB(deleting, NoEntry)
    /\ UNCHANGED <<files, synced, meta, variables, process, step, kept,
                   history, events>>
-----------------------------------------------------------------------------
(* SetSystemVariables and SetMasterVariables, always with a sync.          *)
SetVariables(k, v) ==
    /\ Ready
    /\ asked[k] < v
    /\ Event
    /\ asked' = [asked EXCEPT ![k] = v]
    /\ variables' = [variables EXCEPT ![k] = v]
    /\ SyncLevelDB
    /\ UNCHANGED <<files, synced, meta, process, step, kept, deleting, log,
                   acked, ackedSync, deleted, tailMet, cleared, lost>>

(* ClearAllLog, before a checkpoint takes the place of the log: the        *)
(* variables are read, the directory is set aside, a new one is opened,    *)
(* and the variables are written to it, one after the other.               *)
ClearAllLog ==
    /\ Ready /\ deleting = -1
    /\ MaxPut = Clearing
    /\ Event
    /\ kept' = variables
    /\ step' = [at |-> "init"]
    /\ state' = "clearing"
    /\ files' = [f \in File |-> NoFile]
    /\ synced' = [f \in File |-> Blank]
    /\ meta' = NoMeta
    /\ base' = [i \in Instance |-> NoEntry] /\ wal' = <<>>
    /\ variables' = NoVariables
    /\ deleted' = deleted \cup (0 .. MaxPut)
    /\ UNCHANGED <<fileID, isOpen, offset, size, deletedMax, deleting, log,
                   acked, ackedSync, asked, tailMet, cleared, lost>>

(* Init of the new directory.                                              *)
InitAgain ==
    /\ state = "clearing" /\ step.at = "init"
    /\ state' = "up"
    /\ step' = [at |-> "system"]
    /\ files' = [files EXCEPT ![0] = Expanded(Opened(@))]
    /\ fileID' = 0 /\ isOpen' = TRUE /\ offset' = 0 /\ size' = FileSize
    /\ deletedMax' = -1
    /\ UNCHANGED <<synced, meta, base, wal, variables, kept, deleting, history,
                   events>>

(* Mutant of After: the variables of the master are forgotten.             *)
AfterSystem(key) == "idle"

After(key) == IF key = "system" THEN "master" ELSE "idle"

(* What was empty is not written.                                          *)
RestoreVariables ==
    /\ state = "up" /\ step.at \in Keys
    /\ variables' = [variables EXCEPT ![step.at] =
                        IF kept[step.at] # 0 THEN kept[step.at] ELSE @]
    /\ SyncLevelDB
    /\ step' = [at |-> After(step.at)]
    /\ kept' = [kept EXCEPT ![step.at] = 0]
    /\ UNCHANGED <<files, synced, meta, process, deleting, history, events>>
-----------------------------------------------------------------------------
(* Crashes.                                                                *)

Stop ==
    /\ state \in {"up", "clearing"}
    /\ Event
    /\ state' = "down"
    /\ isOpen' = FALSE /\ fileID' = 0 /\ offset' = 0 /\ size' = 0
    /\ deletedMax' = -1
    /\ step' = Idle /\ kept' = NoVariables /\ deleting' = -1
    /\ cleared' = (cleared \/ state = "clearing" \/ step.at \in Keys)
    /\ UNCHANGED <<log, deleted, asked, tailMet>>

ProcessCrash ==
    /\ Stop
    /\ UNCHANGED <<disk, acked, ackedSync, lost>>

Durable(entry) ==
    \A k \in 1 .. SizeOf(entry.write) :
        synced[entry.file][entry.off + k - 1] = <<entry.write, k>>

(* The unit a file may lose first: none, or any that is not synced.        *)
Cuts(f) ==
    {FileSize} \cup {u \in DOMAIN Blank : files[f].unit[u] # synced[f][u]}

(* Files lose what was written from some unit on since their last sync,    *)
(* LevelDB its operations from one on.  What was not synced may be lost.   *)
MachineCrash ==
    /\ Stop
    /\ \E cut \in {c \in [File -> UNION {Cuts(f) : f \in File}] :
                      \A f \in File : c[f] \in Cuts(f)},
          n \in 0 .. Len(wal) :
           LET left == [f \in File |->
                   [u \in DOMAIN Blank |-> IF u < cut[f] THEN files[f].unit[u]
                                           ELSE synced[f][u]]]
           IN  /\ files' = [f \in File |-> [files[f] EXCEPT !.unit = left[f]]]
               /\ synced' = left
               /\ base' = Apply(base, SubSeq(wal, 1, n))
               /\ wal' = <<>>
    /\ acked' = ackedSync
    /\ lost' = lost \cup {base'[i].write : i \in {j \in HasEntry(base') :
                                                ~Durable(base'[j])}}
    /\ UNCHANGED <<meta, variables, ackedSync>>

Next ==
    \/ Start
    \/ \E inst \in Instance, z \in Sizes, sync \in Sync :
           Put(inst, z, sync)
    \/ WriteFileID
    \/ WriteMetaChecksum
    \/ OpenNewFile
    \/ WriteRecord
    \/ SyncRecord
    \/ PutIndex
    \/ \E i \in Instance : DelFiles(i)
    \/ DelIndex
    \/ \E k \in KeysSet : SetVariables(k, 2)
    \/ ClearAllLog
    \/ InitAgain
    \/ RestoreVariables
    \/ ProcessCrash
    \/ MachineCrash

Spec == Init /\ [][Next]_vars
-----------------------------------------------------------------------------
(* Properties.                                                             *)

UnitType == {Zero} \cup ((1 .. MaxWrites) \X (1 .. Max(Sizes)))
EntryType == [file : File, off : 0 .. FileSize - 1, write : 1 .. MaxWrites]

(* The types; while the store is open the offset is within the file, but   *)
(* for one that has been cut in its tail (see ReadBack), and the length of *)
(* the file is what memory has of it.                                      *)
TypeOK ==
    /\ \A f \in File : /\ files[f].len \in -1 .. FileSize
                       /\ files[f].unit \in [DOMAIN Blank -> UnitType]
                       /\ synced[f] \in [DOMAIN Blank -> UnitType]
    /\ meta \in [id : File, sum : File]
    /\ base \in [Instance -> EntryType \cup {NoEntry}]
    /\ \A j \in DOMAIN wal : wal[j].entry \in EntryType \cup {NoEntry}
    /\ variables \in [Keys -> 0 .. 2]
    /\ state \in {"down", "up", "clearing", "broken"}
    /\ offset \in 0 .. FileSize
    /\ state = "up" /\ isOpen => /\ offset <= size \/ tailMet
                                 /\ size = files[fileID].len
                                 /\ fileID = meta.id
    /\ deletedMax < fileID \/ state # "up"

(* What Append acknowledged can be read back until it is deleted: the      *)
(* index of an instance leads to the record last acknowledged, or to one   *)
(* written after it by a call that failed or was cut short.  Acknowledged  *)
(* counts after a crash of the machine if the write was synced.            *)
ReadsBackAt(i) ==
    /\ Readable(Index[i])
    /\ Index[i].write >= acked[i]
    /\ log[Index[i].write].inst = i

Acknowledged == {i \in Instance \ deleted : acked[i] # 0}

(* Every acknowledged record can be read back, but for what the code       *)
(* leaves open: a store that was started with a file that ends in less     *)
(* than a header or a record (RebuildIndexForOneFile leaves the offset as  *)
(* it was, 0 or that of the file before), and an entry of the index that   *)
(* outlived a crash of the machine while its record was not synced, for it *)
(* had been written without bSync, or been found by a restart.             *)
ReadBack ==
    state = "up" /\ ~tailMet =>
        \A i \in Acknowledged :
            \/ ReadsBackAt(i)
            \/ Index[i].write \in lost

(* A restart fails only when IncreaseFileID was under way or had failed,   *)
(* when a write has ended or been lost within the length and the id of its *)
(* record (RebuildIndexForOneFile compares the id before it looks whether  *)
(* the record is whole, and a length of which a part is missing is taken   *)
(* as it is), or when the rest of a longer record is behind the last one:  *)
(* its write had failed and a shorter one was written over it.  A record   *)
(* that is torn behind its id never keeps a store from starting.           *)
FileIDTorn == MetaWrong \/ (meta.id # 0 /\ files[meta.id].len = -1)

StartsAgain ==
    ~tailMet /\ state = "broken" => FileIDTorn \/ HeadCut \/ RestLeft

(* The files, the meta file and what memory has of them fit, and when they *)
(* do not the store says so at the next start and for these reasons only.  *)
FilesInv == TypeOK /\ StartsAgain

(* The system and the master variables that were set survive every crash   *)
(* and ClearAllLog, but not a crash in the middle of ClearAllLog.          *)
VariablesKept ==
    state \in {"up", "down", "broken"} /\ step.at \notin Keys /\ ~cleared =>
        variables = asked
=============================================================================
