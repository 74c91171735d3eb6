---------------------------- MODULE DecisionCache ---------------------------
(***************************************************************************)
(* The decision files of src/adaptive_jit/cache.rs: several runtimes, in   *)
(* one process or in several, store and prune records in one directory,    *)
(* one file-system call at a time.  A record is the decision for its key;  *)
(* what it says, and loading it, which changes no file, are left to        *)
(* AdaptiveGemm.                                                           *)
(*                                                                         *)
(* A file keeps what is needed to tell a good record from a bad one: its   *)
(* content, whether that is on the disk, and the time of the last write.   *)
(* A directory entry is durable some time after the call that made it (the *)
(* directory is not synced), so a power loss may bring an older one back.  *)
(***************************************************************************)
EXTENDS Integers, FiniteSets

CONSTANTS
    Keys,         \* decision keys; their order is the order of file names
    Writers,      \* runtimes that store
    MaxEntries,   \* max_disk_cache_entries
    Settings,     \* where the writers run, what fails, how far the clock runs
    MaxSerial,    \* bound on NEXT_TEMP
    MaxTime       \* bound on the file-system clock

ASSUME KeysAssumption == Keys \subseteq Nat /\ IsFiniteSet(Keys)
ASSUME CapAssumption == MaxEntries \in Nat \ {0}
ASSUME BoundAssumption == MaxSerial \in Nat /\ MaxTime \in Nat
ASSUME SettingsAssumption ==
    \A s \in Settings :
        /\ DOMAIN s.process = Writers
        /\ s.faults \subseteq {"io", "exit", "power"}
        /\ s.maxTime \in 0..MaxTime

VARIABLES
    setting,    \* the setting of this history
    records,    \* the file under <key>.yjit
    earlier,    \* files a power loss may bring back there
    temps,      \* the temporary file under <process, serial, key>
    serial,     \* NEXT_TEMP of every process
    now,        \* the file-system clock
    writer,     \* where each store is
    changed     \* history: the records written since a store listed them

storeVars == <<setting, records, earlier, temps, serial, now, writer>>
vars == <<storeVars, changed>>

Processes == {s.process[w] : s \in Settings, w \in Writers}
ProcessOf(w) == setting.process[w]
TempNames == Processes \X (0..MaxSerial) \X Keys

\* A file holds a part of a record or the whole record of a key.
NoFile == [content |-> "none", key |-> 0, synced |-> TRUE, time |-> 0]
Files == [content: {"partial", "whole"}, key: Keys, synced: BOOLEAN,
          time: 0..MaxTime]

IdleWriter == [pc |-> "idle", key |-> 0, serial |-> 0, names |-> {}, found |-> {}]

Present == {k \in Keys : records[k] # NoFile}
TempOf(w) == <<ProcessOf(w), writer[w].serial, writer[w].key>>

\* An empty temporary for a record of k.
NewFile(k) == [content |-> "partial", key |-> k, synced |-> FALSE, time |-> now]

\* A directory operation on a record; what was there may come back.
Replace(k, file) ==
    /\ records' = [records EXCEPT ![k] = file]
    /\ earlier' = IF "power" \in setting.faults
                  THEN [earlier EXCEPT ![k] = @ \cup {records[k]}] ELSE earlier

Goto(w, pc) == writer' = [writer EXCEPT ![w].pc = pc]
Return(w) == writer' = [writer EXCEPT ![w] = IdleWriter]

Init ==
    /\ setting \in Settings
    /\ records = [k \in Keys |-> NoFile]
    /\ earlier = [k \in Keys |-> {}]
    /\ temps = [n \in TempNames |-> NoFile]
    /\ serial = [p \in Processes |-> 0]
    /\ now = 0
    /\ writer = [w \in Writers |-> IdleWriter]
    /\ changed = [w \in Writers |-> {}]

----------------------------------------------------------------------------
(* store *)

\* Serial numbers left once the stores of p about to create a temporary have
\* taken theirs, in the worst case past every stale name.
SerialsLeft(p) ==
    MaxSerial - serial[p]
    - Cardinality({w \in Writers : ProcessOf(w) = p /\ writer[w].pc = "create"})
    - Cardinality({n \in TempNames : n[1] = p /\ temps[n] # NoFile})

\* store of a valid record, up to its first file; MaxSerial bounds the stores.
Store(w, k) ==
    /\ writer[w].pc = "idle"
    /\ SerialsLeft(ProcessOf(w)) > 0
    /\ writer' = [writer EXCEPT ![w].pc = "create", ![w].key = k]
    /\ UNCHANGED <<setting, records, earlier, temps, serial, now>>

SerialKept(n) == n
\* NEXT_TEMP.fetch_add(1).
FetchAdd(n) == n + 1

OpenAnyway(name) == FALSE
\* create_new fails on a name that exists.
AlreadyExists(name) == temps[name] # NoFile

CreateTempByKey(w) ==
    /\ writer[w].pc = "create"
    /\ temps' = [temps EXCEPT ![<<ProcessOf(w), 0, writer[w].key>>] =
                    NewFile(writer[w].key)]
    /\ writer' = [writer EXCEPT ![w].pc = "write", ![w].serial = 0]
    /\ UNCHANGED <<setting, records, earlier, serial, now>>
\* One round of the loop: create_new under the next serial number; a name that
\* exists (a process that had this id died there) is skipped.
CreateTemp(w) ==
    LET p == ProcessOf(w)
        name == <<p, serial[p], writer[w].key>> IN
    /\ writer[w].pc = "create"
    /\ serial[p] <= MaxSerial      \* never false: Store saw to it
    /\ serial' = [serial EXCEPT ![p] = FetchAdd(@)]
    /\ IF AlreadyExists(name) THEN UNCHANGED <<temps, writer>>
       ELSE /\ temps' = [temps EXCEPT ![name] = NewFile(writer[w].key)]
            /\ writer' = [writer EXCEPT ![w].pc = "write", ![w].serial = serial[p]]
    /\ UNCHANGED <<setting, records, earlier, now>>

\* write_all.
Write(w) ==
    /\ writer[w].pc = "write"
    /\ temps' = [temps EXCEPT ![TempOf(w)].content = "whole",
                              ![TempOf(w)].time = now]
    /\ Goto(w, "sync")
    /\ UNCHANGED <<setting, records, earlier, serial, now>>

SyncNothing(w) ==
    /\ writer[w].pc = "sync"
    /\ Goto(w, "rename")
    /\ UNCHANGED <<setting, records, earlier, temps, serial, now>>
\* sync_all.
Sync(w) ==
    /\ writer[w].pc = "sync"
    /\ temps' = [temps EXCEPT ![TempOf(w)].synced = TRUE]
    /\ Goto(w, "rename")
    /\ UNCHANGED <<setting, records, earlier, serial, now>>

\* rename over the record of the key: the store is published.
Rename(w) ==
    LET k == writer[w].key IN
    /\ writer[w].pc = "rename"
    /\ Replace(k, temps[TempOf(w)])
    /\ temps' = [temps EXCEPT ![TempOf(w)] = NoFile]
    /\ Goto(w, "list")
    /\ UNCHANGED <<setting, serial, now>>

\* A failed write, sync or rename: the temporary is removed, if that works, and
\* the error returned.
WriteFails(w) ==
    /\ "io" \in setting.faults
    /\ writer[w].pc \in {"write", "sync", "rename"}
    /\ Goto(w, "cleanup")
    /\ UNCHANGED <<setting, records, earlier, temps, serial, now>>

Cleanup(w) ==
    /\ writer[w].pc = "cleanup"
    /\ temps' \in {temps, [temps EXCEPT ![TempOf(w)] = NoFile]}
    /\ Return(w)
    /\ UNCHANGED <<setting, records, earlier, serial, now>>

----------------------------------------------------------------------------
(* evict, the end of store *)

\* read_dir.
List(w) ==
    /\ writer[w].pc = "list"
    /\ writer' = [writer EXCEPT ![w].pc = "stat", ![w].names = Present]
    /\ UNCHANGED <<setting, records, earlier, temps, serial, now>>

\* symlink_metadata of one name; a record that is gone is skipped.
Stat(w) ==
    /\ writer[w].pc = "stat"
    /\ \E k \in writer[w].names :
          writer' = [writer EXCEPT
             ![w].names = @ \ {k},
             ![w].found = IF k \in Present THEN @ \cup {<<records[k].time, k>>}
                          ELSE @]
    /\ UNCHANGED <<setting, records, earlier, temps, serial, now>>

Before(e, f) == e[1] < f[1] \/ (e[1] = f[1] /\ e[2] < f[2])

ExcessNewest(found) ==
    {e \in found : Cardinality({f \in found : Before(f, e)}) >= MaxEntries}
ExcessOffByOne(found) ==
    {e \in found : Cardinality({f \in found : Before(e, f)}) >= MaxEntries + 1}
\* The sorted entries before the last MaxEntries.
Excess(found) ==
    {e \in found : Cardinality({f \in found : Before(e, f)}) >= MaxEntries}

Plan(w) ==
    /\ writer[w].pc = "stat" /\ writer[w].names = {}
    /\ IF Excess(writer[w].found) = {} THEN Return(w)
       ELSE writer' = [writer EXCEPT ![w].pc = "remove", ![w].found = Excess(@)]
    /\ UNCHANGED <<setting, records, earlier, temps, serial, now>>

\* remove_file, oldest first; a record that is gone counts as removed.
Remove(w) ==
    /\ writer[w].pc = "remove"
    /\ \E e \in writer[w].found :
          /\ \A f \in writer[w].found : ~Before(f, e)
          /\ Replace(e[2], NoFile)
          /\ IF writer[w].found = {e} THEN Return(w)
             ELSE writer' = [writer EXCEPT ![w].found = @ \ {e}]
    /\ UNCHANGED <<setting, temps, serial, now>>

\* A directory or metadata error ends the store with an error: it is published.
EvictFails(w) ==
    /\ "io" \in setting.faults
    /\ writer[w].pc \in {"list", "stat", "remove"}
    /\ Return(w)
    /\ UNCHANGED <<setting, records, earlier, temps, serial, now>>

----------------------------------------------------------------------------
(* The environment *)

Tick ==
    /\ now < setting.maxTime
    /\ now' = now + 1
    /\ UNCHANGED <<setting, records, earlier, temps, serial, writer>>

\* A process ends inside its stores; another one starts with the same id.
Exit(p) ==
    /\ "exit" \in setting.faults
    /\ \E w \in Writers : ProcessOf(w) = p /\ writer[w].pc # "idle"
    /\ writer' = [w \in Writers |-> IF ProcessOf(w) = p THEN IdleWriter
                                    ELSE writer[w]]
    /\ serial' = [serial EXCEPT ![p] = 0]
    /\ UNCHANGED <<setting, records, earlier, temps, now>>

\* The directory reaches the disk.
Flush(k) ==
    /\ "power" \in setting.faults
    /\ earlier[k] # {}
    /\ earlier' = [earlier EXCEPT ![k] = {}]
    /\ UNCHANGED <<setting, records, temps, serial, now, writer>>

\* What a power loss leaves of a file.
AfterLoss(f) == IF f.synced THEN f ELSE [f EXCEPT !.content = "partial", !.synced = TRUE]

PowerLoss ==
    /\ "power" \in setting.faults
    /\ \E kept \in [Keys -> UNION {{records[k]} \cup earlier[k] : k \in Keys}] :
          /\ \A k \in Keys : kept[k] \in {records[k]} \cup earlier[k]
          /\ records' = [k \in Keys |-> AfterLoss(kept[k])]
    /\ earlier' = [k \in Keys |-> {}]
    /\ temps' \in {[n \in TempNames |-> AfterLoss(temps[n])],
                   [n \in TempNames |-> NoFile]}
    /\ serial' = [p \in Processes |-> 0]
    /\ writer' = [w \in Writers |-> IdleWriter]
    /\ UNCHANGED <<setting, now>>

StoreStep(w) ==
    CreateTemp(w) \/ Write(w) \/ Sync(w) \/ Rename(w) \/ Cleanup(w)
    \/ List(w) \/ Stat(w) \/ Plan(w) \/ Remove(w)

Step ==
    \/ \E w \in Writers :
          \/ \E k \in Keys : Store(w, k)
          \/ CreateTemp(w) \/ Write(w) \/ Sync(w) \/ Rename(w) \/ Cleanup(w)
          \/ List(w) \/ Stat(w) \/ Plan(w) \/ Remove(w)
          \/ WriteFails(w) \/ EvictFails(w)
    \/ \E p \in Processes : Exit(p)
    \/ \E k \in Keys : Flush(k)
    \/ Tick \/ PowerLoss

\* The history variable follows an eviction from its listing to its end.
Record ==
    changed' = [w \in Writers |->
        IF writer[w].pc \in {"stat", "remove"} /\ writer'[w].pc \in {"stat", "remove"}
        THEN changed[w] \cup {k \in Keys : records'[k] \notin {records[k], NoFile}}
        ELSE {}]

Next == Step /\ Record

Spec == Init /\ [][Next]_vars

----------------------------------------------------------------------------
(* Properties *)

TypeOK ==
    /\ setting \in Settings
    /\ records \in [Keys -> Files \cup {NoFile}]
    /\ earlier \in [Keys -> SUBSET (Files \cup {NoFile})]
    /\ temps \in [TempNames -> Files \cup {NoFile}]
    /\ serial \in [Processes -> 0..MaxSerial]
    /\ now \in 0..MaxTime
    /\ \A w \in Writers : writer[w].key \in Keys \cup {0}
    /\ changed \in [Writers -> SUBSET Keys]

\* "Records are ... replaced atomically": whatever processes, errors, exits and
\* power losses do, a record file holds a whole record of its key.
RecordsWhole ==
    \A k \in Present : records[k].content = "whole" /\ records[k].key = k

\* "Separate processes and threads must never share a temporary filename": a
\* store that has its temporary shares it with no other, and finds in it what
\* it wrote, stale files of dead processes included.
TempsPrivate ==
    \A w \in Writers : writer[w].pc \in {"write", "sync", "rename"} =>
        /\ \A v \in Writers \ {w} :
              writer[v].pc \in {"write", "sync", "rename", "cleanup"} =>
                 TempOf(v) # TempOf(w)
        /\ temps[TempOf(w)].key = writer[w].key
        /\ temps[TempOf(w)].content =
              IF writer[w].pc = "write" THEN "partial" ELSE "whole"

\* "create_new also keeps a stale file from a previous process untouched": no
\* step of a store changes a temporary that no running store owns.
StaleTempsUntouched ==
    [][\A n \in TempNames :
          /\ \E w \in Writers : StoreStep(w)
          /\ temps[n] # NoFile
          /\ \A w \in Writers : writer[w].pc \in {"write", "sync", "rename",
                                                  "cleanup"} => TempOf(w) # n
          => temps'[n] = temps[n]]_vars

\* "Concurrent writers may temporarily exceed the entry cap while publishing;
\* pruning follows each successful write": with no store in progress and none
\* cut short, the directory is within the cap.
CapAtRest ==
    /\ setting.faults = {}
    /\ \A w \in Writers : writer[w].pc = "idle"
    =>
        Cardinality(Present) <= MaxEntries

\* "successful writes evict oldest-written owned records above the cap": what
\* an eviction removes is no newer than what it leaves, except for records that
\* were published between its listing and its removal, on either side: it removes
\* by name, and decides by the times it read.
EvictsOldestListed ==
    [][\A w \in Writers, k \in Present :
          Remove(w) /\ records'[k] = NoFile /\ k \notin changed[w] =>
             \A j \in Present \ changed[w] : records[k].time <= records[j].time]_vars

\* Every runtime that is inside a store keeps running.
FairSpec == Spec /\ \A w \in Writers : WF_storeVars(StoreStep(w))

\* A store returns, over stale temporaries too.
StoresReturn == \A w \in Writers : writer[w].pc # "idle" ~> writer[w].pc = "idle"
=============================================================================
