------------------------------ MODULE DiskImage ------------------------------
(***************************************************************************)
(* The image builder and its validator, sector by sector.  build_image     *)
(* writes GPT, FAT32, directories and files, reads them back and compares; *)
(* a boot validates the stored image again, which may have been damaged    *)
(* since.  The libraries gpt and fatfs are modelled from their use here.   *)
(* A cluster is one sector, as in the code, and sizes are in sectors.      *)
(***************************************************************************)
EXTENDS Integers, Sequences

CONSTANTS
  GPT_ENTRY_ARRAY_SECTORS, ESP_FIRST_LBA, ESP_LAST_LBA, BACKUP_GPT_ENTRIES_LBA,
  FAT_SECTORS,         \* of one FAT
  FAT_WIDTH,           \* entries per FAT sector: 128 in the code
  MAX_PAYLOAD, MAX_ELF_FILE_SIZE,
  Payloads,            \* [loader, kernel |-> sectors, sound |-> BOOLEAN, scenario |-> token]
  Alien,               \* contents of sectors that the builder never writes
  Spots,               \* sets of sectors that are damaged together
  Rewrites             \* changes of several sectors, each a function from LBAs to contents

BACKUP_GPT_HEADER_LBA == BACKUP_GPT_ENTRIES_LBA + GPT_ENTRY_ARRAY_SECTORS
FIRST_USABLE_LBA == 2 + GPT_ENTRY_ARRAY_SECTORS
LBAs == 0 .. BACKUP_GPT_HEADER_LBA
ESP_SECTORS == ESP_LAST_LBA + 1 - ESP_FIRST_LBA

ASSUME GeometryAssumption ==
  /\ GPT_ENTRY_ARRAY_SECTORS \in Nat \ {0} /\ ESP_FIRST_LBA \in Nat /\ ESP_LAST_LBA \in Nat
  /\ BACKUP_GPT_ENTRIES_LBA \in Nat /\ FAT_SECTORS \in Nat \ {0} /\ FAT_WIDTH \in Nat \ {0}
  /\ FIRST_USABLE_LBA <= ESP_FIRST_LBA /\ ESP_FIRST_LBA <= ESP_LAST_LBA
  /\ ESP_LAST_LBA < BACKUP_GPT_ENTRIES_LBA

ZERO == [kind |-> "zero"]

-----------------------------------------------------------------------------
(* What the builder writes. *)

MBR == [kind |-> "mbr"]
Entry(first, last, others) ==
  [kind |-> "entries", partition |-> [first |-> first, last |-> last], others |-> others]
EspEntry == Entry(ESP_FIRST_LBA, ESP_LAST_LBA, "zero")
GptHeader(current, backup, entries) ==
  [kind |-> "header", current |-> current, backup |-> backup, entries |-> entries,
   usable |-> <<FIRST_USABLE_LBA, BACKUP_GPT_ENTRIES_LBA - 1>>,
   guid |-> "disk", crc |-> EspEntry]
BootSector == [kind |-> "boot", sectors |-> ESP_SECTORS, fat_sectors |-> FAT_SECTORS]
FsInfo(next_free) == [kind |-> "info", next_free |-> next_free]
Fat(entries) == [kind |-> "fat", entries |-> entries]

FREE == 0
END == -1                                  \* 0x0ffffff8 and above
FIRST_FAT == 8
DATA == FIRST_FAT + 2 * FAT_SECTORS        \* of the data region
ENTRY_COUNT == ESP_SECTORS - DATA + 2

(* The largest payloads leave a cluster free, and a FAT has an entry for    *)
(* every cluster: 24 and 16 MiB in an ESP of 62 MiB.                        *)
ASSUME CapacityAssumption ==
  /\ MAX_PAYLOAD \in Nat /\ MAX_ELF_FILE_SIZE \in Nat
  /\ 7 + MAX_PAYLOAD + MAX_ELF_FILE_SIZE < ENTRY_COUNT
  /\ ENTRY_COUNT <= FAT_SECTORS * FAT_WIDTH

(* Directories and files in the order in which they are made. *)
Directory == [ROOT |-> <<"EFI", "POLYTOPE">>, EFI |-> <<"BOOT">>,
              BOOT |-> <<"BOOTX64.EFI">>, POLYTOPE |-> <<"KERNEL.ELF", "BOOT.CFG">>]
Order == <<"ROOT", "EFI", "BOOT", "POLYTOPE", "BOOTX64.EFI", "KERNEL.ELF", "BOOT.CFG">>
Directories == DOMAIN Directory
LOADER == "BOOTX64.EFI"
KERNEL == "KERNEL.ELF"
SCENARIO == "BOOT.CFG"

SizeOf(p, name) ==
  CASE name = LOADER -> p.loader [] name = KERNEL -> p.kernel [] OTHER -> 1

FirstCluster(p, i) ==
  IF i <= 5 THEN i + 1 ELSE 6 + p.loader + (IF i = 7 THEN p.kernel ELSE 0)
ClusterOf(p, name) == FirstCluster(p, CHOOSE i \in DOMAIN Order : Order[i] = name)
FirstFree(p) == FirstCluster(p, 7) + 1

DirEntry(p, name) ==
  [name |-> name, dir |-> name \in Directories, cluster |-> ClusterOf(p, name),
   size |-> SizeOf(p, name), stamp |-> TRUE]
DOT == [name |-> ".", dir |-> TRUE, cluster |-> 0, size |-> 1, stamp |-> TRUE]

(* A slot that fatfs passes over in silence: the volume label, a deleted    *)
(* entry, a part of a long name.                                            *)
SKIPPED == [name |-> ""]

(* A sector of slots, in which a slot marks the end unless it is full. *)
DirectorySector(slots, full) == [kind |-> "directory", slots |-> slots, full |-> full]

(* Clusters are taken in order; a file's is followed by the next. *)
Successor(p, cluster) ==
  IF cluster >= FirstFree(p) THEN FREE
  ELSE IF \E i \in DOMAIN Order : FirstCluster(p, i) + SizeOf(p, Order[i]) - 1 = cluster
       THEN END ELSE cluster + 1

FatEntry(p, n) ==
  IF n < 2 \/ n >= ENTRY_COUNT THEN END ELSE Successor(p, n)

DataSector(p, cluster) ==
  IF cluster >= FirstFree(p) THEN ZERO ELSE
  LET i == CHOOSE j \in DOMAIN Order :
             cluster \in FirstCluster(p, j) .. FirstCluster(p, j) + SizeOf(p, Order[j]) - 1
      name == Order[i]
      Children(d) == [k \in DOMAIN Directory[d] |-> DirEntry(p, Directory[d][k])]
  IN IF name \in Directories
       THEN DirectorySector(
              (IF name = "ROOT" THEN <<SKIPPED>> ELSE <<DOT, [DOT EXCEPT !.name = ".."]>>)
                \o Children(name), FALSE)
     ELSE IF name = SCENARIO THEN [kind |-> "scenario", token |-> p.scenario, newlines |-> 1]
     ELSE [kind |-> name, part |-> cluster - FirstCluster(p, i)]

(* format_esp *)
EspSector(p, s) ==
  CASE s \in {0, 6} -> BootSector
    [] s = 1 -> FsInfo(FirstFree(p))
    [] s \in {2, 3, 4, 5, 7} -> ZERO
    [] s \in FIRST_FAT .. DATA - 1 ->
         LET f == (s - FIRST_FAT) % FAT_SECTORS IN
         Fat([i \in 0 .. FAT_WIDTH - 1 |-> FatEntry(p, f * FAT_WIDTH + i)])
    [] s >= DATA -> DataSector(p, s - DATA + 2)

(* create_gpt_disk and format_esp *)
Built(p) ==
  [l \in LBAs |->
    CASE l = 0 -> MBR
      [] l = 1 -> GptHeader(1, BACKUP_GPT_HEADER_LBA, 2)
      [] l = BACKUP_GPT_HEADER_LBA -> GptHeader(BACKUP_GPT_HEADER_LBA, 1, BACKUP_GPT_ENTRIES_LBA)
      [] l \in {2, BACKUP_GPT_ENTRIES_LBA} -> EspEntry
      [] l \in ESP_FIRST_LBA .. ESP_LAST_LBA -> EspSector(p, l - ESP_FIRST_LBA)
      [] OTHER -> ZERO]

-----------------------------------------------------------------------------
VARIABLES
  payload,       \* sizes of loader and kernel
  disk,          \* the image
  stored,        \* whether build_image has succeeded
  damaged,       \* whether the stored image was damaged
  pc,
  cluster, first_free,         \* the loop over the FAT
  todo,                        \* directories, then files, still to be read
  handles,                     \* those opened so far
  at,                          \* the cluster that is read now
  entry, raw_entries, observed,\* validate_directory: the slot in it, and its counters
  bytes,                       \* read_fat_file: what was read
  contents                     \* the files read so far

vars == <<payload, disk, stored, damaged, pc, cluster, first_free, todo, handles, at, entry,
          raw_entries, observed, bytes, contents>>
image == <<payload, disk, damaged>>
fat_loop == <<cluster, first_free>>
directory_loop == <<entry, raw_entries, observed>>
file_loop == <<bytes, contents>>

NOTHING == -2
Root == [name |-> "ROOT", dir |-> TRUE, cluster |-> 2, size |-> 1, stamp |-> TRUE]
Missing == [Root EXCEPT !.name = "", !.cluster = 0]
Closed == [n \in {Order[i] : i \in DOMAIN Order} |-> IF n = "ROOT" THEN Root ELSE Missing]
Empty == [f \in {LOADER, KERNEL, SCENARIO} |-> <<>>]

Init ==
  /\ payload \in Payloads /\ disk = [l \in LBAs |-> ZERO] /\ stored = FALSE
  /\ damaged = FALSE /\ pc = "build"
  /\ cluster = 2 /\ first_free = NOTHING /\ todo = <<>> /\ handles = Closed
  /\ entry = 1 /\ raw_entries = 0 /\ observed = 0
  /\ at = NOTHING /\ bytes = <<>> /\ contents = Empty

Goto(label) == pc' = label
Reject == Goto("rejected")

(* build_image_bytes up to the read-back; the ELF parser has its own limit. *)
Acceptable ==
  payload.sound /\ payload.loader <= MAX_PAYLOAD
    /\ payload.kernel <= MAX_PAYLOAD /\ payload.kernel <= MAX_ELF_FILE_SIZE

Build ==
  /\ pc = "build"
  /\ IF Acceptable
       THEN disk' = Built(payload) /\ Goto("gpt")
       ELSE Reject /\ UNCHANGED disk
  /\ UNCHANGED <<payload, stored, damaged, fat_loop, todo, handles, at, directory_loop, file_loop>>

(* The image lies in a file: some of its sectors get new contents, alien    *)
(* ones or those of another sector, or a rewrite takes place.               *)
Overwritten(r) == [l \in LBAs |-> IF l \in DOMAIN r THEN r[l] ELSE disk[l]]

Damage ==
  /\ pc = "stored" /\ ~ damaged /\ damaged' = TRUE
  /\ \/ \E s \in Spots, c \in Alien \union {disk[l] : l \in LBAs} :
          disk' = Overwritten([l \in s |-> c])
     \/ \E r \in Rewrites : disk' = Overwritten(r)
  /\ UNCHANGED <<payload, stored, pc, fat_loop, todo, handles, at, directory_loop, file_loop>>

(* validate_image_bytes is called for the stored image. *)
Validate ==
  /\ pc = "stored" /\ Goto("gpt")
  /\ UNCHANGED <<image, stored, fat_loop, todo, handles, at, directory_loop, file_loop>>

-----------------------------------------------------------------------------
(* validate_raw_gpt_layout, and what the gpt library checks. *)

ValidHeader(h, current, backup, entries) ==
  /\ h.kind = "header" /\ h.current = current /\ h.backup = backup /\ h.entries = entries
  /\ h.usable = <<FIRST_USABLE_LBA, BACKUP_GPT_ENTRIES_LBA - 1>>

IsZero(from, to) == \A l \in from .. to - 1 : disk[l] = ZERO

(* Plausible mistake in the next definition: the ESP's last sector is taken *)
(* for its end, and the tail begins behind the first sector of the gap.     *)
GptLayoutShort ==
  /\ disk[0] = MBR
  /\ ValidHeader(disk[1], 1, BACKUP_GPT_HEADER_LBA, 2)
  /\ ValidHeader(disk[BACKUP_GPT_HEADER_LBA], BACKUP_GPT_HEADER_LBA, 1, BACKUP_GPT_ENTRIES_LBA)
  /\ disk[1].guid = disk[BACKUP_GPT_HEADER_LBA].guid /\ disk[1].crc = disk[BACKUP_GPT_HEADER_LBA].crc
  /\ \A i \in 0 .. GPT_ENTRY_ARRAY_SECTORS - 1 : disk[2 + i] = disk[BACKUP_GPT_ENTRIES_LBA + i]
  /\ disk[2].kind = "entries" /\ disk[2].others = "zero" /\ IsZero(3, FIRST_USABLE_LBA)
  /\ IsZero(FIRST_USABLE_LBA, ESP_FIRST_LBA) /\ IsZero(ESP_LAST_LBA + 2, BACKUP_GPT_ENTRIES_LBA)

GptLayout ==
  /\ disk[0] = MBR
  /\ ValidHeader(disk[1], 1, BACKUP_GPT_HEADER_LBA, 2)
  /\ ValidHeader(disk[BACKUP_GPT_HEADER_LBA], BACKUP_GPT_HEADER_LBA, 1, BACKUP_GPT_ENTRIES_LBA)
  /\ disk[1].guid = disk[BACKUP_GPT_HEADER_LBA].guid /\ disk[1].crc = disk[BACKUP_GPT_HEADER_LBA].crc
  /\ \A i \in 0 .. GPT_ENTRY_ARRAY_SECTORS - 1 : disk[2 + i] = disk[BACKUP_GPT_ENTRIES_LBA + i]
  /\ disk[2].kind = "entries" /\ disk[2].others = "zero" /\ IsZero(3, FIRST_USABLE_LBA)
  /\ IsZero(FIRST_USABLE_LBA, ESP_FIRST_LBA) /\ IsZero(ESP_LAST_LBA + 1, BACKUP_GPT_ENTRIES_LBA)

GptOpens ==
  /\ disk[1].crc = disk[2] /\ disk[1].guid = "disk"
  /\ disk[2].partition = [first |-> ESP_FIRST_LBA, last |-> ESP_LAST_LBA]

ValidateGpt ==
  /\ pc = "gpt" /\ IF GptLayout /\ GptOpens THEN Goto("fat32") ELSE Reject
  /\ UNCHANGED <<image, stored, fat_loop, todo, handles, at, directory_loop, file_loop>>

-----------------------------------------------------------------------------
(* validate_raw_fat32_layout *)

esp(s) == disk[ESP_FIRST_LBA + s]
fat_sectors == esp(0).fat_sectors
data_lba == FIRST_FAT + 2 * fat_sectors
entry_count == ESP_SECTORS - data_lba + 2
(* Any sector can be read as FAT entries; one that is neither a FAT sector  *)
(* nor zero has none that is a cluster.                                     *)
FatCopy(k, n) ==
  LET sector == esp(FIRST_FAT + k * fat_sectors + n \div FAT_WIDTH) IN
  IF sector.kind = "fat" THEN sector.entries[n % FAT_WIDTH]
  ELSE IF sector = ZERO THEN FREE ELSE 1
fat(n) == FatCopy(0, n)

Fat32Layout ==
  /\ esp(0).kind = "boot" /\ esp(0).sectors = ESP_SECTORS
  /\ esp(0) = esp(6) /\ esp(1).kind = "info"
  /\ \A s \in {2, 3, 4, 5, 7} : esp(s) = ZERO
  /\ fat_sectors > 0 /\ data_lba < ESP_SECTORS
  /\ \A i \in 0 .. fat_sectors - 1 : esp(FIRST_FAT + i) = esp(FIRST_FAT + fat_sectors + i)
  /\ entry_count <= fat_sectors * FAT_WIDTH
  /\ fat(0) = END /\ fat(1) = END

ValidateFat32 ==
  /\ pc = "fat32"
  /\ IF Fat32Layout THEN Goto("entries") /\ cluster' = 2 /\ first_free' = NOTHING
                    ELSE Reject /\ UNCHANGED fat_loop
  /\ UNCHANGED <<image, stored, todo, handles, at, directory_loop, file_loop>>

(* One iteration of validate_canonical_fat_entries. *)
FatEntryStep ==
  /\ pc = "entries" /\ cluster < entry_count
  /\ LET value == fat(cluster) IN
     IF value = FREE
       THEN /\ first_free' = (IF first_free = NOTHING THEN cluster ELSE first_free)
            /\ cluster' = cluster + 1 /\ UNCHANGED pc
     ELSE IF first_free = NOTHING /\ (value \in 2 .. entry_count - 1 \/ value = END)
       THEN cluster' = cluster + 1 /\ UNCHANGED <<first_free, pc>>
     ELSE Reject /\ UNCHANGED fat_loop
  /\ UNCHANGED <<image, stored, todo, handles, at, directory_loop, file_loop>>

FatEntriesEnd ==
  /\ pc = "entries" /\ cluster = entry_count
  /\ IF /\ \A n \in entry_count .. fat_sectors * FAT_WIDTH - 1 : fat(n) = END
        /\ first_free # NOTHING /\ esp(1).next_free = first_free
       THEN Goto("directory") /\ todo' = <<"ROOT", "EFI", "BOOT", "POLYTOPE">>
       ELSE Reject /\ UNCHANGED todo
  /\ at' = Root.cluster /\ entry' = 1 /\ raw_entries' = 0 /\ observed' = 0
  /\ handles' = Closed
  /\ UNCHANGED <<image, stored, fat_loop, file_loop>>

-----------------------------------------------------------------------------
(* fatfs: the sector of a cluster, read as a directory.  One that is none   *)
(* has slots with other names.                                              *)
IsCluster(c) == c \in 2 .. entry_count - 1
DataOf(c) == esp(data_lba + c - 2)
FOREIGN == [DOT EXCEPT !.name = "?"]
AsDirectory(c) ==
  IF DataOf(c).kind = "directory" THEN DataOf(c)
  ELSE DirectorySector(IF DataOf(c) = ZERO THEN <<>> ELSE <<FOREIGN>>, FALSE)

(* The slots of a directory, along its chain, and what its iterator yields. *)
Slots(c) ==
  LET from[n \in Nat, d \in Int] ==
        IF n = entry_count \/ ~ IsCluster(d) THEN <<>>
        ELSE AsDirectory(d).slots \o IF AsDirectory(d).full THEN from[n + 1, fat(d)] ELSE <<>>
  IN from[0, c]
Yielded(slot) == slot # SKIPPED
EntriesIn(c) == SelectSeq(Slots(c), Yielded)

(* A lookup, in a directory that validate_directory has been through. *)
Find(directory, name) ==
  LET listed == EntriesIn(directory.cluster) IN
  IF \E i \in DOMAIN listed : listed[i].name = name
    THEN LET e == listed[CHOOSE i \in DOMAIN listed :
                           listed[i].name = name /\ \A j \in 1 .. i - 1 : listed[j].name # name]
         IN IF e.dir = (name \in Directories) THEN e ELSE Missing
    ELSE Missing

ParentOf(name) == CHOOSE d \in Directories : \E i \in DOMAIN Directory[d] : Directory[d][i] = name
(* open_dir and open_file: a path leads through directories opened before.  *)
Open(name) == handles' = [handles EXCEPT ![name] = Find(handles[ParentOf(name)], name)]

expected == Directory[Head(todo)]
opened == handles[Head(todo)]

(* The iterator: the slot it is at, passing one over, and going on with the *)
(* next cluster behind a sector that is full.  Neither is counted.          *)
slots == AsDirectory(at).slots
InSector == pc = "directory" /\ IsCluster(at) /\ entry <= Len(slots)
BehindFull == pc = "directory" /\ IsCluster(at) /\ entry > Len(slots) /\ AsDirectory(at).full

SkipSlot ==
  /\ InSector /\ ~ Yielded(slots[entry]) /\ entry' = entry + 1
  /\ UNCHANGED <<image, stored, pc, fat_loop, todo, handles, at, raw_entries, observed, file_loop>>

NextCluster ==
  /\ BehindFull /\ at' = fat(at) /\ entry' = 1
  /\ UNCHANGED <<image, stored, pc, fat_loop, todo, handles, raw_entries, observed, file_loop>>

(* Plausible mistake in the next action: what comes after the expected      *)
(* entries is passed over.                                                  *)
DirectoryStepExtra ==
  /\ InSector /\ Yielded(slots[entry])
  /\ LET e == slots[entry] IN
     IF raw_entries + 1 > Len(expected) + 2 THEN Reject /\ UNCHANGED observed
     ELSE IF e.name \in {".", ".."} \/ observed = Len(expected) THEN observed' = observed /\ UNCHANGED pc
     ELSE IF /\ e.name = expected[observed + 1]
             /\ e.dir = (e.name \in Directories) /\ e.stamp
       THEN observed' = observed + 1 /\ UNCHANGED pc
     ELSE Reject /\ UNCHANGED observed
  /\ entry' = entry + 1 /\ raw_entries' = raw_entries + 1
  /\ UNCHANGED <<image, stored, fat_loop, todo, handles, at, file_loop>>

(* One iteration of validate_directory for the first directory of todo. *)
DirectoryStep ==
  /\ InSector /\ Yielded(slots[entry])
  /\ LET e == slots[entry] IN
     IF raw_entries + 1 > Len(expected) + 2 THEN Reject /\ UNCHANGED observed
     ELSE IF e.name \in {".", ".."} THEN observed' = observed /\ UNCHANGED pc
     ELSE IF /\ observed < Len(expected) /\ e.name = expected[observed + 1]
             /\ e.dir = (e.name \in Directories) /\ e.stamp
       THEN observed' = observed + 1 /\ UNCHANGED pc
     ELSE Reject /\ UNCHANGED observed
  /\ entry' = entry + 1 /\ raw_entries' = raw_entries + 1
  /\ UNCHANGED <<image, stored, fat_loop, todo, handles, at, file_loop>>

DirectoryEnd ==
  /\ pc = "directory" /\ ~ InSector /\ ~ BehindFull
  /\ IF opened # Missing /\ observed = Len(expected)
       THEN IF Len(todo) > 1
              THEN /\ todo' = Tail(todo) /\ Open(todo[2]) /\ UNCHANGED pc
                   /\ at' = handles'[todo[2]].cluster
            ELSE todo' = <<LOADER, KERNEL, SCENARIO>> /\ Goto("open") /\ UNCHANGED <<handles, at>>
       ELSE Reject /\ UNCHANGED <<todo, handles, at>>
  /\ entry' = 1 /\ raw_entries' = 0 /\ observed' = 0
  /\ UNCHANGED <<image, stored, fat_loop, file_loop>>

-----------------------------------------------------------------------------
(* read_fat_file: a chunk is a cluster.  fatfs ends a file at its size or   *)
(* where its chain ends.                                                    *)
MaximumOf(name) ==
  IF name = LOADER THEN MAX_PAYLOAD ELSE IF name = KERNEL THEN MAX_ELF_FILE_SIZE ELSE 1

OpenFile ==
  /\ pc = "open" /\ Open(Head(todo))
  /\ Goto(IF handles'[Head(todo)] = Missing THEN "rejected" ELSE "read")
  /\ at' = handles'[Head(todo)].cluster /\ bytes' = <<>>
  /\ UNCHANGED <<image, stored, fat_loop, todo, directory_loop, contents>>

FileEnds == ~ IsCluster(at) \/ Len(bytes) = opened.size

(* Plausible mistakes in the next action: the limit is checked before the   *)
(* chunk is counted, or excluded.                                           *)
ReadChunkFirst ==
  /\ pc = "read" /\ ~ FileEnds
  /\ IF Len(bytes) > MaximumOf(Head(todo)) THEN Reject /\ UNCHANGED <<bytes, at>>
     ELSE bytes' = Append(bytes, DataOf(at)) /\ at' = fat(at) /\ UNCHANGED pc
  /\ UNCHANGED <<image, stored, fat_loop, todo, handles, directory_loop, contents>>

ReadChunkBelow ==
  /\ pc = "read" /\ ~ FileEnds
  /\ IF Len(bytes) + 1 >= MaximumOf(Head(todo)) THEN Reject /\ UNCHANGED <<bytes, at>>
     ELSE bytes' = Append(bytes, DataOf(at)) /\ at' = fat(at) /\ UNCHANGED pc
  /\ UNCHANGED <<image, stored, fat_loop, todo, handles, directory_loop, contents>>

ReadChunk ==
  /\ pc = "read" /\ ~ FileEnds
  /\ IF Len(bytes) + 1 > MaximumOf(Head(todo)) THEN Reject /\ UNCHANGED <<bytes, at>>
     ELSE bytes' = Append(bytes, DataOf(at)) /\ at' = fat(at) /\ UNCHANGED pc
  /\ UNCHANGED <<image, stored, fat_loop, todo, handles, directory_loop, contents>>

(* Plausible mistake in the next action: reading goes on until the size is  *)
(* reached.                                                                 *)
FileReadExact ==
  /\ pc = "read" /\ Len(bytes) = opened.size
  /\ contents' = [contents EXCEPT ![Head(todo)] = bytes]
  /\ IF Len(todo) > 1 THEN todo' = Tail(todo) /\ Goto("open") ELSE Goto("payload") /\ UNCHANGED todo
  /\ UNCHANGED <<image, stored, fat_loop, handles, directory_loop, at, bytes>>

FileRead ==
  /\ pc = "read" /\ FileEnds
  /\ contents' = [contents EXCEPT ![Head(todo)] = bytes]
  /\ IF Len(todo) > 1 THEN todo' = Tail(todo) /\ Goto("open") ELSE Goto("payload") /\ UNCHANGED todo
  /\ UNCHANGED <<image, stored, fat_loop, handles, directory_loop, at, bytes>>

(* validate_uefi_loader and validate_kernel_elf look at the first sector. *)
ValidPayload(name) ==
  contents[name] # <<>> /\ contents[name][1] = [kind |-> name, part |-> 0]

(* parse_scenario *)
Tokens == {"normal", "bad-version", "truncated", "panic"}
IsText(b) == Len(b) = 1 /\ b[1].kind = "scenario"
ParseScenario(b) ==
  IF IsText(b) /\ b[1].newlines = 1 /\ b[1].token \in Tokens THEN b[1].token ELSE "refused"

Valid == ValidPayload(LOADER) /\ ValidPayload(KERNEL) /\ ParseScenario(contents[SCENARIO]) # "refused"

(* The inputs that the read-back is compared with. *)
InputOf(name) == [i \in 1 .. SizeOf(payload, name) |-> [kind |-> name, part |-> i - 1]]
ReadsBack ==
  /\ contents[LOADER] = InputOf(LOADER) /\ contents[KERNEL] = InputOf(KERNEL)
  /\ ParseScenario(contents[SCENARIO]) = payload.scenario

(* The end of build_image_bytes, then write_atomic; and of a validation.    *)
Finish ==
  /\ pc = "payload"
  /\ IF stored THEN Goto(IF Valid THEN "accepted" ELSE "rejected")
               ELSE Goto(IF Valid /\ ReadsBack THEN "stored" ELSE "rejected")
  /\ stored' = (stored \/ (Valid /\ ReadsBack))
  /\ UNCHANGED <<image, fat_loop, todo, handles, at, directory_loop, file_loop>>

Step ==
  \/ Validate \/ ValidateGpt \/ ValidateFat32 \/ FatEntryStep \/ FatEntriesEnd
  \/ SkipSlot \/ NextCluster \/ DirectoryStep \/ DirectoryEnd \/ OpenFile \/ ReadChunk \/ FileRead \/ Finish

Next == Build \/ Damage \/ Step

Spec == Init /\ [][Next]_vars /\ WF_vars(Build \/ Step)

-----------------------------------------------------------------------------
Accepted == pc = "accepted"

(* What the builder makes of payloads up to their limits passes its own     *)
(* read-back, and every later validation.                                   *)
BuiltIsAccepted == pc = "rejected" /\ ~ damaged => ~ Acceptable

PartitionBy(header) == disk[disk[header].entries].partition

(* Outside the ESP nothing is stored but the structures of the GPT; primary *)
(* and backup GPT lead to the same partition, and both boot sectors are the *)
(* same: it does not matter which copy a firmware uses.                     *)
NothingHidden ==
  Accepted =>
    /\ \A l \in LBAs \ (ESP_FIRST_LBA .. ESP_LAST_LBA) :
         disk[l] # ZERO => l \in {0, 1, 2, BACKUP_GPT_ENTRIES_LBA, BACKUP_GPT_HEADER_LBA}
    /\ PartitionBy(1) = PartitionBy(BACKUP_GPT_HEADER_LBA)
    /\ PartitionBy(1) = [first |-> ESP_FIRST_LBA, last |-> ESP_LAST_LBA]
    /\ esp(0) = esp(6)

(* The contents of a file as a driver reads it that follows copy k.         *)
Chain(k, file) ==
  LET from[n \in 0 .. file.size, c \in Int] ==
        IF n = file.size \/ ~ IsCluster(c) THEN <<>> ELSE <<DataOf(c)>> \o from[n + 1, FatCopy(k, c)]
  IN from[0, file.cluster]

(* An accepted image holds exactly the files of the manifest: a driver that *)
(* uses either FAT finds them under their paths, and finds nothing else in  *)
(* a directory; and clusters behind the first free one are free.            *)
ManifestDescribesVolume ==
  Accepted =>
    /\ \A n \in DOMAIN handles \ {"ROOT"} : handles[n] = Find(handles[ParentOf(n)], n)
    /\ \A f \in {LOADER, KERNEL, SCENARIO}, k \in {0, 1} : contents[f] = Chain(k, handles[f])
    /\ \A d \in Directories :
         LET listed == EntriesIn(handles[d].cluster) IN
         {listed[i].name : i \in DOMAIN listed} \ {".", ".."}
           = {Directory[d][i] : i \in DOMAIN Directory[d]}
    /\ \A c \in 2 .. entry_count - 1 : c >= esp(1).next_free <=> fat(c) = FREE

(* No file is read beyond its limit, and no directory yields more entries   *)
(* than its bound, whatever sizes, chains and entries a damaged image has.  *)
(* Slots that fatfs passes over are not among these.                        *)
ReadsAreBounded ==
  /\ pc = "read" => Len(bytes) <= MaximumOf(Head(todo))
  /\ pc = "directory" => raw_entries <= Len(expected) + 2

(* A chain of directory sectors that comes back to itself and has nothing   *)
(* but slots that are passed over: raw_entries does not grow on it.         *)
Silent(c) == AsDirectory(c).full /\ \A i \in DOMAIN AsDirectory(c).slots : ~ Yielded(AsDirectory(c).slots[i])
Circling ==
  /\ pc = "directory"
  /\ \E circle \in SUBSET {c \in 2 .. entry_count - 1 : Silent(c)} :
       at \in circle /\ \A c \in circle : fat(c) \in circle

(* Validation ends, also for chains that are circular: the size, the limit  *)
(* or the bound on entries stops every loop over files and directories,     *)
(* except the one case in which a directory's iterator is Circling.         *)
ValidationEnds == <>(pc \in {"accepted", "rejected"} \/ Circling)
=============================================================================
