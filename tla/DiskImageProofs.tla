--------------------------- MODULE DiskImageProofs ---------------------------
(***************************************************************************)
(* Theorems about the image validator for every geometry, payload and      *)
(* damage.                                                                 *)
(***************************************************************************)
EXTENDS DiskImage, TLAPS

-----------------------------------------------------------------------------
(* What an accepted image is.  The checks of one step are used many steps   *)
(* later, so that the invariant follows them through the program counter.   *)

BehindFat32 == {"entries", "directory", "open", "read", "payload", "accepted"}

Checked ==
  /\ pc \in BehindFat32 \union {"fat32"} => GptLayout /\ GptOpens
  /\ pc \in BehindFat32 => esp(0) = esp(6)

(* The disk changes only before validation begins, and no step skips one of *)
(* the two checks.                                                          *)
LEMMA CheckedStep == Checked /\ [Next]_vars => Checked'
<1> SUFFICES ASSUME Checked, [Next]_vars PROVE Checked'
  OBVIOUS
<1>1. CASE Build
  BY <1>1 DEF Build, Goto, Reject, Checked, BehindFat32
<1>2. CASE Damage
  BY <1>2 DEF Damage, Checked, BehindFat32
<1>3. CASE Validate
  BY <1>3 DEF Validate, Goto, Checked, BehindFat32
<1>4. ASSUME disk' = disk
      PROVE  /\ (GptLayout /\ GptOpens) <=> (GptLayout /\ GptOpens)'
             /\ (esp(0) = esp(6)) <=> (esp(0) = esp(6))'
  BY <1>4 DEF GptLayout, GptOpens, ValidHeader, IsZero, esp
<1>5. CASE ValidateGpt
  <2>1. disk' = disk
    BY <1>5 DEF ValidateGpt, image
  <2>2. pc' \notin BehindFat32
    BY <1>5 DEF ValidateGpt, Goto, Reject, BehindFat32
  <2>3. pc' = "fat32" => GptLayout /\ GptOpens
    BY <1>5 DEF ValidateGpt, Goto, Reject
  <2> QED BY <2>1, <2>2, <2>3, <1>4 DEF Checked
<1>6. CASE ValidateFat32
  <2>1. disk' = disk /\ pc = "fat32"
    BY <1>6 DEF ValidateFat32, image
  <2>2. pc' \in {"entries", "rejected"}
    BY <1>6 DEF ValidateFat32, Goto, Reject
  <2>3. pc' = "entries" => esp(0) = esp(6)
    BY <1>6 DEF ValidateFat32, Goto, Reject, Fat32Layout
  <2> QED BY <2>1, <2>2, <2>3, <1>4 DEF Checked, BehindFat32
<1>7. ASSUME disk' = disk, pc \in BehindFat32 \/ pc' = pc, pc' # "fat32" \/ pc' = pc
      PROVE  Checked'
  BY <1>7, <1>4 DEF Checked, BehindFat32
<1>8. CASE FatEntryStep
  BY <1>8, <1>7 DEF FatEntryStep, Goto, Reject, BehindFat32, image
<1>9. CASE FatEntriesEnd
  BY <1>9, <1>7 DEF FatEntriesEnd, Goto, Reject, BehindFat32, image
<1>10. CASE DirectoryStep
  BY <1>10, <1>7 DEF DirectoryStep, InSector, Goto, Reject, BehindFat32, image
<1>11. CASE DirectoryEnd
  BY <1>11, <1>7 DEF DirectoryEnd, Goto, Reject, BehindFat32, image
<1>12. CASE OpenFile
  BY <1>12, <1>7 DEF OpenFile, Goto, BehindFat32, image
<1>13. CASE ReadChunk
  BY <1>13, <1>7 DEF ReadChunk, Goto, Reject, BehindFat32, image
<1>14. CASE FileRead
  BY <1>14, <1>7 DEF FileRead, Goto, BehindFat32, image
<1>15. CASE Finish
  BY <1>15, <1>7 DEF Finish, Goto, BehindFat32, image
<1>16. CASE SkipSlot \/ NextCluster
  BY <1>16, <1>7 DEF SkipSlot, NextCluster, image
<1>17. CASE UNCHANGED vars
  BY <1>17, <1>7 DEF vars
<1> QED
  BY <1>1, <1>2, <1>3, <1>5, <1>6, <1>8, <1>9, <1>10, <1>11, <1>12, <1>13, <1>14, <1>15, <1>16, <1>17
     DEF Next, Step

(* The three ranges that are checked to be zero, and the structures between *)
(* them, leave no sector out: here the geometry of the disk is needed.      *)
LEMMA RangesCover ==
  ASSUME GptLayout, NEW l \in LBAs \ (ESP_FIRST_LBA .. ESP_LAST_LBA), disk[l] # ZERO
  PROVE  l \in {0, 1, 2, BACKUP_GPT_ENTRIES_LBA, BACKUP_GPT_HEADER_LBA}
<1> USE GeometryAssumption
<1>1. \A k \in 3 .. FIRST_USABLE_LBA - 1 : disk[k] = ZERO
  BY DEF GptLayout, IsZero
<1>2. \A k \in FIRST_USABLE_LBA .. ESP_FIRST_LBA - 1 : disk[k] = ZERO
  BY DEF GptLayout, IsZero
<1>3. \A k \in ESP_LAST_LBA + 1 .. BACKUP_GPT_ENTRIES_LBA - 1 : disk[k] = ZERO
  BY DEF GptLayout, IsZero
<1>4. \A i \in 0 .. GPT_ENTRY_ARRAY_SECTORS - 1 : disk[2 + i] = disk[BACKUP_GPT_ENTRIES_LBA + i]
  BY DEF GptLayout
<1>5. l \in Nat /\ l <= BACKUP_GPT_ENTRIES_LBA + GPT_ENTRY_ARRAY_SECTORS
  BY DEF LBAs, BACKUP_GPT_HEADER_LBA
<1>6. l < ESP_FIRST_LBA \/ l > ESP_LAST_LBA
  BY <1>5
<1>7. CASE l < ESP_FIRST_LBA
  BY <1>1, <1>2, <1>5, <1>7 DEF FIRST_USABLE_LBA
<1>8. CASE l > ESP_LAST_LBA /\ l <= BACKUP_GPT_ENTRIES_LBA
  BY <1>3, <1>5, <1>8
<1>9. CASE l > BACKUP_GPT_ENTRIES_LBA
  <2>1. CASE l = BACKUP_GPT_ENTRIES_LBA + GPT_ENTRY_ARRAY_SECTORS
    BY <2>1 DEF BACKUP_GPT_HEADER_LBA
  <2>2. CASE l < BACKUP_GPT_ENTRIES_LBA + GPT_ENTRY_ARRAY_SECTORS
    <3> DEFINE i == l - BACKUP_GPT_ENTRIES_LBA
    <3>1. i \in 1 .. GPT_ENTRY_ARRAY_SECTORS - 1 /\ BACKUP_GPT_ENTRIES_LBA + i = l
      BY <2>2, <1>9, <1>5
    <3>2. disk[2 + i] = disk[l]
      BY <3>1, <1>4
    <3>3. 2 + i \in 3 .. FIRST_USABLE_LBA - 1
      BY <3>1 DEF FIRST_USABLE_LBA
    <3>4. disk[2 + i] = ZERO
      BY <3>3, <1>1
    <3> QED BY <3>2, <3>4
  <2> QED BY <2>1, <2>2, <1>5
<1> QED BY <1>5, <1>6, <1>7, <1>8, <1>9

LEMMA CheckedIsWhole == Checked => NothingHidden
<1> SUFFICES ASSUME Checked, Accepted
             PROVE  /\ \A l \in LBAs \ (ESP_FIRST_LBA .. ESP_LAST_LBA) :
                         disk[l] # ZERO => l \in {0, 1, 2, BACKUP_GPT_ENTRIES_LBA, BACKUP_GPT_HEADER_LBA}
                    /\ PartitionBy(1) = PartitionBy(BACKUP_GPT_HEADER_LBA)
                    /\ PartitionBy(1) = [first |-> ESP_FIRST_LBA, last |-> ESP_LAST_LBA]
                    /\ esp(0) = esp(6)
  BY DEF NothingHidden
<1>1. GptLayout /\ GptOpens /\ esp(0) = esp(6)
  BY DEF Checked, Accepted, BehindFat32
<1>2. \A l \in LBAs \ (ESP_FIRST_LBA .. ESP_LAST_LBA) :
        disk[l] # ZERO => l \in {0, 1, 2, BACKUP_GPT_ENTRIES_LBA, BACKUP_GPT_HEADER_LBA}
  BY <1>1, RangesCover
<1>3. disk[1].entries = 2 /\ disk[BACKUP_GPT_HEADER_LBA].entries = BACKUP_GPT_ENTRIES_LBA
  BY <1>1 DEF GptLayout, ValidHeader
<1>4. disk[2] = disk[BACKUP_GPT_ENTRIES_LBA]
  <2>1. 0 \in 0 .. GPT_ENTRY_ARRAY_SECTORS - 1
    BY GeometryAssumption
  <2>2. disk[2 + 0] = disk[BACKUP_GPT_ENTRIES_LBA + 0]
    BY <1>1, <2>1 DEF GptLayout
  <2> QED BY <2>2, GeometryAssumption
<1>5. disk[2].partition = [first |-> ESP_FIRST_LBA, last |-> ESP_LAST_LBA]
  BY <1>1 DEF GptOpens
<1> QED BY <1>1, <1>2, <1>3, <1>4, <1>5 DEF PartitionBy

(* For every geometry of the disk and every damage, an accepted image stores *)
(* nothing outside the ESP but the structures of the GPT, and primary and    *)
(* backup structures lead to the same partition (validate_image_bytes).      *)
THEOREM AcceptedIsWhole == Spec => []NothingHidden
<1>1. Init => Checked
  BY DEF Init, Checked, BehindFat32
<1> QED BY <1>1, CheckedStep, CheckedIsWhole, PTL DEF Spec

-----------------------------------------------------------------------------
(* What a validation reads.  The loops over directories and files are       *)
(* bounded by counters, whose meaning depends on the head of todo.          *)

DirectoryTodo == {<<"ROOT", "EFI", "BOOT", "POLYTOPE">>, <<"EFI", "BOOT", "POLYTOPE">>,
                  <<"BOOT", "POLYTOPE">>, <<"POLYTOPE">>}
FileTodo == {<<LOADER, KERNEL, SCENARIO>>, <<KERNEL, SCENARIO>>, <<SCENARIO>>}
DataSectors == {DataOf(c) : c \in 2 .. entry_count - 1}

Bounded ==
  /\ pc = "directory" =>
       todo \in DirectoryTodo /\ raw_entries \in Nat /\ raw_entries <= Len(expected) + 2
  /\ pc \in {"open", "read"} => todo \in FileTodo
  /\ pc = "read" => bytes \in Seq(DataSectors) /\ Len(bytes) <= MaximumOf(Head(todo))

LEMMA ExpectedLength == \A t \in DirectoryTodo : Len(Directory[Head(t)]) \in Nat
  BY DEF DirectoryTodo, Directory, LOADER, KERNEL, SCENARIO

LEMMA TodoTails ==
  /\ \A t \in DirectoryTodo : Len(t) > 1 => Tail(t) \in DirectoryTodo
  /\ \A t \in FileTodo : Len(t) > 1 => Tail(t) \in FileTodo
<1>1. /\ Tail(<<"ROOT", "EFI", "BOOT", "POLYTOPE">>) = <<"EFI", "BOOT", "POLYTOPE">>
      /\ Tail(<<"EFI", "BOOT", "POLYTOPE">>) = <<"BOOT", "POLYTOPE">>
      /\ Tail(<<"BOOT", "POLYTOPE">>) = <<"POLYTOPE">> /\ Len(<<"POLYTOPE">>) = 1
  OBVIOUS
<1>2. /\ Tail(<<LOADER, KERNEL, SCENARIO>>) = <<KERNEL, SCENARIO>>
      /\ Tail(<<KERNEL, SCENARIO>>) = <<SCENARIO>> /\ Len(<<SCENARIO>>) = 1
  OBVIOUS
<1>3. ASSUME NEW t \in DirectoryTodo, Len(t) > 1 PROVE Tail(t) \in DirectoryTodo
  <2>1. t # <<"POLYTOPE">>
    BY <1>1, <1>3
  <2> QED BY <1>1, <1>3, <2>1, Zenon DEF DirectoryTodo
<1>4. ASSUME NEW t \in FileTodo, Len(t) > 1 PROVE Tail(t) \in FileTodo
  <2>1. t # <<SCENARIO>>
    BY <1>2, <1>4
  <2> QED BY <1>2, <1>4, <2>1, Zenon DEF FileTodo
<1> QED BY <1>3, <1>4

LEMMA MaximumIsNat == \A n : MaximumOf(n) \in Nat
  BY CapacityAssumption DEF MaximumOf

LEMMA BoundedStep == Bounded /\ [Next]_vars => Bounded'
<1> SUFFICES ASSUME Bounded, [Next]_vars PROVE Bounded'
  OBVIOUS
<1>1. ASSUME pc' \notin {"directory", "open", "read"} PROVE Bounded'
  BY <1>1 DEF Bounded
<1>2. CASE Build
  BY <1>1, <1>2 DEF Build, Goto, Reject
<1>3. CASE Damage
  BY <1>1, <1>3 DEF Damage
<1>4. CASE Validate
  BY <1>1, <1>4 DEF Validate, Goto
<1>5. CASE ValidateGpt
  BY <1>1, <1>5 DEF ValidateGpt, Goto, Reject
<1>6. CASE ValidateFat32
  BY <1>1, <1>6 DEF ValidateFat32, Goto, Reject
<1>7. CASE FatEntryStep
  BY <1>1, <1>7 DEF FatEntryStep, Goto, Reject
<1>8. CASE FatEntriesEnd
  <2>1. CASE pc' = "rejected"
    BY <1>1, <2>1
  <2>2. CASE pc' # "rejected"
    <3>1. pc' = "directory" /\ todo' = <<"ROOT", "EFI", "BOOT", "POLYTOPE">> /\ raw_entries' = 0
      BY <1>8, <2>2 DEF FatEntriesEnd, Goto, Reject
    <3>2. todo' \in DirectoryTodo
      BY <3>1 DEF DirectoryTodo
    <3>3. Len(Directory[Head(todo')]) \in Nat
      BY <3>2, ExpectedLength
    <3> QED BY <3>1, <3>2, <3>3 DEF Bounded, expected
  <2> QED BY <2>1, <2>2
<1>9. CASE DirectoryStep
  <2>1. pc = "directory" /\ todo' = todo /\ raw_entries' = raw_entries + 1
    BY <1>9 DEF DirectoryStep, InSector
  <2>2. todo \in DirectoryTodo /\ raw_entries \in Nat /\ Len(Directory[Head(todo)]) \in Nat
    BY <2>1, ExpectedLength DEF Bounded
  <2>3. pc' = "rejected" \/ (pc' = "directory" /\ ~ (raw_entries + 1 > Len(expected) + 2))
    BY <1>9, <2>1 DEF DirectoryStep, Goto, Reject
  <2>4. CASE pc' = "rejected"
    BY <1>1, <2>4
  <2>5. CASE pc' = "directory" /\ ~ (raw_entries + 1 > Len(expected) + 2)
    BY <2>1, <2>2, <2>5 DEF Bounded, expected
  <2> QED BY <2>3, <2>4, <2>5
<1>10. CASE DirectoryEnd
  <2>1. pc = "directory" /\ raw_entries' = 0 /\ todo \in DirectoryTodo
    BY <1>10 DEF DirectoryEnd, Bounded
  <2>2. \/ pc' = "rejected"
        \/ pc' = "open" /\ todo' = <<LOADER, KERNEL, SCENARIO>>
        \/ pc' = "directory" /\ Len(todo) > 1 /\ todo' = Tail(todo)
    BY <1>10 DEF DirectoryEnd, Goto, Reject
  <2>3. CASE pc' = "rejected"
    BY <1>1, <2>3
  <2>4. CASE pc' = "open" /\ todo' = <<LOADER, KERNEL, SCENARIO>>
    BY <2>4 DEF Bounded, FileTodo
  <2>5. CASE pc' = "directory" /\ Len(todo) > 1 /\ todo' = Tail(todo)
    <3>1. todo' \in DirectoryTodo
      BY <2>1, <2>5, TodoTails
    <3>2. Len(Directory[Head(todo')]) \in Nat
      BY <3>1, ExpectedLength
    <3> QED BY <2>1, <2>5, <3>1, <3>2 DEF Bounded, expected
  <2> QED BY <2>2, <2>3, <2>4, <2>5
<1>11. CASE OpenFile
  <2>1. pc = "open" /\ todo' = todo /\ bytes' = <<>> /\ pc' \in {"read", "rejected"}
    BY <1>11 DEF OpenFile, Goto
  <2>2. todo' \in FileTodo /\ MaximumOf(Head(todo')) \in Nat
    BY <2>1, MaximumIsNat DEF Bounded
  <2> QED BY <2>1, <2>2 DEF Bounded
<1>12. CASE ReadChunk
  <2>1. pc = "read" /\ IsCluster(at) /\ todo' = todo /\ disk' = disk
    BY <1>12 DEF ReadChunk, FileEnds, image
  <2>2. /\ todo \in FileTodo /\ bytes \in Seq(DataSectors) /\ DataSectors' = DataSectors
        /\ MaximumOf(Head(todo)) \in Nat /\ MaximumOf(Head(todo))' = MaximumOf(Head(todo))
    BY <2>1, MaximumIsNat
       DEF Bounded, DataSectors, DataOf, entry_count, data_lba, fat_sectors, esp, MaximumOf
  <2>3. DataOf(at) \in DataSectors
    BY <2>1 DEF IsCluster, DataSectors
  <2>4. \/ pc' = "rejected"
        \/ /\ pc' = "read" /\ ~ (Len(bytes) + 1 > MaximumOf(Head(todo)))
           /\ bytes' = Append(bytes, DataOf(at))
    BY <1>12, <2>1 DEF ReadChunk, Goto, Reject
  <2>5. CASE pc' = "rejected"
    BY <1>1, <2>5
  <2>6. CASE /\ pc' = "read" /\ ~ (Len(bytes) + 1 > MaximumOf(Head(todo)))
             /\ bytes' = Append(bytes, DataOf(at))
    <3>1. bytes' \in Seq(DataSectors) /\ Len(bytes') = Len(bytes) + 1 /\ Len(bytes) \in Nat
      BY <2>2, <2>3, <2>6
    <3> QED BY <2>1, <2>2, <2>6, <3>1 DEF Bounded
  <2> QED BY <2>4, <2>5, <2>6
<1>13. CASE FileRead
  <2>1. pc = "read" /\ todo \in FileTodo
    BY <1>13 DEF FileRead, Bounded
  <2>2. pc' = "payload" \/ (pc' = "open" /\ Len(todo) > 1 /\ todo' = Tail(todo))
    BY <1>13 DEF FileRead, Goto
  <2>3. CASE pc' = "open" /\ Len(todo) > 1 /\ todo' = Tail(todo)
    <3>1. todo' \in FileTodo
      BY <2>1, <2>3, TodoTails
    <3> QED BY <2>3, <3>1 DEF Bounded
  <2> QED BY <1>1, <2>2, <2>3
<1>14. CASE Finish
  BY <1>1, <1>14 DEF Finish, Goto
<1>15. CASE SkipSlot \/ NextCluster
  <2>1. pc = "directory" /\ UNCHANGED <<pc, todo, raw_entries>>
    BY <1>15 DEF SkipSlot, NextCluster, InSector, BehindFull
  <2> QED BY <2>1 DEF Bounded, expected
<1>16. CASE UNCHANGED vars
  BY <1>16 DEF vars, Bounded, expected, DataSectors, DataOf, entry_count, data_lba, fat_sectors, esp,
               MaximumOf
<1> QED
  BY <1>2, <1>3, <1>4, <1>5, <1>6, <1>7, <1>8, <1>9, <1>10, <1>11, <1>12, <1>13, <1>14, <1>15, <1>16
     DEF Next, Step

(* Whatever an image holds, no file is read beyond its limit and no         *)
(* directory yields more entries than its bound (read_fat_file and          *)
(* validate_directory).                                                     *)
THEOREM ValidationIsBounded == Spec => []ReadsAreBounded
<1>1. Init => Bounded
  BY DEF Init, Bounded
<1>2. Bounded => ReadsAreBounded
  BY DEF Bounded, ReadsAreBounded
<1> QED BY <1>1, <1>2, BoundedStep, PTL DEF Spec
=============================================================================
