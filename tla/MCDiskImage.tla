---------------------------- MODULE MCDiskImage ----------------------------
(* A disk of 38 sectors, with payloads of one to three sectors, at and      *)
(* beyond their limit; damage of one or two sectors, and directories that   *)
(* are rewritten together with the FAT.                                     *)
EXTENDS DiskImage

MCPayloads ==
  [loader : {1, 3, 4}, kernel : {2, 3}, sound : BOOLEAN, scenario : {"normal"}]

Small == [loader |-> 3, kernel |-> 2, sound |-> TRUE, scenario |-> "normal"]
FatWith(f, i, v) ==
  Fat([EspSector(Small, FIRST_FAT + f).entries EXCEPT ![i] = v])
RootWith(e) == DirectorySector(e, FALSE)
SmallEntry(n) == DirEntry(Small, n)

MCSpots == {{a, b} : a, b \in LBAs}

MCAlien ==
  {[kind |-> "alien"], Entry(ESP_FIRST_LBA, ESP_LAST_LBA + 1, "zero"),
   Entry(ESP_FIRST_LBA, ESP_LAST_LBA, "nonzero"),
   [BootSector EXCEPT !.fat_sectors = 0], [BootSector EXCEPT !.fat_sectors = FAT_SECTORS + 1],
   [GptHeader(1, BACKUP_GPT_HEADER_LBA, 2) EXCEPT !.guid = "other"], FsInfo(5)}
  \union {FatWith(0, i, v) : i \in 2 .. 3, v \in {FREE, 1, 2, 7, ENTRY_COUNT, END}}
  \union {FatWith(1, i, v) : i \in 2 .. 3, v \in {FREE, 1, 6, 7, ENTRY_COUNT, END}}
  \union {RootWith(<<SmallEntry("POLYTOPE"), SmallEntry("EFI")>>),
          RootWith(<<SmallEntry("EFI"), SmallEntry("POLYTOPE"), SmallEntry(KERNEL)>>),
          RootWith(<<DOT, SmallEntry(KERNEL), [SmallEntry(SCENARIO) EXCEPT !.size = 3]>>),
          RootWith(<<DOT, DOT, [SmallEntry(KERNEL) EXCEPT !.size = 3, !.cluster = 6], SmallEntry(SCENARIO)>>),
          RootWith(<<DOT, DOT, DOT, SmallEntry("BOOT")>>),
          RootWith(<<DOT, DOT, [SmallEntry(LOADER) EXCEPT !.stamp = FALSE]>>),
          RootWith(<<DOT, DOT, [SmallEntry(LOADER) EXCEPT !.size = 9]>>)}
  \union {[kind |-> "scenario", token |-> t, newlines |-> n] : t \in {"panic", "other"}, n \in {0, 1, 2}}

(* Directories of several clusters, in an image whose first free cluster is *)
(* 10: the root or EFI goes on with itself, with each other, with 10 or in  *)
(* a file, or ends, and the sectors are full or not.                        *)
Tiny == [loader |-> 1, kernel |-> 2, sound |-> TRUE, scenario |-> "normal"]
TinyEntry(n) == DirEntry(Tiny, n)
Slack == FirstFree(Tiny)

FatLba(f, copy) == ESP_FIRST_LBA + FIRST_FAT + copy * FAT_SECTORS + f
DataLba(c) == ESP_FIRST_LBA + DATA + c - 2

(* The FAT with other successors, in both copies, and the hint for it. *)
Linked(next) ==
  LET entries == [n \in 0 .. FAT_SECTORS * FAT_WIDTH - 1 |->
                    IF n \in DOMAIN next THEN next[n] ELSE FatEntry(Tiny, n)]
      sector(f) == Fat([i \in 0 .. FAT_WIDTH - 1 |-> entries[f * FAT_WIDTH + i]])
      copies == {FatLba(f, k) : f \in 0 .. FAT_SECTORS - 1, k \in {0, 1}}
  IN [l \in copies \union {ESP_FIRST_LBA + 1} |->
        IF l \in copies THEN sector((l - FatLba(0, 0)) % FAT_SECTORS)
        ELSE FsInfo(IF Slack \in DOMAIN next THEN Slack + 1 ELSE Slack)]

Rewrite(next, data) ==
  LET lbas == DOMAIN Linked(next) \union {DataLba(c) : c \in DOMAIN data} IN
  [l \in lbas |-> IF l \in DOMAIN Linked(next) THEN Linked(next)[l]
                  ELSE data[CHOOSE c \in DOMAIN data : DataLba(c) = l]]

Both == <<TinyEntry("EFI"), TinyEntry("POLYTOPE")>>
Heads == {DirectorySector(t, b) :
            t \in {<<SKIPPED>>, <<>>, <<SKIPPED, TinyEntry("EFI")>>, Both, <<DOT>>}, b \in BOOLEAN}
Tails == {DirectorySector(t, b) :
            t \in {<<SKIPPED>>, <<TinyEntry("POLYTOPE")>>, <<SKIPPED, TinyEntry("EFI"), SKIPPED>>},
            b \in BOOLEAN} \union {ZERO}

MCRewrites ==
  {Rewrite([c \in {2} |-> n], [c \in {2} |-> h]) : n \in {2, 3, 6, END}, h \in Heads}
  \union {Rewrite([c \in {2, Slack} |-> IF c = 2 THEN Slack ELSE n],
                  [c \in {2, Slack} |-> IF c = 2 THEN h ELSE t]) :
             n \in {2, Slack, END}, h \in Heads, t \in Tails}
  \union {Rewrite([c \in {3} |-> 3], [c \in {3} |-> DirectorySector(t, TRUE)]) :
             t \in {<<SKIPPED>>, <<TinyEntry("BOOT")>>, <<DOT>>}}
=============================================================================
