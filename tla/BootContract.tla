---------------------------- MODULE BootContract ----------------------------
(***************************************************************************)
(* The loader-to-kernel boot contract (crates/boot-contract): its fields,  *)
(* the validation both sides run on them, and the byte ABI between them.   *)
(*                                                                         *)
(* Addresses and lengths are u64 in the code; U64_BOUND stands for 2^64    *)
(* and a checked operation fails exactly when its result reaches it.  The  *)
(* encoded bytes are kept at the granularity of ABI fields: a sequence of  *)
(* field values in layout order, next to the byte length of the slice.     *)
(***************************************************************************)
EXTENDS Integers, Sequences, SequencesExt, FiniteSetsExt

CONSTANTS
  MAX_MEMORY_REGIONS,  \* capacity of the region array, 128 in the code
  PAGE_SIZE,           \* 4096 in the code
  U64_BOUND            \* 2^64 in the code

ASSUME RegionsAssumption == MAX_MEMORY_REGIONS \in Nat \ {0}
ASSUME PageAssumption == PAGE_SIZE \in Nat \ {0}
ASSUME BoundAssumption == U64_BOUND \in Nat /\ PAGE_SIZE < U64_BOUND

U64 == 0 .. U64_BOUND - 1

BOOT_MAGIC         == 1
ABI_MAJOR          == 1
ABI_MINOR          == 0
BOOT_HEADER_SIZE   == 32
MEMORY_REGION_SIZE == 32
BOOT_INFO_SIZE     == BOOT_HEADER_SIZE + 32 + 16 + MEMORY_REGION_SIZE * MAX_MEMORY_REGIONS
MIN_RSDP_LENGTH    == 20
MAX_RSDP_LENGTH    == 4096

(* BootHeader::current. *)
CurrentHeader ==
  [magic |-> BOOT_MAGIC, abi_major |-> ABI_MAJOR, abi_minor |-> ABI_MINOR,
   header_size |-> BOOT_HEADER_SIZE, total_size |-> BOOT_INFO_SIZE,
   memory_region_size |-> MEMORY_REGION_SIZE, memory_region_count |-> 0, flags |-> 0]

x86_64_uefi ==
  [firmware |-> 1, architecture |-> 1, flags |-> 0, rsdp_address |-> 0,
   rsdp_length |-> 0, boot_cpu_id |-> 0]

(* ScenarioKind, and ScenarioInfo::normal and ScenarioInfo::test. *)
NORMAL               == 0
INCOMPATIBLE_VERSION == 1
MALFORMED_METADATA   == 2
DELIBERATE_PANIC     == 3

NormalScenario     == [kind |-> NORMAL, flags |-> 0, argument |-> 0]
TestScenario(kind) == [kind |-> kind, flags |-> 1, argument |-> 0]

(* MemoryKind. *)
EMPTY            == 0
RESERVED         == 1
USABLE           == 2
RECLAIMABLE      == 3
KERNEL_IMAGE     == 4
BOOT_CONTRACT    == 5
FIRMWARE_RUNTIME == 6
ACPI_RECLAIMABLE == 7
ACPI_NVS         == 8
MMIO             == 9
is_known(kind)   == kind \in RESERVED .. MMIO

MemoryRegion(start, length, kind, source_kind) ==
  [start |-> start, length |-> length, kind |-> kind, source_kind |-> source_kind,
   attributes |-> 0]
EMPTY_REGION == MemoryRegion(0, 0, EMPTY, 0)

BootInfo(platform, scenario) ==
  [header |-> CurrentHeader, platform |-> platform, scenario |-> scenario,
   memory_regions |-> [i \in 1 .. MAX_MEMORY_REGIONS |-> EMPTY_REGION]]

(* BootInfo::set_memory_region for an index below the capacity (from one).  *)
set_memory_region(info, index, region) ==
  [info EXCEPT !.memory_regions[index] = region,
               !.header.memory_region_count = IF @ < index THEN index ELSE @]

-----------------------------------------------------------------------------
(* Validation.  Each operator returns "ok" or the name of the error.        *)

(* Plausible mistake: sizes before the version. *)
ValidateSizesFirst(h) ==
  IF      h.magic # BOOT_MAGIC                            THEN "BadMagic"
  ELSE IF h.header_size # BOOT_HEADER_SIZE                THEN "HeaderSize"
  ELSE IF h.total_size # BOOT_INFO_SIZE                   THEN "TotalSize"
  ELSE IF h.memory_region_size # MEMORY_REGION_SIZE       THEN "MemoryRegionSize"
  ELSE IF h.abi_major # ABI_MAJOR \/ h.abi_minor # ABI_MINOR THEN "UnsupportedVersion"
  ELSE IF h.memory_region_count > MAX_MEMORY_REGIONS      THEN "TooManyMemoryRegions"
  ELSE IF h.flags # 0                                     THEN "UnknownHeaderFlags"
  ELSE "ok"

validate_header(h) ==
  IF      h.magic # BOOT_MAGIC                            THEN "BadMagic"
  ELSE IF h.abi_major # ABI_MAJOR \/ h.abi_minor # ABI_MINOR THEN "UnsupportedVersion"
  ELSE IF h.header_size # BOOT_HEADER_SIZE                THEN "HeaderSize"
  ELSE IF h.total_size # BOOT_INFO_SIZE                   THEN "TotalSize"
  ELSE IF h.memory_region_size # MEMORY_REGION_SIZE       THEN "MemoryRegionSize"
  ELSE IF h.memory_region_count > MAX_MEMORY_REGIONS      THEN "TooManyMemoryRegions"
  ELSE IF h.flags # 0                                     THEN "UnknownHeaderFlags"
  ELSE "ok"

(* Bit 0 of the flags is RSDP_PRESENT, the only known one.                  *)
validate_platform(p) ==
  IF      p.firmware # 1      THEN "UnsupportedFirmware"
  ELSE IF p.architecture # 1  THEN "UnsupportedArchitecture"
  ELSE IF p.flags > 1         THEN "UnknownPlatformFlags"
  ELSE IF p.flags = 0
    THEN IF p.rsdp_address # 0 \/ p.rsdp_length # 0 THEN "InconsistentRsdpPresence" ELSE "ok"
  ELSE IF /\ p.rsdp_length \in MIN_RSDP_LENGTH .. MAX_RSDP_LENGTH
          /\ p.rsdp_address # 0 /\ p.rsdp_address % 16 = 0
          /\ p.rsdp_address + p.rsdp_length < U64_BOUND
    THEN "ok"
  ELSE "InvalidRsdpRange"

(* Bit 0 of the flags is TEST_ONLY, the only known one.                     *)
validate_scenario(s) ==
  IF      s.kind > DELIBERATE_PANIC         THEN "UnknownScenario"
  ELSE IF s.flags > 1                       THEN "UnknownScenarioFlags"
  ELSE IF s.kind = NORMAL
    THEN IF s.flags # 0 \/ s.argument # 0 THEN "NormalScenarioHasTestState" ELSE "ok"
  ELSE IF s.flags = 0                       THEN "ScenarioNotMarkedTestOnly"
  ELSE "ok"

(* Plausible mistakes in the next operator: no check for an overlap, and    *)
(* regions that touch taken for overlapping ones.                           *)
ValidateRegionByStart(region, index, previous_start, previous_end) ==
  IF      region.kind = EMPTY                              THEN "ActiveMemoryRegionIsEmpty"
  ELSE IF ~is_known(region.kind)                           THEN "UnknownMemoryKind"
  ELSE IF region.length = 0                                THEN "EmptyMemoryRegion"
  ELSE IF region.start % PAGE_SIZE # 0 \/ region.length % PAGE_SIZE # 0
                                                           THEN "UnalignedMemoryRegion"
  ELSE IF region.start + region.length >= U64_BOUND        THEN "MemoryRegionOverflow"
  ELSE IF index > 1 /\ region.start <= previous_start      THEN "UnsortedMemoryRegions"
  ELSE "ok"

ValidateRegionWithGaps(region, index, previous_start, previous_end) ==
  IF      region.kind = EMPTY                              THEN "ActiveMemoryRegionIsEmpty"
  ELSE IF ~is_known(region.kind)                           THEN "UnknownMemoryKind"
  ELSE IF region.length = 0                                THEN "EmptyMemoryRegion"
  ELSE IF region.start % PAGE_SIZE # 0 \/ region.length % PAGE_SIZE # 0
                                                           THEN "UnalignedMemoryRegion"
  ELSE IF region.start + region.length >= U64_BOUND        THEN "MemoryRegionOverflow"
  ELSE IF index > 1 /\ region.start < previous_start       THEN "UnsortedMemoryRegions"
  ELSE IF index > 1 /\ region.start <= previous_end        THEN "OverlappingMemoryRegions"
  ELSE "ok"

(* One turn of the loop of validate_regions over the active regions, with   *)
(* the start and the end of the previous region; the first turn has none.   *)
validate_region(region, index, previous_start, previous_end) ==
  IF      region.kind = EMPTY                              THEN "ActiveMemoryRegionIsEmpty"
  ELSE IF ~is_known(region.kind)                           THEN "UnknownMemoryKind"
  ELSE IF region.length = 0                                THEN "EmptyMemoryRegion"
  ELSE IF region.start % PAGE_SIZE # 0 \/ region.length % PAGE_SIZE # 0
                                                           THEN "UnalignedMemoryRegion"
  ELSE IF region.start + region.length >= U64_BOUND        THEN "MemoryRegionOverflow"
  ELSE IF index > 1 /\ region.start < previous_start       THEN "UnsortedMemoryRegions"
  ELSE IF index > 1 /\ region.start < previous_end         THEN "OverlappingMemoryRegions"
  ELSE "ok"

RegionErrors ==
  {"ActiveMemoryRegionIsEmpty", "UnknownMemoryKind", "EmptyMemoryRegion",
   "UnalignedMemoryRegion", "MemoryRegionOverflow", "UnsortedMemoryRegions",
   "OverlappingMemoryRegions"}

(* The loop stops at the first region with an error; the array behind the   *)
(* active regions must be empty.                                            *)
validate_regions(info) ==
  LET count      == info.header.memory_region_count
      region(i)  == info.memory_regions[i]
      error(i)   == LET before == region(IF i = 1 THEN 1 ELSE i - 1) IN
                    validate_region(region(i), i, before.start, before.start + before.length)
      rejected   == {i \in 1 .. count : error(i) # "ok"}
  IN  IF rejected # {} THEN error(Min(rejected))
      ELSE IF \E i \in count + 1 .. MAX_MEMORY_REGIONS : region(i) # EMPTY_REGION
        THEN "NonZeroUnusedMemoryRegion"
      ELSE "ok"

(* The first error of the four parts, in this order. *)
validate_ref(info) ==
  LET header == validate_header(info.header)
      platform == validate_platform(info.platform)
      scenario == validate_scenario(info.scenario)
  IN  IF header # "ok" THEN header
      ELSE IF platform # "ok" THEN platform
      ELSE IF scenario # "ok" THEN scenario
      ELSE validate_regions(info)

-----------------------------------------------------------------------------
(* The byte ABI: Writer and Reader go through the same fields in the same   *)
(* order.                                                                   *)

HeaderFields(h) ==
  <<h.magic, h.abi_major, h.abi_minor, h.header_size, h.total_size,
    h.memory_region_size, h.memory_region_count, h.flags>>
PlatformFields(p) ==
  <<p.firmware, p.architecture, p.flags, p.rsdp_address, p.rsdp_length, p.boot_cpu_id>>
ScenarioFields(s) == <<s.kind, s.flags, s.argument>>
RegionFields(r) == <<r.start, r.length, r.kind, r.source_kind, r.attributes>>

ABI_MAJOR_FIELD == 2

(* BootInfo::encode into a buffer of the given byte capacity: the result,   *)
(* and the fields written.                                                  *)
encode(info, capacity) ==
  IF      validate_ref(info) # "ok"  THEN [result |-> validate_ref(info), fields |-> <<>>]
  ELSE IF capacity < BOOT_INFO_SIZE  THEN [result |-> "BufferTooSmall", fields |-> <<>>]
  ELSE [result |-> "ok",
        fields |-> HeaderFields(info.header) \o PlatformFields(info.platform)
                     \o ScenarioFields(info.scenario)
                     \o FlattenSeq([i \in 1 .. MAX_MEMORY_REGIONS |->
                                      RegionFields(info.memory_regions[i])])]

ReadHeader(f) ==
  [magic |-> f[1], abi_major |-> f[2], abi_minor |-> f[3], header_size |-> f[4],
   total_size |-> f[5], memory_region_size |-> f[6], memory_region_count |-> f[7],
   flags |-> f[8]]

(* The result of prevalidate on a slice of the given byte length: a slice   *)
(* as long as the header has its fields.                                    *)
prevalidate(fields, length) ==
  LET header == validate_header(ReadHeader(fields)) IN
  IF      length < BOOT_HEADER_SIZE  THEN "Truncated"
  ELSE IF header # "ok"              THEN header
  ELSE IF length < BOOT_INFO_SIZE    THEN "Truncated"
  ELSE IF length # BOOT_INFO_SIZE    THEN "LengthMismatch"
  ELSE "ok"

Decode(f) ==
  [header |-> ReadHeader(f),
   platform |-> [firmware |-> f[9], architecture |-> f[10], flags |-> f[11],
                 rsdp_address |-> f[12], rsdp_length |-> f[13], boot_cpu_id |-> f[14]],
   scenario |-> [kind |-> f[15], flags |-> f[16], argument |-> f[17]],
   memory_regions |->
     [i \in 1 .. MAX_MEMORY_REGIONS |->
        LET at == 17 + 5 * (i - 1) IN
        [start |-> f[at + 1], length |-> f[at + 2], kind |-> f[at + 3],
         source_kind |-> f[at + 4], attributes |-> f[at + 5]]]]

(* Plausible mistake: the header is all that is validated. *)
ParseHeaderOnly(fields, length) == prevalidate(fields, length)

parse(fields, length) ==
  IF prevalidate(fields, length) # "ok" THEN prevalidate(fields, length)
  ELSE validate_ref(Decode(fields))
=============================================================================
