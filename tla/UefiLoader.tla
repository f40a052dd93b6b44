----------------------------- MODULE UefiLoader -----------------------------
(***************************************************************************)
(* The UEFI loader (crates/uefi-loader): main and the functions it calls,  *)
(* one action per firmware call or record, from the first record to the    *)
(* jump into the kernel.  The firmware is external: its calls fail or      *)
(* panic at will, its page allocator and its memory map are modelled by    *)
(* what the loader relies on.                                              *)
(***************************************************************************)
EXTENDS Handoff

CONSTANTS
  Images,                \* the boot media: two files each
  Memories,              \* the memory types of the pages before the loader runs
  FirmwareDescriptors,   \* sequences of descriptors the firmware adds to its map
  StackGuardPage,        \* STACK_GUARD_ADDRESS as a page number
  MAX_ELF_FILE_SIZE,     \* file sizes are in an arbitrary unit
  MAX_SCENARIO_BYTES,
  FILE_READ_CHUNK_BYTES

ASSUME SizesAssumption ==
  /\ MAX_ELF_FILE_SIZE \in Nat /\ MAX_SCENARIO_BYTES \in Nat
  /\ FILE_READ_CHUNK_BYTES \in Nat \ {0}

VARIABLES
  image,                 \* [kernel, config]: the files on the EFI system partition
  bytes_read,            \* length of the file under read_bounded_file so far
  segments_loaded,       \* turns of load_segments done
  pages,                 \* memory type of every physical page
  contract_page,         \* first page of ContractStorage, 0 before
  memory_map,            \* the sorted map exit_boot_services left
  next_panic_sequence,   \* NEXT_PANIC_SEQUENCE
  fault                  \* history: the firmware failed or a library panicked

loader == <<image, bytes_read, segments_loaded, pages, contract_page, memory_map,
            next_panic_sequence, fault, handoff, contract, bss_cleared>>

(* UEFI memory types; the loader's own three lie outside the firmware's.    *)
LOADER_CODE             == 1
LOADER_DATA             == 2
BOOT_SERVICES_CODE      == 3
BOOT_SERVICES_DATA      == 4
RUNTIME_SERVICES_CODE   == 5
RUNTIME_SERVICES_DATA   == 6
CONVENTIONAL            == 7
ACPI_RECLAIM            == 9
ACPI_NON_VOLATILE       == 10
MMIO_MEMORY             == 11
MMIO_PORT_SPACE         == 12
KERNEL_MEMORY_TYPE      == 1000
CONTRACT_MEMORY_TYPE    == 1001
STACK_GUARD_MEMORY_TYPE == 1002

LoaderInit ==
  /\ image \in Images
  /\ pages \in Memories
  /\ bytes_read = 0 /\ segments_loaded = 0 /\ contract_page = 0
  /\ memory_map = <<>>
  /\ next_panic_sequence = 2
  /\ handoff = [address |-> 0, length |-> 0]
  /\ contract = <<>>
  /\ bss_cleared \in BOOLEAN
  /\ fault = FALSE

(* LoaderError::marker *)
LoaderMarker(error) == IF error = "CONTRACT_BUILD" THEN CONTRACT_FAILURE ELSE Record(2, error)

fail(error) == write_record(LoaderMarker(error), "loader_exit")

-----------------------------------------------------------------------------
(* main *)

Start ==
  /\ At("main")
  /\ write_record(LOADER_START, "open_volume")
  /\ UNCHANGED loader

LoaderExit ==
  /\ At("loader_exit")
  /\ qemu_exit(LoaderFailed)
  /\ UNCHANGED loader

(* The calls of prepare_kernel that firmware or its allocator may refuse,   *)
(* and the error each refusal becomes.                                      *)
FirmwareErrors(label) ==
  IF      label = "open_volume"                           THEN {"FILE_READ"}
  ELSE IF label \in {"open_kernel", "read_kernel", "open_config", "read_config"}
                                                          THEN {"FILE_READ", "ALLOCATION"}
  ELSE IF label \in {"load_segment", "reserve_stack_guard"} THEN {"KERNEL_ADDRESS"}
  ELSE IF label = "allocate_contract"                     THEN {"CONTRACT_STORAGE"}
  ELSE {}

FirmwareFails ==
  /\ power = "on"
  /\ \E error \in FirmwareErrors(pc) : fail(error)
  /\ fault' = TRUE
  /\ UNCHANGED <<image, bytes_read, segments_loaded, pages, contract_page, memory_map,
                 next_panic_sequence, handoff, contract, bss_cleared>>

(* The panic handler.  Only library code can panic: under prepare_kernel,   *)
(* in exit_boot_services, and in the use of the memory map after it.        *)
PanicLabels ==
  {"open_volume", "open_kernel", "read_kernel", "open_config", "read_config",
   "load_segment", "reserve_stack_guard", "allocate_contract", "exit_boot_services",
   "encode_contract"}

LoaderPanics ==
  /\ power = "on" /\ pc \in PanicLabels
  /\ write_record(LoaderPanic(IF next_panic_sequence \in {2, 3} THEN next_panic_sequence ELSE 4),
                  "loader_exit")
  /\ fault' = TRUE
  /\ UNCHANGED <<image, bytes_read, segments_loaded, pages, contract_page, memory_map,
                 next_panic_sequence, handoff, contract, bss_cleared>>

-----------------------------------------------------------------------------
(* prepare_kernel *)

OpenVolume ==
  /\ At("open_volume")
  /\ Goto("open_kernel")
  /\ UNCHANGED loader

(* read_bounded_file: opening, then one turn of its loop.  A read returns   *)
(* as many bytes as the chunk and the file allow, or fewer.                 *)
OpenFile(label, file, next) ==
  /\ At(label)
  /\ IF file.present THEN Goto(next) ELSE fail("FILE_READ")
  /\ bytes_read' = 0
  /\ UNCHANGED <<image, segments_loaded, pages, contract_page, memory_map,
                 next_panic_sequence, handoff, contract, fault, bss_cleared>>

ReadChunk(label, file, maximum, limit_error, next) ==
  LET chunk_length == IF maximum < 1 THEN 1
                      ELSE IF maximum > FILE_READ_CHUNK_BYTES THEN FILE_READ_CHUNK_BYTES
                      ELSE maximum
      remaining == file.size - bytes_read
  IN
  /\ At(label)
  /\ \/ /\ remaining = 0
        /\ Goto(next)
        /\ UNCHANGED bytes_read
     \/ \E count \in 1 .. chunk_length :
          /\ count <= remaining
          /\ IF bytes_read + count > maximum
               THEN fail(limit_error) /\ UNCHANGED bytes_read
               ELSE Goto(label) /\ bytes_read' = bytes_read + count
  /\ UNCHANGED <<image, segments_loaded, pages, contract_page, memory_map,
                 next_panic_sequence, handoff, contract, fault, bss_cleared>>

OpenKernel == OpenFile("open_kernel", image.kernel, "read_kernel")
ReadKernel ==
  ReadChunk("read_kernel", image.kernel, MAX_ELF_FILE_SIZE, "ELF_INVALID", "open_config")
OpenConfig == OpenFile("open_config", image.config, "read_config")
ReadConfig ==
  ReadChunk("read_config", image.config, MAX_SCENARIO_BYTES, "CONFIG_INVALID", "parse_config")

(* BootScenario::parse accepts four tokens. *)
BootScenarios == {"normal", "bad-version", "truncated", "panic"}

ParseConfig ==
  /\ At("parse_config")
  /\ IF image.config.token \in BootScenarios THEN Goto("parse_elf") ELSE fail("CONFIG_INVALID")
  /\ UNCHANGED loader

ParseElf ==
  /\ At("parse_elf")
  /\ IF image.kernel.valid THEN Goto("load_segment") ELSE fail("ELF_INVALID")
  /\ UNCHANGED loader

(* boot::allocate_pages at an address: all of the pages must be free. *)
Free(first, count) ==
  \A p \in first .. first + count - 1 : p \in DOMAIN pages /\ pages[p] = CONVENTIONAL
Allocated(first, count, type) ==
  [p \in DOMAIN pages |-> IF p \in first .. first + count - 1 THEN type ELSE pages[p]]

(* One turn of load_segments, or its end. *)
LoadSegment ==
  /\ At("load_segment")
  /\ IF segments_loaded = Len(image.kernel.segments)
     THEN /\ Goto("reserve_stack_guard")
          /\ UNCHANGED <<pages, segments_loaded>>
     ELSE LET segment == image.kernel.segments[segments_loaded + 1] IN
          IF Free(segment.page, segment.pages)
          THEN /\ pages' = Allocated(segment.page, segment.pages, KERNEL_MEMORY_TYPE)
               /\ segments_loaded' = segments_loaded + 1
               /\ Goto("load_segment")
          ELSE fail("KERNEL_ADDRESS") /\ UNCHANGED <<pages, segments_loaded>>
  /\ UNCHANGED <<image, bytes_read, contract_page, memory_map, next_panic_sequence, handoff,
                 contract, fault, bss_cleared>>

(* Plausible mistake: the guard page is checked and not allocated. *)
CheckStackGuardOnly ==
  /\ At("reserve_stack_guard")
  /\ IF Free(StackGuardPage, 1) THEN Goto("allocate_contract") ELSE fail("KERNEL_ADDRESS")
  /\ UNCHANGED loader

ReserveStackGuard ==
  /\ At("reserve_stack_guard")
  /\ IF Free(StackGuardPage, 1)
     THEN /\ pages' = Allocated(StackGuardPage, 1, STACK_GUARD_MEMORY_TYPE)
          /\ Goto("allocate_contract")
     ELSE fail("KERNEL_ADDRESS") /\ UNCHANGED pages
  /\ UNCHANGED <<image, bytes_read, segments_loaded, contract_page, memory_map,
                 next_panic_sequence, handoff, contract, fault, bss_cleared>>

(* ContractStorage::allocate takes pages anywhere; page zero is never       *)
(* handed out.                                                              *)
ContractPages == (BOOT_INFO_SIZE + PAGE_SIZE - 1) \div PAGE_SIZE

AllocateContract ==
  /\ At("allocate_contract")
  /\ \/ \E p \in DOMAIN pages \ {0} :
          /\ Free(p, ContractPages)
          /\ pages' = Allocated(p, ContractPages, CONTRACT_MEMORY_TYPE)
          /\ contract_page' = p
          /\ Goto("prepared")
     \/ /\ \A p \in DOMAIN pages \ {0} : ~Free(p, ContractPages)
        /\ fail("CONTRACT_STORAGE")
        /\ UNCHANGED <<pages, contract_page>>
  /\ UNCHANGED <<image, bytes_read, segments_loaded, memory_map, next_panic_sequence, handoff,
                 contract, fault, bss_cleared>>

-----------------------------------------------------------------------------
(* main after prepare_kernel *)

Prepared ==
  /\ At("prepared")
  /\ write_record(ELF_VALID, "store_3")
  /\ UNCHANGED loader

StorePanicSequence(label, sequence, next) ==
  /\ At(label)
  /\ next_panic_sequence' = sequence
  /\ Goto(next)
  /\ UNCHANGED <<image, bytes_read, segments_loaded, pages, contract_page, memory_map,
                 handoff, contract, fault, bss_cleared>>

(* Plausible mistake: the store after ELF_VALID is missing. *)
Store3Missing == At("store_3") /\ Goto("exit_boot_services") /\ UNCHANGED loader

Store3 == StorePanicSequence("store_3", 3, "exit_boot_services")

(* The firmware's map: the pages cut into runs of one type (longer runs may *)
(* be cut further), in any order, and descriptors that are none of the      *)
(* pages: empty ones, devices, and what a firmware should not report.       *)
Descriptor(first, count) ==
  [phys_start |-> first * PAGE_SIZE, page_count |-> count, ty |-> pages[first]]

Cuts ==
  LET starts == {p \in DOMAIN pages : p - 1 \notin DOMAIN pages \/ pages[p - 1] # pages[p]}
  IN  {c \in SUBSET DOMAIN pages : starts \subseteq c}

(* The descriptors of a cut in ascending order. *)
RunsOf(cut) ==
  LET Nth(i)  == CHOOSE p \in cut : Cardinality({q \in cut : q < p}) = i - 1
      After(p) == Min({q \in cut \union {Max(DOMAIN pages) + 1} : q > p})
  IN  [i \in 1 .. Cardinality(cut) |-> Descriptor(Nth(i), After(Nth(i)) - Nth(i))]

FirmwareMaps ==
  UNION {{runs \o more, Reverse(runs) \o more} :
           runs \in {RunsOf(cut) : cut \in Cuts}, more \in FirmwareDescriptors}

(* Plausible mistake: the map is not sorted. *)
ExitBootServicesUnsorted ==
  /\ At("exit_boot_services")
  /\ memory_map' \in FirmwareMaps
  /\ Goto("encode_contract")
  /\ UNCHANGED <<image, bytes_read, segments_loaded, pages, contract_page,
                 next_panic_sequence, handoff, contract, fault, bss_cleared>>

(* exit_boot_services followed by memory_map.sort, or the cold reset of a   *)
(* firmware that will not let go.                                           *)
ExitBootServices ==
  /\ At("exit_boot_services")
  /\ \E map \in FirmwareMaps :
       memory_map' = SortSeq(map, LAMBDA a, b : a.phys_start < b.phys_start)
  /\ Goto("encode_contract")
  /\ UNCHANGED <<image, bytes_read, segments_loaded, pages, contract_page,
                 next_panic_sequence, handoff, contract, fault, bss_cleared>>

ColdReset ==
  /\ At("exit_boot_services")
  /\ power' = "reset"
  /\ fault' = TRUE
  /\ UNCHANGED <<pc, line, log, exit_value, exit_device, image, bytes_read, segments_loaded,
                 pages, contract_page, memory_map, next_panic_sequence, handoff, contract, bss_cleared>>

-----------------------------------------------------------------------------
(* encode_contract *)

normalize_memory_kind(ty) ==
  IF      ty = STACK_GUARD_MEMORY_TYPE                            THEN RESERVED
  ELSE IF ty = KERNEL_MEMORY_TYPE                                 THEN KERNEL_IMAGE
  ELSE IF ty = CONTRACT_MEMORY_TYPE                               THEN BOOT_CONTRACT
  ELSE IF ty = CONVENTIONAL                                       THEN USABLE
  ELSE IF ty \in {LOADER_CODE, LOADER_DATA, BOOT_SERVICES_CODE, BOOT_SERVICES_DATA}
                                                                  THEN RECLAIMABLE
  ELSE IF ty \in {RUNTIME_SERVICES_CODE, RUNTIME_SERVICES_DATA}   THEN FIRMWARE_RUNTIME
  ELSE IF ty = ACPI_RECLAIM                                       THEN ACPI_RECLAIMABLE
  ELSE IF ty = ACPI_NON_VOLATILE                                  THEN ACPI_NVS
  ELSE IF ty \in {MMIO_MEMORY, MMIO_PORT_SPACE}                   THEN MMIO
  ELSE RESERVED

(* Plausible mistake: no arm for the panic scenario. *)
ScenarioInfoWithoutPanic(scenario) ==
  IF      scenario = "bad-version" THEN TestScenario(INCOMPATIBLE_VERSION)
  ELSE IF scenario = "truncated"   THEN TestScenario(MALFORMED_METADATA)
  ELSE NormalScenario

ScenarioInfo(scenario) ==
  IF      scenario = "normal"      THEN NormalScenario
  ELSE IF scenario = "bad-version" THEN TestScenario(INCOMPATIBLE_VERSION)
  ELSE IF scenario = "truncated"   THEN TestScenario(MALFORMED_METADATA)
  ELSE TestScenario(DELIBERATE_PANIC)

(* The descriptors that become regions: the loop skips the empty ones, and  *)
(* fails on a length beyond u64 and on a region beyond the array.           *)
Described(map) == SelectSeq(map, LAMBDA d : d.page_count # 0)

RegionsFit(map) ==
  /\ \A i \in DOMAIN Described(map) : Described(map)[i].page_count * PAGE_SIZE < U64_BOUND
  /\ Len(Described(map)) <= MAX_MEMORY_REGIONS

RegionOf(descriptor) ==
  MemoryRegion(descriptor.phys_start, descriptor.page_count * PAGE_SIZE,
               normalize_memory_kind(descriptor.ty), descriptor.ty)

(* BootInfo::new and a set_memory_region per region. *)
BuildInfo(map, scenario) ==
  FoldLeftDomain(LAMBDA info, i : set_memory_region(info, i, RegionOf(Described(map)[i])),
                 BootInfo(x86_64_uefi, ScenarioInfo(scenario)), Described(map))

(* The two test scenarios damage a contract that was encoded correctly: one *)
(* overwrites the major version, the other passes a length one byte short.  *)
EncodeContract ==
  /\ At("encode_contract")
  /\ LET scenario == image.config.token
         encoded  == encode(BuildInfo(memory_map, scenario), ContractPages * PAGE_SIZE)
     IN  IF RegionsFit(memory_map) /\ encoded.result = "ok"
         THEN /\ contract' = IF scenario = "bad-version"
                             THEN [encoded.fields EXCEPT ![ABI_MAJOR_FIELD] = ABI_MAJOR + 1]
                             ELSE encoded.fields
              /\ handoff' = [address |-> contract_page * PAGE_SIZE,
                             length |-> IF scenario = "truncated" THEN BOOT_INFO_SIZE - 1
                                                                  ELSE BOOT_INFO_SIZE]
              /\ Goto("encoded")
         ELSE fail("CONTRACT_BUILD") /\ UNCHANGED <<contract, handoff>>
  /\ UNCHANGED <<image, bytes_read, segments_loaded, pages, contract_page, memory_map,
                 next_panic_sequence, fault, bss_cleared>>

Encoded ==
  /\ At("encoded")
  /\ write_record(HANDOFF_READY, "store_4")
  /\ UNCHANGED loader

Store4 == StorePanicSequence("store_4", 4, "transfer")

TransferToKernel ==
  /\ At("transfer")
  /\ Goto("kernel_entry")
  /\ UNCHANGED loader

LoaderStep ==
  \/ Start \/ LoaderExit \/ FirmwareFails \/ LoaderPanics
  \/ OpenVolume \/ OpenKernel \/ ReadKernel \/ OpenConfig \/ ReadConfig
  \/ ParseConfig \/ ParseElf \/ LoadSegment \/ ReserveStackGuard \/ AllocateContract
  \/ Prepared \/ Store3 \/ ExitBootServices \/ ColdReset
  \/ EncodeContract \/ Encoded \/ Store4 \/ TransferToKernel
=============================================================================
