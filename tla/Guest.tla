------------------------------- MODULE Guest --------------------------------
(***************************************************************************)
(* The guest: the loader and the kernel on one machine.                    *)
(***************************************************************************)
EXTENDS UefiLoader, KernelEntry

vars == <<machine, loader>>

Init == MachineInit("main") /\ LoaderInit

WriteEnds == EndRecord /\ UNCHANGED loader

KernelRuns ==
  /\ KernelStep
  /\ UNCHANGED <<image, bytes_read, segments_loaded, pages, contract_page, memory_map,
                 next_panic_sequence, fault>>

Next == LoaderStep \/ WriteEnds \/ KernelRuns

(* One processor runs until it stops: it never pauses between two steps.    *)
Spec == Init /\ [][Next]_vars /\ WF_vars(Next)

-----------------------------------------------------------------------------
LoaderLabels ==
  {"main", "open_volume", "open_kernel", "read_kernel", "open_config", "read_config",
   "parse_config", "parse_elf", "load_segment", "reserve_stack_guard", "allocate_contract",
   "prepared", "store_3", "exit_boot_services", "encode_contract", "encoded", "store_4",
   "transfer", "loader_exit"}
KernelLabels == {"kernel_entry", "kernel_main", "kernel_exit"}
Labels == LoaderLabels \union KernelLabels

(* The machine's and the loader's variables keep their types. *)
TypeOK ==
  /\ pc \in Labels \union {"write", "stopped"}
  /\ line \in [record : KnownRecords \union {PROSE}, next : Labels \union {NONE}]
  /\ log \in Seq(KnownRecords)
  /\ power \in {"on", "exited", "halted", "reset"}
  /\ exit_value \in {0} \union QemuExitCodes
  /\ exit_device \in BOOLEAN /\ bss_cleared \in BOOLEAN /\ fault \in BOOLEAN
  /\ next_panic_sequence \in {2, 3, 4}

Protocol == INSTANCE BootProtocol WITH trace <- log, outcome <- power, value <- exit_value

(* The guest keeps the promise of BootProtocol: whatever fails or panics,   *)
(* in whatever order, the records it completes are a canonical boot and its *)
(* exit value agrees with the last one (main, fail, the two panic handlers, *)
(* polytope_kernel_main, entry.S).                                          *)
KeepsProtocol == Protocol!Spec

(* The kernel's answer to a contract this loader encoded is the one the     *)
(* image's scenario asks for: what encode_contract accepts, parse accepts,  *)
(* and each damaged contract is refused for its own damage.                 *)
ScenarioVerdict ==
  LET verdict == [s \in BootScenarios |->
                    CASE s = "normal"      -> KERNEL_READY
                      [] s = "bad-version" -> ABI_VERSION_REJECTED
                      [] s = "truncated"   -> CONTRACT_LENGTH_REJECTED
                      [] s = "panic"       -> KERNEL_PANIC]
  IN  \A i \in DOMAIN log : log[i] \in KernelRecords => log[i] = verdict[image.config.token]

(* The pages the kernel needs after boot services are gone. *)
SegmentPages ==
  UNION {s.page .. s.page + s.pages - 1 : s \in Range(image.kernel.segments)}
StoragePages == contract_page .. contract_page + ContractPages - 1

(* The memory map in the contract tells the kernel the truth about the      *)
(* memory the loader holds for it: every page of the image, the stack guard *)
(* and the contract lies in a region of its own kind.  Usable regions hold  *)
(* only pages the firmware calls conventional.  This spans allocation order, *)
(* the time of the map snapshot, sorting, normalisation and the codec.      *)
MapDescribesMemory ==
  contract # <<>> =>
    LET info == Decode(contract)
        active == {info.memory_regions[i] : i \in 1 .. info.header.memory_region_count}
        KindsOf(p) == {r.kind : r \in {r \in active :
                         p * PAGE_SIZE \in r.start .. r.start + r.length - 1}}
    IN  /\ \A p \in SegmentPages : KindsOf(p) = {KERNEL_IMAGE}
        /\ \A p \in StoragePages : KindsOf(p) = {BOOT_CONTRACT}
        /\ KindsOf(StackGuardPage) = {RESERVED}
        /\ \A p \in DOMAIN pages : USABLE \in KindsOf(p) => pages[p] = CONVENTIONAL

(* A loader failure without a firmware fault names its real cause: a file   *)
(* missing or too large, a token or an ELF that is not valid, pages that    *)
(* the firmware had given away or that the image asks for twice, or a       *)
(* memory map that does not fit the contract.  In the order of the checks.  *)
FailureExplained ==
  LET Fits(file, maximum) == file.present /\ file.size <= maximum
      retained == SegmentPages \union {StackGuardPage}
      failed == IF log = <<>> THEN NONE ELSE log[Len(log)].code
      Overlap(d, e) == /\ d.phys_start < e.phys_start + e.page_count * PAGE_SIZE
                       /\ e.phys_start < d.phys_start + d.page_count * PAGE_SIZE
      described == Described(memory_map)
  IN  ~fault =>
        /\ failed = "FILE_READ" => ~image.kernel.present \/ ~image.config.present
        /\ failed = "CONFIG_INVALID" =>
             \/ image.config.token \notin BootScenarios
             \/ ~Fits(image.config, MAX_SCENARIO_BYTES)
        /\ failed = "ELF_INVALID" => ~image.kernel.valid \/ ~Fits(image.kernel, MAX_ELF_FILE_SIZE)
        /\ failed = "KERNEL_ADDRESS" =>
             \/ StackGuardPage \in SegmentPages
             \/ \E p \in retained : p \notin DOMAIN pages
             \/ \E p \in retained : pages[p] \notin {CONVENTIONAL, KERNEL_MEMORY_TYPE}
        /\ failed = "CONTRACT_STORAGE" =>
             \A p \in DOMAIN pages \ {0} :
               \E q \in p .. p + ContractPages - 1 :
                 q \notin DOMAIN pages \/ pages[q] # CONVENTIONAL
        /\ failed = "CONTRACT_BUILD" =>
             \/ Len(described) > MAX_MEMORY_REGIONS
             \/ \E d \in Range(described) : d.phys_start + d.page_count * PAGE_SIZE >= U64_BOUND
             \/ \E i, j \in DOMAIN described : i # j /\ Overlap(described[i], described[j])

(* Every boot ends: the guest reports and exits, halts, or is reset.        *)
Stops == <>(power # "on")
=============================================================================
