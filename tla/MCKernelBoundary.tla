-------------------------- MODULE MCKernelBoundary --------------------------
(* Three entries, so that two regions need not be neighbours, pages of 16   *)
(* bytes, an address space of 512.  The contracts are two encoded ones,     *)
(* with and without an RSDP; one damaged length or start makes their two    *)
(* regions touch, two make them overlap.  The regions put in their place    *)
(* touch, overlap, repeat, run backwards, end just below the end of the     *)
(* address space or at it, and there is one for each other error.           *)
EXTENDS KernelBoundary

Info(scenario, platform) ==
  set_memory_region(
    set_memory_region(BootInfo(platform, scenario), 1, MemoryRegion(16, 16, USABLE, 7)),
    2, MemoryRegion(48, 16, KERNEL_IMAGE, 7))

WithRsdp == [x86_64_uefi EXCEPT !.flags = 1, !.rsdp_address = 16, !.rsdp_length = 20]

MCEncoded == {encode(Info(NormalScenario, x86_64_uefi), BOOT_INFO_SIZE).fields,
              encode(Info(TestScenario(DELIBERATE_PANIC), WithRsdp), BOOT_INFO_SIZE).fields}

MCRegions ==
  {MemoryRegion(s, l, USABLE, 7) : s \in {0, 16, 32, 480}, l \in {16, 32}}
    \union {EMPTY_REGION, MemoryRegion(8, 16, USABLE, 7), MemoryRegion(16, 8, USABLE, 7),
            MemoryRegion(16, 0, USABLE, 7), MemoryRegion(32, 16, EMPTY, 7),
            MemoryRegion(0, 16, 10, 7)}

MCHandoffs ==
  [address : {0, 8, 16}, length : {BOOT_INFO_SIZE}]
    \union {[address |-> 16, length |-> BOOT_INFO_SIZE - 1],
            [address |-> 512 - BOOT_INFO_SIZE, length |-> BOOT_INFO_SIZE]}
=============================================================================
