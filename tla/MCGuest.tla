------------------------------ MODULE MCGuest -------------------------------
(* Eight pages of 256 bytes in an address space of 32 pages.  The kernel    *)
(* has two segments around the stack guard page, as kernel.ld lays it out;  *)
(* seven regions describe the memory when the firmware cuts no run, so that *)
(* one more descriptor fits and two do not.                                 *)
EXTENDS Guest

KernelFile(present, size, valid, segments) ==
  [present |-> present, size |-> size, valid |-> valid, segments |-> segments]
ConfigFile(present, size, token) == [present |-> present, size |-> size, token |-> token]

Text == [page |-> 2, pages |-> 1]
Stack == [page |-> 4, pages |-> 1]

KernelFiles ==
  {KernelFile(TRUE, 3, TRUE, <<Text, Stack>>),
   KernelFile(FALSE, 0, FALSE, <<>>),
   KernelFile(TRUE, 4, TRUE, <<Text>>),
   KernelFile(TRUE, 1, FALSE, <<>>),
   KernelFile(TRUE, 3, TRUE, <<[page |-> 2, pages |-> 2], Stack>>),
   KernelFile(TRUE, 3, TRUE, <<Text, [page |-> 8, pages |-> 1]>>)}

ConfigFiles ==
  {ConfigFile(TRUE, 2, token) : token \in BootScenarios \union {"other"}}
    \union {ConfigFile(FALSE, 0, "other"), ConfigFile(TRUE, 3, "normal"),
            ConfigFile(TRUE, 0, "empty")}

MCImages == [kernel : KernelFiles, config : ConfigFiles]

MemoryOf(last, type) ==
  [p \in 1 .. 8 |-> IF p = 8 THEN RUNTIME_SERVICES_DATA
                    ELSE IF p = last THEN type ELSE CONVENTIONAL]

MCMemories ==
  {MemoryOf(0, CONVENTIONAL), MemoryOf(7, BOOT_SERVICES_DATA), MemoryOf(6, ACPI_RECLAIM),
   MemoryOf(2, LOADER_CODE), MemoryOf(3, ACPI_NON_VOLATILE)}

Extra(page, count, ty) ==
  [phys_start |-> page * PAGE_SIZE, page_count |-> count, ty |-> ty]

(* Nothing, an empty descriptor, one over a page in use, a device beyond    *)
(* memory, one that ends with the address space, one too long for u64.      *)
MCFirmwareDescriptors ==
  {<<>>, <<Extra(1, 0, CONVENTIONAL)>>, <<Extra(4, 1, MMIO_MEMORY)>>, <<Extra(20, 1, MMIO_MEMORY)>>,
   <<Extra(31, 1, 0)>>, <<Extra(20, 40, MMIO_PORT_SPACE)>>}
=============================================================================
