--------------------------- MODULE KernelBoundary ---------------------------
(***************************************************************************)
(* The kernel on its own, entered with any registers and with a contract   *)
(* any two of whose fields may be damaged, or whose regions are arbitrary: *)
(* what polytope_kernel_main promises without trusting the loader.  The    *)
(* loops of validate_regions, which parse comes to last, run turn by turn  *)
(* (RegionValidator) before kernel_main has its verdict.                   *)
(***************************************************************************)
EXTENDS KernelEntry, RegionValidator

CONSTANTS
  Handoffs,    \* the register contents considered: [address, length]
  Encoded,     \* the encoded contracts that damage starts from
  Values       \* what a damaged field may hold

COUNT_FIELD == 7      \* memory_region_count among the fields, and the
REGION_FIELDS == 17   \* last one before those of the regions

boundary_vars == <<machine, kernel_input, vars>>

info == Decode(contract)

(* Two fields of an encoded contract have other values. *)
DamagedContract ==
  \E fields \in Encoded : \E i, j \in DOMAIN fields : \E v, w \in Values :
    contract = [fields EXCEPT ![i] = v, ![j] = w]

(* The regions of an encoded contract, and their number, are replaced. *)
ContractWithRegions ==
  \E fields \in Encoded, regions \in [1 .. MAX_MEMORY_REGIONS -> Regions],
     n \in 0 .. MAX_MEMORY_REGIONS :
    contract = [SubSeq(fields, 1, REGION_FIELDS) EXCEPT ![COUNT_FIELD] = n]
                 \o FlattenSeq([i \in 1 .. MAX_MEMORY_REGIONS |-> RegionFields(regions[i])])

(* parse calls validate_regions when nothing before it fails. *)
ReachesRegions ==
  /\ prevalidate(contract, handoff.length) = "ok"
  /\ validate_platform(info.platform) = "ok" /\ validate_scenario(info.scenario) = "ok"

BoundaryInit ==
  /\ MachineInit("kernel_entry")
  /\ handoff \in Handoffs /\ bss_cleared \in BOOLEAN
  /\ DamagedContract \/ (handoff.address = PAGE_SIZE /\ bss_cleared /\ ContractWithRegions)
  /\ memory_regions = info.memory_regions /\ count = info.header.memory_region_count
  /\ index = 1 /\ previous_start = 0 /\ previous_end = 0
  /\ result = "running"

(* A turn of the loops, inside kernel_main. *)
RegionStep == At("kernel_main") /\ ReachesRegions /\ Next /\ UNCHANGED <<machine, kernel_input>>

(* kernel_main goes on when the loops have returned. *)
KernelGoesOn ==
  /\ At("kernel_main") /\ ReachesRegions => result # "running"
  /\ KernelStep /\ UNCHANGED vars

WriteEnds == EndRecord /\ UNCHANGED <<kernel_input, vars>>

BoundaryNext == RegionStep \/ KernelGoesOn \/ WriteEnds

BoundarySpec == BoundaryInit /\ [][BoundaryNext]_boundary_vars

-----------------------------------------------------------------------------
OuterRangeOK ==
  /\ handoff.length = BOOT_INFO_SIZE
  /\ handoff.address # 0 /\ handoff.address % PAGE_SIZE = 0
  /\ handoff.address + handoff.length < U64_BOUND

(* The contract ABI 1.0 describes, stated as a whole and not as a list of   *)
(* checks in order.                                                         *)
WellFormed ==
  LET n == info.header.memory_region_count
      entry(i) == info.memory_regions[i]
      rsdp_end == info.platform.rsdp_address + info.platform.rsdp_length
  IN
  /\ info.header = [CurrentHeader EXCEPT !.memory_region_count = n]
  /\ n <= MAX_MEMORY_REGIONS
  /\ info.platform.firmware = 1 /\ info.platform.architecture = 1
  /\ \/ info.platform.flags = 0 /\ rsdp_end = 0
     \/ /\ info.platform.flags = 1 /\ rsdp_end < U64_BOUND
        /\ info.platform.rsdp_address > 0 /\ info.platform.rsdp_address % 16 = 0
        /\ info.platform.rsdp_length \in MIN_RSDP_LENGTH .. MAX_RSDP_LENGTH
  /\ info.scenario = NormalScenario \/ (info.scenario.kind \in 1 .. 3 /\ info.scenario.flags = 1)
  /\ \A i \in 1 .. n :
       /\ is_known(entry(i).kind) /\ entry(i).length > 0
       /\ entry(i).start % PAGE_SIZE = 0 /\ entry(i).length % PAGE_SIZE = 0
       /\ entry(i).start + entry(i).length < U64_BOUND
  /\ \A i, j \in 1 .. n : i < j => entry(i).start + entry(i).length <= entry(j).start
  /\ \A i \in n + 1 .. MAX_MEMORY_REGIONS : entry(i) = EMPTY_REGION

Served == {KERNEL_READY, KERNEL_PANIC}

(* The kernel fails closed: whatever is damaged in the registers or in the  *)
(* contract, it reports readiness, or the deliberate panic, only for a      *)
(* well-formed contract that asks for it, and after the loops over the      *)
(* regions have come to their end.                                          *)
ServedIsWellFormed ==
  \A i \in DOMAIN log : log[i] \in Served =>
    /\ OuterRangeOK /\ WellFormed /\ result = "ok"
    /\ info.scenario.kind = IF log[i] = KERNEL_READY THEN NORMAL ELSE DELIBERATE_PANIC

(* And it does not refuse a well-formed contract: the checks of parse, in   *)
(* their order, ask for no more than the ABI.                               *)
WellFormedIsServed ==
  /\ power # "on" /\ bss_cleared /\ OuterRangeOK /\ WellFormed
  /\ info.scenario.kind \in {NORMAL, DELIBERATE_PANIC}
  => log = <<IF info.scenario.kind = NORMAL THEN KERNEL_READY ELSE KERNEL_PANIC>>

(* A contract of another ABI version is always reported as such, however    *)
(* the rest of it differs: prevalidate looks at nothing a later version may *)
(* lay out differently before it has looked at the version.                 *)
VersionIsReported ==
  /\ OuterRangeOK /\ info.header.magic = BOOT_MAGIC
  /\ <<info.header.abi_major, info.header.abi_minor>> # <<ABI_MAJOR, ABI_MINOR>>
  => \A i \in DOMAIN log : log[i] = ABI_VERSION_REJECTED

(* The documented meaning of CONTRACT_LENGTH: "The independent supplied     *)
(* length or a fixed header/total/record size was truncated, oversized, or  *)
(* inconsistent" (docs/boot/DIAGNOSTICS.md).                                *)
SizesAreLengthErrors ==
  LET h == info.header
      wrong_size == \/ h.header_size # BOOT_HEADER_SIZE
                    \/ h.total_size # BOOT_INFO_SIZE
                    \/ h.memory_region_size # MEMORY_REGION_SIZE
  IN  /\ OuterRangeOK /\ h.magic = BOOT_MAGIC
      /\ h.abi_major = ABI_MAJOR /\ h.abi_minor = ABI_MINOR /\ wrong_size
      => \A i \in DOMAIN log : log[i] = CONTRACT_LENGTH_REJECTED
=============================================================================
