---------------------------- MODULE KernelEntry -----------------------------
(***************************************************************************)
(* The kernel from its assembly entry to its exit: entry.S clears BSS and  *)
(* calls polytope_kernel_main, which validates the handoff, reports, and   *)
(* ends the machine.                                                       *)
(***************************************************************************)
EXTENDS Handoff

kernel_input == <<handoff, contract, bss_cleared>>

(* polytope_kernel_main up to the record it writes.  DELIBERATE_PANIC goes  *)
(* through the panic handler.                                               *)
KernelVerdict ==
  LET length == handoff.length
      error  == parse(contract, length)
      kind   == Decode(contract).scenario.kind
  IN  IF length # BOOT_INFO_SIZE                          THEN CONTRACT_LENGTH_REJECTED
      ELSE IF \/ handoff.address = 0
              \/ handoff.address % PAGE_SIZE # 0
              \/ handoff.address + length >= U64_BOUND    THEN CONTRACT_INVALID
      ELSE IF error = "UnsupportedVersion"                THEN ABI_VERSION_REJECTED
      ELSE IF error \in {"Truncated", "LengthMismatch"}   THEN CONTRACT_LENGTH_REJECTED
      ELSE IF error # "ok"                                THEN CONTRACT_INVALID
      ELSE IF kind = NORMAL                               THEN KERNEL_READY
      ELSE IF kind = DELIBERATE_PANIC                     THEN KERNEL_PANIC
      ELSE CONTRACT_INVALID

(* The exit each of these records is followed by. *)
KernelExitCode(record) ==
  IF record = KERNEL_READY THEN Success
  ELSE IF record = KERNEL_PANIC THEN KernelPanicked
  ELSE ContractRejected

(* entry.S: a probe that is still set after the clear ends the machine      *)
(* without a record.                                                        *)
EntryShim ==
  /\ At("kernel_entry")
  /\ IF bss_cleared THEN Goto("kernel_main") ELSE qemu_exit(LoaderFailed)
  /\ UNCHANGED kernel_input

KernelMain ==
  /\ At("kernel_main")
  /\ write_record(KernelVerdict, "kernel_exit")
  /\ UNCHANGED kernel_input

KernelExit ==
  /\ At("kernel_exit")
  /\ qemu_exit(KernelExitCode(KernelVerdict))
  /\ UNCHANGED kernel_input

KernelStep == EntryShim \/ KernelMain \/ KernelExit
=============================================================================
