------------------------------ MODULE Handoff -------------------------------
(***************************************************************************)
(* What passes from the loader to the kernel besides the machine itself:   *)
(* two registers, the contract in memory, and the loaded image.            *)
(***************************************************************************)
EXTENDS Machine, BootContract

VARIABLES
  handoff,      \* the registers: [address, length] of the contract
  contract,     \* the ABI fields stored at that address
  bss_cleared   \* the image's BSS symbols enclose the probe of entry.S
=============================================================================
