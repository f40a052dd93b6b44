-------------------------- MODULE MCProtocolParser --------------------------
(* Streams over every kind of record the parser tells apart, with unknown   *)
(* records inside and above the range of sequence numbers in use.           *)
EXTENDS ProtocolParser

MCLines ==
  {LOADER_START, ELF_VALID, HANDOFF_READY, KERNEL_READY, CONTRACT_INVALID,
   KERNEL_PANIC, Record(2, "FILE_READ"), CONTRACT_FAILURE,
   LoaderPanic(2), LoaderPanic(3), LoaderPanic(4),
   Record(2, "OTHER"), Record(9999, "KERNEL_READY"), OVERLONG, MALFORMED}
=============================================================================
