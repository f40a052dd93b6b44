------------------------------ MODULE Machine -------------------------------
(***************************************************************************)
(* The emulated machine the loader and the kernel run on, and the routines *)
(* of crates/arch-x86_64 both of them use to reach the host: EarlyConsole  *)
(* and qemu_exit.  One processor runs the loader and then the kernel, so   *)
(* they share one program counter.                                         *)
(*                                                                         *)
(* A record goes out byte by byte.  The host can look at the log, and kill *)
(* the machine, between any two bytes; what it can tell apart is whether   *)
(* the newline that completes the record is out.  write_record is          *)
(* therefore two steps.  The COM1 copy of the bytes is left out: the host  *)
(* decides nothing from it.                                                *)
(***************************************************************************)
EXTENDS DiagnosticProtocol

VARIABLES
  pc,           \* where the processor is
  line,         \* the record being written, and where write_record returns to
  log,          \* the records completed on the debug console
  power,        \* "on", "exited" (debug-exit device), "halted" or "reset"
  exit_value,   \* the value written to the debug-exit device, 0 before
  exit_device   \* whether the machine has that device

machine == <<pc, line, log, power, exit_value, exit_device>>

NO_LINE == [record |-> PROSE, next |-> NONE]

MachineInit(entry) ==
  /\ pc = entry
  /\ line = NO_LINE
  /\ log = <<>>
  /\ power = "on"
  /\ exit_value = 0
  /\ exit_device \in BOOLEAN

At(label) == power = "on" /\ pc = label

Goto(label) ==
  /\ pc' = label
  /\ UNCHANGED <<line, log, power, exit_value, exit_device>>

(* EarlyConsole::write_record up to the newline. *)
write_record(record, next) ==
  /\ pc' = "write"
  /\ line' = [record |-> record, next |-> next]
  /\ UNCHANGED <<log, power, exit_value, exit_device>>

(* The newline. *)
EndRecord ==
  /\ At("write")
  /\ log' = Append(log, line.record)
  /\ pc' = line.next
  /\ line' = NO_LINE
  /\ UNCHANGED <<power, exit_value, exit_device>>

(* Plausible mistake: without the device the routine returns. *)
QemuExitReturns(code) ==
  /\ power' = IF exit_device THEN "exited" ELSE power
  /\ exit_value' = IF exit_device THEN code ELSE exit_value
  /\ pc' = "stopped"
  /\ UNCHANGED <<line, log, exit_device>>

(* Without the device the write has no effect and the processor halts. *)
qemu_exit(code) ==
  /\ power' = IF exit_device THEN "exited" ELSE "halted"
  /\ exit_value' = IF exit_device THEN code ELSE exit_value
  /\ pc' = "stopped"
  /\ UNCHANGED <<line, log, exit_device>>
=============================================================================
