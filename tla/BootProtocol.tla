---------------------------- MODULE BootProtocol ----------------------------
(***************************************************************************)
(* What a boot promises its host: the records it completes form a          *)
(* canonical boot, and the way the machine stops agrees with the last of   *)
(* them.  Nothing here knows of files, memory or contracts.                *)
(***************************************************************************)
EXTENDS DiagnosticProtocol

VARIABLES
  trace,     \* the completed records
  outcome,   \* "on", "exited", "halted" or "reset"
  value      \* the debug-exit value of "exited"

vars == <<trace, outcome, value>>

Init == trace = <<>> /\ outcome = "on" /\ value = 0

(* The records that may follow a trace. *)
Successors ==
  IF      trace = <<>>      THEN {LOADER_START}
  ELSE IF trace = Started   THEN {ELF_VALID} \union LoaderFailureSequence2
  ELSE IF trace = Validated THEN {HANDOFF_READY} \union LoaderFailureSequence3
  ELSE IF trace = HandedOff THEN KernelRecords
  ELSE {}

Emit ==
  /\ outcome = "on"
  /\ \E record \in Successors : trace' = Append(trace, record)
  /\ UNCHANGED <<outcome, value>>

(* The debug-exit values that agree with a trace.  A kernel whose BSS clear *)
(* fails has no console yet and exits without a record of its own.          *)
ExitCodes ==
  IF      trace = HandedOff                THEN {LoaderFailed}
  ELSE IF Successors # {}                  THEN {}
  ELSE IF trace[Len(trace)] = KERNEL_READY THEN {Success}
  ELSE IF trace[Len(trace)] \in Rejections THEN {ContractRejected}
  ELSE IF trace[Len(trace)] = KERNEL_PANIC THEN {KernelPanicked}
  ELSE {LoaderFailed}

Exit ==
  /\ outcome = "on"
  /\ outcome' = "exited" /\ value' \in ExitCodes
  /\ UNCHANGED trace

(* Without the debug-exit device the machine halts where it would exit. *)
Halt ==
  /\ outcome = "on" /\ ExitCodes # {}
  /\ outcome' = "halted"
  /\ UNCHANGED <<trace, value>>

(* The firmware resets the machine when boot services cannot be exited. *)
Reset ==
  /\ outcome = "on" /\ trace = Validated
  /\ outcome' = "reset"
  /\ UNCHANGED <<trace, value>>

Next == Emit \/ Exit \/ Halt \/ Reset

Spec == Init /\ [][Next]_vars
=============================================================================
