------------------------- MODULE DiagnosticProtocol -------------------------
(***************************************************************************)
(* The early-boot diagnostic protocol: the records the loader and the      *)
(* kernel write to QEMU's debug console, the host harness's line parser    *)
(* for them, and the classification of a finished boot.                    *)
(*                                                                         *)
(* The code compares whole record lines byte for byte, so a record is      *)
(* identified by its sequence number and its code; its phase and level are *)
(* fixed by those two.  A log line that is not a well-formed record is     *)
(* told apart only by how the parser refuses (or skips) it.                *)
(***************************************************************************)
EXTENDS Integers, Sequences

NONE == "none"

Record(seq, code) == [form |-> "record", seq |-> seq, code |-> code]

LOADER_START             == Record(1, "LOADER_START")
ELF_VALID                == Record(2, "ELF_VALID")
HANDOFF_READY            == Record(3, "HANDOFF_READY")
CONTRACT_FAILURE         == Record(3, "CONTRACT_BUILD")
KERNEL_READY             == Record(4, "KERNEL_READY")
ABI_VERSION_REJECTED     == Record(4, "ABI_VERSION")
CONTRACT_LENGTH_REJECTED == Record(4, "CONTRACT_LENGTH")
CONTRACT_INVALID         == Record(4, "CONTRACT_INVALID")
KERNEL_PANIC             == Record(5, "KERNEL_PANIC")

LoaderPanic(seq) == Record(seq, "LOADER_PANIC")

(* The records LoaderError::marker gives for an error of prepare_kernel. *)
PrepareFailureCodes ==
  {"FILE_READ", "CONFIG_INVALID", "ELF_INVALID", "ALLOCATION",
   "KERNEL_ADDRESS", "CONTRACT_STORAGE"}

LoaderFailureSequence2 ==
  {Record(2, c) : c \in PrepareFailureCodes} \union {LoaderPanic(2)}
LoaderFailureSequence3 == {CONTRACT_FAILURE, LoaderPanic(3)}
LoaderFailureSequence4 == {LoaderPanic(4)}

Rejections == {ABI_VERSION_REJECTED, CONTRACT_LENGTH_REJECTED, CONTRACT_INVALID}
KernelRecords == {KERNEL_READY, KERNEL_PANIC} \union Rejections

KnownRecords ==
  {LOADER_START, ELF_VALID, HANDOFF_READY} \union KernelRecords
    \union LoaderFailureSequence2 \union LoaderFailureSequence3
    \union LoaderFailureSequence4

(* The records of a boot that is still under way. *)
Started   == <<LOADER_START>>
Validated == <<LOADER_START, ELF_VALID>>
HandedOff == <<LOADER_START, ELF_VALID, HANDOFF_READY>>

(* Lines that carry the protocol prefix but are no record, and lines that   *)
(* do not carry it.                                                         *)
OVERLONG  == [form |-> "overlong", seq |-> 0, code |-> NONE]
MALFORMED == [form |-> "malformed", seq |-> 0, code |-> NONE]
PROSE     == [form |-> "prose", seq |-> 0, code |-> NONE]

-----------------------------------------------------------------------------
(* QEMU's isa-debug-exit device turns guest value g into status (g << 1)|1. *)

Success          == 16
ContractRejected == 32
KernelPanicked   == 33
LoaderFailed     == 34
KernelReturned   == 35
QemuExitCodes ==
  {Success, ContractRejected, KernelPanicked, LoaderFailed, KernelReturned}

HostStatus(value) == 2 * value + 1

READY_EXIT_STATUS  == 33
REJECT_EXIT_STATUS == 65
PANIC_EXIT_STATUS  == 67
LOADER_EXIT_STATUS == 69

-----------------------------------------------------------------------------
(* The parser: TraceState, last_sequence, the marker evidence, and the      *)
(* first protocol violation.                                                *)

TraceStates ==
  {"Start", "LoaderStarted", "ElfValidated", "HandoffReady", "Terminal"}

Violations ==
  {"log-truncated", "truncated-record", "overlong", "malformed", "sequence",
   "unknown", "order"}

ProtocolTrace(log_truncated) ==
  [state |-> "Start", last_sequence |-> -1,
   ready |-> FALSE, rejected |-> FALSE, panic |-> FALSE, terminal_code |-> NONE,
   violation |-> IF log_truncated THEN "log-truncated" ELSE NONE]

(* Plausible mistake: the last reason instead of the first. *)
RejectKeepsLast(p, reason) == [p EXCEPT !.violation = reason]

(* ProtocolTrace::reject keeps the first reason. *)
Reject(p, reason) ==
  [p EXCEPT !.violation = IF p.violation = NONE THEN reason ELSE p.violation]

(* Plausible mistake: a kernel record is taken without HANDOFF_READY. *)
TransitionSkipsHandoff(state, line) ==
  IF      state = "Start" /\ line = LOADER_START                     THEN "LoaderStarted"
  ELSE IF state = "LoaderStarted" /\ line = ELF_VALID                THEN "ElfValidated"
  ELSE IF state = "ElfValidated" /\ line = HANDOFF_READY             THEN "HandoffReady"
  ELSE IF \/ state = "LoaderStarted" /\ line \in LoaderFailureSequence2
          \/ state = "ElfValidated" /\ line \in LoaderFailureSequence3
          \/ state \in {"ElfValidated", "HandoffReady"} /\ line \in KernelRecords
                                                                    THEN "Terminal"
  ELSE NONE

(* The match on (state, record kind), without its effect on the markers:    *)
(* the next trace state, or NONE when the record is out of order.           *)
Transition(state, line) ==
  IF      state = "Start" /\ line = LOADER_START                     THEN "LoaderStarted"
  ELSE IF state = "LoaderStarted" /\ line = ELF_VALID                THEN "ElfValidated"
  ELSE IF state = "ElfValidated" /\ line = HANDOFF_READY             THEN "HandoffReady"
  ELSE IF \/ state = "LoaderStarted" /\ line \in LoaderFailureSequence2
          \/ state = "ElfValidated" /\ line \in LoaderFailureSequence3
          \/ state = "HandoffReady" /\ line \in LoaderFailureSequence4
          \/ state = "HandoffReady" /\ line \in KernelRecords       THEN "Terminal"
  ELSE NONE

(* Plausible mistake: the panic arm forgets the terminal code. *)
AcceptWithoutPanicCode(p, line) ==
  [p EXCEPT !.state         = Transition(p.state, line),
            !.last_sequence = line.seq,
            !.ready         = IF line = KERNEL_READY THEN TRUE ELSE p.ready,
            !.rejected      = IF line \in Rejections THEN TRUE ELSE p.rejected,
            !.panic         = IF line = KERNEL_PANIC THEN TRUE ELSE p.panic,
            !.terminal_code = IF line \in KernelRecords \ {KERNEL_PANIC} THEN line.code
                                                        ELSE p.terminal_code]

(* A record the parser takes in: the state moves, and a kernel record       *)
(* leaves its marker.                                                       *)
Accept(p, line) ==
  [p EXCEPT !.state         = Transition(p.state, line),
            !.last_sequence = line.seq,
            !.ready         = IF line = KERNEL_READY THEN TRUE ELSE p.ready,
            !.rejected      = IF line \in Rejections THEN TRUE ELSE p.rejected,
            !.panic         = IF line = KERNEL_PANIC THEN TRUE ELSE p.panic,
            !.terminal_code = IF line \in KernelRecords THEN line.code
                                                        ELSE p.terminal_code]

(* Plausible mistake: a sequence check that allows no gap. *)
ProcessLineWithoutGaps(p, line) ==
  LET q == [p EXCEPT !.last_sequence = line.seq] IN
  IF      line.form = "prose"               THEN p
  ELSE IF line.form \in {"overlong", "malformed"} THEN Reject(p, line.form)
  ELSE IF /\ line.seq # p.last_sequence + 1
          /\ p.last_sequence # -1           THEN Reject(p, "sequence")
  ELSE IF line \notin KnownRecords          THEN Reject(q, "unknown")
  ELSE IF Transition(p.state, line) = NONE  THEN Reject(q, "order")
  ELSE Accept(p, line)

process_protocol_line(p, line) ==
  LET q == [p EXCEPT !.last_sequence = line.seq] IN
  IF      line.form = "prose"               THEN p
  ELSE IF line.form \in {"overlong", "malformed"} THEN Reject(p, line.form)
  ELSE IF line.seq <= p.last_sequence       THEN Reject(p, "sequence")
  ELSE IF line \notin KnownRecords          THEN Reject(q, "unknown")
  ELSE IF Transition(p.state, line) = NONE  THEN Reject(q, "order")
  ELSE Accept(p, line)

(* The bytes after the last newline: an unfinished line that starts with    *)
(* the protocol prefix is a violation, unfinished prose is not.             *)
EndOfStream(p, partial) ==
  IF partial THEN Reject(p, "truncated-record") ELSE p

-----------------------------------------------------------------------------
Classifications ==
  {"Ready", "Rejected", "Panic", "Timeout", "UnexpectedExit", "MissingMarker",
   "LoaderFailure"}

(* The exit status of a process that a signal ended, ExitStatus::code's None. *)
SIGNALLED == -1

(* Plausible mistake: the markers alone decide. *)
ClassifyByMarkers(timed_out, exit_status, p) ==
  IF      timed_out                           THEN "Timeout"
  ELSE IF p.violation # NONE                  THEN "UnexpectedExit"
  ELSE IF p.ready                             THEN "Ready"
  ELSE IF p.rejected                          THEN "Rejected"
  ELSE IF p.panic                             THEN "Panic"
  ELSE IF exit_status = LOADER_EXIT_STATUS    THEN "LoaderFailure"
  ELSE "UnexpectedExit"

classify_boot(timed_out, exit_status, p) ==
  LET evidence == <<p.ready, p.rejected, p.panic, exit_status>> IN
  IF      timed_out                                               THEN "Timeout"
  ELSE IF p.violation # NONE                                      THEN "UnexpectedExit"
  ELSE IF evidence = <<TRUE, FALSE, FALSE, READY_EXIT_STATUS>>    THEN "Ready"
  ELSE IF evidence = <<FALSE, TRUE, FALSE, REJECT_EXIT_STATUS>>   THEN "Rejected"
  ELSE IF evidence = <<FALSE, FALSE, TRUE, PANIC_EXIT_STATUS>>    THEN "Panic"
  ELSE IF evidence = <<FALSE, FALSE, FALSE, LOADER_EXIT_STATUS>>  THEN "LoaderFailure"
  ELSE IF \E s \in {READY_EXIT_STATUS, REJECT_EXIT_STATUS, PANIC_EXIT_STATUS} :
            evidence = <<FALSE, FALSE, FALSE, s>>                 THEN "MissingMarker"
  ELSE "UnexpectedExit"
=============================================================================
