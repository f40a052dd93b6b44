--------------------------- MODULE ProtocolParser ---------------------------
(***************************************************************************)
(* parse_protocol_stream as a loop: one step per complete log line, then   *)
(* the bytes after the last newline.  The stream is arbitrary: any line    *)
(* may come next, since the debug console also carries firmware text and a *)
(* faulty guest may write anything.                                        *)
(***************************************************************************)
EXTENDS DiagnosticProtocol

CONSTANTS
  Lines,    \* the protocol-prefixed lines a stream is made of
  MaxLines  \* bound on the protocol lines of one stream

ASSUME LinesAssumption ==
  Lines \subseteq
    [form : {"record", "overlong", "malformed"}, seq : Nat, code : STRING]
ASSUME MaxLinesAssumption == MaxLines \in Nat

VARIABLES
  parser,   \* the TraceState, last_sequence and ProtocolTrace of the loop
  records,  \* history: the protocol-prefixed lines read so far
  done      \* the loop has ended

vars == <<parser, records, done>>

Init ==
  /\ \E log_truncated \in BOOLEAN : parser = ProtocolTrace(log_truncated)
  /\ records = <<>>
  /\ done = FALSE

(* One complete line with the protocol prefix. *)
ReadLine(line) ==
  /\ ~done
  /\ Len(records) < MaxLines
  /\ parser' = process_protocol_line(parser, line)
  /\ records' = Append(records, line)
  /\ UNCHANGED done

(* One complete line without it. *)
ReadProse ==
  /\ ~done
  /\ parser' = process_protocol_line(parser, PROSE)
  /\ UNCHANGED <<records, done>>

Finish(partial) ==
  /\ ~done
  /\ parser' = EndOfStream(parser, partial)
  /\ done' = TRUE
  /\ UNCHANGED records

Next ==
  \/ \E line \in Lines : ReadLine(line)
  \/ ReadProse
  \/ \E partial \in BOOLEAN : Finish(partial)

Spec == Init /\ [][Next]_vars

-----------------------------------------------------------------------------
(* Every variable keeps its type: the loop of parse_protocol_stream only    *)
(* ever holds a TraceState, a u16 sequence (or none) and a ProtocolTrace.   *)
TypeOK ==
  /\ parser \in [state : TraceStates, last_sequence : Nat \union {-1},
                 ready : BOOLEAN, rejected : BOOLEAN, panic : BOOLEAN,
                 terminal_code : {NONE} \union {r.code : r \in KernelRecords},
                 violation : {NONE} \union Violations]
  /\ records \in Seq(Lines)
  /\ done \in BOOLEAN

(* The complete boots of the protocol, written as traces and not as a       *)
(* transition table: the loader fails at one of three points, or the kernel *)
(* has the last word.                                                       *)
CompleteTraces ==
  {<<LOADER_START, f>> : f \in LoaderFailureSequence2}
    \union {<<LOADER_START, ELF_VALID, f>> : f \in LoaderFailureSequence3}
    \union {<<LOADER_START, ELF_VALID, HANDOFF_READY, r>> :
              r \in KernelRecords \union LoaderFailureSequence4}

ProperPrefixes ==
  {<<>>, <<LOADER_START>>, <<LOADER_START, ELF_VALID>>,
   <<LOADER_START, ELF_VALID, HANDOFF_READY>>}

CanonicalTraces == ProperPrefixes \union CompleteTraces

(* A stream that process_protocol_line never rejected is a canonical boot,  *)
(* or the beginning of one: no duplicate, reordered, contradictory, unknown *)
(* or malformed record gets past the parser in any order of arrival.        *)
AcceptedIsCanonical == parser.violation = NONE => records \in CanonicalTraces

(* And the parser accepts every canonical boot: the only other reason to    *)
(* reject one is a log cut at its size bound or inside a record.            *)
CanonicalIsAccepted ==
  records \in CanonicalTraces
    => parser.violation \in {NONE, "log-truncated", "truncated-record"}

(* The marker evidence classify_boot matches on never contradicts itself,   *)
(* even on a stream already rejected: at most one marker is set, and the    *)
(* terminal code is that marker's.                                          *)
EvidenceConsistent ==
  /\ parser.ready => ~parser.rejected /\ ~parser.panic
  /\ parser.rejected => ~parser.panic
  /\ parser.ready <=> parser.terminal_code = "KERNEL_READY"
  /\ parser.panic <=> parser.terminal_code = "KERNEL_PANIC"
  /\ parser.rejected <=>
       parser.terminal_code \in {r.code : r \in Rejections}

(* A rejection is final and keeps its first reason, and a marker once seen  *)
(* is never lost or replaced (ProtocolTrace::reject, Terminal is absorbing). *)
EvidenceLatches ==
  [][/\ parser.violation # NONE => parser'.violation = parser.violation
     /\ parser.terminal_code # NONE => parser'.terminal_code = parser.terminal_code
     /\ parser.last_sequence <= parser'.last_sequence]_vars
=============================================================================
