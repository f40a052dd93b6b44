------------------------ MODULE ProtocolParserProofs ------------------------
(***************************************************************************)
(* The parser accepts exactly the canonical boots: for every set of lines  *)
(* and streams of every length.                                            *)
(***************************************************************************)
EXTENDS ProtocolParser, TraceLemmas

(* What an accepted stream looks like in each TraceState. *)
AcceptedShape ==
  parser.violation = NONE =>
    /\ parser.state = "Start" => records = <<>> /\ parser.last_sequence = -1
    /\ parser.state = "LoaderStarted" =>
         records = <<LOADER_START>> /\ parser.last_sequence = 1
    /\ parser.state = "ElfValidated" =>
         records = <<LOADER_START, ELF_VALID>> /\ parser.last_sequence = 2
    /\ parser.state = "HandoffReady" =>
         /\ records = <<LOADER_START, ELF_VALID, HANDOFF_READY>>
         /\ parser.last_sequence = 3
    /\ parser.state = "Terminal" => records \in CompleteTraces

(* The terminal code is set only in the Terminal state. *)
CodeOnlyAtEnd == parser.state # "Terminal" => parser.terminal_code = NONE

IInv ==
  TypeOK /\ AcceptedShape /\ CodeOnlyAtEnd /\ EvidenceConsistent /\ CanonicalIsAccepted

USE DEF NONE

(* The codes of the kernel's records. *)
LEMMA RecordCodes ==
  /\ {r.code : r \in Rejections} = {"ABI_VERSION", "CONTRACT_LENGTH", "CONTRACT_INVALID"}
  /\ {r.code : r \in KernelRecords} =
       {"KERNEL_READY", "KERNEL_PANIC", "ABI_VERSION", "CONTRACT_LENGTH", "CONTRACT_INVALID"}
BY DEF KernelRecords, Rejections, KERNEL_READY, KERNEL_PANIC, ABI_VERSION_REJECTED,
   CONTRACT_LENGTH_REJECTED, CONTRACT_INVALID, Record

(* A transition leads to a trace state or to none. *)
LEMMA TransitionType ==
  ASSUME NEW state, NEW line
  PROVE  Transition(state, line) \in TraceStates \union {NONE}
BY DEF Transition, TraceStates

(* A sequence of at most four elements without its last one. *)
LEMMA Front ==
  ASSUME NEW S, NEW s \in Seq(S), NEW t \in Seq(S),
         Len(s) = Len(t) - 1, \A i \in 1 .. Len(s) : t[i] = s[i]
  PROVE  /\ Len(t) = 1 => s = <<>>
         /\ Len(t) = 2 => s = <<t[1]>>
         /\ Len(t) = 3 => s = <<t[1], t[2]>>
         /\ Len(t) = 4 => s = <<t[1], t[2], t[3]>>
<1>1. ASSUME Len(t) = 4 PROVE s = <<t[1], t[2], t[3]>>
  <2>1. Len(s) = 3
    BY <1>1
  <2> QED
    BY <2>1, s = <<s[1], s[2], s[3]>>
<1>2. ASSUME Len(t) = 3 PROVE s = <<t[1], t[2]>>
  <2>1. Len(s) = 2
    BY <1>2
  <2> QED
    BY <2>1, s = <<s[1], s[2]>>
<1>3. ASSUME Len(t) = 2 PROVE s = <<t[1]>>
  <2>1. Len(s) = 1
    BY <1>3
  <2> QED
    BY <2>1, s = <<s[1]>>
<1>4. ASSUME Len(t) = 1 PROVE s = <<>>
  BY <1>4
<1> QED
  BY <1>1, <1>2, <1>3, <1>4

(* The records a canonical boot can be extended by, and with what. *)
LEMMA CanonicalExtension ==
  ASSUME NEW s \in Seq(Lines), NEW line \in Lines,
         Append(s, line) \in CanonicalTraces
  PROVE  \/ s = <<>> /\ line = LOADER_START
         \/ s = <<LOADER_START>> /\ line \in {ELF_VALID} \union LoaderFailureSequence2
         \/ /\ s = <<LOADER_START, ELF_VALID>>
            /\ line \in {HANDOFF_READY} \union LoaderFailureSequence3
         \/ /\ s = <<LOADER_START, ELF_VALID, HANDOFF_READY>>
            /\ line \in KernelRecords \union LoaderFailureSequence4
<1> DEFINE t == Append(s, line)
<1>0. /\ t \in Seq(Lines)
      /\ Len(s) = Len(t) - 1
      /\ t[Len(t)] = line
      /\ \A i \in 1 .. Len(s) : t[i] = s[i]
  OBVIOUS
<1>t. t \in CanonicalTraces
  OBVIOUS
<1> HIDE DEF t
<1>1. t # <<>>
  BY <1>0
<1>s. /\ Len(t) = 1 => s = <<>>
      /\ Len(t) = 2 => s = <<t[1]>>
      /\ Len(t) = 3 => s = <<t[1], t[2]>>
      /\ Len(t) = 4 => s = <<t[1], t[2], t[3]>>
  BY <1>0, Front
<1>2. CASE t = <<LOADER_START>>
  BY <1>0, <1>s, <1>2
<1>3. CASE t = <<LOADER_START, ELF_VALID>>
  BY <1>0, <1>s, <1>3
<1>4. CASE t = <<LOADER_START, ELF_VALID, HANDOFF_READY>>
  BY <1>0, <1>s, <1>4
<1>5. ASSUME NEW f \in LoaderFailureSequence2, t = <<LOADER_START, f>>
      PROVE  s = <<LOADER_START>> /\ line = f
  BY <1>0, <1>s, <1>5
<1>6. ASSUME NEW f \in LoaderFailureSequence3, t = <<LOADER_START, ELF_VALID, f>>
      PROVE  s = <<LOADER_START, ELF_VALID>> /\ line = f
  BY <1>0, <1>s, <1>6
<1>7. ASSUME NEW r \in KernelRecords \union LoaderFailureSequence4,
             t = <<LOADER_START, ELF_VALID, HANDOFF_READY, r>>
      PROVE  s = <<LOADER_START, ELF_VALID, HANDOFF_READY>> /\ line = r
  BY <1>0, <1>s, <1>7
<1> QED
  BY <1>t, <1>1, <1>2, <1>3, <1>4, <1>5, <1>6, <1>7
     DEF CanonicalTraces, ProperPrefixes, CompleteTraces

(* Hence a complete boot cannot be extended, and canonical boots are closed *)
(* under taking the last record away.                                       *)
LEMMA CanonicalPrefix ==
  ASSUME NEW s \in Seq(Lines), NEW line \in Lines,
         Append(s, line) \in CanonicalTraces
  PROVE  s \in ProperPrefixes
BY CanonicalExtension DEF ProperPrefixes

(* No complete boot is the beginning of another. *)
LEMMA CompleteNotProper == CompleteTraces \cap ProperPrefixes = {}
<1>1. ASSUME NEW f \in LoaderFailureSequence2
      PROVE  <<LOADER_START, f>> \notin ProperPrefixes
  BY DEF ProperPrefixes, LoaderFailureSequence2, PrepareFailureCodes, LoaderPanic,
         ELF_VALID, Record
<1>2. ASSUME NEW f \in LoaderFailureSequence3
      PROVE  <<LOADER_START, ELF_VALID, f>> \notin ProperPrefixes
  BY DEF ProperPrefixes, LoaderFailureSequence3, CONTRACT_FAILURE, LoaderPanic,
         HANDOFF_READY, Record
<1>3. ASSUME NEW r \in KernelRecords \union LoaderFailureSequence4
      PROVE  <<LOADER_START, ELF_VALID, HANDOFF_READY, r>> \notin ProperPrefixes
  BY DEF ProperPrefixes
<1> QED
  BY <1>1, <1>2, <1>3 DEF CompleteTraces

(* A record that continues an accepted boot canonically passes every test   *)
(* of process_protocol_line.                                                *)
LEMMA ExtensionAccepted ==
  ASSUME TypeOK, AcceptedShape, parser.violation = NONE,
         NEW line \in Lines, Append(records, line) \in CanonicalTraces
  PROVE  /\ line.form = "record"
         /\ line.seq > parser.last_sequence
         /\ line \in KnownRecords
         /\ Transition(parser.state, line) # NONE
<1> USE DEF TypeOK
<1>0. records \in ProperPrefixes /\ parser.state # "Terminal"
  BY CanonicalPrefix, CompleteNotProper DEF AcceptedShape
<1>1. parser.state \in {"Start", "LoaderStarted", "ElfValidated", "HandoffReady"}
  BY <1>0 DEF TraceStates
<1>2. CASE parser.state = "Start"
  <2>1. records = <<>> /\ parser.last_sequence = -1
    BY <1>2 DEF AcceptedShape
  <2>2. line = LOADER_START
    BY <2>1, CanonicalExtension
  <2> QED
    BY <1>2, <2>1, <2>2 DEF LOADER_START, Record, KnownRecords, Transition
<1>3. CASE parser.state = "LoaderStarted"
  <2>1. records = <<LOADER_START>> /\ parser.last_sequence = 1
    BY <1>3 DEF AcceptedShape
  <2>2. line \in {ELF_VALID} \union LoaderFailureSequence2
    BY <2>1, CanonicalExtension
  <2>3. line.form = "record" /\ line.seq = 2
    BY <2>2 DEF ELF_VALID, LoaderFailureSequence2, LoaderPanic, Record
  <2> QED
    BY <1>3, <2>1, <2>2, <2>3 DEF KnownRecords, Transition
<1>4. CASE parser.state = "ElfValidated"
  <2>1. records = <<LOADER_START, ELF_VALID>> /\ parser.last_sequence = 2
    BY <1>4 DEF AcceptedShape
  <2>2. line \in {HANDOFF_READY} \union LoaderFailureSequence3
    BY <2>1, CanonicalExtension
  <2>3. line.form = "record" /\ line.seq = 3
    BY <2>2 DEF HANDOFF_READY, LoaderFailureSequence3, LoaderPanic, CONTRACT_FAILURE,
                Record
  <2> QED
    BY <1>4, <2>1, <2>2, <2>3 DEF KnownRecords, Transition
<1>5. CASE parser.state = "HandoffReady"
  <2>1. /\ records = <<LOADER_START, ELF_VALID, HANDOFF_READY>>
        /\ parser.last_sequence = 3
    BY <1>5 DEF AcceptedShape
  <2>2. line \in KernelRecords \union LoaderFailureSequence4
    BY <2>1, CanonicalExtension
  <2>3. line.form = "record" /\ line.seq \in {4, 5}
    BY <2>2 DEF KernelRecords, Rejections, KERNEL_READY, KERNEL_PANIC,
                ABI_VERSION_REJECTED, CONTRACT_LENGTH_REJECTED, CONTRACT_INVALID,
                LoaderFailureSequence4, LoaderPanic, Record
  <2> QED
    BY <1>5, <2>1, <2>2, <2>3 DEF KnownRecords, Transition
<1> QED
  BY <1>1, <1>2, <1>3, <1>4, <1>5

(* A rejected line: the state and the markers stay, the first reason wins. *)
LEMMA RejectedLine ==
  ASSUME IInv, NEW line \in Lines, records' = Append(records, line), UNCHANGED done,
         NEW seq \in Nat \union {-1},
         NEW reason \in Violations \ {"log-truncated", "truncated-record"},
         parser' = Reject([parser EXCEPT !.last_sequence = seq], reason),
         \/ line.form # "record" \/ line.seq <= parser.last_sequence
           \/ line \notin KnownRecords \/ Transition(parser.state, line) = NONE
  PROVE  IInv'
<1> USE DEF IInv
<1>1. /\ parser' \in [state : TraceStates, last_sequence : Nat \union {-1},
                      ready : BOOLEAN, rejected : BOOLEAN, panic : BOOLEAN,
                      terminal_code : {NONE} \union {r.code : r \in KernelRecords},
                      violation : {NONE} \union Violations]
      /\ parser'.violation # NONE
      /\ parser'.violation = IF parser.violation = NONE THEN reason ELSE parser.violation
      /\ parser'.state = parser.state /\ parser'.terminal_code = parser.terminal_code
      /\ parser'.ready = parser.ready /\ parser'.rejected = parser.rejected
      /\ parser'.panic = parser.panic
  BY DEF TypeOK, Reject, Violations
<1>2. TypeOK'
  BY <1>1 DEF TypeOK
<1>3. AcceptedShape' /\ CodeOnlyAtEnd' /\ EvidenceConsistent'
  BY <1>1 DEF AcceptedShape, CodeOnlyAtEnd, EvidenceConsistent
<1>4. CanonicalIsAccepted'
  <2> SUFFICES ASSUME Append(records, line) \in CanonicalTraces
               PROVE  parser.violation \in {"log-truncated", "truncated-record"}
    BY <1>1 DEF CanonicalIsAccepted
  <2>1. parser.last_sequence \in Int /\ line.seq \in Int
    BY LinesAssumption DEF TypeOK
  <2>2. parser.violation # NONE
    BY <2>1, ExtensionAccepted
  <2>3. records \in CanonicalTraces
    BY CanonicalPrefix DEF CanonicalTraces, TypeOK
  <2> QED
    BY <2>2, <2>3 DEF CanonicalIsAccepted
<1> QED
  BY <1>2, <1>3, <1>4

(* An accepted record: the stream stays canonical if it was. *)
LEMMA AcceptedLine ==
  ASSUME IInv, NEW line \in Lines, records' = Append(records, line), UNCHANGED done,
         parser' = Accept(parser, line),
         line.seq \in Nat, line.seq > parser.last_sequence,
         line \in KnownRecords, Transition(parser.state, line) # NONE
  PROVE  IInv'
<1> USE DEF IInv
<1> DEFINE next == Transition(parser.state, line)
<1>0. /\ next \in TraceStates
      /\ parser.state # "Terminal"
      /\ line \in KernelRecords => parser.state = "HandoffReady" /\ next = "Terminal"
  BY DEF Transition, TraceStates, KernelRecords, Rejections, KERNEL_READY, KERNEL_PANIC,
         ABI_VERSION_REJECTED, CONTRACT_LENGTH_REJECTED, CONTRACT_INVALID, Record,
         LOADER_START, ELF_VALID, HANDOFF_READY, LoaderFailureSequence2,
         LoaderFailureSequence3, LoaderPanic, CONTRACT_FAILURE, PrepareFailureCodes
<1> HIDE DEF next
<1>1. /\ parser'.state = next
      /\ parser'.last_sequence = line.seq
      /\ parser'.ready = (IF line = KERNEL_READY THEN TRUE ELSE parser.ready)
      /\ parser'.rejected = (IF line \in Rejections THEN TRUE ELSE parser.rejected)
      /\ parser'.panic = (IF line = KERNEL_PANIC THEN TRUE ELSE parser.panic)
      /\ parser'.terminal_code = IF line \in KernelRecords THEN line.code
                                                           ELSE parser.terminal_code
      /\ parser'.violation = parser.violation
  BY DEF TypeOK, Accept, next
<1>2. TypeOK'
  <2> DEFINE ready    == IF line = KERNEL_READY THEN TRUE ELSE parser.ready
             rejected == IF line \in Rejections THEN TRUE ELSE parser.rejected
             panic    == IF line = KERNEL_PANIC THEN TRUE ELSE parser.panic
             code     == IF line \in KernelRecords THEN line.code ELSE parser.terminal_code
  <2>1. ready \in BOOLEAN /\ rejected \in BOOLEAN /\ panic \in BOOLEAN
    BY DEF TypeOK
  <2>2. code \in {NONE} \union {r.code : r \in KernelRecords}
    BY DEF TypeOK
  <2>3. parser' = [parser EXCEPT !.state = next, !.last_sequence = line.seq,
                     !.ready = ready, !.rejected = rejected, !.panic = panic,
                     !.terminal_code = code]
    BY DEF Accept, next
  <2> HIDE DEF ready, rejected, panic, code
  <2>4. records' \in Seq(Lines) /\ done' \in BOOLEAN
    BY DEF TypeOK
  <2>5. parser' \in [state : TraceStates, last_sequence : Nat \union {-1},
                     ready : BOOLEAN, rejected : BOOLEAN, panic : BOOLEAN,
                     terminal_code : {NONE} \union {r.code : r \in KernelRecords},
                     violation : {NONE} \union Violations]
    BY <1>0, <2>1, <2>2, <2>3 DEF TypeOK
  <2> QED
    BY <2>4, <2>5 DEF TypeOK
<1>3. CodeOnlyAtEnd'
  BY <1>0, <1>1 DEF CodeOnlyAtEnd
<1>4. EvidenceConsistent'
  <2>1. /\ parser.terminal_code = NONE
        /\ parser.ready = FALSE /\ parser.rejected = FALSE /\ parser.panic = FALSE
    BY <1>0, RecordCodes DEF CodeOnlyAtEnd, EvidenceConsistent, TypeOK
  <2>2. CASE line = KERNEL_READY
    BY <1>1, <2>1, <2>2, RecordCodes DEF EvidenceConsistent, KernelRecords, Rejections,
       KERNEL_READY, KERNEL_PANIC, ABI_VERSION_REJECTED, CONTRACT_LENGTH_REJECTED,
       CONTRACT_INVALID, Record
  <2>3. CASE line = KERNEL_PANIC
    BY <1>1, <2>1, <2>3, RecordCodes DEF EvidenceConsistent, KernelRecords, Rejections,
       KERNEL_READY, KERNEL_PANIC, ABI_VERSION_REJECTED, CONTRACT_LENGTH_REJECTED,
       CONTRACT_INVALID, Record
  <2>4. CASE line \in Rejections
    BY <1>1, <2>1, <2>4, RecordCodes DEF EvidenceConsistent, KernelRecords, Rejections,
       KERNEL_READY, KERNEL_PANIC, ABI_VERSION_REJECTED, CONTRACT_LENGTH_REJECTED,
       CONTRACT_INVALID, Record
  <2>5. CASE line \notin KernelRecords
    BY <1>1, <2>1, <2>5, RecordCodes DEF EvidenceConsistent, KernelRecords
  <2> QED
    BY <2>2, <2>3, <2>4, <2>5 DEF KernelRecords
<1>5. ASSUME parser.violation = NONE
      PROVE  AcceptedShape'
  <2>1. CASE parser.state = "Start"
    <3>1. line = LOADER_START /\ next = "LoaderStarted" /\ records = <<>>
      BY <1>5, <2>1 DEF next, Transition, AcceptedShape
    <3> QED
      BY <1>1, <3>1 DEF AcceptedShape, LOADER_START, Record
  <2>2. CASE parser.state = "LoaderStarted"
    <3>1. records = <<LOADER_START>>
      BY <1>5, <2>2 DEF AcceptedShape
    <3>2. CASE line = ELF_VALID
      <4>1. next = "ElfValidated" /\ line.seq = 2
        BY <2>2, <3>2 DEF next, Transition, ELF_VALID, Record
      <4>2. records' = <<LOADER_START, ELF_VALID>>
        BY <3>1, <3>2, Append1
      <4> QED
        BY <1>1, <4>1, <4>2 DEF AcceptedShape
    <3>3. CASE line # ELF_VALID
      <4>1. next = "Terminal" /\ line \in LoaderFailureSequence2
        BY <2>2, <3>3 DEF next, Transition
      <4>2. records' \in CompleteTraces
        BY <3>1, <4>1, Append1 DEF CompleteTraces
      <4> QED
        BY <1>1, <4>1, <4>2 DEF AcceptedShape
    <3> QED
      BY <3>2, <3>3
  <2>3. CASE parser.state = "ElfValidated"
    <3>1. records = <<LOADER_START, ELF_VALID>>
      BY <1>5, <2>3 DEF AcceptedShape
    <3>2. CASE line = HANDOFF_READY
      <4>1. next = "HandoffReady" /\ line.seq = 3
        BY <2>3, <3>2 DEF next, Transition, HANDOFF_READY, Record
      <4>2. records' = <<LOADER_START, ELF_VALID, HANDOFF_READY>>
        BY <3>1, <3>2, Append2
      <4> QED
        BY <1>1, <4>1, <4>2 DEF AcceptedShape
    <3>3. CASE line # HANDOFF_READY
      <4>1. next = "Terminal" /\ line \in LoaderFailureSequence3
        BY <2>3, <3>3 DEF next, Transition
      <4>2. records' \in CompleteTraces
        BY <3>1, <4>1, Append2 DEF CompleteTraces
      <4> QED
        BY <1>1, <4>1, <4>2 DEF AcceptedShape
    <3> QED
      BY <3>2, <3>3
  <2>4. CASE parser.state = "HandoffReady"
    <3>1. records = <<LOADER_START, ELF_VALID, HANDOFF_READY>>
      BY <1>5, <2>4 DEF AcceptedShape
    <3>2. next = "Terminal" /\ line \in KernelRecords \union LoaderFailureSequence4
      BY <2>4 DEF next, Transition
    <3>3. records' \in CompleteTraces
      BY <3>1, <3>2, Append3 DEF CompleteTraces
    <3> QED
      BY <1>1, <3>2, <3>3 DEF AcceptedShape
  <2> QED
    BY <1>0, <2>1, <2>2, <2>3, <2>4 DEF TypeOK, TraceStates
<1>7. AcceptedShape'
  BY <1>1, <1>5 DEF AcceptedShape
<1>8. CanonicalIsAccepted'
  <2> SUFFICES ASSUME Append(records, line) \in CanonicalTraces
               PROVE  parser.violation \in {NONE, "log-truncated", "truncated-record"}
    BY <1>1 DEF CanonicalIsAccepted
  <2> QED
    BY CanonicalPrefix DEF CanonicalTraces, CanonicalIsAccepted, TypeOK
<1> QED
  BY <1>2, <1>3, <1>4, <1>7, <1>8

(* The invariant holds before the first line. *)
LEMMA InitIInv == Init => IInv
<1> SUFFICES ASSUME Init PROVE IInv
  OBVIOUS
<1>1. PICK log_truncated \in BOOLEAN : parser = ProtocolTrace(log_truncated)
  BY DEF Init
<1>2. /\ parser.state = "Start" /\ parser.last_sequence = -1
      /\ parser.ready = FALSE /\ parser.rejected = FALSE /\ parser.panic = FALSE
      /\ parser.terminal_code = NONE
      /\ parser.violation \in {NONE, "log-truncated"}
  BY <1>1 DEF ProtocolTrace
<1>3. TypeOK
  <2>1. <<>> \in Seq(Lines)
    OBVIOUS
  <2>2. CASE log_truncated = TRUE
    BY <1>1, <2>1, <2>2 DEF TypeOK, Init, ProtocolTrace, TraceStates, Violations
  <2>3. CASE log_truncated = FALSE
    BY <1>1, <2>1, <2>3 DEF TypeOK, Init, ProtocolTrace, TraceStates, Violations
  <2> QED
    BY <2>2, <2>3
<1> QED
  BY <1>2, <1>3, RecordCodes
     DEF IInv, Init, AcceptedShape, CodeOnlyAtEnd, EvidenceConsistent, CanonicalIsAccepted

(* Every line, and the end of the stream, keep the invariant. *)
LEMMA NextIInv == IInv /\ [Next]_vars => IInv'
<1> SUFFICES ASSUME IInv, [Next]_vars PROVE IInv'
  OBVIOUS
<1>1. ASSUME NEW line \in Lines, ReadLine(line) PROVE IInv'
  <2>0. /\ line.form \in {"record", "overlong", "malformed"} /\ line.seq \in Nat
        /\ records' = Append(records, line) /\ UNCHANGED done
        /\ parser.last_sequence \in Nat \union {-1}
        /\ parser = [parser EXCEPT !.last_sequence = parser.last_sequence]
    BY <1>1, LinesAssumption DEF ReadLine, IInv, TypeOK
  <2>1. CASE line.form # "record"
    <3>1. parser' = Reject(parser, line.form)
      BY <1>1, <2>0, <2>1 DEF ReadLine, process_protocol_line
    <3> QED
      BY <2>0, <2>1, <3>1, RejectedLine DEF Violations
  <2>2. CASE line.form = "record" /\ line.seq <= parser.last_sequence
    <3>1. parser' = Reject(parser, "sequence")
      BY <1>1, <2>2 DEF ReadLine, process_protocol_line
    <3> QED
      BY <2>0, <2>2, <3>1, RejectedLine DEF Violations
  <2>3. CASE line.form = "record" /\ ~(line.seq <= parser.last_sequence)
               /\ line \notin KnownRecords
    <3>1. parser' = Reject([parser EXCEPT !.last_sequence = line.seq], "unknown")
      BY <1>1, <2>3 DEF ReadLine, process_protocol_line
    <3> QED
      BY <2>0, <2>3, <3>1, RejectedLine DEF Violations
  <2>4. CASE line.form = "record" /\ ~(line.seq <= parser.last_sequence)
               /\ line \in KnownRecords /\ Transition(parser.state, line) = NONE
    <3>1. parser' = Reject([parser EXCEPT !.last_sequence = line.seq], "order")
      BY <1>1, <2>4 DEF ReadLine, process_protocol_line
    <3> QED
      BY <2>0, <2>4, <3>1, RejectedLine DEF Violations
  <2>5. CASE line.form = "record" /\ ~(line.seq <= parser.last_sequence)
               /\ line \in KnownRecords /\ Transition(parser.state, line) # NONE
    <3>1. parser' = Accept(parser, line)
      BY <1>1, <2>5 DEF ReadLine, process_protocol_line
    <3> QED
      BY <2>0, <2>5, <3>1, AcceptedLine
  <2> QED
    BY <2>1, <2>2, <2>3, <2>4, <2>5
<1>2. CASE ReadProse
  <2> UNCHANGED vars
    BY <1>2 DEF ReadProse, process_protocol_line, PROSE, vars
  <2> QED
    BY DEF vars, IInv, TypeOK, AcceptedShape, CodeOnlyAtEnd, EvidenceConsistent,
           CanonicalIsAccepted
<1>3. ASSUME NEW partial \in BOOLEAN, Finish(partial) PROVE IInv'
  <2>1. CASE ~partial
    BY <1>3, <2>1 DEF Finish, EndOfStream, IInv, TypeOK, AcceptedShape, CodeOnlyAtEnd,
                      EvidenceConsistent, CanonicalIsAccepted
  <2>2. CASE partial
    <3>1. /\ parser'.violation =
               IF parser.violation = NONE THEN "truncated-record" ELSE parser.violation
          /\ parser'.state = parser.state /\ parser'.terminal_code = parser.terminal_code
          /\ parser'.ready = parser.ready /\ parser'.rejected = parser.rejected
          /\ parser'.panic = parser.panic
          /\ records' = records
      BY <1>3, <2>2 DEF Finish, EndOfStream, Reject, IInv, TypeOK
    <3>2. TypeOK'
      BY <1>3, <2>2 DEF Finish, EndOfStream, Reject, IInv, TypeOK, Violations
    <3> QED
      BY <3>1, <3>2 DEF IInv, AcceptedShape, CodeOnlyAtEnd, EvidenceConsistent,
                        CanonicalIsAccepted
  <2> QED
    BY <2>1, <2>2
<1>4. CASE UNCHANGED vars
  BY <1>4 DEF vars, IInv, TypeOK, AcceptedShape, CodeOnlyAtEnd, EvidenceConsistent,
              CanonicalIsAccepted
<1> QED
  BY <1>1, <1>2, <1>3, <1>4 DEF Next

(* For every set of lines and every length of stream: the variables of      *)
(* parse_protocol_stream keep their types.                                  *)
THEOREM ParserTypes == Spec => []TypeOK
<1>1. IInv => TypeOK
  BY DEF IInv
<1> QED
  BY <1>1, InitIInv, NextIInv, PTL DEF Spec

(* For every set of lines and every length of stream: a stream the parser   *)
(* of the host harness does not reject has the records of a canonical boot  *)
(* or of the beginning of one (process_protocol_line).                      *)
THEOREM ParserSound == Spec => []AcceptedIsCanonical
<1>1. IInv => AcceptedIsCanonical
  BY DEF IInv, TypeOK, TraceStates, AcceptedShape, AcceptedIsCanonical, CanonicalTraces,
         ProperPrefixes
<1> QED
  BY <1>1, InitIInv, NextIInv, PTL DEF Spec

(* And it rejects no canonical boot, unless the log is cut                  *)
(* (process_protocol_line and the end of parse_protocol_stream).            *)
THEOREM ParserComplete == Spec => []CanonicalIsAccepted
<1>1. IInv => CanonicalIsAccepted
  BY DEF IInv
<1> QED
  BY <1>1, InitIInv, NextIInv, PTL DEF Spec

(* On every stream, rejected ones included, at most one marker is set and   *)
(* the terminal code is that marker's (the match in process_protocol_line). *)
THEOREM ParserEvidence == Spec => []EvidenceConsistent
<1>1. IInv => EvidenceConsistent
  BY DEF IInv
<1> QED
  BY <1>1, InitIInv, NextIInv, PTL DEF Spec

(* For every stream: the first protocol violation and the first terminal    *)
(* marker are final, and the last sequence number never goes back           *)
(* (ProtocolTrace::reject, the absorbing Terminal state).                   *)
THEOREM ParserLatches == Spec => EvidenceLatches
<1> DEFINE A == /\ parser.violation # NONE => parser'.violation = parser.violation
                /\ parser.terminal_code # NONE => parser'.terminal_code = parser.terminal_code
                /\ parser.last_sequence <= parser'.last_sequence
<1>1. ASSUME IInv, [Next]_vars PROVE A
  <2> USE DEF A
  <2>0. parser.last_sequence \in Int
    BY <1>1 DEF IInv, TypeOK
  <2>1. ASSUME NEW line \in Lines, ReadLine(line) PROVE A
    <3>0. line.seq \in Nat /\ line.form \in {"record", "overlong", "malformed"}
      BY LinesAssumption
    <3>1. CASE line.form # "record" \/ line.seq <= parser.last_sequence
      <4>1. PICK reason : parser' = Reject(parser, reason)
        BY <2>1, <3>0, <3>1 DEF ReadLine, process_protocol_line
      <4> QED
        BY <1>1, <2>0, <4>1 DEF Reject, IInv, TypeOK
    <3>2. CASE /\ line.form = "record" /\ ~(line.seq <= parser.last_sequence)
               /\ line \notin KnownRecords \/ Transition(parser.state, line) = NONE
      BY <1>1, <2>0, <2>1, <3>0, <3>2
         DEF ReadLine, process_protocol_line, Reject, IInv, TypeOK
    <3>3. CASE /\ line.form = "record" /\ ~(line.seq <= parser.last_sequence)
               /\ line \in KnownRecords /\ Transition(parser.state, line) # NONE
      <4>1. parser' = Accept(parser, line)
        BY <2>1, <3>3 DEF ReadLine, process_protocol_line
      <4>2. parser.terminal_code = NONE
        BY <1>1, <3>3 DEF IInv, CodeOnlyAtEnd, Transition
      <4> QED
        BY <1>1, <2>0, <3>0, <3>3, <4>1, <4>2 DEF Accept, IInv, TypeOK
    <3> QED
      BY <3>1, <3>2, <3>3
  <2>2. CASE ReadProse
    BY <2>0, <2>2 DEF ReadProse, process_protocol_line, PROSE
  <2>3. ASSUME NEW partial \in BOOLEAN, Finish(partial) PROVE A
    BY <1>1, <2>0, <2>3 DEF Finish, EndOfStream, Reject, IInv, TypeOK
  <2>4. CASE UNCHANGED vars
    BY <2>0, <2>4 DEF vars
  <2> QED
    BY <1>1, <2>1, <2>2, <2>3, <2>4 DEF Next
<1> QED
  BY <1>1, InitIInv, NextIInv, PTL DEF Spec, EvidenceLatches
=============================================================================
