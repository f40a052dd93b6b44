---------------------------- MODULE GuestProofs -----------------------------
(***************************************************************************)
(* The guest keeps the boot protocol, for every image, memory, firmware    *)
(* map and bound.  The argument ties the program counter to the log: at    *)
(* every label the completed records are known, and a record half written  *)
(* is one the protocol allows next.                                        *)
(***************************************************************************)
EXTENDS Guest, TraceLemmas

PrepareLabels ==
  {"open_volume", "open_kernel", "read_kernel", "open_config", "read_config", "parse_config",
   "parse_elf", "load_segment", "reserve_stack_guard", "allocate_contract", "prepared"}
FirmwareGoneLabels == {"exit_boot_services", "encode_contract", "encoded"}

(* The completed records when the processor is at a label. *)
LogAt(label, trace) ==
  /\ label = "main" => trace = <<>>
  /\ label \in PrepareLabels => trace = Started
  /\ label \in {"store_3"} \union FirmwareGoneLabels => trace = Validated
  /\ label \in {"store_4", "transfer", "kernel_entry", "kernel_main"} => trace = HandedOff
  /\ label = "kernel_exit" => trace = <<LOADER_START, ELF_VALID, HANDOFF_READY, KernelVerdict>>
  /\ label = "loader_exit" =>
       \/ \E f \in LoaderFailureSequence2 : trace = <<LOADER_START, f>>
       \/ \E f \in LoaderFailureSequence3 : trace = <<LOADER_START, ELF_VALID, f>>

(* The record under write_record is the protocol's next one, and leads to   *)
(* the records of the label write_record returns to.                        *)
Writing ==
  /\ line.record \in Protocol!Successors
  /\ line.next \in Labels
  /\ LogAt(line.next, Append(log, line.record))

PanicSequence(label) ==
  /\ label \in {"main"} \union PrepareLabels => next_panic_sequence = 2
  /\ label \in FirmwareGoneLabels => next_panic_sequence = 3

InStep ==
  power = "on" =>
    /\ pc \in Labels \union {"write"}
    /\ pc # "write" => LogAt(pc, log) /\ PanicSequence(pc)
    /\ pc = "write" => Writing /\ PanicSequence(line.next)

IInv == TypeOK /\ InStep

(* polytope_kernel_main reports one of the five kernel records. *)
LEMMA VerdictIsKernelRecord == KernelVerdict \in KernelRecords
BY DEF KernelVerdict, KernelRecords, Rejections

(* The records of a boot under way tell its phases apart. *)
LEMMA PrefixesDiffer ==
  /\ <<>> # Started /\ <<>> # Validated /\ <<>> # HandedOff
  /\ Started # Validated /\ Started # HandedOff /\ Validated # HandedOff
BY LengthsDiffer DEF Started, Validated, HandedOff

(* The protocol the guest is compared with has the same records and exits.  *)
LEMMA SameRecords ==
  /\ Protocol!LOADER_START = LOADER_START /\ Protocol!ELF_VALID = ELF_VALID
  /\ Protocol!HANDOFF_READY = HANDOFF_READY
  /\ Protocol!KERNEL_READY = KERNEL_READY /\ Protocol!KERNEL_PANIC = KERNEL_PANIC
  /\ Protocol!Rejections = Rejections /\ Protocol!KernelRecords = KernelRecords
  /\ Protocol!LoaderFailureSequence2 = LoaderFailureSequence2
  /\ Protocol!LoaderFailureSequence3 = LoaderFailureSequence3
<1>1. \A seq, code : Protocol!Record(seq, code) = Record(seq, code)
  BY DEF Protocol!Record, Record
<1>2. /\ Protocol!LOADER_START = LOADER_START /\ Protocol!ELF_VALID = ELF_VALID
      /\ Protocol!HANDOFF_READY = HANDOFF_READY
      /\ Protocol!KERNEL_READY = KERNEL_READY /\ Protocol!KERNEL_PANIC = KERNEL_PANIC
      /\ Protocol!ABI_VERSION_REJECTED = ABI_VERSION_REJECTED
      /\ Protocol!CONTRACT_LENGTH_REJECTED = CONTRACT_LENGTH_REJECTED
      /\ Protocol!CONTRACT_INVALID = CONTRACT_INVALID
      /\ Protocol!CONTRACT_FAILURE = CONTRACT_FAILURE
  BY <1>1 DEF Protocol!LOADER_START, LOADER_START, Protocol!ELF_VALID, ELF_VALID,
       Protocol!HANDOFF_READY, HANDOFF_READY, Protocol!KERNEL_READY, KERNEL_READY,
       Protocol!KERNEL_PANIC, KERNEL_PANIC, Protocol!ABI_VERSION_REJECTED, ABI_VERSION_REJECTED,
       Protocol!CONTRACT_LENGTH_REJECTED, CONTRACT_LENGTH_REJECTED, Protocol!CONTRACT_INVALID,
       CONTRACT_INVALID, Protocol!CONTRACT_FAILURE, CONTRACT_FAILURE
<1>3. \A seq : Protocol!LoaderPanic(seq) = LoaderPanic(seq)
  BY <1>1 DEF Protocol!LoaderPanic, LoaderPanic
<1>4. Protocol!PrepareFailureCodes = PrepareFailureCodes
  BY DEF Protocol!PrepareFailureCodes, PrepareFailureCodes
<1>5. Protocol!LoaderFailureSequence2 = LoaderFailureSequence2
  BY <1>1, <1>3, <1>4 DEF Protocol!LoaderFailureSequence2, LoaderFailureSequence2
<1>6. Protocol!LoaderFailureSequence3 = LoaderFailureSequence3
  BY <1>2, <1>3 DEF Protocol!LoaderFailureSequence3, LoaderFailureSequence3
<1>7. Protocol!Rejections = Rejections /\ Protocol!KernelRecords = KernelRecords
  BY <1>2 DEF Protocol!Rejections, Rejections, Protocol!KernelRecords, KernelRecords
<1> QED
  BY <1>2, <1>5, <1>6, <1>7

(* The instance's traces of a boot under way are the guest's own. *)
LEMMA SameTraces ==
  /\ Protocol!Started = Started /\ Protocol!Validated = Validated
  /\ Protocol!HandedOff = HandedOff
BY SameRecords DEF Protocol!Started, Started, Protocol!Validated, Validated,
   Protocol!HandedOff, HandedOff

(* The instance's exit values are the guest's own. *)
LEMMA SameExits ==
  /\ Protocol!LoaderFailed = LoaderFailed /\ Protocol!Success = Success
  /\ Protocol!ContractRejected = ContractRejected /\ Protocol!KernelPanicked = KernelPanicked
BY DEF Protocol!LoaderFailed, LoaderFailed, Protocol!Success, Success,
   Protocol!ContractRejected, ContractRejected, Protocol!KernelPanicked, KernelPanicked

(* What Successors is on the traces a guest can have. *)
LEMMA SuccessorsOf ==
  /\ log = <<>> => Protocol!Successors = {LOADER_START}
  /\ log = Started => Protocol!Successors = {ELF_VALID} \union LoaderFailureSequence2
  /\ log = Validated => Protocol!Successors = {HANDOFF_READY} \union LoaderFailureSequence3
  /\ log = HandedOff => Protocol!Successors = KernelRecords
  /\ log \notin {<<>>, Started, Validated, HandedOff} => Protocol!Successors = {}
BY PrefixesDiffer, SameRecords, SameTraces DEF Protocol!Successors

(* Starting a record the protocol allows. *)
LEMMA RecordStarts ==
  ASSUME IInv, NEW record, NEW next \in Labels,
         write_record(record, next), power = "on",
         record \in Protocol!Successors, record \in KnownRecords,
         LogAt(next, Append(log, record))', PanicSequence(next)',
         next_panic_sequence' \in {2, 3, 4},
         UNCHANGED bss_cleared, fault' \in BOOLEAN
  PROVE  IInv' /\ UNCHANGED <<log, power, exit_value>>
<1>1. /\ pc' = "write" /\ line' = [record |-> record, next |-> next]
      /\ UNCHANGED <<log, power, exit_value, exit_device>>
  BY DEF write_record
<1>2. line'.record = record /\ line'.next = next
  BY <1>1
<1>3. TypeOK'
  BY <1>1 DEF IInv, TypeOK
<1>4. Protocol!Successors' = Protocol!Successors
  BY <1>1 DEF Protocol!Successors
<1>5. LogAt(line.next, Append(log, line.record))'
  BY <1>1, <1>2 DEF LogAt
<1> QED
  BY <1>1, <1>2, <1>3, <1>4, <1>5 DEF IInv, InStep, Writing, PanicSequence

(* Moving to another label with the same records. *)
LEMMA Moves ==
  ASSUME IInv, NEW label \in Labels, Goto(label), power = "on",
         LogAt(label, log)', PanicSequence(label)',
         next_panic_sequence' \in {2, 3, 4},
         UNCHANGED bss_cleared, fault' \in BOOLEAN
  PROVE  IInv' /\ UNCHANGED <<log, power, exit_value>>
<1>1. /\ pc' = label /\ UNCHANGED <<line, log, power, exit_value, exit_device>>
  BY DEF Goto
<1>2. label # "write"
  BY DEF Labels, LoaderLabels, KernelLabels
<1>3. TypeOK'
  BY <1>1 DEF IInv, TypeOK
<1> QED
  BY <1>1, <1>2, <1>3 DEF IInv, InStep, PanicSequence, LogAt

(* A failure record of prepare_kernel, and one of the steps after it. *)
LEMMA Failure2 ==
  ASSUME IInv, power = "on", log = Started, NEW r \in LoaderFailureSequence2,
         write_record(r, "loader_exit"), next_panic_sequence' \in {2, 3, 4},
         UNCHANGED bss_cleared, fault' \in BOOLEAN
  PROVE  IInv' /\ UNCHANGED <<log, power, exit_value>>
<1>1. UNCHANGED log
  BY DEF write_record
<1>2. Append(log, r)' = <<LOADER_START, r>>
  BY <1>1, Append1 DEF Started
<1>3. LogAt("loader_exit", Append(log, r))'
  BY <1>2 DEF LogAt, PrepareLabels, FirmwareGoneLabels
<1>4. PanicSequence("loader_exit")'
  BY DEF PanicSequence, PrepareLabels, FirmwareGoneLabels
<1>5. "loader_exit" \in Labels
  BY DEF Labels, LoaderLabels
<1> QED
  BY <1>3, <1>4, <1>5, RecordStarts, SuccessorsOf DEF KnownRecords

(* A failure record of the steps after prepare_kernel. *)
LEMMA Failure3 ==
  ASSUME IInv, power = "on", log = Validated, NEW r \in LoaderFailureSequence3,
         write_record(r, "loader_exit"), next_panic_sequence' \in {2, 3, 4},
         UNCHANGED bss_cleared, fault' \in BOOLEAN
  PROVE  IInv' /\ UNCHANGED <<log, power, exit_value>>
<1>1. UNCHANGED log
  BY DEF write_record
<1>2. Append(log, r)' = <<LOADER_START, ELF_VALID, r>>
  BY <1>1, Append2 DEF Validated
<1>3. LogAt("loader_exit", Append(log, r))'
  BY <1>2 DEF LogAt, PrepareLabels, FirmwareGoneLabels
<1>4. PanicSequence("loader_exit")'
  BY DEF PanicSequence, PrepareLabels, FirmwareGoneLabels
<1>5. "loader_exit" \in Labels
  BY DEF Labels, LoaderLabels
<1> QED
  BY <1>3, <1>4, <1>5, RecordStarts, SuccessorsOf DEF KnownRecords

(* Ending the machine with a value the protocol allows. *)
LEMMA Exits ==
  ASSUME IInv, power = "on", NEW code \in QemuExitCodes, qemu_exit(code),
         code \in Protocol!ExitCodes, UNCHANGED <<bss_cleared, fault, next_panic_sequence>>
  PROVE  IInv' /\ (Protocol!Exit \/ Protocol!Halt)
<1>1. IInv'
  BY DEF qemu_exit, IInv, TypeOK, InStep
<1>2. CASE exit_device
  BY <1>1, <1>2 DEF qemu_exit, Protocol!Exit
<1>3. CASE ~exit_device
  BY <1>1, <1>3 DEF qemu_exit, Protocol!Halt
<1> QED
  BY <1>1, <1>2, <1>3 DEF IInv, TypeOK

(* The exit values that agree with the traces before an exit. *)
LEMMA ExitAfterFailure ==
  ASSUME IInv, At("loader_exit")
  PROVE  Protocol!ExitCodes = {LoaderFailed}
<1>1. LogAt("loader_exit", log)
  BY DEF IInv, InStep, At
<1>2. /\ LoaderFailureSequence2 \intersect KernelRecords = {}
      /\ LoaderFailureSequence3 \intersect KernelRecords = {}
  BY DEF LoaderFailureSequence2, LoaderFailureSequence3, LoaderPanic, CONTRACT_FAILURE, Record,
         PrepareFailureCodes, KernelRecords, Rejections, KERNEL_READY, KERNEL_PANIC,
         ABI_VERSION_REJECTED, CONTRACT_LENGTH_REJECTED, CONTRACT_INVALID
<1>3. ELF_VALID \notin LoaderFailureSequence2 /\ HANDOFF_READY \notin LoaderFailureSequence3
  BY DEF LoaderFailureSequence2, LoaderFailureSequence3, LoaderPanic, CONTRACT_FAILURE, Record,
         PrepareFailureCodes, ELF_VALID, HANDOFF_READY
<1>4. ASSUME NEW f \in LoaderFailureSequence2, log = <<LOADER_START, f>>
      PROVE  Protocol!ExitCodes = {LoaderFailed}
  <2>1. log # <<>> /\ log # Started /\ log # Validated /\ log # HandedOff
    BY <1>3, <1>4, LengthsDiffer DEF Started, Validated, HandedOff
  <2>2. log[Len(log)] = f
    BY <1>4
  <2> QED
    BY <1>2, <2>1, <2>2, SuccessorsOf, SameRecords, SameTraces, SameExits
       DEF Protocol!ExitCodes, KernelRecords
<1>5. ASSUME NEW f \in LoaderFailureSequence3, log = <<LOADER_START, ELF_VALID, f>>
      PROVE  Protocol!ExitCodes = {LoaderFailed}
  <2>1. log # <<>> /\ log # Started /\ log # Validated /\ log # HandedOff
    BY <1>3, <1>5, LengthsDiffer DEF Started, Validated, HandedOff
  <2>2. log[Len(log)] = f
    BY <1>5
  <2> QED
    BY <1>2, <2>1, <2>2, SuccessorsOf, SameRecords, SameTraces, SameExits
       DEF Protocol!ExitCodes, KernelRecords
<1> QED
  BY <1>1, <1>4, <1>5 DEF LogAt

(* The exit value that agrees with the kernel's verdict. *)
LEMMA ExitAfterVerdict ==
  ASSUME IInv, At("kernel_exit")
  PROVE  Protocol!ExitCodes = {KernelExitCode(KernelVerdict)}
<1> DEFINE v == KernelVerdict
<1>1. v \in KernelRecords
  BY VerdictIsKernelRecord
<1>2. log = <<LOADER_START, ELF_VALID, HANDOFF_READY, v>>
  BY DEF IInv, InStep, At, LogAt
<1> HIDE DEF v
<1>3. log # <<>> /\ log # Started /\ log # Validated /\ log # HandedOff
  BY <1>2, LengthsDiffer DEF Started, Validated, HandedOff
<1>4. log[Len(log)] = v
  BY <1>2
<1>5. KERNEL_READY # KERNEL_PANIC /\ KERNEL_READY \notin Rejections /\ KERNEL_PANIC \notin Rejections
  BY DEF KERNEL_READY, KERNEL_PANIC, Rejections, ABI_VERSION_REJECTED, CONTRACT_LENGTH_REJECTED,
         CONTRACT_INVALID, Record
<1>6. Protocol!ExitCodes = {KernelExitCode(v)}
  BY <1>1, <1>3, <1>4, <1>5, SuccessorsOf, SameRecords, SameTraces, SameExits
     DEF Protocol!ExitCodes, KernelRecords, KernelExitCode
<1> QED
  BY <1>6 DEF v

-----------------------------------------------------------------------------
(* What every step of prepare_kernel is: a move inside it, or a failure.    *)
LEMMA PrepareMoves ==
  ASSUME IInv, power = "on", pc \in PrepareLabels, NEW next \in PrepareLabels, Goto(next),
         UNCHANGED <<next_panic_sequence, bss_cleared, fault>>
  PROVE  IInv' /\ UNCHANGED <<log, power, exit_value>>
<1>1. pc # "write" /\ next \in Labels
  BY DEF PrepareLabels, Labels, LoaderLabels
<1>2. log = Started /\ next_panic_sequence = 2
  BY <1>1 DEF IInv, InStep, LogAt, PanicSequence
<1>3. LogAt(next, log)' /\ PanicSequence(next)'
  BY <1>2 DEF Goto, LogAt, PanicSequence, PrepareLabels, FirmwareGoneLabels
<1> QED
  BY <1>1, <1>2, <1>3, Moves DEF IInv, TypeOK

(* A failure inside prepare_kernel is one the protocol allows. *)
LEMMA PrepareFails ==
  ASSUME IInv, power = "on", pc \in PrepareLabels, NEW error \in PrepareFailureCodes, fail(error),
         UNCHANGED <<next_panic_sequence, bss_cleared>>, fault' \in BOOLEAN
  PROVE  IInv' /\ UNCHANGED <<log, power, exit_value>>
<1>1. pc # "write"
  BY DEF PrepareLabels
<1>2. log = Started /\ next_panic_sequence = 2
  BY <1>1 DEF IInv, InStep, LogAt, PanicSequence
<1>3. LoaderMarker(error) \in LoaderFailureSequence2
  BY DEF LoaderMarker, LoaderFailureSequence2, PrepareFailureCodes
<1> QED
  BY <1>2, <1>3, Failure2 DEF fail

(* The steps of the loader and of the kernel, in the order of the code. *)
LEMMA StartStep ==
  ASSUME IInv, Start
  PROVE  IInv' /\ UNCHANGED <<log, power, exit_value>>
<1>1. log = <<>> /\ next_panic_sequence = 2
  BY DEF Start, At, IInv, InStep, LogAt, PanicSequence
<1>2. write_record(LOADER_START, "open_volume") /\ power = "on"
      /\ UNCHANGED <<log, next_panic_sequence, bss_cleared, fault>>
  BY DEF Start, At, loader, write_record
<1>3. Append(log, LOADER_START)' = Started
  BY <1>1, <1>2 DEF Started
<1>4. LogAt("open_volume", Append(log, LOADER_START))' /\ PanicSequence("open_volume")'
  BY <1>1, <1>2, <1>3 DEF LogAt, PanicSequence, PrepareLabels, FirmwareGoneLabels
<1>5. "open_volume" \in Labels /\ LOADER_START \in KnownRecords
  BY DEF Labels, LoaderLabels, KnownRecords
<1> QED
  BY <1>1, <1>2, <1>4, <1>5, RecordStarts, SuccessorsOf DEF IInv, TypeOK

(* A firmware call of prepare_kernel fails. *)
LEMMA FirmwareFailsStep ==
  ASSUME IInv, FirmwareFails
  PROVE  IInv' /\ UNCHANGED <<log, power, exit_value>>
<1>1. PICK error \in FirmwareErrors(pc) : fail(error)
  BY DEF FirmwareFails
<1>2. error \in PrepareFailureCodes /\ pc \in PrepareLabels
  BY DEF FirmwareErrors, PrepareFailureCodes, PrepareLabels
<1> QED
  BY <1>1, <1>2, PrepareFails DEF FirmwareFails

(* The panic handler, with the sequence number stored before. *)
LEMMA LoaderPanicsStep ==
  ASSUME IInv, LoaderPanics
  PROVE  IInv' /\ UNCHANGED <<log, power, exit_value>>
<1>1. /\ power = "on" /\ pc \in PanicLabels /\ pc # "write"
      /\ UNCHANGED <<next_panic_sequence, bss_cleared>> /\ fault' \in BOOLEAN
      /\ next_panic_sequence' \in {2, 3, 4}
  BY DEF LoaderPanics, PanicLabels, IInv, TypeOK
<1>2. LogAt(pc, log) /\ PanicSequence(pc)
  BY <1>1 DEF IInv, InStep
<1>3. CASE pc \in PrepareLabels
  <2>1. log = Started /\ next_panic_sequence = 2
    BY <1>2, <1>3 DEF LogAt, PanicSequence
  <2>2. write_record(LoaderPanic(2), "loader_exit")
    BY <2>1 DEF LoaderPanics
  <2>3. LoaderPanic(2) \in LoaderFailureSequence2
    BY DEF LoaderFailureSequence2
  <2> QED
    BY <1>1, <2>1, <2>2, <2>3, Failure2
<1>4. CASE pc \in FirmwareGoneLabels
  <2>1. log = Validated /\ next_panic_sequence = 3
    BY <1>2, <1>4 DEF LogAt, PanicSequence
  <2>2. write_record(LoaderPanic(3), "loader_exit")
    BY <2>1 DEF LoaderPanics
  <2>3. LoaderPanic(3) \in LoaderFailureSequence3
    BY DEF LoaderFailureSequence3
  <2> QED
    BY <1>1, <2>1, <2>2, <2>3, Failure3
<1> QED
  BY <1>1, <1>3, <1>4 DEF PanicLabels, PrepareLabels, FirmwareGoneLabels

(* The steps of prepare_kernel. *)
LEMMA PrepareStep ==
  ASSUME IInv,
         \/ OpenVolume \/ OpenKernel \/ ReadKernel \/ OpenConfig \/ ReadConfig
         \/ ParseConfig \/ ParseElf \/ LoadSegment \/ ReserveStackGuard \/ AllocateContract
  PROVE  IInv' /\ UNCHANGED <<log, power, exit_value>>
<1> DEFINE Step ==
      /\ power = "on" /\ pc \in PrepareLabels
      /\ UNCHANGED <<next_panic_sequence, bss_cleared, fault>>
      /\ \/ \E next \in PrepareLabels : Goto(next)
         \/ \E error \in PrepareFailureCodes : fail(error)
<1>1. Step => IInv' /\ UNCHANGED <<log, power, exit_value>>
  BY PrepareMoves, PrepareFails DEF IInv, TypeOK
<1> USE DEF At, loader, PrepareLabels, PrepareFailureCodes
<1>2. OpenVolume => Step
  BY DEF OpenVolume
<1>3. OpenKernel => Step
  BY DEF OpenKernel, OpenFile
<1>4. ReadKernel => Step
  BY DEF ReadKernel, ReadChunk
<1>5. OpenConfig => Step
  BY DEF OpenConfig, OpenFile
<1>6. ReadConfig => Step
  BY DEF ReadConfig, ReadChunk
<1>7. ParseConfig => Step
  BY DEF ParseConfig
<1>8. ParseElf => Step
  BY DEF ParseElf
<1>9. LoadSegment => Step
  BY DEF LoadSegment
<1>10. ReserveStackGuard => Step
  BY DEF ReserveStackGuard
<1>11. AllocateContract => Step
  BY DEF AllocateContract
<1> HIDE DEF Step
<1> QED
  BY <1>1, <1>2, <1>3, <1>4, <1>5, <1>6, <1>7, <1>8, <1>9, <1>10, <1>11

(* The steps of main after prepare_kernel. *)
LEMMA PreparedStep ==
  ASSUME IInv, Prepared
  PROVE  IInv' /\ UNCHANGED <<log, power, exit_value>>
<1>1. log = Started
  BY DEF Prepared, At, IInv, InStep, LogAt, PrepareLabels
<1>2. write_record(ELF_VALID, "store_3") /\ power = "on"
      /\ UNCHANGED <<log, next_panic_sequence, bss_cleared, fault>>
  BY DEF Prepared, At, loader, write_record
<1>3. Append(log, ELF_VALID)' = Validated
  BY <1>1, <1>2, Append1 DEF Started, Validated
<1>4. LogAt("store_3", Append(log, ELF_VALID))' /\ PanicSequence("store_3")'
  BY <1>2, <1>3 DEF LogAt, PanicSequence, PrepareLabels, FirmwareGoneLabels
<1>5. "store_3" \in Labels /\ ELF_VALID \in KnownRecords
  BY DEF Labels, LoaderLabels, KnownRecords
<1> QED
  BY <1>1, <1>2, <1>4, <1>5, RecordStarts, SuccessorsOf DEF IInv, TypeOK

(* The two stores of the panic sequence number. *)
LEMMA StoreStep ==
  ASSUME IInv, Store3 \/ Store4
  PROVE  IInv' /\ UNCHANGED <<log, power, exit_value>>
<1>1. CASE Store3
  <2>1. log = Validated /\ power = "on" /\ Goto("exit_boot_services")
        /\ next_panic_sequence' = 3 /\ UNCHANGED <<log, bss_cleared, fault>>
    BY <1>1 DEF Store3, StorePanicSequence, At, Goto, IInv, InStep, LogAt
  <2>2. LogAt("exit_boot_services", log)' /\ PanicSequence("exit_boot_services")'
    BY <2>1 DEF LogAt, PanicSequence, PrepareLabels, FirmwareGoneLabels
  <2>3. "exit_boot_services" \in Labels
    BY DEF Labels, LoaderLabels
  <2> QED
    BY <2>1, <2>2, <2>3, Moves DEF IInv, TypeOK
<1>2. CASE Store4
  <2>1. log = HandedOff /\ power = "on" /\ Goto("transfer")
        /\ next_panic_sequence' = 4 /\ UNCHANGED <<log, bss_cleared, fault>>
    BY <1>2 DEF Store4, StorePanicSequence, At, Goto, IInv, InStep, LogAt
  <2>2. LogAt("transfer", log)' /\ PanicSequence("transfer")'
    BY <2>1 DEF LogAt, PanicSequence, PrepareLabels, FirmwareGoneLabels
  <2>3. "transfer" \in Labels
    BY DEF Labels, LoaderLabels
  <2> QED
    BY <2>1, <2>2, <2>3, Moves DEF IInv, TypeOK
<1> QED
  BY <1>1, <1>2

(* Boot services end and the map is sorted. *)
LEMMA ExitBootServicesStep ==
  ASSUME IInv, ExitBootServices
  PROVE  IInv' /\ UNCHANGED <<log, power, exit_value>>
<1>1. pc = "exit_boot_services" /\ power = "on" /\ Goto("encode_contract")
      /\ UNCHANGED <<log, next_panic_sequence, bss_cleared, fault>>
  BY DEF ExitBootServices, At, Goto
<1>2. log = Validated /\ next_panic_sequence = 3
  BY <1>1 DEF IInv, InStep, LogAt, PanicSequence, FirmwareGoneLabels
<1>3. LogAt("encode_contract", log)' /\ PanicSequence("encode_contract")'
  BY <1>1, <1>2 DEF LogAt, PanicSequence, PrepareLabels, FirmwareGoneLabels
<1>4. "encode_contract" \in Labels
  BY DEF Labels, LoaderLabels
<1> QED
  BY <1>1, <1>3, <1>4, Moves DEF IInv, TypeOK

(* The firmware resets the machine instead. *)
LEMMA ColdResetStep ==
  ASSUME IInv, ColdReset
  PROVE  IInv' /\ Protocol!Reset
<1>1. log = Validated
  BY DEF ColdReset, At, IInv, InStep, LogAt, FirmwareGoneLabels
<1>2. Protocol!Reset
  BY <1>1, SameTraces DEF ColdReset, At, Protocol!Reset
<1>3. TypeOK' /\ power' # "on"
  BY DEF ColdReset, IInv, TypeOK
<1> QED
  BY <1>2, <1>3 DEF IInv, InStep

(* encode_contract succeeds or fails with CONTRACT_BUILD. *)
LEMMA EncodeContractStep ==
  ASSUME IInv, EncodeContract
  PROVE  IInv' /\ UNCHANGED <<log, power, exit_value>>
<1>1. /\ pc = "encode_contract" /\ power = "on"
      /\ Goto("encoded") \/ fail("CONTRACT_BUILD")
      /\ UNCHANGED <<log, next_panic_sequence, bss_cleared, fault>>
  BY DEF EncodeContract, At, Goto, fail, write_record
<1>2. log = Validated /\ next_panic_sequence = 3
  BY <1>1 DEF IInv, InStep, LogAt, PanicSequence, FirmwareGoneLabels
<1>3. CASE Goto("encoded")
  <2>1. LogAt("encoded", log)' /\ PanicSequence("encoded")'
    BY <1>1, <1>2 DEF LogAt, PanicSequence, PrepareLabels, FirmwareGoneLabels
  <2>2. "encoded" \in Labels
    BY DEF Labels, LoaderLabels
  <2> QED
    BY <1>1, <1>3, <2>1, <2>2, Moves DEF IInv, TypeOK
<1>4. CASE fail("CONTRACT_BUILD")
  BY <1>1, <1>2, <1>4, Failure3 DEF fail, LoaderMarker, LoaderFailureSequence3, IInv, TypeOK
<1> QED
  BY <1>1, <1>3, <1>4

(* HANDOFF_READY is written. *)
LEMMA EncodedStep ==
  ASSUME IInv, Encoded
  PROVE  IInv' /\ UNCHANGED <<log, power, exit_value>>
<1>1. log = Validated
  BY DEF Encoded, At, IInv, InStep, LogAt, FirmwareGoneLabels
<1>2. write_record(HANDOFF_READY, "store_4") /\ power = "on"
      /\ UNCHANGED <<log, next_panic_sequence, bss_cleared, fault>>
  BY DEF Encoded, At, loader, write_record
<1>3. Append(log, HANDOFF_READY)' = HandedOff
  BY <1>1, <1>2, Append2 DEF Validated, HandedOff
<1>4. LogAt("store_4", Append(log, HANDOFF_READY))' /\ PanicSequence("store_4")'
  BY <1>2, <1>3 DEF LogAt, PanicSequence, PrepareLabels, FirmwareGoneLabels
<1>5. "store_4" \in Labels /\ HANDOFF_READY \in KnownRecords
  BY DEF Labels, LoaderLabels, KnownRecords
<1> QED
  BY <1>1, <1>2, <1>4, <1>5, RecordStarts, SuccessorsOf DEF IInv, TypeOK

(* The jump into the kernel. *)
LEMMA TransferStep ==
  ASSUME IInv, TransferToKernel
  PROVE  IInv' /\ UNCHANGED <<log, power, exit_value>>
<1>1. log = HandedOff /\ power = "on" /\ Goto("kernel_entry")
      /\ UNCHANGED <<log, next_panic_sequence, bss_cleared, fault>>
  BY DEF TransferToKernel, At, Goto, loader, IInv, InStep, LogAt
<1>2. LogAt("kernel_entry", log)' /\ PanicSequence("kernel_entry")'
  BY <1>1 DEF LogAt, PanicSequence, PrepareLabels, FirmwareGoneLabels
<1>3. "kernel_entry" \in Labels
  BY DEF Labels, KernelLabels
<1> QED
  BY <1>1, <1>2, <1>3, Moves DEF IInv, TypeOK

(* The debug exit after a loader failure. *)
LEMMA LoaderExitStep ==
  ASSUME IInv, LoaderExit
  PROVE  IInv' /\ (Protocol!Exit \/ Protocol!Halt)
<1>1. LoaderFailed \in QemuExitCodes
  BY DEF QemuExitCodes
<1> QED
  BY <1>1, ExitAfterFailure, Exits DEF LoaderExit, At, loader

(* A record is complete: the one step that lengthens the log. *)
LEMMA WriteEndsStep ==
  ASSUME IInv, WriteEnds
  PROVE  IInv' /\ Protocol!Emit
<1>1. /\ power = "on" /\ pc = "write"
      /\ log' = Append(log, line.record) /\ pc' = line.next /\ line' = NO_LINE
      /\ UNCHANGED <<power, exit_value, exit_device, next_panic_sequence, fault,
                     handoff, contract, bss_cleared>>
  BY DEF WriteEnds, EndRecord, At, loader
<1>2. Writing /\ PanicSequence(line.next)
  BY <1>1 DEF IInv, InStep
<1>3. line.record \in Protocol!Successors /\ line.next \in Labels
  BY <1>2 DEF Writing
<1>4. Protocol!Emit
  BY <1>1, <1>3 DEF Protocol!Emit
<1>5. line.record \in KnownRecords
  BY <1>3, SuccessorsOf DEF KnownRecords
<1>6. NO_LINE \in [record : KnownRecords \union {PROSE}, next : Labels \union {NONE}]
  BY DEF NO_LINE
<1>7. TypeOK'
  BY <1>1, <1>3, <1>5, <1>6 DEF IInv, TypeOK
<1>8. KernelVerdict' = KernelVerdict
  BY <1>1 DEF KernelVerdict
<1>9. LogAt(pc, log)' /\ PanicSequence(pc)'
  BY <1>1, <1>2, <1>8 DEF Writing, LogAt, PanicSequence
<1>10. pc' # "write"
  BY <1>1, <1>3 DEF Labels, LoaderLabels, KernelLabels
<1> QED
  BY <1>1, <1>3, <1>4, <1>7, <1>9, <1>10 DEF IInv, InStep

(* The kernel. *)
LEMMA EntryShimStep ==
  ASSUME IInv, EntryShim, UNCHANGED <<next_panic_sequence, fault>>
  PROVE  IInv' /\ (UNCHANGED <<log, power, exit_value>> \/ Protocol!Exit \/ Protocol!Halt)
<1>1. log = HandedOff /\ power = "on" /\ UNCHANGED bss_cleared
  BY DEF EntryShim, At, kernel_input, IInv, InStep, LogAt
<1>2. CASE Goto("kernel_main")
  <2>1. LogAt("kernel_main", log)' /\ PanicSequence("kernel_main")'
    BY <1>1, <1>2 DEF Goto, LogAt, PanicSequence, PrepareLabels, FirmwareGoneLabels
  <2>2. "kernel_main" \in Labels
    BY DEF Labels, KernelLabels
  <2> QED
    BY <1>1, <1>2, <2>1, <2>2, Moves DEF IInv, TypeOK
<1>3. CASE qemu_exit(LoaderFailed)
  <2>1. LoaderFailed \in Protocol!ExitCodes
    BY <1>1, SameTraces, SameExits DEF Protocol!ExitCodes
  <2>2. LoaderFailed \in QemuExitCodes
    BY DEF QemuExitCodes
  <2> QED
    BY <1>1, <1>3, <2>1, <2>2, Exits
<1> QED
  BY <1>2, <1>3 DEF EntryShim

(* The kernel writes its verdict. *)
LEMMA KernelMainStep ==
  ASSUME IInv, KernelMain, UNCHANGED <<next_panic_sequence, fault>>
  PROVE  IInv' /\ UNCHANGED <<log, power, exit_value>>
<1> DEFINE v == KernelVerdict
<1>1. log = HandedOff
  BY DEF KernelMain, At, IInv, InStep, LogAt
<1>2. write_record(v, "kernel_exit") /\ power = "on"
      /\ UNCHANGED <<log, handoff, contract, bss_cleared>>
  BY DEF KernelMain, At, kernel_input, write_record
<1>3. v \in KernelRecords
  BY VerdictIsKernelRecord
<1>4. KernelVerdict' = v
  BY <1>2 DEF KernelVerdict
<1> HIDE DEF v
<1>5. Append(log', v) = <<LOADER_START, ELF_VALID, HANDOFF_READY, v>>
  BY <1>1, <1>2, Append3 DEF HandedOff
<1>6. "kernel_exit" \in Labels /\ v \in KnownRecords /\ v \in Protocol!Successors
  BY <1>1, <1>3, SuccessorsOf DEF Labels, KernelLabels, KnownRecords
<1>7. PanicSequence("kernel_exit")'
  BY DEF PanicSequence, PrepareLabels, FirmwareGoneLabels
<1>8. TypeOK' /\ line'.record = v /\ line'.next = "kernel_exit" /\ pc' = "write"
      /\ UNCHANGED <<log, power, exit_value>>
  BY <1>2, <1>6 DEF write_record, IInv, TypeOK
<1>9. LogAt(line.next, Append(log, line.record))'
  BY <1>4, <1>5, <1>8 DEF LogAt, PrepareLabels, FirmwareGoneLabels
<1>10. Protocol!Successors' = Protocol!Successors
  BY <1>8 DEF Protocol!Successors
<1> QED
  BY <1>6, <1>7, <1>8, <1>9, <1>10 DEF IInv, InStep, Writing, PanicSequence

(* The kernel's debug exit. *)
LEMMA KernelExitStep ==
  ASSUME IInv, KernelExit, UNCHANGED <<next_panic_sequence, fault>>
  PROVE  IInv' /\ (Protocol!Exit \/ Protocol!Halt)
<1>1. KernelExitCode(KernelVerdict) \in QemuExitCodes
  BY DEF KernelExitCode, QemuExitCodes
<1> QED
  BY <1>1, ExitAfterVerdict, Exits DEF KernelExit, At, kernel_input

-----------------------------------------------------------------------------
(* The invariant holds when the loader is entered. *)
LEMMA InitHolds ==
  ASSUME Init
  PROVE  IInv /\ Protocol!Init
<1>1. TypeOK
  <2>1. NO_LINE \in [record : KnownRecords \union {PROSE}, next : Labels \union {NONE}]
    BY DEF NO_LINE
  <2>2. "main" \in Labels
    BY DEF Labels, LoaderLabels
  <2>3. pc = "main" /\ line = NO_LINE /\ log = <<>> /\ power = "on" /\ exit_value = 0
        /\ next_panic_sequence = 2
    BY DEF Init, MachineInit, LoaderInit
  <2>4. exit_device \in BOOLEAN /\ bss_cleared \in BOOLEAN
    BY DEF Init, MachineInit, LoaderInit
  <2>5. fault \in BOOLEAN
    BY Zenon DEF Init, LoaderInit
  <2> QED
    BY <2>1, <2>2, <2>3, <2>4, <2>5 DEF TypeOK
<1>2. InStep
  BY DEF Init, MachineInit, LoaderInit, InStep, LogAt, PanicSequence, PrepareLabels,
         FirmwareGoneLabels, Labels, LoaderLabels
<1> QED
  BY <1>1, <1>2 DEF IInv, Init, MachineInit, Protocol!Init

(* Every step keeps the invariant and is a step of the protocol. *)
LEMMA StepHolds ==
  ASSUME IInv, [Next]_vars
  PROVE  IInv' /\ [Protocol!Next]_(Protocol!vars)
<1> DEFINE Kept == IInv' /\ [Protocol!Next]_(Protocol!vars)
<1>1. IInv' /\ UNCHANGED <<log, power, exit_value>> => Kept
  BY DEF Protocol!vars
<1>2. IInv' /\ (Protocol!Emit \/ Protocol!Exit \/ Protocol!Halt \/ Protocol!Reset) => Kept
  BY DEF Protocol!Next
<1> HIDE DEF Kept
<1>3. ASSUME LoaderStep PROVE Kept
  BY <1>1, <1>2, <1>3, StartStep, LoaderExitStep, FirmwareFailsStep, LoaderPanicsStep, PrepareStep,
     PreparedStep, StoreStep, ExitBootServicesStep, ColdResetStep, EncodeContractStep,
     EncodedStep, TransferStep DEF LoaderStep
<1>4. ASSUME WriteEnds PROVE Kept
  BY <1>2, <1>4, WriteEndsStep
<1>5. ASSUME KernelRuns PROVE Kept
  BY <1>1, <1>2, <1>5, EntryShimStep, KernelMainStep, KernelExitStep DEF KernelRuns, KernelStep
<1>6. ASSUME UNCHANGED vars PROVE Kept
  <2>1. KernelVerdict' = KernelVerdict
    BY <1>6 DEF vars, loader, KernelVerdict
  <2>2. TypeOK'
    BY <1>6 DEF vars, machine, loader, IInv, TypeOK
  <2>3. InStep'
    BY <1>6, <2>1 DEF vars, machine, loader, IInv, InStep, LogAt, PanicSequence, Writing,
       Protocol!Successors
  <2> QED
    BY <1>1, <1>6, <2>2, <2>3 DEF IInv, vars, machine
<1> QED
  BY <1>3, <1>4, <1>5, <1>6 DEF Next, Kept

(* The machine's and the loader's variables keep their types, for every     *)
(* boot medium and every firmware (all of main.rs, entry.S and x86_64.rs).  *)
THEOREM GuestTypes == Spec => []TypeOK
<1>1. Init => IInv
  BY InitHolds
<1>2. IInv /\ [Next]_vars => IInv'
  BY StepHolds
<1>3. IInv => TypeOK
  BY DEF IInv
<1> QED
  BY <1>1, <1>2, <1>3, PTL DEF Spec

(* The guest implements BootProtocol: on every boot medium, memory and      *)
(* firmware map, whatever call fails and wherever a library panics, the     *)
(* completed records are a canonical boot and the exit value agrees with    *)
(* the last one (main, fail, the panic handlers, polytope_kernel_main).     *)
THEOREM GuestKeepsProtocol == Spec => KeepsProtocol
<1>1. Init => IInv /\ Protocol!Init
  BY InitHolds
<1>2. IInv /\ [Next]_vars => IInv' /\ [Protocol!Next]_(Protocol!vars)
  BY StepHolds
<1> QED
  BY <1>1, <1>2, PTL DEF Spec, KeepsProtocol, Protocol!Spec
=============================================================================
