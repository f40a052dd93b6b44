------------------------------ MODULE BootElf -------------------------------
(***************************************************************************)
(* The kernel-image parser (crates/boot-elf): the checks on the ELF header *)
(* and, header by header, validate_program_headers.  The file is           *)
(* arbitrary; its identification bytes and its fixed header fields are     *)
(* told apart only by being the supported ones or not.  U64_BOUND stands   *)
(* for 2^64: a checked operation fails when its result reaches it.         *)
(***************************************************************************)
EXTENDS Integers, Sequences

CONSTANTS
  MIN_LOAD_ADDRESS, MAX_LOAD_ADDRESS_EXCLUSIVE,   \* the load window
  MAX_ELF_FILE_SIZE, MAX_PROGRAM_HEADERS, MAX_LOAD_SEGMENTS, MAX_TOTAL_LOAD_SIZE,
  PAGE_SIZE, MAX_SEGMENT_ALIGNMENT,
  ELF_HEADER_SIZE, PROGRAM_HEADER_SIZE,           \* 64 and 56 in the code
  U64_BOUND,
  Frames,        \* the ELF headers considered, with the size of the file
  Headers        \* the program headers a table is made of

ASSUME LimitsAssumption ==
  /\ U64_BOUND \in Nat /\ MIN_LOAD_ADDRESS \in Nat /\ MAX_LOAD_ADDRESS_EXCLUSIVE \in Nat
  /\ MAX_ELF_FILE_SIZE \in Nat /\ MAX_PROGRAM_HEADERS \in Nat /\ MAX_LOAD_SEGMENTS \in Nat
  /\ MAX_TOTAL_LOAD_SIZE \in Nat /\ MAX_SEGMENT_ALIGNMENT \in Nat
  /\ ELF_HEADER_SIZE \in Nat /\ PROGRAM_HEADER_SIZE \in Nat
ASSUME PageAssumption == PAGE_SIZE \in Nat \ {0}

PT_NULL == 0
PT_LOAD == 1

U64 == 0 .. U64_BOUND - 1

ProgramHeaders ==
  [kind : Nat, flags : SUBSET {"R", "W", "X", "other"}, file_offset : U64,
   virtual_address : U64, physical_address : U64, file_size : U64, memory_size : U64,
   alignment : U64]

ASSUME FramesAssumption ==
  Frames \subseteq [size : Nat, identified : BOOLEAN, supported : BOOLEAN, entry : U64,
                    program_header_offset : U64, program_header_count : Nat]
ASSUME HeadersAssumption == Headers \subseteq ProgramHeaders

VARIABLES
  file,                 \* a frame
  program_headers,      \* and the table of the file
  index,                \* the program header the loop has reached
  load_count, total_load_size,
  previous_start, previous_end,   \* of the last load segment
  entry_is_executable,
  result                \* "header", "running", "ok" or the error returned

vars == <<file, program_headers, index, load_count, total_load_size, previous_start,
          previous_end, entry_is_executable, result>>

(* parse up to the program headers: validate_identification, parse_header.  *)
header_error(f) ==
  LET count == f.program_header_count
      table_end == f.program_header_offset + count * PROGRAM_HEADER_SIZE
  IN
  IF      f.size < ELF_HEADER_SIZE                        THEN "Truncated"
  ELSE IF f.size > MAX_ELF_FILE_SIZE                      THEN "FileTooLarge"
  ELSE IF ~f.identified                                   THEN "UnsupportedIdentification"
  ELSE IF ~f.supported                                    THEN "UnsupportedHeader"
  ELSE IF count = 0 \/ count > MAX_PROGRAM_HEADERS        THEN "InvalidProgramHeaderCount"
  ELSE IF f.program_header_offset < ELF_HEADER_SIZE       THEN "ProgramHeaderTableOverlapsHeader"
  ELSE IF table_end >= U64_BOUND                          THEN "ProgramHeaderTableOverflow"
  ELSE IF table_end > f.size                              THEN "ProgramHeaderTableOutOfBounds"
  ELSE IF f.entry < MIN_LOAD_ADDRESS \/ f.entry >= MAX_LOAD_ADDRESS_EXCLUSIVE
                                                          THEN "EntryOutsideLoadWindow"
  ELSE "ok"

(* The table is looked at only behind a sound header. *)
Init ==
  /\ file \in Frames
  /\ LET count == IF header_error(file) = "ok" THEN file.program_header_count ELSE 0
     IN  program_headers \in [1 .. count -> Headers]
  /\ index = 1 /\ load_count = 0 /\ total_load_size = 0
  /\ previous_start = 0 /\ previous_end = 0
  /\ entry_is_executable = FALSE
  /\ result = "header"

-----------------------------------------------------------------------------
is_power_of_two(n) == n > 0 /\ \A d \in 2 .. n : n % d = 0 => d % 2 = 0

validate_load_segment(h, file_size) ==
  IF      "other" \in h.flags                             THEN "UnknownSegmentFlags"
  ELSE IF "R" \notin h.flags                              THEN "NonReadableSegment"
  ELSE IF {"W", "X"} \subseteq h.flags                    THEN "WriteExecuteSegment"
  ELSE IF h.memory_size = 0                               THEN "EmptyMemorySegment"
  ELSE IF h.file_size > h.memory_size                     THEN "FileLargerThanMemory"
  ELSE IF h.file_offset + h.file_size >= U64_BOUND        THEN "SegmentFileRangeOverflow"
  ELSE IF h.file_offset + h.file_size > file_size         THEN "SegmentFileRangeOutOfBounds"
  ELSE IF h.virtual_address # h.physical_address          THEN "VirtualPhysicalAddressMismatch"
  ELSE IF \/ ~is_power_of_two(h.alignment)
          \/ h.alignment < PAGE_SIZE \/ h.alignment > MAX_SEGMENT_ALIGNMENT
                                                          THEN "InvalidSegmentAlignment"
  ELSE IF \/ h.physical_address % PAGE_SIZE # 0
          \/ h.physical_address % h.alignment # h.file_offset % h.alignment
                                                          THEN "MisalignedSegment"
  ELSE IF h.physical_address + h.memory_size >= U64_BOUND THEN "SegmentMemoryRangeOverflow"
  ELSE IF \/ h.physical_address < MIN_LOAD_ADDRESS
          \/ h.physical_address + h.memory_size > MAX_LOAD_ADDRESS_EXCLUSIVE
                                                          THEN "SegmentOutsideLoadWindow"
  ELSE "ok"

align_up(value, alignment) == ((value + alignment - 1) \div alignment) * alignment

PageEnd(h) == align_up(h.physical_address + h.memory_size, PAGE_SIZE)

(* Plausible mistakes in the next operator: segments compared by their      *)
(* start, and segments that touch taken for overlapping ones.               *)
SegmentErrorByStart(h, file_size, loads, start, end, total) ==
  LET error == validate_load_segment(h, file_size) IN
  IF      loads >= MAX_LOAD_SEGMENTS                      THEN "TooManyLoadSegments"
  ELSE IF error # "ok"                                    THEN error
  ELSE IF loads > 0 /\ h.physical_address <= start        THEN "UnsortedSegments"
  ELSE IF total + h.memory_size > MAX_TOTAL_LOAD_SIZE     THEN "TotalLoadSizeTooLarge"
  ELSE "ok"

SegmentErrorWithGaps(h, file_size, loads, start, end, total) ==
  LET error == validate_load_segment(h, file_size) IN
  IF      loads >= MAX_LOAD_SEGMENTS                      THEN "TooManyLoadSegments"
  ELSE IF error # "ok"                                    THEN error
  ELSE IF loads > 0 /\ h.physical_address < start         THEN "UnsortedSegments"
  ELSE IF loads > 0 /\ h.physical_address <= end          THEN "OverlappingSegments"
  ELSE IF total + h.memory_size > MAX_TOTAL_LOAD_SIZE     THEN "TotalLoadSizeTooLarge"
  ELSE "ok"

(* One turn of validate_program_headers over a load segment, after `loads`  *)
(* earlier ones that ended at `end` and took up `total` bytes.              *)
segment_error(h, file_size, loads, start, end, total) ==
  LET error == validate_load_segment(h, file_size) IN
  IF      loads >= MAX_LOAD_SEGMENTS                      THEN "TooManyLoadSegments"
  ELSE IF error # "ok"                                    THEN error
  ELSE IF h.physical_address + h.memory_size + PAGE_SIZE - 1 >= U64_BOUND
                                                          THEN "SegmentMemoryRangeOverflow"
  ELSE IF loads > 0 /\ h.physical_address < start         THEN "UnsortedSegments"
  ELSE IF loads > 0 /\ h.physical_address < end           THEN "OverlappingSegments"
  ELSE IF total + h.memory_size >= U64_BOUND              THEN "TotalLoadSizeOverflow"
  ELSE IF total + h.memory_size > MAX_TOTAL_LOAD_SIZE     THEN "TotalLoadSizeTooLarge"
  ELSE "ok"

header == program_headers[index]
SegmentError ==
  segment_error(header, file.size, load_count, previous_start, previous_end, total_load_size)

(* Plausible mistake: any segment may hold the entry point. *)
ContainsInAny(h, address) ==
  h.virtual_address <= address /\ address < h.virtual_address + h.memory_size

Contains(h, address) ==
  /\ "X" \in h.flags
  /\ h.virtual_address <= address /\ address < h.virtual_address + h.memory_size

-----------------------------------------------------------------------------
ParseHeader ==
  /\ result = "header"
  /\ result' = IF header_error(file) = "ok" THEN "running" ELSE header_error(file)
  /\ UNCHANGED <<file, program_headers, index, load_count, total_load_size, previous_start,
                 previous_end, entry_is_executable>>

AtHeader == result = "running" /\ index <= Len(program_headers)

SkipHeader ==
  /\ AtHeader /\ header.kind = PT_NULL
  /\ index' = index + 1
  /\ UNCHANGED <<file, program_headers, load_count, total_load_size, previous_start,
                 previous_end, entry_is_executable, result>>

AcceptSegment ==
  /\ AtHeader /\ header.kind = PT_LOAD /\ SegmentError = "ok"
  /\ index' = index + 1
  /\ load_count' = load_count + 1
  /\ total_load_size' = total_load_size + header.memory_size
  /\ previous_start' = header.physical_address
  /\ previous_end' = PageEnd(header)
  /\ entry_is_executable' = IF Contains(header, file.entry) THEN TRUE ELSE entry_is_executable
  /\ UNCHANGED <<file, program_headers, result>>

RejectHeader ==
  /\ AtHeader
  /\ \/ header.kind \notin {PT_NULL, PT_LOAD} /\ result' = "UnsupportedProgramHeaderType"
     \/ header.kind = PT_LOAD /\ SegmentError # "ok" /\ result' = SegmentError
  /\ UNCHANGED <<file, program_headers, index, load_count, total_load_size, previous_start,
                 previous_end, entry_is_executable>>

Finish ==
  /\ result = "running" /\ index > Len(program_headers)
  /\ result' = IF load_count = 0 THEN "NoLoadSegments"
               ELSE IF ~entry_is_executable THEN "EntryNotExecutable"
               ELSE "ok"
  /\ UNCHANGED <<file, program_headers, index, load_count, total_load_size, previous_start,
                 previous_end, entry_is_executable>>

Next == ParseHeader \/ SkipHeader \/ AcceptSegment \/ RejectHeader \/ Finish

Spec == Init /\ [][Next]_vars

-----------------------------------------------------------------------------
(* The locals of the loop keep their types; no checked sum wraps. *)
TypeOK ==
  /\ file \in Frames /\ program_headers \in Seq(Headers)
  /\ index \in 1 .. Len(program_headers) + 1
  /\ load_count \in 0 .. MAX_LOAD_SEGMENTS
  /\ total_load_size \in 0 .. MAX_TOTAL_LOAD_SIZE
  /\ previous_start \in U64 /\ previous_end \in U64
  /\ entry_is_executable \in BOOLEAN

(* The load segments among the first n headers. *)
Loads(n) == {i \in 1 .. n : program_headers[i].kind = PT_LOAD}

(* A segment the loader may act on: it reads file_size bytes inside the     *)
(* file and fills whole pages inside the load window.                       *)
IsSegment(h) ==
  /\ h.flags \in {{"R"}, {"R", "W"}, {"R", "X"}}
  /\ h.memory_size > 0 /\ h.file_size <= h.memory_size
  /\ h.file_offset + h.file_size <= file.size
  /\ h.virtual_address = h.physical_address
  /\ h.physical_address % PAGE_SIZE = 0
  /\ MIN_LOAD_ADDRESS <= h.physical_address
  /\ h.physical_address + h.memory_size <= MAX_LOAD_ADDRESS_EXCLUSIVE

(* The pages load_segment allocates for a segment: memory_size.div_ceil.    *)
PagesOf(h) == (h.memory_size + PAGE_SIZE - 1) \div PAGE_SIZE

PagesDisjoint(n) ==
  \A i, j \in Loads(n) :
    LET a == program_headers[i]
        b == program_headers[j]
    IN  i < j => a.physical_address + PagesOf(a) * PAGE_SIZE <= b.physical_address

(* What load_segments and transfer_to_kernel rely on in an accepted image   *)
(* ("a nonempty, bounded, page-aligned, nonoverlapping load plan"): every   *)
(* load segment is sound, the pages of any two are disjoint, not only of    *)
(* neighbours, and the entry point is in an executable one.                 *)
IsLoadPlan ==
  /\ Loads(Len(program_headers)) # {}
  /\ \A i \in Loads(Len(program_headers)) : IsSegment(program_headers[i])
  /\ PagesDisjoint(Len(program_headers))
  /\ \E i \in Loads(Len(program_headers)) : Contains(program_headers[i], file.entry)

(* An image parse accepts is such a plan, though validate_program_headers   *)
(* compares neighbours only.                                                *)
AcceptedIsLoadPlan == result = "ok" => IsLoadPlan

(* No segment of an accepted image that holds the entry point can be        *)
(* written: the W^X policy on single segments is one on memory, since no    *)
(* second segment lies over the code.                                       *)
EntryIsProtected ==
  result = "ok" =>
    \A i \in Loads(Len(program_headers)) :
      LET h == program_headers[i] IN
      h.physical_address <= file.entry /\ file.entry < h.physical_address + h.memory_size
        => "W" \notin h.flags

(* A sound plan within the limits is not refused for its segments: the only *)
(* reasons left are alignment, congruence, the two limits, overflow and the *)
(* type of a header that is not loaded.                                     *)
LoadPlanIsAccepted ==
  IsLoadPlan =>
    result \notin {"UnknownSegmentFlags", "NonReadableSegment", "WriteExecuteSegment",
                   "EmptyMemorySegment", "FileLargerThanMemory", "SegmentFileRangeOutOfBounds",
                   "VirtualPhysicalAddressMismatch", "SegmentOutsideLoadWindow",
                   "UnsortedSegments", "OverlappingSegments", "NoLoadSegments",
                   "EntryNotExecutable"}
=============================================================================
