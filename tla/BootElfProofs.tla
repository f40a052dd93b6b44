---------------------------- MODULE BootElfProofs ----------------------------
(***************************************************************************)
(* Theorems about the kernel-image parser for every limit, page size, word *)
(* size, ELF header and table of program headers.                          *)
(***************************************************************************)
EXTENDS BootElf, TLAPS

-----------------------------------------------------------------------------
(* Arithmetic of pages. *)

LEMMA CeilBounds ==
  ASSUME NEW p \in Nat \ {0}, NEW v \in Nat
  PROVE  /\ align_up(v, p) \in Nat
         /\ v <= align_up(v, p) /\ align_up(v, p) <= v + p - 1
         /\ (v + p - 1) \div p \in Nat
<1> DEFINE n == v + p - 1
           q == n \div p
<1>1. n \in Nat /\ q \in Int /\ n % p \in 0 .. p - 1 /\ n = p * q + (n % p)
  OBVIOUS
<1>2. q * p = n - (n % p)
  BY <1>1
<1>3. q >= 0
  BY <1>1
<1> QED BY <1>1, <1>2, <1>3 DEF align_up

(* From an aligned start, rounding up the end is rounding up the length. *)
LEMMA AlignedCeil ==
  ASSUME NEW p \in Nat \ {0}, NEW a \in Nat, NEW m \in Nat, a % p = 0
  PROVE  align_up(a + m, p) = a + ((m + p - 1) \div p) * p
<1> DEFINE n == m + p - 1
           k == n \div p
           q == a \div p
<1>1. a = p * q /\ q \in Int
  OBVIOUS
<1>2. k \in Int /\ n % p \in 0 .. p - 1 /\ n = p * k + (n % p)
  OBVIOUS
<1>3. a + m + p - 1 = p * (q + k) + (n % p)
  BY <1>1, <1>2
<1>4. (a + m + p - 1) \div p = q + k
  BY <1>2, <1>3, <1>1
<1>5. (q + k) * p = a + k * p
  BY <1>1, <1>2
<1> QED BY <1>4, <1>5 DEF align_up

LEMMA AddressTypes ==
  ASSUME NEW h \in ProgramHeaders
  PROVE  h.physical_address \in Nat /\ h.memory_size \in Nat
  BY LimitsAssumption DEF ProgramHeaders, U64

(* The page-rounded end the loop keeps is the end of the pages the loader   *)
(* allocates, and these hold the whole segment.                             *)
LEMMA PagesOfSegment ==
  ASSUME NEW h \in ProgramHeaders, IsSegment(h)
  PROVE  /\ PageEnd(h) \in Nat
         /\ PageEnd(h) = h.physical_address + PagesOf(h) * PAGE_SIZE
         /\ h.physical_address + h.memory_size <= PageEnd(h)
         /\ PageEnd(h) <= h.physical_address + h.memory_size + PAGE_SIZE - 1
<1>1. h.physical_address \in Nat /\ h.memory_size \in Nat
  BY AddressTypes
<1>2. h.physical_address % PAGE_SIZE = 0
  BY DEF IsSegment
<1>3. PageEnd(h) = h.physical_address + PagesOf(h) * PAGE_SIZE
  BY <1>1, <1>2, PageAssumption, AlignedCeil DEF PageEnd, PagesOf
<1>4. h.physical_address + h.memory_size \in Nat
  BY <1>1
<1> QED BY <1>3, <1>4, PageAssumption, CeilBounds DEF PageEnd

-----------------------------------------------------------------------------
(* What the checks on one segment establish, and what their refusals mean.  *)

LEMMA AcceptedSegment ==
  ASSUME NEW h \in ProgramHeaders, validate_load_segment(h, file.size) = "ok",
         file.size \in Nat
  PROVE  IsSegment(h)
<1>1. /\ "other" \notin h.flags /\ "R" \in h.flags /\ ~({"W", "X"} \subseteq h.flags)
      /\ h.memory_size # 0 /\ ~(h.file_size > h.memory_size)
      /\ ~(h.file_offset + h.file_size > file.size)
      /\ h.virtual_address = h.physical_address
      /\ h.physical_address % PAGE_SIZE = 0
      /\ ~(h.physical_address < MIN_LOAD_ADDRESS)
      /\ ~(h.physical_address + h.memory_size > MAX_LOAD_ADDRESS_EXCLUSIVE)
  BY DEF validate_load_segment
<1>2. h.flags \subseteq {"R", "W", "X", "other"}
  BY DEF ProgramHeaders
<1>3. h.flags \in {{"R"}, {"R", "W"}, {"R", "X"}}
  BY <1>1, <1>2
<1> QED BY <1>1, <1>3, LimitsAssumption DEF IsSegment, ProgramHeaders, U64

Refusals == {"UnknownSegmentFlags", "NonReadableSegment", "WriteExecuteSegment",
             "EmptyMemorySegment", "FileLargerThanMemory", "SegmentFileRangeOutOfBounds",
             "VirtualPhysicalAddressMismatch", "SegmentOutsideLoadWindow"}

LEMMA RefusedSegment ==
  ASSUME NEW h \in ProgramHeaders, validate_load_segment(h, file.size) \in Refusals,
         file.size \in Nat
  PROVE  ~IsSegment(h)
  BY LimitsAssumption DEF validate_load_segment, Refusals, IsSegment, ProgramHeaders, U64

-----------------------------------------------------------------------------
(* The inductive invariant: the segments before the index are sound, their  *)
(* pages are pairwise disjoint and end at or below previous_end, and the    *)
(* locals of the loop describe the last of them.  Comparing neighbours only *)
(* is enough because previous_end bounds every earlier end.                 *)
Before == Loads(index - 1)

LoopInv ==
  /\ TypeOK
  /\ result = "header" => index = 1
  /\ \A i \in Before : /\ IsSegment(program_headers[i])
                       /\ PageEnd(program_headers[i]) <= previous_end
  /\ PagesDisjoint(index - 1)
  /\ load_count = 0 => Before = {}
  /\ load_count > 0 => \E i \in Before : /\ program_headers[i].physical_address = previous_start
                                         /\ PageEnd(program_headers[i]) = previous_end
  /\ entry_is_executable <=> \E i \in Before : Contains(program_headers[i], file.entry)
  /\ result = "ok" => index = Len(program_headers) + 1 /\ load_count > 0 /\ entry_is_executable
  /\ LoadPlanIsAccepted

LEMMA FrameTypes ==
  ASSUME TypeOK
  PROVE  file.size \in Nat /\ file.entry \in Nat /\ U64_BOUND > 0
  BY LimitsAssumption, FramesAssumption DEF TypeOK, U64

LEMMA HeaderTypes ==
  ASSUME TypeOK, NEW i \in 1 .. Len(program_headers)
  PROVE  program_headers[i] \in ProgramHeaders
  BY HeadersAssumption DEF TypeOK

LEMMA LoopInit == Init => LoopInv
<1> SUFFICES ASSUME Init PROVE LoopInv
  OBVIOUS
<1>1. PICK count \in Nat : program_headers \in [1 .. count -> Headers]
  BY FramesAssumption DEF Init
<1>2. program_headers \in Seq(Headers) /\ Len(program_headers) = count
  BY <1>1
<1>3. file.entry \in U64 /\ 0 \in U64
  BY FramesAssumption, LimitsAssumption DEF Init, U64
<1>4. TypeOK
  <2>1. index \in 1 .. Len(program_headers) + 1
    BY <1>2 DEF Init
  <2>2. load_count \in 0 .. MAX_LOAD_SEGMENTS /\ total_load_size \in 0 .. MAX_TOTAL_LOAD_SIZE
    BY LimitsAssumption DEF Init
  <2> QED BY <1>2, <1>3, <2>1, <2>2 DEF Init, TypeOK
<1>5. Before = {}
  BY DEF Init, Before, Loads
<1> QED BY <1>4, <1>5 DEF Init, LoopInv, Before, PagesDisjoint, LoadPlanIsAccepted

LEMMA HeaderStep == LoopInv /\ ParseHeader => LoopInv'
<1> SUFFICES ASSUME LoopInv, ParseHeader PROVE LoopInv'
  OBVIOUS
<1>1. result' \notin {"header", "ok"} /\ LoadPlanIsAccepted'
  BY DEF ParseHeader, header_error, LoadPlanIsAccepted
<1> QED BY <1>1 DEF LoopInv, ParseHeader, TypeOK, Before, Loads, PagesDisjoint, IsSegment

LEMMA SkipStep == LoopInv /\ SkipHeader => LoopInv'
<1> SUFFICES ASSUME LoopInv, SkipHeader PROVE LoopInv'
  OBVIOUS
<1>1. Before' = Before
  BY DEF LoopInv, TypeOK, SkipHeader, AtHeader, header, Before, Loads, PT_NULL, PT_LOAD
<1>2. TypeOK'
  BY DEF LoopInv, TypeOK, SkipHeader, AtHeader
<1>3. PagesDisjoint(index - 1)'
  BY <1>1 DEF LoopInv, SkipHeader, PagesDisjoint, Before
<1>4. LoadPlanIsAccepted'
  BY DEF SkipHeader, AtHeader, LoadPlanIsAccepted
<1>5. \A i \in Before' : (/\ IsSegment(program_headers[i])
                          /\ PageEnd(program_headers[i]) <= previous_end)'
  BY <1>1 DEF LoopInv, SkipHeader, IsSegment
<1> QED BY <1>1, <1>2, <1>3, <1>4, <1>5 DEF LoopInv, SkipHeader, AtHeader

(* What the loop knows of a segment it accepts. *)
LEMMA AcceptedHeader ==
  ASSUME LoopInv, AcceptSegment
  PROVE  /\ header \in ProgramHeaders /\ IsSegment(header)
         /\ load_count < MAX_LOAD_SEGMENTS
         /\ header.physical_address + header.memory_size + PAGE_SIZE - 1 < U64_BOUND
         /\ load_count > 0 => previous_end <= header.physical_address
         /\ total_load_size + header.memory_size <= MAX_TOTAL_LOAD_SIZE
<1>1. header \in ProgramHeaders
  BY HeaderTypes DEF LoopInv, TypeOK, AcceptSegment, AtHeader, header
<1>2. file.size \in Nat
  BY FrameTypes DEF LoopInv
<1>3. /\ header.physical_address \in Nat /\ header.memory_size \in Nat
      /\ previous_end \in Nat /\ load_count \in Nat /\ total_load_size \in Nat
  BY <1>1, LimitsAssumption DEF LoopInv, TypeOK, ProgramHeaders, U64
<1>4. /\ ~(load_count >= MAX_LOAD_SEGMENTS)
      /\ validate_load_segment(header, file.size) = "ok"
      /\ ~(header.physical_address + header.memory_size + PAGE_SIZE - 1 >= U64_BOUND)
      /\ ~(load_count > 0 /\ header.physical_address < previous_end)
      /\ ~(total_load_size + header.memory_size > MAX_TOTAL_LOAD_SIZE)
  BY DEF AcceptSegment, SegmentError, segment_error
<1>5. IsSegment(header)
  BY <1>1, <1>2, <1>4, AcceptedSegment
<1> QED BY <1>1, <1>3, <1>4, <1>5, LimitsAssumption, PageAssumption

LEMMA SegmentStep == LoopInv /\ AcceptSegment => LoopInv'
<1> SUFFICES ASSUME LoopInv, AcceptSegment PROVE LoopInv'
  OBVIOUS
<1> USE DEF AtHeader
<1>1. Before' = Before \cup {index}
  BY DEF LoopInv, TypeOK, AcceptSegment, header, Before, Loads
<1>2. /\ header \in ProgramHeaders /\ IsSegment(header)
      /\ load_count < MAX_LOAD_SEGMENTS
      /\ header.physical_address + header.memory_size + PAGE_SIZE - 1 < U64_BOUND
      /\ load_count > 0 => previous_end <= header.physical_address
      /\ total_load_size + header.memory_size <= MAX_TOTAL_LOAD_SIZE
  BY AcceptedHeader
<1>3. /\ PageEnd(header) \in Nat
      /\ header.physical_address + header.memory_size <= PageEnd(header)
      /\ PageEnd(header) <= header.physical_address + header.memory_size + PAGE_SIZE - 1
  BY <1>2, PagesOfSegment
<1>4. header.physical_address \in U64 /\ header.memory_size \in U64
  BY <1>2 DEF ProgramHeaders
<1>5. TypeOK'
  <2>1. index' \in 1 .. Len(program_headers) + 1
    BY DEF LoopInv, TypeOK, AcceptSegment
  <2>2. load_count' \in 0 .. MAX_LOAD_SEGMENTS
    BY <1>2, LimitsAssumption DEF LoopInv, TypeOK, AcceptSegment
  <2>3. total_load_size' \in 0 .. MAX_TOTAL_LOAD_SIZE
    <3>1. total_load_size \in Nat /\ header.memory_size \in Nat
      BY <1>4, LimitsAssumption DEF LoopInv, TypeOK, U64
    <3> QED BY <1>2, <3>1, LimitsAssumption DEF AcceptSegment
  <2>4. previous_end' \in U64
    BY <1>2, <1>3, <1>4, LimitsAssumption, PageAssumption DEF AcceptSegment, U64
  <2>5. entry_is_executable' \in BOOLEAN
    BY DEF LoopInv, TypeOK, AcceptSegment
  <2> QED BY <1>4, <2>1, <2>2, <2>3, <2>4, <2>5 DEF LoopInv, TypeOK, AcceptSegment
<1>6. \A i \in Before : program_headers[i] \in ProgramHeaders
  BY HeaderTypes DEF LoopInv, TypeOK, Before, Loads
<1>7. \A i \in Before : /\ PageEnd(program_headers[i]) \in Nat
                        /\ PageEnd(program_headers[i]) <= header.physical_address
  <2> SUFFICES ASSUME NEW i \in Before
               PROVE  /\ PageEnd(program_headers[i]) \in Nat
                      /\ PageEnd(program_headers[i]) <= header.physical_address
    OBVIOUS
  <2>1. PageEnd(program_headers[i]) \in Nat
    BY <1>6, PagesOfSegment DEF LoopInv
  <2>2. load_count > 0 /\ PageEnd(program_headers[i]) <= previous_end
    BY DEF LoopInv, TypeOK
  <2> QED BY <1>2, <1>4, <2>1, <2>2, LimitsAssumption DEF LoopInv, TypeOK, U64
<1>8. \A i \in Before' : (/\ IsSegment(program_headers[i])
                          /\ PageEnd(program_headers[i]) <= previous_end)'
  <2> SUFFICES ASSUME NEW i \in Before'
               PROVE  /\ IsSegment(program_headers[i])
                      /\ PageEnd(program_headers[i]) <= PageEnd(header)
    BY DEF AcceptSegment, IsSegment
  <2>1. CASE i = index
    BY <1>2, <1>3, <2>1 DEF header
  <2>2. CASE i \in Before
    BY <1>3, <1>4, <1>7, <2>2, LimitsAssumption DEF LoopInv, U64
  <2> QED BY <1>1, <2>1, <2>2
<1>9. PagesDisjoint(index - 1)'
  <2> SUFFICES ASSUME NEW i \in Before', NEW j \in Before', i < j
               PROVE  program_headers[i].physical_address + PagesOf(program_headers[i]) * PAGE_SIZE
                        <= program_headers[j].physical_address
    BY DEF PagesDisjoint, Before, AcceptSegment
  <2>1. i \in Before
    BY <1>1 DEF Before, Loads, LoopInv, TypeOK
  <2>2. CASE j = index
    <3>1. PageEnd(program_headers[i])
            = program_headers[i].physical_address + PagesOf(program_headers[i]) * PAGE_SIZE
      BY <1>6, <2>1, PagesOfSegment DEF LoopInv
    <3> QED BY <1>7, <2>1, <2>2, <3>1 DEF header
  <2>3. CASE j \in Before
    BY <2>1, <2>3 DEF LoopInv, PagesDisjoint, Before
  <2> QED BY <1>1, <2>2, <2>3
<1>10. load_count' > 0 /\ index \in Before'
  BY <1>1 DEF LoopInv, TypeOK, AcceptSegment
<1>11. (\E i \in Before : /\ program_headers[i].physical_address = previous_start
                          /\ PageEnd(program_headers[i]) = previous_end)'
  BY <1>10 DEF AcceptSegment, header
<1>12. entry_is_executable' <=> (\E i \in Before : Contains(program_headers[i], file.entry))'
  BY <1>1 DEF LoopInv, TypeOK, AcceptSegment, header
<1>13. LoadPlanIsAccepted' /\ result' = "running"
  BY DEF AcceptSegment, LoadPlanIsAccepted
<1>14. load_count' # 0
  BY <1>10
<1> QED BY <1>5, <1>8, <1>9, <1>10, <1>11, <1>12, <1>13, <1>14 DEF LoopInv

(* A segment refused for what it is, or for where it lies, is in no plan. *)
LEMMA RejectStep == LoopInv /\ RejectHeader => LoopInv'
<1> SUFFICES ASSUME LoopInv, RejectHeader PROVE LoopInv'
  OBVIOUS
<1> USE DEF AtHeader
<1>1. result' \notin {"header", "ok", "NoLoadSegments", "EntryNotExecutable"}
  BY DEF RejectHeader, SegmentError, segment_error, validate_load_segment
<1>2. LoadPlanIsAccepted'
  <2> SUFFICES ASSUME IsLoadPlan, result' \in Refusals \cup {"UnsortedSegments", "OverlappingSegments"}
               PROVE  FALSE
    BY <1>1 DEF LoadPlanIsAccepted, IsLoadPlan, Loads, PagesDisjoint, IsSegment, Refusals,
                RejectHeader
  <2>1. header.kind = PT_LOAD /\ result' = SegmentError
    BY DEF RejectHeader, Refusals
  <2>2. index \in Loads(Len(program_headers)) /\ header \in ProgramHeaders
    BY <2>1, HeaderTypes DEF LoopInv, TypeOK, RejectHeader, header, Loads
  <2>3. IsSegment(header)
    BY <2>2 DEF IsLoadPlan, header
  <2>4. SegmentError \notin Refusals
    <3>1. validate_load_segment(header, file.size) \notin Refusals
      BY <2>2, <2>3, RefusedSegment, FrameTypes DEF LoopInv
    <3> QED BY <3>1 DEF SegmentError, segment_error, Refusals
  <2>5. /\ load_count > 0
        /\ header.physical_address < previous_start \/ header.physical_address < previous_end
    BY <2>1, <2>4 DEF SegmentError, segment_error, validate_load_segment
  <2>6. PICK i \in Before : /\ program_headers[i].physical_address = previous_start
                            /\ PageEnd(program_headers[i]) = previous_end
    BY <2>5 DEF LoopInv
  <2>7. i \in Loads(Len(program_headers)) /\ i < index
    BY DEF Before, Loads, LoopInv, TypeOK
  <2>8. program_headers[i].physical_address + PagesOf(program_headers[i]) * PAGE_SIZE
          <= header.physical_address
    BY <2>2, <2>7 DEF IsLoadPlan, PagesDisjoint, header
  <2>9. program_headers[i] \in ProgramHeaders /\ IsSegment(program_headers[i])
    BY <2>7, HeaderTypes DEF LoopInv, TypeOK, Loads
  <2>10. /\ PageEnd(program_headers[i]) <= header.physical_address
         /\ program_headers[i].physical_address + program_headers[i].memory_size
              <= PageEnd(program_headers[i])
         /\ PageEnd(program_headers[i]) \in Nat
    BY <2>8, <2>9, PagesOfSegment
  <2>11. /\ program_headers[i].physical_address \in Nat /\ program_headers[i].memory_size \in Nat
         /\ header.physical_address \in Nat
    BY <2>2, <2>9, AddressTypes
  <2> QED BY <2>5, <2>6, <2>10, <2>11
<1> QED BY <1>1, <1>2 DEF LoopInv, RejectHeader, TypeOK, Before, Loads, PagesDisjoint, IsSegment

LEMMA FinishStep == LoopInv /\ Finish => LoopInv'
<1> SUFFICES ASSUME LoopInv, Finish PROVE LoopInv'
  OBVIOUS
<1>1. index = Len(program_headers) + 1
  BY DEF LoopInv, TypeOK, Finish
<1>2. Before = Loads(Len(program_headers))
  BY <1>1 DEF Before, LoopInv, TypeOK
<1>3. LoadPlanIsAccepted'
  <2>1. load_count = 0 \/ ~entry_is_executable => ~IsLoadPlan
    BY <1>2 DEF LoopInv, IsLoadPlan
  <2> QED BY <2>1 DEF LoadPlanIsAccepted, IsLoadPlan, Loads, PagesDisjoint, IsSegment, Finish
<1>4. result' # "header"
      /\ (result' = "ok" => load_count > 0 /\ entry_is_executable)
  BY LimitsAssumption DEF Finish, LoopInv, TypeOK
<1> QED BY <1>1, <1>3, <1>4 DEF LoopInv, Finish, TypeOK, Before, Loads, PagesDisjoint, IsSegment

LEMMA LoopInvariant == Spec => []LoopInv
<1>1. LoopInv /\ [Next]_vars => LoopInv'
  <2> SUFFICES ASSUME LoopInv, [Next]_vars PROVE LoopInv'
    OBVIOUS
  <2>1. CASE UNCHANGED vars
    BY <2>1 DEF vars, LoopInv, TypeOK, Before, Loads, PagesDisjoint, IsSegment,
                LoadPlanIsAccepted, IsLoadPlan
  <2> QED BY <2>1, HeaderStep, SkipStep, SegmentStep, RejectStep, FinishStep DEF Next
<1> QED BY <1>1, LoopInit, PTL DEF Spec

-----------------------------------------------------------------------------
(* The locals of validate_program_headers keep their types, whatever the    *)
(* file: no checked sum wraps and no counter passes its limit.              *)
THEOREM ElfTypes == Spec => []TypeOK
<1>1. LoopInv => TypeOK
  BY DEF LoopInv
<1> QED BY <1>1, LoopInvariant, PTL

(* Every image parse accepts is a load plan, for every limit and page size: *)
(* comparing each segment with the one before it separates the pages of all *)
(* of them.                                                                 *)
THEOREM ElfSound == Spec => []AcceptedIsLoadPlan
<1>1. LoopInv => AcceptedIsLoadPlan
  <2> SUFFICES ASSUME LoopInv, result = "ok" PROVE IsLoadPlan
    BY DEF AcceptedIsLoadPlan
  <2>1. index - 1 = Len(program_headers)
    BY DEF LoopInv, TypeOK
  <2>2. \E i \in Before : Contains(program_headers[i], file.entry)
    BY DEF LoopInv
  <2> QED BY <2>1, <2>2 DEF LoopInv, IsLoadPlan, Before
<1> QED BY <1>1, LoopInvariant, PTL

(* A load plan is never refused for its segments. *)
THEOREM ElfComplete == Spec => []LoadPlanIsAccepted
<1>1. LoopInv => LoadPlanIsAccepted
  BY DEF LoopInv
<1> QED BY <1>1, LoopInvariant, PTL

(* The entry point of an accepted image is in no writable segment: the      *)
(* executable one holds it, and the pages of the others are elsewhere.      *)
THEOREM ElfEntryProtected == Spec => []EntryIsProtected
<1>1. LoopInv => EntryIsProtected
  <2> SUFFICES ASSUME LoopInv, result = "ok" PROVE EntryIsProtected
    BY DEF EntryIsProtected
  <2>0. index - 1 = Len(program_headers)
    BY DEF LoopInv, TypeOK
  <2> SUFFICES ASSUME NEW i \in Before,
                      program_headers[i].physical_address <= file.entry,
                      file.entry < program_headers[i].physical_address
                                     + program_headers[i].memory_size
               PROVE  "W" \notin program_headers[i].flags
    BY <2>0 DEF EntryIsProtected, Before
  <2>1. PICK e \in Before : Contains(program_headers[e], file.entry)
    BY DEF LoopInv
  <2>2. \A k \in Before : /\ program_headers[k] \in ProgramHeaders
                          /\ IsSegment(program_headers[k]) /\ k \in Int
    BY HeaderTypes DEF LoopInv, TypeOK, Before, Loads
  <2>3. /\ program_headers[e].physical_address <= file.entry
        /\ file.entry < program_headers[e].physical_address + program_headers[e].memory_size
        /\ "X" \in program_headers[e].flags
    BY <2>1, <2>2 DEF Contains, IsSegment
  <2>4. ASSUME NEW a \in Before, NEW b \in Before, a < b,
               program_headers[b].physical_address <= file.entry,
               file.entry < program_headers[a].physical_address + program_headers[a].memory_size
        PROVE  FALSE
    <3>1. program_headers[a].physical_address + PagesOf(program_headers[a]) * PAGE_SIZE
            <= program_headers[b].physical_address
      BY <2>4 DEF LoopInv, PagesDisjoint, Before
    <3>2. /\ program_headers[a].physical_address \in Nat
          /\ program_headers[a].memory_size \in Nat
          /\ program_headers[b].physical_address \in Nat /\ file.entry \in Nat
      BY <2>2, AddressTypes, FrameTypes DEF LoopInv
    <3>3. program_headers[a].physical_address + program_headers[a].memory_size
            <= program_headers[b].physical_address
      BY <2>2, <3>1, <3>2, PagesOfSegment
    <3> QED BY <2>4, <3>2, <3>3
  <2>5. i = e
    BY <2>2, <2>3, <2>4
  <2> QED BY <2>2, <2>3, <2>5 DEF IsSegment
<1> QED BY <1>1, LoopInvariant, PTL
=============================================================================
