--------------------------- MODULE KernelInspector ---------------------------
(***************************************************************************)
(* inspect-kernel: reads the linker map of a kernel line by line, then     *)
(* compares sections, constants and symbols with each other, with the      *)
(* fixed addresses and with the load segments of the ELF.  Map and ELF are *)
(* what linker.ld makes of a kernel, or a script that places sections      *)
(* elsewhere; lines of the map may be missing, repeated, moved or altered, *)
(* and a field of the ELF may be altered.                                  *)
(***************************************************************************)
EXTENDS Integers, Sequences, FiniteSets, FiniteSetsExt

CONSTANTS
  PAGE_SIZE, KERNEL_BASE_ADDRESS, STACK_GUARD_ADDRESS, STACK_BASE_ADDRESS, STACK_SIZE_BYTES,
  MIN_LOAD_ADDRESS, MAX_LOAD_ADDRESS_EXCLUSIVE, MAX_TOTAL_LOAD_SIZE, MAX_SEGMENT_ALIGNMENT,
  U64,           \* 2^64 in the code
  Kernels,       \* the kernels: sizes of the load sections
  Drifts,        \* how far another script may move a section
  MaxFaults,     \* bound on moved sections and damage, in all
  NONE, BAD      \* no entry; text that is not a hexadecimal number

ASSUME InspectorAssumption ==
  /\ PAGE_SIZE \in Nat \ {0} /\ Drifts \subseteq Int /\ MaxFaults \in Nat
  /\ \A a \in {KERNEL_BASE_ADDRESS, STACK_GUARD_ADDRESS, STACK_BASE_ADDRESS, STACK_SIZE_BYTES} :
       a \in Nat /\ a % PAGE_SIZE = 0
  /\ STACK_GUARD_ADDRESS + PAGE_SIZE = STACK_BASE_ADDRESS
  /\ MIN_LOAD_ADDRESS <= KERNEL_BASE_ADDRESS
  /\ STACK_BASE_ADDRESS + STACK_SIZE_BYTES <= MAX_LOAD_ADDRESS_EXCLUSIVE
  /\ MAX_LOAD_ADDRESS_EXCLUSIVE + PAGE_SIZE <= U64

STACK_TOP == STACK_BASE_ADDRESS + STACK_SIZE_BYTES
Values == 0 .. U64 - 1
section_names == <<".text", ".rodata", ".data", ".bss", ".stack_guard", ".stack">>
SectionNames == {section_names[i] : i \in DOMAIN section_names}
PF_R == 4
PF_RX == 5
PF_RW == 6

(* The sum of two u64 values, -1 for an overflow: no comparison below holds *)
(* with it on the side of an end.                                           *)
CheckedAdd(a, b) == IF a + b < U64 THEN a + b ELSE -1
AlignUp(v) == ((v + PAGE_SIZE - 1) \div PAGE_SIZE) * PAGE_SIZE

-----------------------------------------------------------------------------
(* linker.ld *)

(* Where it puts sections of the given sizes; moved tells how far another   *)
(* script moves each of them.                                               *)
LoadSections == {".text", ".rodata", ".data", ".bss"}

Placed(size, moved) ==
  LET At(n, after) == [address |-> AlignUp(after) + moved[n], size |-> size[n]]
      text == At(".text", KERNEL_BASE_ADDRESS)
      rodata == At(".rodata", text.address + text.size)
      data == At(".data", rodata.address + rodata.size)
      bss == At(".bss", data.address + data.size)
  IN [n \in SectionNames |->
       CASE n = ".text" -> text [] n = ".rodata" -> rodata [] n = ".data" -> data [] n = ".bss" -> bss
         [] n = ".stack_guard" -> [address |-> STACK_GUARD_ADDRESS, size |-> PAGE_SIZE]
         [] n = ".stack" -> [address |-> STACK_BASE_ADDRESS, size |-> STACK_SIZE_BYTES]]

EndOf(s) == s.address + s.size

(* Its assertion that the load sections end before the guard. *)
Links(at) == AlignUp(EndOf(at[".bss"])) <= STACK_GUARD_ADDRESS

(* The lines of the map.  The symbols of a section stand below it. *)
Line(kind, name, value, size) == [kind |-> kind, name |-> name, value |-> value, size |-> size]

ConstantLines ==
  << Line("constant", "KERNEL_BASE", KERNEL_BASE_ADDRESS, 0),
     Line("constant", "KERNEL_LOAD_LIMIT", STACK_BASE_ADDRESS, 0),
     Line("constant", "KERNEL_STACK_GUARD_BASE", STACK_GUARD_ADDRESS, 0),
     Line("constant", "KERNEL_STACK_BASE", STACK_BASE_ADDRESS, 0),
     Line("constant", "KERNEL_STACK_SIZE", STACK_SIZE_BYTES, 0),
     Line("constant", "PAGE_SIZE", PAGE_SIZE, 0),
     Line("symbol", "__kernel_start", KERNEL_BASE_ADDRESS, 0) >>

SectionLines(at, name, from, to) ==
  << Line("section", name, at[name].address, at[name].size),
     Line("symbol", from, at[name].address, 0), Line("symbol", to, EndOf(at[name]), 0) >>

Map(at) ==
  ConstantLines
  \o SectionLines(at, ".text", "__text_start", "__text_end")
  \o << Line("symbol", "polytope_kernel_entry", KERNEL_BASE_ADDRESS, 0) >>
  \o SectionLines(at, ".rodata", "__rodata_start", "__rodata_end")
  \o SectionLines(at, ".data", "__data_start", "__data_end")
  \o SectionLines(at, ".bss", "__bss_start", "__bss_end")
  \o << Line("load-end", "__kernel_load_end", AlignUp(EndOf(at[".bss"])), 0) >>
  \o SectionLines(at, ".stack_guard", "__bootstrap_stack_guard_start", "__bootstrap_stack_guard_end")
  \o SectionLines(at, ".stack", "__bootstrap_stack_bottom", "__bootstrap_stack_top")
  \o << Line("symbol", "__kernel_end", STACK_TOP, 0) >>

(* The load segments of its PHDRS. *)
Segment(flags, address, file_size, memory_size) ==
  [flags |-> flags, virtual |-> address, physical |-> address,
   file_size |-> file_size, memory_size |-> memory_size, alignment |-> PAGE_SIZE]

Elf(at) ==
  [entry |-> KERNEL_BASE_ADDRESS,
   segments |->
     << Segment(PF_RX, at[".text"].address, at[".text"].size, at[".text"].size),
        Segment(PF_R, at[".rodata"].address, at[".rodata"].size, at[".rodata"].size),
        Segment(PF_RW, at[".data"].address, at[".data"].size,
                EndOf(at[".bss"]) - at[".data"].address),
        Segment(PF_RW, STACK_BASE_ADDRESS, 0, STACK_SIZE_BYTES) >>]

-----------------------------------------------------------------------------
VARIABLES
  kernel,        \* where the sections were placed
  lines,         \* the map, undamaged
  next,          \* the line that comes next
  faults,        \* so far
  line,          \* lines read
  read,          \* history: these lines
  sections, constants, symbols, saw_load_end_expression,   \* MapLayout
  elf,           \* the kernel, NONE before it is inspected
  result         \* "reading", "accepted" or "rejected"

vars == <<kernel, lines, next, faults, line, read, sections, constants, symbols,
          saw_load_end_expression, elf, result>>

NamesOf(kind) == {lines[i].name : i \in {j \in DOMAIN lines : lines[j].kind = kind}}

Init ==
  /\ \E size \in Kernels, moved \in [LoadSections -> Drifts] :
       /\ kernel = Placed(size, moved)
       /\ faults = Cardinality({n \in LoadSections : moved[n] # 0}) /\ faults <= MaxFaults
       /\ faults = 0 => Links(kernel)
  /\ lines = Map(kernel) /\ next = 1 /\ line = 0 /\ read = {}
  /\ sections = [n \in SectionNames |-> NONE] /\ constants = [n \in NamesOf("constant") |-> NONE]
  /\ symbols = [n \in NamesOf("symbol") |-> NONE] /\ saw_load_end_expression = FALSE
  /\ elf = NONE /\ result = "reading"

(* Plausible mistake in the next definition: the last line wins. *)
InsertAnyway(table, name, value) == [table EXCEPT ![name] = value]

InsertUnique(table, name, value) ==
  IF table[name] = NONE THEN [table EXCEPT ![name] = value] ELSE BAD

(* One iteration of MapLayout::parse. *)
ReadLine(l) ==
  LET section == [address |-> l.value, size |-> l.size, line |-> line + 1]
      table == CASE l.kind = "section"  -> InsertUnique(sections, l.name, section)
                 [] l.kind = "constant" -> InsertUnique(constants, l.name, l.value)
                 [] l.kind = "symbol"   -> InsertUnique(symbols, l.name, l.value)
                 [] OTHER               -> NONE
      parsed == l.kind = "load-end" \/ (l.value # BAD /\ l.size # BAD /\ l.kind # "dynamic")
  IN
  /\ line' = line + 1 /\ read' = read \union {l}
  /\ IF parsed /\ table # BAD
       THEN /\ sections' = IF l.kind = "section" THEN table ELSE sections
            /\ constants' = IF l.kind = "constant" THEN table ELSE constants
            /\ symbols' = IF l.kind = "symbol" THEN table ELSE symbols
            /\ saw_load_end_expression' = (saw_load_end_expression \/ l.kind = "load-end")
            /\ UNCHANGED result
       ELSE /\ result' = "rejected"
            /\ UNCHANGED <<sections, constants, symbols, saw_load_end_expression>>
  /\ UNCHANGED <<kernel, lines, elf>>

InMap == result = "reading" /\ next <= Len(lines)

ReadNext == InMap /\ ReadLine(lines[next]) /\ next' = next + 1 /\ UNCHANGED faults

-----------------------------------------------------------------------------
(* Faults of the files: values that are slightly wrong, or extreme. *)
Near(v) == {w \in {0, U64 - 1} \union (v - PAGE_SIZE .. v + PAGE_SIZE) : w \in Values}

Damage == result = "reading" /\ faults < MaxFaults /\ faults' = faults + 1

LineMissing ==
  /\ InMap /\ Damage /\ next' = next + 1
  /\ UNCHANGED <<kernel, lines, line, read, sections, constants, symbols, saw_load_end_expression, elf, result>>

LineAltered ==
  /\ InMap /\ Damage /\ next' = next + 1
  /\ \/ \E v \in Near(lines[next].value) \union {BAD} : ReadLine([lines[next] EXCEPT !.value = v])
     \/ /\ lines[next].kind = "section"
        /\ \E v \in Near(lines[next].size) \union {BAD} : ReadLine([lines[next] EXCEPT !.size = v])

(* An earlier line, which may be one that was missing. *)
LineLate ==
  /\ Damage /\ UNCHANGED next
  /\ \E i \in 1 .. next - 1 : ReadLine(lines[i])

DynamicSection ==
  /\ Damage /\ UNCHANGED next
  /\ ReadLine(Line("dynamic", ".dynamic", 0, 0))

Fields == {"flags", "virtual", "physical", "file_size", "memory_size", "alignment"}
AlteredElf(e) ==
  {[e EXCEPT !.entry = v] : v \in Near(e.entry)}
  \union UNION {{[e EXCEPT !.segments[i][f] = v] : v \in Near(e.segments[i][f])} :
                   i \in 1 .. 4, f \in Fields}
  \union {[e EXCEPT !.segments = SubSeq(@, 1, 3)]}

-----------------------------------------------------------------------------
(* parse of boot-elf, as far as it is about these fields: the header, the   *)
(* kinds and offsets of segments and the bytes are in BootElf.              *)

MemoryEnd(segment) == CheckedAdd(segment.physical, segment.memory_size)
Alignments == {a \in PAGE_SIZE .. MAX_SEGMENT_ALIGNMENT : \E k \in 0 .. a : a = 2 ^ k}

(* Readable, and not both writable and executable. *)
ValidLoadSegment(segment) ==
  /\ segment.flags \in {PF_R, PF_RX, PF_RW}
  /\ segment.memory_size > 0 /\ segment.file_size <= segment.memory_size
  /\ segment.virtual = segment.physical
  /\ segment.alignment \in Alignments /\ segment.physical % PAGE_SIZE = 0
  /\ segment.physical >= MIN_LOAD_ADDRESS
  /\ MemoryEnd(segment) \in 0 .. MAX_LOAD_ADDRESS_EXCLUSIVE

Parsed(e) ==
  LET memory(i) == e.segments[i].memory_size IN
  /\ \A i \in DOMAIN e.segments :
       /\ ValidLoadSegment(e.segments[i])
       /\ i > 1 => e.segments[i].physical >= AlignUp(MemoryEnd(e.segments[i - 1]))
  /\ MapThenSumSet(memory, DOMAIN e.segments) <= MAX_TOTAL_LOAD_SIZE
  /\ \E i \in DOMAIN e.segments :
       e.segments[i].flags = PF_RX /\ e.entry \in e.segments[i].virtual .. MemoryEnd(e.segments[i]) - 1

-----------------------------------------------------------------------------
(* validate_combined *)

Matches(segment, section, flags) ==
  /\ segment.flags = flags /\ segment.physical = section.address
  /\ segment.virtual = segment.physical
  /\ segment.file_size = section.size /\ segment.alignment = PAGE_SIZE

ValidateSegment(segment, section, flags) ==
  Matches(segment, section, flags) /\ segment.memory_size = section.size

zero_fill_size(segment) == segment.memory_size - segment.file_size
SectionEnd(s) == CheckedAdd(s.address, s.size)

(* Plausible mistake in the next definition: the end is not compared. *)
ValidateDataSegmentSize(segment, data, bss) ==
  /\ Matches(segment, data, PF_RW)
  /\ zero_fill_size(segment) >= bss.size

ValidateDataSegment(segment, data, bss) ==
  /\ Matches(segment, data, PF_RW)
  /\ zero_fill_size(segment) >= bss.size
  /\ MemoryEnd(segment) = SectionEnd(bss)
  /\ CheckedAdd(segment.physical, segment.file_size) = SectionEnd(data)

ValidateStackSegment(segment) ==
  /\ segment.flags = PF_RW
  /\ segment.physical = STACK_BASE_ADDRESS /\ segment.virtual = STACK_BASE_ADDRESS
  /\ segment.file_size = 0 /\ segment.memory_size = STACK_SIZE_BYTES
  /\ segment.alignment = PAGE_SIZE

ValidateConstantsAndSymbols(entry) ==
  /\ \A i \in DOMAIN ConstantLines :
       ConstantLines[i].kind = "constant" => constants[ConstantLines[i].name] = ConstantLines[i].value
  /\ symbols["__kernel_start"] = KERNEL_BASE_ADDRESS
  /\ symbols["__text_start"] = sections[".text"].address
  /\ symbols["__text_end"] = SectionEnd(sections[".text"])
  /\ symbols["__rodata_start"] = sections[".rodata"].address
  /\ symbols["__rodata_end"] = SectionEnd(sections[".rodata"])
  /\ symbols["__data_start"] = sections[".data"].address
  /\ symbols["__data_end"] = SectionEnd(sections[".data"])
  /\ symbols["__bss_start"] = sections[".bss"].address
  /\ symbols["__bss_end"] = SectionEnd(sections[".bss"])
  /\ symbols["__bootstrap_stack_guard_start"] = STACK_GUARD_ADDRESS
  /\ symbols["__bootstrap_stack_guard_end"] = STACK_BASE_ADDRESS
  /\ symbols["__bootstrap_stack_bottom"] = STACK_BASE_ADDRESS
  /\ symbols["__bootstrap_stack_top"] = STACK_TOP
  /\ symbols["__kernel_end"] = STACK_TOP /\ symbols["polytope_kernel_entry"] = entry
  /\ saw_load_end_expression

ValidateSectionOrder ==
  \A i \in 2 .. Len(section_names) :
    sections[section_names[i]].line > sections[section_names[i - 1]].line

(* Plausible mistake in the next definition: a gap is demanded. *)
ValidateGaps ==
  /\ sections[".text"].address = KERNEL_BASE_ADDRESS /\ sections[".text"].size > 0
  /\ \A i \in 2 .. 4 : LET s == sections[section_names[i]]
                           before == sections[section_names[i - 1]] IN
       /\ s.address % PAGE_SIZE = 0 /\ s.size > 0
       /\ SectionEnd(before) \in 0 .. s.address - 1

(* Each load section follows the one before, on a page of its own. *)
ValidateLoadSections ==
  /\ sections[".text"].address = KERNEL_BASE_ADDRESS /\ sections[".text"].size > 0
  /\ \A i \in 2 .. 4 : LET s == sections[section_names[i]]
                           before == sections[section_names[i - 1]] IN
       /\ s.address % PAGE_SIZE = 0 /\ s.size > 0
       /\ SectionEnd(before) \in 0 .. s.address

MissesGuard(segment) ==
  LET end == MemoryEnd(segment) IN
  end # -1 /\ (end <= STACK_GUARD_ADDRESS \/ segment.physical >= STACK_BASE_ADDRESS)

ValidateCombined(e) ==
  /\ \A n \in SectionNames : sections[n] # NONE
  /\ Len(e.segments) = 4 /\ e.entry = KERNEL_BASE_ADDRESS
  /\ ValidateConstantsAndSymbols(e.entry) /\ ValidateSectionOrder /\ ValidateLoadSections
  /\ sections[".stack_guard"].address = STACK_GUARD_ADDRESS /\ sections[".stack_guard"].size = PAGE_SIZE
  /\ sections[".stack"].address = STACK_BASE_ADDRESS /\ sections[".stack"].size = STACK_SIZE_BYTES
  /\ SectionEnd(sections[".bss"]) # -1 /\ AlignUp(SectionEnd(sections[".bss"])) <= STACK_GUARD_ADDRESS
  /\ ValidateSegment(e.segments[1], sections[".text"], PF_RX)
  /\ ValidateSegment(e.segments[2], sections[".rodata"], PF_R)
  /\ ValidateDataSegment(e.segments[3], sections[".data"], sections[".bss"])
  /\ ValidateStackSegment(e.segments[4])
  /\ \A i \in 1 .. 4 : MissesGuard(e.segments[i])

(* The ELF is parsed before the map is read, and an error of either is an   *)
(* error of inspect_kernel.                                                 *)
Inspect ==
  /\ result = "reading" /\ next = Len(lines) + 1
  /\ \/ elf' = Elf(kernel) /\ UNCHANGED faults
     \/ elf' \in AlteredElf(Elf(kernel)) /\ Damage
  /\ result' = IF Parsed(elf') /\ ValidateCombined(elf') THEN "accepted" ELSE "rejected"
  /\ UNCHANGED <<kernel, lines, next, line, read, sections, constants, symbols, saw_load_end_expression>>

Next == ReadNext \/ LineMissing \/ LineAltered \/ LineLate \/ DynamicSection \/ Inspect

Spec == Init /\ [][Next]_vars

-----------------------------------------------------------------------------
Accepted == result = "accepted"

Bytes(address, size) == address .. address + size - 1
PagesOf(bytes) == {b \div PAGE_SIZE : b \in bytes}
Memory(i) == Bytes(elf.segments[i].physical, elf.segments[i].memory_size)
InFile(i) == Bytes(elf.segments[i].physical, elf.segments[i].file_size)
InSection(n) == Bytes(sections[n].address, sections[n].size)
Indices == DOMAIN elf.segments
Writable(i) == elf.segments[i].flags = PF_RW
Executable(i) == elf.segments[i].flags = PF_RX

(* An accepted kernel has what the boot code takes for granted: segments    *)
(* share no page, so that none is both writable and executable; no segment  *)
(* touches the page below the stack; .bss is memory the loader clears and   *)
(* no byte of the file; code is executable and constants are not writable.  *)
SoundLayout ==
  Accepted =>
    /\ \A i, j \in Indices : i # j => PagesOf(Memory(i)) \intersect PagesOf(Memory(j)) = {}
    /\ \E i \in Indices : /\ Writable(i) /\ InSection(".bss") \subseteq Memory(i) \ InFile(i)
                          /\ InSection(".data") = InFile(i)
    /\ \E i \in Indices : Executable(i) /\ InSection(".text") = InFile(i) /\ elf.entry \in Memory(i)
    /\ \E i \in Indices : elf.segments[i].flags = PF_R /\ InSection(".rodata") = InFile(i)
    /\ \E i \in Indices :
         /\ Writable(i) /\ InFile(i) = {} /\ symbols["__bootstrap_stack_top"] - 1 \in Memory(i)
         /\ LET guard == symbols["__bootstrap_stack_bottom"] \div PAGE_SIZE - 1 IN
            \A j \in Indices : guard \notin PagesOf(Memory(j))

(* Up to MaxFaults, nothing altered is accepted, even if another line of    *)
(* the map has the right value: every line read is one the linker wrote,    *)
(* and the ELF is the linker's.  Only the address of __kernel_load_end may  *)
(* be any, and lines of symbols may stand elsewhere.                        *)
DamageIsDetected ==
  Accepted =>
    /\ \A l \in read : l.kind = "load-end" \/ \E i \in DOMAIN lines : lines[i] = l
    /\ elf = Elf(kernel)

(* Whatever linker.ld lets pass is accepted, by parse and by the checks of  *)
(* the map, if no section is empty.                                         *)
LinkedIsAccepted ==
  result = "rejected" /\ faults = 0 => \E n \in LoadSections : kernel[n].size = 0
=============================================================================
