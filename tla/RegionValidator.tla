-------------------------- MODULE RegionValidator ---------------------------
(***************************************************************************)
(* validate_regions turn by turn: the loop over the active regions, which  *)
(* compares each region only with the one before it, and the loop over the *)
(* unused entries.  The region array is arbitrary.                         *)
(***************************************************************************)
EXTENDS BootContract

CONSTANT Regions  \* the regions an array is made of

ASSUME RegionTypeAssumption ==
  Regions \subseteq [start : U64, length : U64, kind : Nat, source_kind : Nat, attributes : Nat]

VARIABLES
  memory_regions,   \* the array under validation
  count,            \* header.memory_region_count
  index,            \* the entry the loops have reached
  previous_start,   \* start and end of the entry before it
  previous_end,
  result            \* "running", "ok" or the error returned

vars == <<memory_regions, count, index, previous_start, previous_end, result>>

Init ==
  /\ memory_regions \in [1 .. MAX_MEMORY_REGIONS -> Regions]
  /\ count \in 0 .. MAX_MEMORY_REGIONS
  /\ index = 1
  /\ previous_start = 0 /\ previous_end = 0
  /\ result = "running"

region == memory_regions[index]

(* The error of the active region under the loop's index, if any. *)
Verdict == validate_region(region, index, previous_start, previous_end)

AcceptRegion ==
  /\ result = "running" /\ index <= count
  /\ Verdict = "ok"
  /\ previous_start' = region.start
  /\ previous_end' = region.start + region.length
  /\ index' = index + 1
  /\ UNCHANGED <<memory_regions, count, result>>

RejectRegion ==
  /\ result = "running" /\ index <= count
  /\ Verdict # "ok"
  /\ result' = Verdict
  /\ UNCHANGED <<memory_regions, count, index, previous_start, previous_end>>

CheckUnused ==
  /\ result = "running" /\ index \in count + 1 .. MAX_MEMORY_REGIONS
  /\ IF region = EMPTY_REGION
       THEN index' = index + 1 /\ UNCHANGED result
       ELSE result' = "NonZeroUnusedMemoryRegion" /\ UNCHANGED index
  /\ UNCHANGED <<memory_regions, count, previous_start, previous_end>>

Finish ==
  /\ result = "running" /\ index > MAX_MEMORY_REGIONS
  /\ result' = "ok"
  /\ UNCHANGED <<memory_regions, count, index, previous_start, previous_end>>

Next == AcceptRegion \/ RejectRegion \/ CheckUnused \/ Finish

Spec == Init /\ [][Next]_vars

-----------------------------------------------------------------------------
(* The locals of validate_regions keep their types; in particular the end   *)
(* of an accepted region is a u64.                                          *)
TypeOK ==
  /\ memory_regions \in [1 .. MAX_MEMORY_REGIONS -> Regions]
  /\ count \in 0 .. MAX_MEMORY_REGIONS
  /\ index \in 1 .. MAX_MEMORY_REGIONS + 1
  /\ previous_start \in U64 /\ previous_end \in U64
  /\ result \in {"running", "ok", "NonZeroUnusedMemoryRegion"} \union RegionErrors

(* What the kernel may rely on once the map is validated: the active        *)
(* regions are whole pages of a known kind inside the address space, in     *)
(* ascending order.  Any two of them are disjoint, not only neighbours.     *)
IsRegion(r) ==
  /\ is_known(r.kind) /\ r.length > 0
  /\ r.start % PAGE_SIZE = 0 /\ r.length % PAGE_SIZE = 0
  /\ r.start + r.length < U64_BOUND

OrderedAndDisjoint(n) ==
  \A i, j \in 1 .. n :
    i < j => memory_regions[i].start + memory_regions[i].length <= memory_regions[j].start

IsMemoryMap ==
  /\ \A i \in 1 .. count : IsRegion(memory_regions[i])
  /\ OrderedAndDisjoint(count)
  /\ \A i \in count + 1 .. MAX_MEMORY_REGIONS : memory_regions[i] = EMPTY_REGION

(* A map validate_regions accepts is a list of valid regions, disjoint in   *)
(* all pairs and ascending, with nothing behind it.                         *)
AcceptedIsMemoryMap == result = "ok" => IsMemoryMap

(* And validate_regions rejects no such map, whatever loop turn it is in.   *)
MemoryMapIsAccepted == result \notin {"running", "ok"} => ~ IsMemoryMap
=============================================================================
