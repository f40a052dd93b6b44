----------------------- MODULE RegionValidatorProofs ------------------------
(***************************************************************************)
(* validate_regions accepts exactly the ordered, pairwise disjoint memory  *)
(* maps: for every capacity, page size, address width and region array.    *)
(* The loop compares neighbours only; that this orders every pair is the   *)
(* inductive part, carried by Prefix.                                      *)
(***************************************************************************)
EXTENDS RegionValidator, TLAPS

(* The regions before the index are valid, ordered and disjoint, and the    *)
(* loop remembers the last of them.                                         *)
Prefix ==
  /\ \A i \in 1 .. count : i < index => IsRegion(memory_regions[i])
  /\ \A i, j \in 1 .. count :
       i < j /\ j < index =>
         memory_regions[i].start + memory_regions[i].length <= memory_regions[j].start
  /\ 1 < index /\ index <= count + 1 =>
       /\ previous_start = memory_regions[index - 1].start
       /\ previous_end = memory_regions[index - 1].start + memory_regions[index - 1].length
  /\ \A i \in count + 1 .. MAX_MEMORY_REGIONS : i < index => memory_regions[i] = EMPTY_REGION

Accepted == result = "ok" => index = MAX_MEMORY_REGIONS + 1

IInv == TypeOK /\ Prefix /\ Accepted /\ MemoryMapIsAccepted

(* The fields of a region are u64 and the end of a valid one is, too. *)
LEMMA RegionType ==
  ASSUME TypeOK, NEW i \in 1 .. MAX_MEMORY_REGIONS
  PROVE  /\ memory_regions[i].start \in U64 /\ memory_regions[i].length \in U64
         /\ memory_regions[i].kind \in Nat
BY RegionTypeAssumption DEF TypeOK

(* What validate_region establishes about a region it accepts. *)
LEMMA RegionAccepted ==
  ASSUME NEW r \in [start : U64, length : U64, kind : Nat, source_kind : Nat, attributes : Nat],
         NEW n \in Nat, NEW s \in U64, NEW e \in U64
  PROVE  /\ validate_region(r, n, s, e) = "ok" =>
              /\ IsRegion(r)
              /\ n > 1 => r.start >= e
         /\ IsRegion(r) /\ (n > 1 => r.start >= e /\ e >= s)
              => validate_region(r, n, s, e) = "ok"
         /\ validate_region(r, n, s, e) \in RegionErrors \union {"ok"}
<1>1. r.start \in Int /\ r.length \in Int /\ r.kind \in Int /\ s \in Int /\ e \in Int
  BY DEF U64
<1>2. r.length > 0 <=> r.length # 0
  BY DEF U64
<1>3. is_known(r.kind) => r.kind # EMPTY
  BY DEF is_known, EMPTY, RESERVED, MMIO
<1>4. ~(r.start < e) <=> r.start >= e
  BY <1>1
<1>5. r.start >= e /\ e >= s => ~(r.start < s)
  BY <1>1
<1>6. r.start + r.length < U64_BOUND <=> ~(r.start + r.length >= U64_BOUND)
  BY <1>1, BoundAssumption
<1>7. validate_region(r, n, s, e) \in RegionErrors \union {"ok"}
  BY ZenonT(30) DEF validate_region, RegionErrors
<1> QED
  BY <1>2, <1>3, <1>4, <1>5, <1>6, <1>7 DEF validate_region, IsRegion

(* The invariant holds before the first region. *)
LEMMA InitIInv == Init => IInv
<1> SUFFICES ASSUME Init PROVE IInv
  OBVIOUS
<1>1. 0 \in U64
  BY BoundAssumption, PageAssumption DEF U64
<1>2. TypeOK
  BY <1>1, RegionsAssumption DEF Init, TypeOK
<1>3. Prefix
  BY RegionsAssumption DEF Init, Prefix
<1> QED
  BY <1>2, <1>3 DEF Init, IInv, Accepted, MemoryMapIsAccepted

(* Every turn of the two loops keeps the invariant. *)
LEMMA NextIInv == IInv /\ [Next]_vars => IInv'
<1> SUFFICES ASSUME IInv, [Next]_vars PROVE IInv'
  OBVIOUS
<1> USE RegionsAssumption, BoundAssumption
<1>0. /\ count \in Nat /\ index \in Nat /\ count <= MAX_MEMORY_REGIONS
      /\ previous_start \in U64 /\ previous_end \in U64
  BY DEF IInv, TypeOK
<1>1. ASSUME index <= count
      PROVE  /\ region \in [start : U64, length : U64, kind : Nat, source_kind : Nat, attributes : Nat]
             /\ region.start \in Nat /\ region.length \in Nat
             /\ index \in 1 .. MAX_MEMORY_REGIONS
  BY <1>0, <1>1, RegionTypeAssumption DEF IInv, TypeOK, region, U64
<1>2. ASSUME index <= count, index > 1
      PROVE  /\ index - 1 \in 1 .. count
             /\ previous_end >= previous_start
             /\ \A i \in 1 .. count : i < index =>
                  memory_regions[i].start + memory_regions[i].length <= previous_end
  <2>1. index - 1 \in 1 .. count /\ index - 1 \in 1 .. MAX_MEMORY_REGIONS
    BY <1>0, <1>2
  <2>2. /\ previous_start = memory_regions[index - 1].start
        /\ previous_end = memory_regions[index - 1].start + memory_regions[index - 1].length
    BY <1>0, <1>2 DEF IInv, Prefix
  <2>3. \A i \in 1 .. count : memory_regions[i].start \in Nat /\ memory_regions[i].length \in Nat
    BY <1>0, RegionType DEF IInv, U64
  <2>4. ASSUME NEW i \in 1 .. count, i < index
        PROVE  memory_regions[i].start + memory_regions[i].length <= previous_end
    <3>1. CASE i = index - 1
      BY <2>2, <2>3, <3>1
    <3>2. CASE i < index - 1
      <4>1. memory_regions[i].start + memory_regions[i].length <= memory_regions[index - 1].start
        BY <1>0, <2>1, <3>2 DEF IInv, Prefix
      <4> QED
        BY <2>1, <2>2, <2>3, <4>1
    <3> QED
      BY <1>0, <2>4, <3>1, <3>2
  <2> QED
    BY <2>1, <2>2, <2>3, <2>4
<1>3. CASE AcceptRegion
  <2>1. /\ index <= count /\ Verdict = "ok" /\ index' = index + 1
        /\ previous_start' = region.start /\ previous_end' = region.start + region.length
        /\ memory_regions' = memory_regions /\ count' = count /\ result' = result
        /\ result = "running"
    BY <1>3 DEF AcceptRegion
  <2>2. IsRegion(region) /\ (index > 1 => region.start >= previous_end)
    BY <1>0, <1>1, <2>1, RegionAccepted DEF Verdict
  <2>3. TypeOK'
    <3>1. region.start \in U64 /\ region.start + region.length \in U64
      BY <1>1, <2>1, <2>2 DEF IsRegion, U64
    <3> QED
      BY <1>0, <2>1, <3>1 DEF IInv, TypeOK
  <2>4. Prefix'
    <3>1. \A i \in 1 .. count : i < index + 1 => IsRegion(memory_regions[i])
      BY <1>0, <2>2 DEF IInv, Prefix, region
    <3>2. ASSUME NEW i \in 1 .. count, NEW j \in 1 .. count, i < j, j < index + 1
          PROVE  memory_regions[i].start + memory_regions[i].length <= memory_regions[j].start
      <4>1. CASE j < index
        BY <3>2, <4>1 DEF IInv, Prefix
      <4>2. CASE j = index
        <5>1. memory_regions[i].start \in Nat /\ memory_regions[i].length \in Nat
          BY <1>0, RegionType DEF IInv, U64
        <5>2. memory_regions[i].start + memory_regions[i].length <= previous_end
          BY <1>0, <1>2, <2>1, <3>2, <4>2
        <5>3. previous_end <= region.start
          BY <1>0, <1>1, <2>1, <2>2, <3>2, <4>2 DEF U64
        <5> QED
          BY <1>0, <1>1, <2>1, <4>2, <5>1, <5>2, <5>3 DEF region, U64
      <4> QED
        BY <1>0, <3>2, <4>1, <4>2
    <3>3. \A i \in count + 1 .. MAX_MEMORY_REGIONS : ~(i < index + 1)
      BY <1>0, <2>1
    <3>4. index' - 1 = index
      BY <1>0, <2>1
    <3>5. /\ previous_start' = memory_regions'[index' - 1].start
          /\ previous_end' = memory_regions'[index' - 1].start + memory_regions'[index' - 1].length
      BY <2>1, <3>4 DEF region
    <3> QED
      BY <2>1, <3>1, <3>2, <3>3, <3>5 DEF Prefix
  <2> QED
    BY <2>1, <2>3, <2>4 DEF IInv, Accepted, MemoryMapIsAccepted
<1>4. CASE RejectRegion
  <2>1. /\ index <= count /\ Verdict # "ok" /\ result' = Verdict
        /\ UNCHANGED <<memory_regions, count, index, previous_start, previous_end>>
    BY <1>4 DEF RejectRegion
  <2>2. Verdict \in RegionErrors
    BY <1>0, <1>1, <2>1, RegionAccepted DEF Verdict
  <2>3. ~(/\ \A i \in 1 .. count : IsRegion(memory_regions[i])
          /\ OrderedAndDisjoint(count))
    <3> SUFFICES ASSUME \A i \in 1 .. count : IsRegion(memory_regions[i]),
                        OrderedAndDisjoint(count)
                 PROVE  FALSE
      OBVIOUS
    <3>1. IsRegion(region)
      BY <1>0, <1>1, <2>1 DEF region
    <3>2. ASSUME index > 1 PROVE region.start >= previous_end /\ previous_end >= previous_start
      <4>1. memory_regions[index - 1].start + memory_regions[index - 1].length <= region.start
        BY <1>0, <1>1, <1>2, <2>1, <3>2 DEF OrderedAndDisjoint, region
      <4>2. previous_end = memory_regions[index - 1].start + memory_regions[index - 1].length
        BY <1>0, <2>1, <3>2 DEF IInv, Prefix
      <4> QED
        BY <1>0, <1>1, <1>2, <2>1, <3>2, <4>1, <4>2 DEF U64
    <3> QED
      BY <1>0, <1>1, <2>1, <3>1, <3>2, RegionAccepted DEF Verdict
  <2>4. ~IsMemoryMap'
    BY <2>1, <2>3 DEF IsMemoryMap, OrderedAndDisjoint
  <2>5. Prefix'
    BY <2>1 DEF IInv, Prefix
  <2>6. TypeOK'
    BY <2>1, <2>2 DEF IInv, TypeOK
  <2> QED
    BY <2>1, <2>4, <2>5, <2>6 DEF IInv, Accepted, MemoryMapIsAccepted
<1>5. CASE CheckUnused
  <2>1. /\ index \in count + 1 .. MAX_MEMORY_REGIONS /\ result = "running"
        /\ UNCHANGED <<memory_regions, count, previous_start, previous_end>>
    BY <1>5 DEF CheckUnused
  <2>2. CASE region = EMPTY_REGION
    <3>1. index' = index + 1 /\ result' = result
      BY <1>5, <2>2 DEF CheckUnused
    <3>2. Prefix'
      BY <1>0, <2>1, <2>2, <3>1 DEF IInv, Prefix, region
    <3> QED
      BY <1>0, <2>1, <3>1, <3>2 DEF IInv, TypeOK, Accepted, MemoryMapIsAccepted
  <2>3. CASE region # EMPTY_REGION
    <3>1. index' = index /\ result' = "NonZeroUnusedMemoryRegion"
      BY <1>5, <2>3 DEF CheckUnused
    <3>2. ~IsMemoryMap'
      BY <2>1, <2>3, <3>1 DEF IsMemoryMap, region
    <3>3. Prefix'
      BY <2>1, <3>1 DEF IInv, Prefix
    <3>4. TypeOK'
      BY <2>1, <3>1 DEF IInv, TypeOK
    <3> QED
      BY <3>1, <3>2, <3>3, <3>4 DEF IInv, Accepted, MemoryMapIsAccepted
  <2> QED
    BY <2>2, <2>3
<1>6. CASE Finish
  <2>1. /\ index > MAX_MEMORY_REGIONS /\ result' = "ok"
        /\ UNCHANGED <<memory_regions, count, index, previous_start, previous_end>>
    BY <1>6 DEF Finish
  <2>2. Prefix'
    BY <2>1 DEF IInv, Prefix
  <2>3. TypeOK' /\ index' = MAX_MEMORY_REGIONS + 1
    BY <1>0, <2>1 DEF IInv, TypeOK
  <2> QED
    BY <2>1, <2>2, <2>3 DEF IInv, Accepted, MemoryMapIsAccepted
<1>7. CASE UNCHANGED vars
  BY <1>7 DEF vars, IInv, TypeOK, Prefix, Accepted, MemoryMapIsAccepted, IsMemoryMap,
              OrderedAndDisjoint
<1> QED
  BY <1>3, <1>4, <1>5, <1>6, <1>7 DEF Next

(* For every capacity, page size, address width and array: the locals of    *)
(* validate_regions keep their types, and no end of a region wraps around.  *)
THEOREM RegionTypes == Spec => []TypeOK
<1>1. IInv => TypeOK
  BY DEF IInv
<1> QED
  BY <1>1, InitIInv, NextIInv, PTL DEF Spec

(* For every capacity, page size, address width and array: the active       *)
(* regions of an array that validate_regions accepts are whole pages of     *)
(* known kinds, ascending and disjoint in all pairs, and the rest is empty. *)
THEOREM RegionsSound == Spec => []AcceptedIsMemoryMap
<1>1. IInv => AcceptedIsMemoryMap
  BY RegionsAssumption DEF IInv, TypeOK, Prefix, Accepted, AcceptedIsMemoryMap,
                           IsMemoryMap, OrderedAndDisjoint
<1> QED
  BY <1>1, InitIInv, NextIInv, PTL DEF Spec

(* And validate_regions rejects no such array. *)
THEOREM RegionsComplete == Spec => []MemoryMapIsAccepted
<1>1. IInv => MemoryMapIsAccepted
  BY DEF IInv
<1> QED
  BY <1>1, InitIInv, NextIInv, PTL DEF Spec
=============================================================================
