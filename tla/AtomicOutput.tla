---------------------------- MODULE AtomicOutput -----------------------------
(***************************************************************************)
(* What write_atomic, write_verified_file and write_json_atomic promise:   *)
(* an output is always some publisher's complete bytes or absent, also     *)
(* after a crash, and once a publisher is told Ok no crash takes the       *)
(* output back to an earlier version.                                      *)
(***************************************************************************)
EXTENDS Naturals

CONSTANTS
  Outputs,      \* output paths
  Processes,    \* publishers; each publishes its own bytes, once per output
  NOBODY        \* publisher of an output that does not exist

VARIABLES
  visible,      \* whose bytes a reader of the output finds
  disk,         \* whose bytes a reader finds after a crash
  clock,        \* publications so far
  rank,         \* number of a process's publication of an output; 0 if none
  kept,         \* outputs whose directory itself survives a crash
  promised      \* <<process, output>> for which Ok was returned

vars == <<visible, disk, clock, rank, kept, promised>>

Init ==
  /\ visible = [o \in Outputs |-> NOBODY]
  /\ disk = [o \in Outputs |-> NOBODY]
  /\ clock = 0 /\ rank = [p \in Processes |-> [o \in Outputs |-> 0]]
  /\ kept \in SUBSET Outputs
  /\ promised = {}

Publish(p, o) ==
  /\ rank[p][o] = 0
  /\ clock' = clock + 1 /\ rank' = [rank EXCEPT ![p][o] = clock + 1]
  /\ visible' = [visible EXCEPT ![o] = p]
  /\ UNCHANGED <<disk, kept, promised>>

SettledOn(S) == [o \in Outputs |-> IF o \in S THEN visible[o] ELSE disk[o]]

Settle(S) ==
  /\ disk' = SettledOn(S)
  /\ UNCHANGED <<visible, clock, rank, kept, promised>>

(* A directory that was only just created may still be lost as a whole:     *)
(* nothing is promised about it.                                            *)
Promise(p, o, S) ==
  /\ rank[p][o] > 0 /\ o \in S
  /\ disk' = SettledOn(S)
  /\ promised' = IF o \in kept THEN promised \union {<<p, o>>} ELSE promised
  /\ UNCHANGED <<visible, clock, rank, kept>>

Keep(S) ==
  /\ kept' = kept \union S
  /\ UNCHANGED <<visible, disk, clock, rank, promised>>

Crash ==
  LET survivor == [o \in Outputs |-> IF o \in kept THEN disk[o] ELSE NOBODY] IN
  /\ visible' = survivor /\ disk' = survivor
  /\ UNCHANGED <<clock, rank, kept, promised>>

Next ==
  \/ \E p \in Processes, o \in Outputs :
       Publish(p, o) \/ \E S \in SUBSET Outputs : Promise(p, o, S)
  \/ \E S \in SUBSET Outputs : Settle(S) \/ Keep(S)
  \/ Crash

Spec == Init /\ [][Next]_vars
=============================================================================
