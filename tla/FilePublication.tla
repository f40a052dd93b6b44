--------------------------- MODULE FilePublication ---------------------------
(***************************************************************************)
(* Publication of output files by image, baseline and repro-check: a       *)
(* temporary file beside the output, sync, rename, sync of the directory.  *)
(* Every step may fail, a process may be killed and the host may crash at  *)
(* any moment.  The file system promises no more than POSIX: what is not   *)
(* synced reaches the disk at any time or not at all, each directory entry *)
(* on its own, so that after a crash both names of a renamed file, or only *)
(* one, may be found.                                                      *)
(***************************************************************************)
EXTENDS Naturals, Sequences

CONSTANTS
  Outputs,       \* output paths
  Directories,
  parent,        \* directory of an output
  Processes,     \* runs of a command, each with bytes of its own
  Pids,          \* process ids
  plan,          \* outputs a run publishes, in this order
  NOBODY,        \* no file
  TORN           \* empty or incomplete bytes

ASSUME ParentAssumption == parent \in [Outputs -> Directories]
ASSUME PlanAssumption ==
  /\ plan \in [Processes -> Seq(Outputs)]
  /\ \A p \in Processes :
       /\ plan[p] # <<>>
       /\ \A i, j \in 1 .. Len(plan[p]) : plan[p][i] = plan[p][j] => i = j
ASSUME ValuesAssumption == NOBODY \notin Processes \union Pids /\ TORN \notin Processes

Names == Outputs \X ({NOBODY} \union Pids)   \* of directory entries
Output(o) == <<o, NOBODY>>
Temporary(o, id) == <<o, id>>                \* .{name}.tmp-{pid}

(* A file is called after the process that created it; a process creates    *)
(* one for each output of its plan.                                         *)
Files == Processes \union {NOBODY}
Bytes == Processes \union {TORN}

VARIABLES
  entry,         \* directory entries as processes see them
  stored,        \* and as they are on the disk
  data,          \* data[p][o]: bytes of the file p created for o
  written,       \* the bytes of it that are on the disk
  made, linked,  \* directories that exist, and whose own entry is on the disk
  pid, pc, step, \* per process: its id, next operation, position in the plan
  file,          \* per process: the file it holds open
  clock, rank,   \* history: publications in order, as in AtomicOutput
  promised       \* history: successful returns, of which a crash takes nothing back

vars == <<entry, stored, data, written, made, linked, pid, pc, step, file, clock, rank,
          promised>>
disk_vars == <<entry, stored, data, written, made, linked>>
history == <<clock, rank, promised>>

Init ==
  /\ entry = [n \in Names |-> NOBODY] /\ stored = [n \in Names |-> NOBODY]
  /\ data = [p \in Processes |-> [o \in Outputs |-> TORN]]
  /\ written = [p \in Processes |-> [o \in Outputs |-> TORN]]
  /\ made \in SUBSET Directories /\ linked = made
  /\ pid \in [Processes -> Pids]
  /\ pc = [p \in Processes |-> "new"] /\ step = [p \in Processes |-> 1]
  /\ file = [p \in Processes |-> NOBODY]
  /\ clock = 0 /\ rank = [p \in Processes |-> [o \in Outputs |-> 0]]
  /\ promised = {}

Operations == {"mkdir", "create", "write", "sync", "rename", "dirsync", "cleanup"}
Live(p) == pc[p] \in Operations
output(p) == plan[p][step[p]]
temporary(p) == Temporary(output(p), pid[p])
At(p, operation) == pc[p] = operation
Goto(p, operation) == pc' = [pc EXCEPT ![p] = operation]

-----------------------------------------------------------------------------
(* The id of a process that is no longer alive may be given out again. *)
Start(p) ==
  /\ At(p, "new") /\ \A q \in Processes : Live(q) => pid[q] # pid[p]
  /\ Goto(p, "mkdir")
  /\ UNCHANGED <<disk_vars, pid, step, file, history>>

(* Its error returns before there is anything to clean up. *)
CreateDirAll(p) ==
  /\ At(p, "mkdir")
  /\ \/ Goto(p, "create") /\ made' = made \union {parent[output(p)]}
     \/ Goto(p, "failed") /\ UNCHANGED made
  /\ UNCHANGED <<entry, stored, data, written, linked, pid, step, file, history>>

(* Plausible mistake in the next action: an old temporary file is truncated *)
(* and used again.                                                          *)
CreateTruncating(p) ==
  /\ At(p, "create") /\ Goto(p, "write")
  /\ LET old == entry[temporary(p)] IN
     IF old = NOBODY
     THEN /\ entry' = [entry EXCEPT ![temporary(p)] = p]
          /\ file' = [file EXCEPT ![p] = p] /\ UNCHANGED data
     ELSE /\ data' = [data EXCEPT ![old][output(p)] = TORN]
          /\ file' = [file EXCEPT ![p] = old] /\ UNCHANGED entry
  /\ UNCHANGED <<stored, written, made, linked, pid, step, history>>

(* create_new: an existing file of this name is an error. *)
CreateTemporary(p) ==
  /\ At(p, "create")
  /\ \/ /\ entry[temporary(p)] = NOBODY
        /\ entry' = [entry EXCEPT ![temporary(p)] = p]
        /\ file' = [file EXCEPT ![p] = p]
        /\ Goto(p, "write")
     \/ Goto(p, "cleanup") /\ UNCHANGED <<entry, file>>
  /\ UNCHANGED <<stored, data, written, made, linked, pid, step, history>>

WriteAll(p) ==
  /\ At(p, "write")
  /\ \/ data' = [data EXCEPT ![file[p]][output(p)] = p] /\ Goto(p, "sync")
     \/ Goto(p, "cleanup") /\ UNCHANGED data
  /\ UNCHANGED <<entry, stored, written, made, linked, pid, step, file, history>>

(* Plausible mistake: the bytes are left to the operating system. *)
SyncNothing(p) ==
  /\ At(p, "sync") /\ Goto(p, "rename")
  /\ UNCHANGED <<disk_vars, pid, step, file, history>>

SyncAll(p) ==
  /\ At(p, "sync")
  /\ \/ /\ written' = [written EXCEPT ![file[p]][output(p)] = data[file[p]][output(p)]]
        /\ Goto(p, "rename")
     \/ Goto(p, "cleanup") /\ UNCHANGED written
  /\ UNCHANGED <<entry, stored, data, made, linked, pid, step, file, history>>

(* Plausible mistake: the file is linked to the output instead. *)
LinkOutput(p) ==
  /\ At(p, "rename") /\ Goto(p, "dirsync")
  /\ entry' = [entry EXCEPT ![Output(output(p))] = entry[temporary(p)]]
  /\ clock' = clock + 1 /\ rank' = [rank EXCEPT ![p][output(p)] = clock + 1]
  /\ UNCHANGED <<stored, data, written, made, linked, pid, step, file, promised>>

(* Atomic for every reader; the name of a removed file cannot be renamed.   *)
Rename(p) ==
  /\ At(p, "rename")
  /\ \/ /\ entry[temporary(p)] # NOBODY
        /\ entry' = [entry EXCEPT ![Output(output(p))] = entry[temporary(p)],
                                  ![temporary(p)] = NOBODY]
        /\ clock' = clock + 1 /\ rank' = [rank EXCEPT ![p][output(p)] = clock + 1]
        /\ Goto(p, "dirsync")
     \/ Goto(p, "cleanup") /\ UNCHANGED <<entry, clock, rank>>
  /\ UNCHANGED <<stored, data, written, made, linked, pid, step, file, promised>>

(* The outputs in the directory d, which a sync of d brings to the disk.    *)
InDirectory(d) == {o \in Outputs : parent[o] = d}
SyncedOn(S) == [n \in Names |-> IF n[1] \in S THEN entry[n] ELSE stored[n]]

(* write_atomic returns Ok; repro-check goes on with its next output. *)
Return(p) ==
  /\ promised' = IF parent[output(p)] \in linked
                   THEN promised \union {<<p, output(p)>>} ELSE promised
  /\ step' = [step EXCEPT ![p] = step[p] + 1]
  /\ file' = [file EXCEPT ![p] = NOBODY]
  /\ Goto(p, IF step[p] = Len(plan[p]) THEN "ok" ELSE "mkdir")

(* Plausible mistake: the directory is not synced. *)
ReturnUnsynced(p) ==
  /\ At(p, "dirsync") /\ Return(p)
  /\ UNCHANGED <<disk_vars, pid, clock, rank>>

SyncDirectory(p) ==
  /\ At(p, "dirsync")
  /\ \/ stored' = SyncedOn(InDirectory(parent[output(p)])) /\ Return(p)
     \/ Goto(p, "cleanup") /\ UNCHANGED <<stored, step, file, promised>>
  /\ UNCHANGED <<entry, data, written, made, linked, pid, clock, rank>>

(* Every error ends here; the result of remove_file is ignored.             *)
RemoveTemporary(p) ==
  /\ At(p, "cleanup") /\ Goto(p, "failed")
  /\ file' = [file EXCEPT ![p] = NOBODY]
  /\ \/ entry' = [entry EXCEPT ![temporary(p)] = NOBODY]
     \/ UNCHANGED entry
  /\ UNCHANGED <<stored, data, written, made, linked, pid, step, history>>

Kill(p) ==
  /\ Live(p) /\ Goto(p, "dead")
  /\ file' = [file EXCEPT ![p] = NOBODY]
  /\ UNCHANGED <<disk_vars, pid, step, history>>

Publisher(p) ==
  \/ Start(p) \/ CreateDirAll(p) \/ CreateTemporary(p) \/ WriteAll(p) \/ SyncAll(p)
  \/ Rename(p) \/ SyncDirectory(p) \/ RemoveTemporary(p) \/ Kill(p)

-----------------------------------------------------------------------------
(* The operating system, at any time. *)

WriteBackData(p, o) ==
  /\ written[p][o] # data[p][o] /\ written' = [written EXCEPT ![p][o] = data[p][o]]
  /\ UNCHANGED <<entry, stored, data, made, linked, pid, pc, step, file, history>>

WriteBackEntry(n) ==
  /\ stored[n] # entry[n] /\ stored' = [stored EXCEPT ![n] = entry[n]]
  /\ UNCHANGED <<entry, data, written, made, linked, pid, pc, step, file, history>>

WriteBackDirectory(d) ==
  /\ d \in made \ linked /\ linked' = linked \union {d}
  /\ UNCHANGED <<entry, stored, data, written, made, pid, pc, step, file, history>>

(* What survives a crash: nothing of a directory that is not linked. *)
Survivor == [n \in Names |-> IF parent[n[1]] \in linked THEN stored[n] ELSE NOBODY]

Crash ==
  /\ entry' = Survivor /\ stored' = Survivor
  /\ data' = written /\ made' = linked
  /\ pc' = [p \in Processes |-> IF Live(p) THEN "dead" ELSE pc[p]]
  /\ file' = [p \in Processes |-> NOBODY]
  /\ UNCHANGED <<written, linked, pid, step, history>>

Next ==
  \/ \E p \in Processes : Publisher(p)
  \/ \E p \in Processes, o \in Outputs : WriteBackData(p, o)
  \/ \E n \in Names : WriteBackEntry(n)
  \/ \E d \in Directories : WriteBackDirectory(d)
  \/ Crash

Spec == Init /\ [][Next]_vars

-----------------------------------------------------------------------------
(* Open files belong to live processes, and every variable has its type. *)
TypeOK ==
  /\ entry \in [Names -> Files] /\ stored \in [Names -> Files]
  /\ data \in [Processes -> [Outputs -> Bytes]]
  /\ written \in [Processes -> [Outputs -> Bytes]]
  /\ made \subseteq Directories /\ linked \subseteq made
  /\ pid \in [Processes -> Pids]
  /\ pc \in [Processes -> Operations \union {"new", "ok", "failed", "dead"}]
  /\ step \in [Processes -> Nat \ {0}] /\ file \in [Processes -> Files]
  /\ clock \in Nat /\ rank \in [Processes -> [Outputs -> 0 .. clock]]
  /\ promised \subseteq Processes \X Outputs
  /\ \A p \in Processes :
       /\ step[p] <= Len(plan[p]) \/ pc[p] = "ok"
       /\ file[p] # NOBODY => Live(p)

(* A reader of an output finds some process's complete bytes, and would     *)
(* find complete bytes after a crash in this very state.                    *)
OutputIsWhole ==
  \A o \in Outputs :
    /\ LET f == entry[Output(o)] IN f # NOBODY => data[f][o] = f
    /\ LET f == stored[Output(o)] IN f # NOBODY => written[f][o] = f

RankOf(f, o) == IF f = NOBODY THEN 0 ELSE rank[f][o]

(* Once a process has been told Ok, the disk holds its output or a later    *)
(* one for good: no crash takes it back.                                    *)
PromiseKept ==
  \A p \in Processes, o \in Outputs :
    <<p, o>> \in promised => rank[p][o] <= RankOf(stored[Output(o)], o)

(* Outputs of one run are published in the order of its plan, on the disk   *)
(* too: where a later one is found, the earlier ones of the same directory  *)
(* are this run's or newer.  An image, a loader, a kernel and a map of one  *)
(* directory are never a new map beside an old kernel.                      *)
PublishedInOrder ==
  \A p \in Processes : \A i, j \in 1 .. Len(plan[p]) :
    LET before == plan[p][i]
        after  == plan[p][j]
    IN  /\ i < j /\ parent[before] = parent[after]
        /\ p \in {entry[Output(after)], stored[Output(after)]}
        => /\ 0 < rank[p][before]
           /\ rank[p][before] <= RankOf(entry[Output(before)], before)
           /\ rank[p][before] <= RankOf(stored[Output(before)], before)

(* A successful run leaves no temporary file, not even for after a crash,   *)
(* until its process id is used again.                                      *)
NoTemporaryLeft ==
  \A p \in Processes :
    /\ pc[p] = "ok"
    /\ \A q \in Processes : q # p /\ pid[q] = pid[p] => pc[q] = "new"
    => \A o \in Outputs :
         LET name == Temporary(o, pid[p]) IN entry[name] = NOBODY /\ stored[name] = NOBODY

(* What AtomicOutput sees of the file system. *)
Abstract ==
  INSTANCE AtomicOutput WITH
    visible <- [o \in Outputs |-> entry[Output(o)]],
    disk <- [o \in Outputs |-> stored[Output(o)]],
    kept <- {o \in Outputs : parent[o] \in linked}

(* The protocol implements AtomicOutput: a publication is one step, whole   *)
(* or not at all (write_atomic).                                            *)
PublishesAtomically == Abstract!Spec
=============================================================================
