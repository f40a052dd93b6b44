------------------------ MODULE FilePublicationProofs ------------------------
(***************************************************************************)
(* Proofs about FilePublication, for any number of processes, process ids, *)
(* outputs and directories and for all plans.  The invariant has two       *)
(* halves: Local says what a process in the middle of its protocol owns    *)
(* and has written, Global what this means for outputs, disk and promises. *)
(***************************************************************************)
EXTENDS FilePublication, TLAPS

Settled(f, o) == data[f][o] = f /\ written[f][o] = f

(* Process ids of live processes differ, so a temporary file that is being  *)
(* written is one's own; nothing is published twice.                        *)
LocalOf(p) ==
  /\ pc[p] \in {"write", "sync", "rename"} => file[p] = p /\ entry[temporary(p)] = p
  /\ pc[p] = "sync" => data[p][output(p)] = p
  /\ pc[p] = "rename" => Settled(p, output(p))
  /\ pc[p] = "new" => step[p] = 1
  /\ pc[p] \in {"new", "mkdir", "create"} => file[p] = NOBODY
  /\ \A i \in 1 .. Len(plan[p]) :
       \/ i > step[p]
       \/ i = step[p] /\ pc[p] \in {"new", "mkdir", "create", "write", "sync", "rename"}
       => rank[p][plan[p][i]] = 0

Local ==
  /\ TypeOK
  /\ \A p, q \in Processes : Live(p) /\ Live(q) /\ pid[p] = pid[q] => p = q
  /\ \A p \in Processes : LocalOf(p)

(* What is found under an output's name, now or after a crash, was          *)
(* published and is complete.                                               *)
Found(f, o) == f # NOBODY => Settled(f, o) /\ 0 < rank[f][o]

Global ==
  /\ \A o \in Outputs :
       /\ Found(entry[Output(o)], o) /\ Found(stored[Output(o)], o)
       /\ RankOf(stored[Output(o)], o) <= RankOf(entry[Output(o)], o)
  /\ \A p \in Processes :
       /\ Live(p) => \A k \in 1 .. Len(plan[p]) : k < step[p] =>
            /\ 0 < rank[p][plan[p][k]]
            /\ rank[p][plan[p][k]] <= RankOf(stored[Output(plan[p][k])], plan[p][k])
       /\ pc[p] = "dirsync" =>
            /\ 0 < rank[p][output(p)]
            /\ rank[p][output(p)] <= RankOf(entry[Output(output(p))], output(p))
  /\ \A p \in Processes, o \in Outputs :
       <<p, o>> \in promised => parent[o] \in linked /\ 0 < rank[p][o]
  /\ PromiseKept
  /\ PublishedInOrder

IInv == Local /\ Global

-----------------------------------------------------------------------------
(* Names of outputs and of temporary files are distinct. *)
LEMMA NamesDiffer ==
  /\ \A o \in Outputs : Output(o) \in Names /\ Output(o)[1] = o
  /\ \A o \in Outputs, i \in Pids : Temporary(o, i) \in Names /\ Temporary(o, i)[1] = o
  /\ \A o, u \in Outputs : Output(o) = Output(u) => o = u
  /\ \A o, u \in Outputs, i \in Pids : Temporary(o, i) # Output(u)
  /\ \A o, u \in Outputs, i, j \in Pids : Temporary(o, i) = Temporary(u, j) => o = u /\ i = j
BY ValuesAssumption, Zenon DEF Output, Temporary, Names

(* The current output of a process that has not finished is one of its plan. *)
LEMMA CurrentOutput ==
  ASSUME TypeOK, NEW p \in Processes, pc[p] # "ok"
  PROVE  /\ step[p] \in 1 .. Len(plan[p]) /\ output(p) \in Outputs
         /\ temporary(p) \in Names /\ \A o \in Outputs : temporary(p) # Output(o)
<1>1. step[p] \in 1 .. Len(plan[p])
  BY PlanAssumption DEF TypeOK
<1>2. output(p) \in Outputs
  BY <1>1, PlanAssumption DEF output
<1> QED
  BY <1>1, <1>2, NamesDiffer, Zenon DEF temporary, TypeOK

(* A step of one process leaves the others as they are. *)
LEMMA OthersKeep ==
  ASSUME Local, TypeOK', NEW p \in Processes, LocalOf(p)', pid' = pid, pc[p] # "ok",
         \A q \in Processes : Live(q) /\ pid[q] = pid[p] => q = p,
         \A q \in Processes \ {p} :
           /\ pc'[q] = pc[q] /\ step'[q] = step[q] /\ file'[q] = file[q]
           /\ data'[q] = data[q] /\ written'[q] = written[q] /\ rank'[q] = rank[q],
         \A n \in Names :
           n # temporary(p) /\ (\A o \in Outputs : n # Output(o)) => entry'[n] = entry[n]
  PROVE  Local'
<1>1. ASSUME NEW q \in Processes \ {p} PROVE LocalOf(q)'
  <2>1. CASE pc[q] \in {"write", "sync", "rename"}
    <3>1. output(q) \in Outputs /\ output(p) \in Outputs /\ temporary(q) \in Names
          /\ \A o \in Outputs : temporary(q) # Output(o)
      BY <2>1, CurrentOutput, Zenon DEF Local
    <3>2. pid[q] # pid[p] /\ pid[q] \in Pids /\ pid[p] \in Pids
      BY <2>1, Zenon DEF Live, Operations, Local, TypeOK
    <3>3. temporary(q) # temporary(p)
      BY <3>1, <3>2, NamesDiffer DEF temporary
    <3>4. entry'[temporary(q)] = entry[temporary(q)]
      BY <3>1, <3>3, Zenon
    <3>5. output(q)' = output(q) /\ temporary(q)' = temporary(q)
      BY Zenon DEF output, temporary
    <3> QED
      BY <2>1, <3>4, <3>5 DEF Local, LocalOf, Settled
  <2>2. CASE pc[q] \notin {"write", "sync", "rename"}
    BY <2>2 DEF Local, LocalOf
  <2> QED
    BY <2>1, <2>2, Zenon
<1>2. \A q, r \in Processes : Live(q)' /\ Live(r)' /\ pid'[q] = pid'[r] => q = r
  BY Zenon DEF Local, Live
<1> QED
  BY <1>1, <1>2, Zenon DEF Local

(* The disk catches up with what is visible. *)
LEMMA StoredMoves ==
  ASSUME TypeOK, Global, rank' = rank,
         \A o \in Outputs : /\ entry'[Output(o)] = entry[Output(o)]
                            /\ stored'[Output(o)] \in {stored[Output(o)], entry[Output(o)]},
         \A f \in Processes, o \in Outputs : Settled(f, o) => Settled(f, o)'
  PROVE  /\ \A o \in Outputs :
              /\ Found(entry[Output(o)], o)' /\ Found(stored[Output(o)], o)'
              /\ RankOf(stored[Output(o)], o)' <= RankOf(entry[Output(o)], o)'
              /\ RankOf(stored[Output(o)], o) <= RankOf(stored[Output(o)], o)'
              /\ RankOf(entry[Output(o)], o)' = RankOf(entry[Output(o)], o)
              /\ RankOf(stored[Output(o)], o) \in Nat /\ RankOf(stored[Output(o)], o)' \in Nat
              /\ RankOf(entry[Output(o)], o) \in Nat
         /\ PublishedInOrder'
<1>1. \A o \in Outputs : entry[Output(o)] \in Files /\ stored[Output(o)] \in Files
  BY NamesDiffer, Zenon DEF TypeOK
<1>2. \A f \in Files, o \in Outputs :
        RankOf(f, o)' = RankOf(f, o) /\ RankOf(f, o) \in Nat /\ (Found(f, o) => Found(f, o)')
  BY DEF RankOf, Found, Files, TypeOK
<1>3. \A o \in Outputs :
        /\ RankOf(entry[Output(o)], o)' = RankOf(entry[Output(o)], o)
        /\ RankOf(stored[Output(o)], o)' \in {RankOf(stored[Output(o)], o), RankOf(entry[Output(o)], o)}
  BY <1>1, Zenon DEF RankOf
<1>4. \A o \in Outputs : Found(entry[Output(o)], o)' /\ Found(stored[Output(o)], o)'
  BY <1>1, <1>2, Zenon DEF Global, Found
<1>5. \A o \in Outputs :
        /\ RankOf(stored[Output(o)], o)' <= RankOf(entry[Output(o)], o)'
        /\ RankOf(stored[Output(o)], o) <= RankOf(stored[Output(o)], o)'
        /\ RankOf(stored[Output(o)], o) \in Nat /\ RankOf(stored[Output(o)], o)' \in Nat
        /\ RankOf(entry[Output(o)], o) \in Nat
  BY <1>1, <1>2, <1>3 DEF Global
<1>6. PublishedInOrder'
  <2> SUFFICES ASSUME NEW p \in Processes, NEW i \in 1 .. Len(plan[p]),
                      NEW j \in 1 .. Len(plan[p]), i < j, parent[plan[p][i]] = parent[plan[p][j]],
                      p \in {entry'[Output(plan[p][j])], stored'[Output(plan[p][j])]}
               PROVE  /\ 0 < rank'[p][plan[p][i]]
                      /\ rank'[p][plan[p][i]] <= RankOf(entry[Output(plan[p][i])], plan[p][i])'
                      /\ rank'[p][plan[p][i]] <= RankOf(stored[Output(plan[p][i])], plan[p][i])'
    BY Zenon DEF PublishedInOrder
  <2>1. plan[p][i] \in Outputs /\ plan[p][j] \in Outputs
    BY PlanAssumption
  <2>2. p \in {entry[Output(plan[p][j])], stored[Output(plan[p][j])]}
    BY <2>1, Zenon
  <2>3. /\ 0 < rank[p][plan[p][i]]
        /\ rank[p][plan[p][i]] <= RankOf(entry[Output(plan[p][i])], plan[p][i])
        /\ rank[p][plan[p][i]] <= RankOf(stored[Output(plan[p][i])], plan[p][i])
    BY <2>2, Zenon DEF Global, PublishedInOrder
  <2>4. rank[p][plan[p][i]] \in Nat
    BY <2>1 DEF TypeOK
  <2> QED
    BY <1>3, <1>5, <2>1, <2>3, <2>4, Zenon
<1> QED
  BY <1>3, <1>4, <1>5, <1>6, Zenon

(* A step that publishes nothing. *)
LEMMA QuietGlobal ==
  ASSUME TypeOK, Global, linked \subseteq linked', UNCHANGED <<step, rank, promised>>,
         \A o \in Outputs : /\ entry'[Output(o)] = entry[Output(o)]
                            /\ stored'[Output(o)] \in {stored[Output(o)], entry[Output(o)]},
         \A f \in Processes, o \in Outputs : Settled(f, o) => Settled(f, o)',
         \A p \in Processes : /\ Live(p)' => Live(p) \/ step[p] = 1
                              /\ pc'[p] = "dirsync" => pc[p] = "dirsync"
  PROVE  Global'
<1>3. \A p \in Processes : output(p)' = output(p)
  BY Zenon DEF output
<1>4. \A p \in Processes : pc[p] = "dirsync" => output(p) \in Outputs
  BY CurrentOutput, Zenon
<1>5. \A p \in Processes : \A k \in 1 .. Len(plan[p]) : plan[p][k] \in Outputs
  BY PlanAssumption
<1>6. \A p \in Processes, o \in Outputs : rank[p][o] \in Nat
  BY DEF TypeOK
<1>7. PromiseKept'
  BY <1>6, StoredMoves DEF Global, PromiseKept
<1>9. ASSUME NEW p \in Processes, Live(p)', NEW k \in 1 .. Len(plan[p]), k < step'[p]
      PROVE  /\ 0 < rank'[p][plan[p][k]]
             /\ rank'[p][plan[p][k]] <= RankOf(stored[Output(plan[p][k])], plan[p][k])'
  <2>1. step[p] # 1 /\ Live(p)
    <3>1. step[p] # 1
      BY <1>9 DEF TypeOK
    <3> QED
      BY <1>9, <3>1, Zenon
  <2> QED
    BY <1>5, <1>6, <1>9, <2>1, StoredMoves DEF Global
<1>10. ASSUME NEW p \in Processes, pc'[p] = "dirsync"
       PROVE  /\ 0 < rank'[p][output(p)']
              /\ rank'[p][output(p)'] <= RankOf(entry[Output(output(p))], output(p))'
  <2>1. pc[p] = "dirsync" /\ output(p) \in Outputs /\ output(p)' = output(p)
    BY <1>3, <1>4, <1>10, Zenon
  <2>2. RankOf(entry[Output(output(p))], output(p))' = RankOf(entry[Output(output(p))], output(p))
    BY <2>1, Zenon DEF RankOf, Output
  <2> QED
    BY <2>1, <2>2, Zenon DEF Global
<1> QED
  BY <1>7, <1>9, <1>10, StoredMoves, Zenon DEF Global

(* Such a step is a stutter of AtomicOutput. *)
LEMMA QuietAbstract ==
  ASSUME UNCHANGED <<clock, rank, linked, promised>>,
         \A o \in Outputs : /\ entry'[Output(o)] = entry[Output(o)]
                            /\ stored'[Output(o)] = stored[Output(o)]
  PROVE  UNCHANGED Abstract!vars
BY Zenon DEF Abstract!vars

Kept == IInv' /\ [Abstract!Next]_(Abstract!vars)

(* A step of one process that touches no output. *)
LEMMA QuietProcess ==
  ASSUME IInv, TypeOK', NEW p \in Processes, LocalOf(p)',
         UNCHANGED <<stored, linked, pid, step, clock, rank, promised>>,
         pc[p] # "ok", \A q \in Processes : Live(q) /\ pid[q] = pid[p] => q = p,
         Live(p)' => Live(p) \/ step[p] = 1, pc'[p] # "dirsync",
         \A q \in Processes \ {p} :
           /\ pc'[q] = pc[q] /\ file'[q] = file[q]
           /\ data'[q] = data[q] /\ written'[q] = written[q],
         \A o \in Outputs : Settled(p, o) => Settled(p, o)',
         \A n \in Names : n # temporary(p) => entry'[n] = entry[n]
  PROVE  Kept
<1>1. \A o \in Outputs : entry'[Output(o)] = entry[Output(o)] /\ stored'[Output(o)] = stored[Output(o)]
  BY CurrentOutput, NamesDiffer, Zenon DEF IInv, Local
<1>2. Local'
  BY OthersKeep, Zenon DEF IInv
<1>3. \A f \in Processes, o \in Outputs : Settled(f, o) => Settled(f, o)'
  BY Zenon DEF Settled
<1>4. \A q \in Processes : /\ Live(q)' => Live(q) \/ step[q] = 1
                           /\ pc'[q] = "dirsync" => pc[q] = "dirsync"
  BY Zenon DEF Live
<1>5. Global'
  BY <1>1, <1>3, <1>4, QuietGlobal, Zenon DEF IInv, Local
<1> QED
  BY <1>1, <1>2, <1>5, QuietAbstract, Zenon DEF Kept, IInv

LEMMA StartStep ==
  ASSUME IInv, NEW p \in Processes, Start(p)
  PROVE  Kept
<1> USE DEF Start, At, Goto, disk_vars, history
<1>1. TypeOK'
  BY Zenon DEF IInv, Local, TypeOK, Live, Operations
<1>2. LocalOf(p)'
  BY Zenon DEF IInv, Local, LocalOf, TypeOK
<1>3. pc[p] # "ok" /\ pc'[p] # "dirsync" /\ step[p] = 1
  BY Zenon DEF IInv, Local, LocalOf, TypeOK
<1>4. \A q \in Processes \ {p} : pc'[q] = pc[q]
  BY Zenon DEF IInv, Local, TypeOK
<1> QED
  BY <1>1, <1>2, <1>3, <1>4, QuietProcess, Zenon DEF Settled

LEMMA CreateDirAllStep ==
  ASSUME IInv, NEW p \in Processes, CreateDirAll(p)
  PROVE  Kept
<1> USE DEF CreateDirAll, At, Goto, history
<1>1. TypeOK'
  <2>1. parent[output(p)] \in Directories
    BY CurrentOutput, ParentAssumption, Zenon DEF IInv, Local
  <2>2. pc' \in [Processes -> Operations \union {"new", "ok", "failed", "dead"}]
    BY Zenon DEF IInv, Local, TypeOK, Operations
  <2>3. \A q \in Processes : /\ step[q] <= Len(plan[q]) \/ pc'[q] = "ok"
                             /\ file[q] # NOBODY => Live(q)'
    BY ZenonT(30) DEF IInv, Local, LocalOf, TypeOK, Live, Operations
  <2> QED
    BY <2>1, <2>2, <2>3, Zenon DEF IInv, Local, TypeOK
<1>2. LocalOf(p)'
  BY SMTT(30) DEF IInv, Local, LocalOf, TypeOK
<1>3. pc[p] # "ok" /\ pc'[p] # "dirsync" /\ Live(p)
  BY Zenon DEF IInv, Local, TypeOK, Live, Operations
<1>4. \A q \in Processes \ {p} : pc'[q] = pc[q]
  BY Zenon DEF IInv, Local, TypeOK
<1> QED
  BY <1>1, <1>2, <1>3, <1>4, QuietProcess, Zenon DEF IInv, Local, Settled

LEMMA CreateTemporaryStep ==
  ASSUME IInv, NEW p \in Processes, CreateTemporary(p)
  PROVE  Kept
<1> USE DEF CreateTemporary, At, Goto, history
<1>0. temporary(p) \in Names /\ temporary(p)' = temporary(p)
  BY CurrentOutput, Zenon DEF IInv, Local, temporary, output
<1>1. TypeOK'
  <2>1. pc' \in [Processes -> Operations \union {"new", "ok", "failed", "dead"}]
    BY Zenon DEF IInv, Local, TypeOK, Operations
  <2>2. \A q \in Processes : /\ step[q] <= Len(plan[q]) \/ pc'[q] = "ok"
                             /\ file'[q] # NOBODY => Live(q)'
    BY Zenon DEF IInv, Local, TypeOK, Live, Operations
  <2>3. p \in Files /\ entry \in [Names -> Files] /\ file \in [Processes -> Files]
    BY Zenon DEF IInv, Local, TypeOK, Files
  <2>4. entry' \in [Names -> Files] /\ file' \in [Processes -> Files]
    BY <1>0, <2>3, Zenon
  <2> QED
    BY <2>1, <2>2, <2>4, Zenon DEF IInv, Local, TypeOK
<1>2. LocalOf(p)'
  BY <1>0 DEF IInv, Local, LocalOf, TypeOK
<1>3. pc[p] # "ok" /\ pc'[p] # "dirsync" /\ Live(p)
  BY Zenon DEF IInv, Local, TypeOK, Live, Operations
<1>4. /\ \A q \in Processes \ {p} : pc'[q] = pc[q] /\ file'[q] = file[q]
      /\ \A n \in Names : n # temporary(p) => entry'[n] = entry[n]
  BY Zenon DEF IInv, Local, TypeOK
<1> QED
  BY <1>1, <1>2, <1>3, <1>4, QuietProcess, Zenon DEF IInv, Local, Settled

LEMMA WriteAllStep ==
  ASSUME IInv, NEW p \in Processes, WriteAll(p)
  PROVE  Kept
<1> USE DEF WriteAll, At, Goto, history
<1>0. /\ file[p] = p /\ output(p) \in Outputs /\ output(p)' = output(p)
      /\ temporary(p)' = temporary(p)
  BY CurrentOutput, Zenon DEF IInv, Local, LocalOf, temporary, output
<1>1. TypeOK'
  <2>1. pc' \in [Processes -> Operations \union {"new", "ok", "failed", "dead"}]
    BY Zenon DEF IInv, Local, TypeOK, Operations
  <2>2. \A q \in Processes : /\ step[q] <= Len(plan[q]) \/ pc'[q] = "ok"
                             /\ file'[q] # NOBODY => Live(q)'
    BY Zenon DEF IInv, Local, TypeOK, Live, Operations
  <2>3. p \in Bytes /\ data \in [Processes -> [Outputs -> Bytes]]
    BY Zenon DEF IInv, Local, TypeOK, Bytes
  <2>4. data' \in [Processes -> [Outputs -> Bytes]]
    BY <1>0, <2>3
  <2> QED
    BY <2>1, <2>2, <2>4, Zenon DEF IInv, Local, TypeOK
<1>2. LocalOf(p)'
  BY <1>0 DEF IInv, Local, LocalOf, TypeOK
<1>3. pc[p] # "ok" /\ pc'[p] # "dirsync" /\ Live(p)
  BY Zenon DEF IInv, Local, TypeOK, Live, Operations
<1>4. \A q \in Processes \ {p} : pc'[q] = pc[q] /\ data'[q] = data[q]
  BY <1>0, Zenon DEF IInv, Local, TypeOK
<1>5. \A o \in Outputs : Settled(p, o) => Settled(p, o)'
  BY <1>0 DEF IInv, Local, TypeOK, Settled
<1> QED
  BY <1>1, <1>2, <1>3, <1>4, <1>5, QuietProcess, Zenon DEF IInv, Local

LEMMA SyncAllStep ==
  ASSUME IInv, NEW p \in Processes, SyncAll(p)
  PROVE  Kept
<1> USE DEF SyncAll, At, Goto, history
<1>0. /\ file[p] = p /\ output(p) \in Outputs /\ output(p)' = output(p)
      /\ temporary(p)' = temporary(p) /\ data[p][output(p)] = p
  BY CurrentOutput, Zenon DEF IInv, Local, LocalOf, temporary, output
<1>1. TypeOK'
  <2>1. pc' \in [Processes -> Operations \union {"new", "ok", "failed", "dead"}]
    BY Zenon DEF IInv, Local, TypeOK, Operations
  <2>2. \A q \in Processes : /\ step[q] <= Len(plan[q]) \/ pc'[q] = "ok"
                             /\ file'[q] # NOBODY => Live(q)'
    BY Zenon DEF IInv, Local, TypeOK, Live, Operations
  <2>3. p \in Bytes /\ written \in [Processes -> [Outputs -> Bytes]]
    BY Zenon DEF IInv, Local, TypeOK, Bytes
  <2>4. written' \in [Processes -> [Outputs -> Bytes]]
    BY <1>0, <2>3
  <2> QED
    BY <2>1, <2>2, <2>4, Zenon DEF IInv, Local, TypeOK
<1>2. LocalOf(p)'
  BY <1>0 DEF IInv, Local, LocalOf, TypeOK, Settled
<1>3. pc[p] # "ok" /\ pc'[p] # "dirsync" /\ Live(p)
  BY Zenon DEF IInv, Local, TypeOK, Live, Operations
<1>4. \A q \in Processes \ {p} : pc'[q] = pc[q] /\ written'[q] = written[q]
  BY <1>0, Zenon DEF IInv, Local, TypeOK
<1>5. \A o \in Outputs : Settled(p, o) => Settled(p, o)'
  BY <1>0 DEF IInv, Local, TypeOK, Settled
<1> QED
  BY <1>1, <1>2, <1>3, <1>4, <1>5, QuietProcess, Zenon DEF IInv, Local

LEMMA RemoveTemporaryStep ==
  ASSUME IInv, NEW p \in Processes, RemoveTemporary(p)
  PROVE  Kept
<1> USE DEF RemoveTemporary, At, Goto, history
<1>0. temporary(p) \in Names
  BY CurrentOutput, Zenon DEF IInv, Local
<1>1. TypeOK'
  <2>1. pc' \in [Processes -> Operations \union {"new", "ok", "failed", "dead"}]
    BY Zenon DEF IInv, Local, TypeOK, Operations
  <2>2. \A q \in Processes : /\ step[q] <= Len(plan[q]) \/ pc'[q] = "ok"
                             /\ file'[q] # NOBODY => Live(q)'
    BY Zenon DEF IInv, Local, TypeOK, Live, Operations
  <2>3. NOBODY \in Files /\ entry \in [Names -> Files] /\ file \in [Processes -> Files]
    BY Zenon DEF IInv, Local, TypeOK, Files
  <2>4. entry' \in [Names -> Files] /\ file' \in [Processes -> Files]
    BY <1>0, <2>3, Zenon
  <2> QED
    BY <2>1, <2>2, <2>4, Zenon DEF IInv, Local, TypeOK
<1>2. LocalOf(p)'
  BY ZenonT(30) DEF IInv, Local, LocalOf, TypeOK
<1>3. pc[p] # "ok" /\ pc'[p] # "dirsync" /\ Live(p)
  BY Zenon DEF IInv, Local, TypeOK, Live, Operations
<1>4. /\ \A q \in Processes \ {p} : pc'[q] = pc[q] /\ file'[q] = file[q]
      /\ \A n \in Names : n # temporary(p) => entry'[n] = entry[n]
  BY Zenon DEF IInv, Local, TypeOK
<1> QED
  BY <1>1, <1>2, <1>3, <1>4, QuietProcess, Zenon DEF IInv, Local, Settled

LEMMA KillStep ==
  ASSUME IInv, NEW p \in Processes, Kill(p)
  PROVE  Kept
<1> USE DEF Kill, Goto, disk_vars, history
<1>1. TypeOK'
  <2>1. pc' \in [Processes -> Operations \union {"new", "ok", "failed", "dead"}]
    BY Zenon DEF IInv, Local, TypeOK, Operations
  <2>2. \A q \in Processes : /\ step[q] <= Len(plan[q]) \/ pc'[q] = "ok"
                             /\ file'[q] # NOBODY => Live(q)'
    BY Zenon DEF IInv, Local, TypeOK, Live, Operations
  <2>3. file' \in [Processes -> Files]
    BY Zenon DEF IInv, Local, TypeOK, Files
  <2> QED
    BY <2>1, <2>2, <2>3, Zenon DEF IInv, Local, TypeOK
<1>2. LocalOf(p)'
  BY ZenonT(30) DEF IInv, Local, LocalOf, TypeOK
<1>3. pc[p] # "ok" /\ pc'[p] # "dirsync" /\ Live(p)
  BY Zenon DEF IInv, Local, TypeOK, Live, Operations
<1>4. \A q \in Processes \ {p} : pc'[q] = pc[q] /\ file'[q] = file[q]
  BY Zenon DEF IInv, Local, TypeOK
<1> QED
  BY <1>1, <1>2, <1>3, <1>4, QuietProcess, Zenon DEF IInv, Local, Settled

-----------------------------------------------------------------------------
(* Rename publishes: p becomes the newest owner of the output. *)
LEMMA RenameStep ==
  ASSUME IInv, NEW p \in Processes, Rename(p)
  PROVE  Kept
<1>d. /\ pc[p] = "rename"
      /\ UNCHANGED <<stored, data, written, made, linked, pid, step, file, promised>>
  BY Zenon DEF Rename, At
<1> USE <1>d
<1>c. PICK o \in Outputs : o = output(p)
  BY CurrentOutput, Zenon DEF IInv, Local
<1>0. /\ step[p] \in 1 .. Len(plan[p]) /\ o = plan[p][step[p]]
      /\ temporary(p) \in Names /\ \A u \in Outputs : temporary(p) # Output(u)
      /\ entry[temporary(p)] = p /\ Settled(p, o) /\ rank[p][o] = 0
      /\ pc[p] # "ok" /\ Live(p) /\ step' = step /\ output(p)' = o
  BY <1>c, CurrentOutput, Zenon DEF IInv, Local, LocalOf, output, Live, Operations
<1>a. /\ pc' \in [Processes -> Operations \union {"new", "ok", "failed", "dead"}]
      /\ pc'[p] \in {"cleanup", "dirsync"} /\ \A q \in Processes \ {p} : pc'[q] = pc[q]
  BY Zenon DEF IInv, Local, TypeOK, Operations, Rename, Goto
<1>b. \A q \in Processes : /\ step[q] <= Len(plan[q]) \/ pc'[q] = "ok"
                           /\ file[q] # NOBODY => Live(q)'
  BY <1>a, Zenon DEF IInv, Local, TypeOK, Live, Operations
<1>1. CASE pc'[p] = "cleanup"
  <2>1. UNCHANGED <<entry, clock, rank>>
    BY <1>1, Zenon DEF IInv, Local, TypeOK, Rename, Goto
  <2>2. TypeOK'
    BY <2>1, <1>a, <1>b, Zenon DEF IInv, Local, TypeOK
  <2>3. LocalOf(p)'
    BY <1>1, <2>1, Zenon DEF IInv, Local, LocalOf
  <2> QED
    BY <1>0, <1>1, <1>a, <2>1, <2>2, <2>3, QuietProcess, Zenon DEF IInv, Local, Settled
<1>2. CASE pc'[p] = "dirsync"
  <2>1. /\ entry' = [entry EXCEPT ![Output(o)] = p, ![temporary(p)] = NOBODY]
        /\ clock' = clock + 1 /\ rank' = [rank EXCEPT ![p][o] = clock + 1]
    BY <1>0, <1>2, <1>c, Zenon DEF IInv, Local, TypeOK, Rename, Goto
  <2>2. /\ entry'[Output(o)] = p
        /\ \A u \in Outputs : u # o => entry'[Output(u)] = entry[Output(u)]
        /\ \A n \in Names : n # temporary(p) /\ n # Output(o) => entry'[n] = entry[n]
        /\ entry' \in [Names -> Files]
    <3>1. p \in Files /\ NOBODY \in Files /\ entry \in [Names -> Files]
      BY Zenon DEF IInv, Local, TypeOK, Files
    <3> QED
      BY <1>0, <2>1, <3>1, NamesDiffer, Zenon
  <2>3. /\ clock \in Nat /\ rank'[p][o] = clock + 1
        /\ \A q \in Processes \ {p} : rank'[q] = rank[q]
        /\ \A q \in Processes, u \in Outputs : q # p \/ u # o => rank'[q][u] = rank[q][u]
        /\ \A q \in Processes, u \in Outputs : rank[q][u] \in 0 .. clock
        /\ rank' \in [Processes -> [Outputs -> 0 .. clock']]
    <3>1. clock \in Nat /\ rank \in [Processes -> [Outputs -> 0 .. clock]]
      BY Zenon DEF IInv, Local, TypeOK
    <3>2. rank \in [Processes -> [Outputs -> 0 .. (clock + 1)]]
      BY <3>1
    <3> QED
      BY <1>0, <2>1, <3>1, <3>2
  <2>4. TypeOK'
    <3>1. clock' \in Nat /\ entry' \in [Names -> Files]
          /\ rank' \in [Processes -> [Outputs -> 0 .. clock']]
      BY <2>1, <2>2, <2>3
    <3>2. UNCHANGED <<stored, data, written, made, linked, pid, step, file, promised>>
      OBVIOUS
    <3> QED
      BY <1>a, <1>b, <3>1, <3>2, Zenon DEF IInv, Local, TypeOK
  <2>5. LocalOf(p)'
    <3>1. ASSUME NEW i \in 1 .. Len(plan[p]), i > step[p]
          PROVE  rank'[p][plan[p][i]] = 0
      <4>1. plan[p][i] # o /\ plan[p][i] \in Outputs
        BY <1>0, <3>1, PlanAssumption DEF TypeOK
      <4>2. rank[p][plan[p][i]] = 0
        BY <3>1, Zenon DEF IInv, Local, LocalOf
      <4> QED
        BY <2>3, <4>1, <4>2, Zenon
    <3> QED
      BY <1>0, <1>2, <3>1, Zenon DEF LocalOf
  <2>7. Local'
    BY <1>0, <2>2, <2>3, <2>4, <2>5, <1>a, OthersKeep, Zenon DEF IInv, Local
  <2>8. \A u \in Outputs :
          /\ entry[Output(u)] \in Files /\ stored[Output(u)] \in Files
          /\ u = o => entry[Output(u)] # p /\ stored[Output(u)] # p
    <3>1. \A u \in Outputs : entry[Output(u)] \in Files /\ stored[Output(u)] \in Files
      BY NamesDiffer, Zenon DEF IInv, Local, TypeOK
    <3>2. p # NOBODY /\ Found(entry[Output(o)], o) /\ Found(stored[Output(o)], o)
      BY <1>0, ValuesAssumption, Zenon DEF IInv, Global
    <3>3. \A f : Found(f, o) => f # p
      <4>1. ~ (0 < rank[p][o])
        BY <1>0
      <4>2. ~ Found(p, o)
        BY <3>2, <4>1, Zenon DEF Found
      <4> QED
        BY <4>2, Zenon
    <3>4. entry[Output(o)] # p /\ stored[Output(o)] # p
      BY <3>2, <3>3, Zenon
    <3> QED
      BY <3>1, <3>4, Zenon
  <2>9. \A u \in Outputs :
          /\ RankOf(stored[Output(u)], u)' = RankOf(stored[Output(u)], u)
          /\ RankOf(stored[Output(u)], u) \in 0 .. clock
          /\ RankOf(entry[Output(u)], u) \in 0 .. clock
          /\ u # o => RankOf(entry[Output(u)], u)' = RankOf(entry[Output(u)], u)
    <3> QED
      BY <2>2, <2>3, <2>8 DEF RankOf, Files
  <2>10. RankOf(entry[Output(o)], o)' = clock + 1
    BY <1>0, <2>2, <2>3, ValuesAssumption, Zenon DEF RankOf, Output
  <2>s. \A f \in Processes, u \in Outputs : Settled(f, u) => Settled(f, u)'
    BY Zenon DEF Settled
  <2>11. \A q \in Processes : \A k \in 1 .. Len(plan[q]) : plan[q][k] \in Outputs
    BY PlanAssumption
  <2>12. \A u \in Outputs :
           /\ Found(entry[Output(u)], u)' /\ Found(stored[Output(u)], u)'
           /\ RankOf(stored[Output(u)], u)' <= RankOf(entry[Output(u)], u)'
    <3> SUFFICES ASSUME NEW u \in Outputs
                 PROVE  /\ Found(entry[Output(u)], u)' /\ Found(stored[Output(u)], u)'
                        /\ RankOf(stored[Output(u)], u)' <= RankOf(entry[Output(u)], u)'
      OBVIOUS
    <3>1. CASE u = o
      <4>1. Found(entry[Output(u)], u)'
        <5>1. 0 < rank'[p][o]
          BY <2>3
        <5> QED
          BY <1>0, <2>2, <2>s, <3>1, <5>1, Zenon DEF Found
      <4>2. Found(stored[Output(u)], u)'
        BY <2>3, <2>8, <2>s, <3>1, Zenon DEF IInv, Global, Found, Files
      <4>3. RankOf(stored[Output(u)], u)' <= clock + 1
        BY <2>3, <2>9
      <4> QED
        BY <2>10, <3>1, <4>1, <4>2, <4>3, Zenon
    <3>2. CASE u # o
      <4>1. \A f \in Files : Found(f, u) => Found(f, u)'
        BY <2>3, <2>s, <3>2, Zenon DEF Found, Files
      <4>2. entry'[Output(u)] = entry[Output(u)] /\ stored' = stored
        BY <2>2, <3>2, Zenon
      <4>3. Found(entry[Output(u)], u)' /\ Found(stored[Output(u)], u)'
        BY <2>8, <4>1, <4>2, Zenon DEF IInv, Global, Found
      <4> QED
        BY <2>9, <3>2, <4>3, Zenon DEF IInv, Global
    <3> QED
      BY <3>1, <3>2, Zenon
  <2>13. ASSUME NEW q \in Processes, Live(q)', NEW k \in 1 .. Len(plan[q]), k < step'[q]
         PROVE  /\ 0 < rank'[q][plan[q][k]]
                /\ rank'[q][plan[q][k]] <= RankOf(stored[Output(plan[q][k])], plan[q][k])'
    <3>1. Live(q) /\ k < step[q]
      BY <1>0, <1>a, <2>13, Zenon DEF Live
    <3>2. q # p \/ plan[q][k] # o
      BY <1>0, <3>1, PlanAssumption
    <3>3. rank'[q][plan[q][k]] = rank[q][plan[q][k]]
      BY <2>3, <2>11, <3>2, Zenon
    <3> QED
      BY <2>9, <2>11, <3>1, <3>3, Zenon DEF IInv, Global
  <2>14. ASSUME NEW q \in Processes, pc'[q] = "dirsync"
         PROVE  /\ 0 < rank'[q][output(q)']
                /\ rank'[q][output(q)'] <= RankOf(entry[Output(output(q))], output(q))'
    <3>1. CASE q = p
      <4>1. RankOf(entry[Output(output(q))], output(q))' = RankOf(entry[Output(o)], o)'
        BY <1>0, <3>1, Zenon DEF RankOf, Output
      <4> QED
        BY <1>0, <2>3, <2>10, <3>1, <4>1
    <3>2. CASE q # p
      <4>1. pc[q] = "dirsync" /\ output(q)' = output(q) /\ output(q) \in Outputs
        BY <1>0, <1>a, <2>14, <3>2, CurrentOutput, Zenon DEF IInv, Local, output
      <4>2. /\ rank'[q][output(q)] = rank[q][output(q)] /\ rank[q][output(q)] \in 0 .. clock
            /\ 0 < rank[q][output(q)]
            /\ rank[q][output(q)] <= RankOf(entry[Output(output(q))], output(q))
        BY <2>3, <3>2, <4>1, Zenon DEF IInv, Global
      <4>3. \A u \in Outputs :
              rank[q][u] <= RankOf(entry[Output(u)], u) /\ rank[q][u] \in 0 .. clock
              => rank[q][u] <= RankOf(entry[Output(u)], u)'
        BY <2>3, <2>9, <2>10
      <4> QED
        BY <4>1, <4>2, <4>3, Zenon DEF RankOf, Output
    <3> QED
      BY <3>1, <3>2, Zenon
  <2>15. \A q \in Processes, u \in Outputs :
           <<q, u>> \in promised' => /\ parent[u] \in linked' /\ 0 < rank'[q][u]
                                     /\ rank'[q][u] <= RankOf(stored[Output(u)], u)'
    <3> SUFFICES ASSUME NEW q \in Processes, NEW u \in Outputs, <<q, u>> \in promised
                 PROVE  /\ parent[u] \in linked /\ 0 < rank'[q][u]
                        /\ rank'[q][u] <= RankOf(stored[Output(u)], u)'
      OBVIOUS
    <3>1. /\ parent[u] \in linked /\ 0 < rank[q][u]
          /\ rank[q][u] <= RankOf(stored[Output(u)], u)
      BY Zenon DEF IInv, Global, PromiseKept
    <3>2. rank'[q][u] = rank[q][u]
      BY <1>0, <2>3, <3>1
    <3> QED
      BY <2>9, <3>1, <3>2, Zenon
  <2>16. PublishedInOrder'
    <3> SUFFICES ASSUME NEW q \in Processes, NEW i \in 1 .. Len(plan[q]),
                        NEW j \in 1 .. Len(plan[q]), i < j,
                        parent[plan[q][i]] = parent[plan[q][j]],
                        q \in {entry'[Output(plan[q][j])], stored'[Output(plan[q][j])]}
                 PROVE  /\ 0 < rank'[q][plan[q][i]]
                        /\ rank'[q][plan[q][i]] <= RankOf(entry[Output(plan[q][i])], plan[q][i])'
                        /\ rank'[q][plan[q][i]] <= RankOf(stored[Output(plan[q][i])], plan[q][i])'
      BY Zenon DEF PublishedInOrder
    <3> DEFINE before == plan[q][i]
    <3> DEFINE after == plan[q][j]
    <3>1. before \in Outputs /\ after \in Outputs /\ before # after
      BY PlanAssumption
    <3>2. /\ 0 < rank[q][before] /\ rank[q][before] \in 0 .. clock
          /\ rank[q][before] <= RankOf(entry[Output(before)], before)
          /\ rank[q][before] <= RankOf(stored[Output(before)], before)
      <4>1. CASE q = p /\ after = o
        <5>1. j = step[p]
          BY <1>0, <4>1, PlanAssumption
        <5>2. /\ 0 < rank[q][before]
              /\ rank[q][before] <= RankOf(stored[Output(before)], before)
          BY <1>0, <4>1, <5>1, Zenon DEF IInv, Global
        <5>3. RankOf(stored[Output(before)], before) <= RankOf(entry[Output(before)], before)
          BY <3>1, Zenon DEF IInv, Global
        <5>4. /\ rank[q][before] \in 0 .. clock
              /\ RankOf(stored[Output(before)], before) \in 0 .. clock
              /\ RankOf(entry[Output(before)], before) \in 0 .. clock
          BY <2>3, <2>9, <3>1, Zenon
        <5> QED
          BY <2>3, <5>2, <5>3, <5>4
      <4>2. CASE q # p \/ after # o
        <5>1. q \in {entry[Output(after)], stored[Output(after)]}
          BY <1>0, <2>2, <3>1, <4>2, Zenon
        <5> QED
          BY <2>3, <3>1, <5>1, Zenon DEF IInv, Global, PublishedInOrder
      <4> QED
        BY <4>1, <4>2, Zenon
    <3>3. q # p \/ before # o
      BY <1>0, <3>2
    <3>4. rank'[q][before] = rank[q][before]
      BY <2>3, <3>1, <3>3, Zenon
    <3>5. rank[q][before] <= RankOf(entry[Output(before)], before)'
      <4>1. CASE before = o
        BY <2>3, <2>10, <3>2, <4>1
      <4>2. CASE before # o
        BY <2>9, <3>1, <3>2, <4>2, Zenon
      <4> QED
        BY <4>1, <4>2, Zenon
    <3> QED
      BY <2>9, <3>1, <3>2, <3>4, <3>5, Zenon
  <2>17. Global'
    BY <2>12, <2>13, <2>14, <2>15, <2>16, Zenon DEF Global, PromiseKept
  <2>18. Abstract!Publish(p, o)
    <3>1. [u \in Outputs |-> entry[Output(u)]]'
            = [[u \in Outputs |-> entry[Output(u)]] EXCEPT ![o] = p]
      BY <2>2, Zenon
    <3> QED
      BY <1>0, <2>1, <3>1, Zenon DEF Abstract!Publish
  <2> QED
    BY <1>0, <2>7, <2>17, <2>18, Zenon DEF Kept, IInv, Abstract!Next
<1> QED
  BY <1>1, <1>2, <1>a, Zenon

-----------------------------------------------------------------------------
(* A successful return: the whole directory is on the disk. *)
LEMMA SyncDirectoryStep ==
  ASSUME IInv, NEW p \in Processes, SyncDirectory(p)
  PROVE  Kept
<1>d. /\ pc[p] = "dirsync"
      /\ UNCHANGED <<entry, data, written, made, linked, pid, clock, rank>>
  BY Zenon DEF SyncDirectory, At
<1> USE <1>d
<1>c. PICK o \in Outputs : o = output(p)
  BY CurrentOutput, Zenon DEF IInv, Local
<1>0. /\ step[p] \in 1 .. Len(plan[p]) /\ o = plan[p][step[p]] /\ pc[p] # "ok" /\ Live(p)
      /\ 0 < rank[p][o] /\ rank[p][o] <= RankOf(entry[Output(o)], o)
  BY <1>c, CurrentOutput, Zenon DEF IInv, Local, Global, output, Live, Operations
<1>a. pc' \in [Processes -> Operations \union {"new", "ok", "failed", "dead"}]
  BY Zenon DEF IInv, Local, TypeOK, Operations, SyncDirectory, Return, Goto
<1>b. \A q \in Processes \ {p} : pc'[q] = pc[q]
  BY Zenon DEF IInv, Local, TypeOK, SyncDirectory, Return, Goto
<1>1. CASE pc'[p] = "cleanup"
  <2>1. UNCHANGED <<stored, step, file, promised>>
    BY <1>1, Zenon DEF IInv, Local, TypeOK, SyncDirectory, Return, Goto
  <2>2. TypeOK'
    <3>1. \A q \in Processes : /\ step[q] <= Len(plan[q]) \/ pc'[q] = "ok"
                               /\ file[q] # NOBODY => Live(q)'
      BY <1>1, <1>b, Zenon DEF IInv, Local, TypeOK, Live, Operations
    <3> QED
      BY <1>a, <2>1, <3>1, Zenon DEF IInv, Local, TypeOK
  <2>3. LocalOf(p)'
    BY <1>1, <2>1, Zenon DEF IInv, Local, LocalOf
  <2> QED
    BY <1>0, <1>1, <1>b, <2>1, <2>2, <2>3, QuietProcess, Zenon DEF IInv, Local, Settled
<1>2. CASE pc'[p] # "cleanup"
  <2>1. /\ stored' = SyncedOn(InDirectory(parent[o]))
        /\ promised' = IF parent[o] \in linked THEN promised \union {<<p, o>>} ELSE promised
        /\ step' = [step EXCEPT ![p] = step[p] + 1]
        /\ file' = [file EXCEPT ![p] = NOBODY]
        /\ pc' = [pc EXCEPT ![p] = IF step[p] = Len(plan[p]) THEN "ok" ELSE "mkdir"]
    BY <1>2, <1>c, Zenon DEF IInv, Local, TypeOK, SyncDirectory, Return, Goto
  <2>2. \A u \in Outputs :
          stored'[Output(u)] = IF parent[u] = parent[o] THEN entry[Output(u)] ELSE stored[Output(u)]
    BY <2>1, NamesDiffer, Zenon DEF SyncedOn, InDirectory
  <2>3. TypeOK'
    <3>1. stored' \in [Names -> Files]
      BY <2>1, Zenon DEF SyncedOn, IInv, Local, TypeOK
    <3>2. promised' \subseteq Processes \X Outputs
      BY <2>1 DEF IInv, Local, TypeOK
    <3>3. step' \in [Processes -> Nat \ {0}] /\ file' \in [Processes -> Files]
      BY <2>1 DEF IInv, Local, TypeOK, Files
    <3>4. \A q \in Processes : /\ step'[q] <= Len(plan[q]) \/ pc'[q] = "ok"
                               /\ file'[q] # NOBODY => Live(q)'
      <4>1. ASSUME NEW q \in Processes, q # p
            PROVE  /\ step'[q] <= Len(plan[q]) \/ pc'[q] = "ok"
                   /\ file'[q] # NOBODY => Live(q)'
        BY <1>b, <2>1, <4>1, Zenon DEF IInv, Local, TypeOK, Live
      <4>2. step'[p] <= Len(plan[p]) \/ pc'[p] = "ok"
        BY <1>0, <2>1 DEF IInv, Local, TypeOK
      <4>3. file'[p] = NOBODY
        BY <2>1, Zenon DEF IInv, Local, TypeOK
      <4> QED
        BY <4>1, <4>2, <4>3, Zenon
    <3> QED
      BY <1>a, <3>1, <3>2, <3>3, <3>4, Zenon DEF IInv, Local, TypeOK
  <2>4. /\ step'[p] = step[p] + 1 /\ pc'[p] \in {"ok", "mkdir"} /\ file'[p] = NOBODY
        /\ \A q \in Processes \ {p} : step'[q] = step[q] /\ file'[q] = file[q]
    BY <2>1, Zenon DEF IInv, Local, TypeOK
  <2>5. LocalOf(p)'
    <3>1. ASSUME NEW i \in 1 .. Len(plan[p]), i >= step'[p]
          PROVE  rank'[p][plan[p][i]] = 0
      <4>1. i > step[p]
        BY <1>0, <2>4, <3>1
      <4> QED
        BY <4>1, Zenon DEF IInv, Local, LocalOf
    <3> QED
      BY <1>0, <2>4, <3>1 DEF LocalOf
  <2>6. Local'
    BY <1>0, <1>b, <2>3, <2>4, <2>5, OthersKeep, Zenon DEF IInv, Local
  <2>7. \A u \in Outputs : stored'[Output(u)] \in {stored[Output(u)], entry[Output(u)]}
    BY <2>2, Zenon
  <2>8. \A f \in Processes, u \in Outputs : Settled(f, u) => Settled(f, u)'
    BY Zenon DEF Settled
  <2>9. Global'
    <3>1. /\ \A u \in Outputs :
               /\ Found(entry[Output(u)], u)' /\ Found(stored[Output(u)], u)'
               /\ RankOf(stored[Output(u)], u)' <= RankOf(entry[Output(u)], u)'
               /\ RankOf(stored[Output(u)], u) <= RankOf(stored[Output(u)], u)'
               /\ RankOf(entry[Output(u)], u)' = RankOf(entry[Output(u)], u)
               /\ RankOf(stored[Output(u)], u) \in Nat /\ RankOf(stored[Output(u)], u)' \in Nat
          /\ PublishedInOrder'
      BY <2>7, <2>8, StoredMoves, Zenon DEF IInv, Local
    <3>2. rank[p][o] <= RankOf(stored[Output(o)], o)' /\ 0 < rank'[p][o]
      BY <1>0, <2>2, Zenon DEF RankOf
    <3>3. \A q \in Processes : \A k \in 1 .. Len(plan[q]) : plan[q][k] \in Outputs
      BY PlanAssumption
    <3>4. \A q \in Processes, u \in Outputs : rank[q][u] \in Nat
      BY DEF IInv, Local, TypeOK
    <3>5. ASSUME NEW q \in Processes, Live(q)', NEW k \in 1 .. Len(plan[q]), k < step'[q]
          PROVE  /\ 0 < rank'[q][plan[q][k]]
                 /\ rank'[q][plan[q][k]] <= RankOf(stored[Output(plan[q][k])], plan[q][k])'
      <4>1. CASE q = p /\ k = step[p]
        BY <1>0, <3>2, <4>1, Zenon
      <4>2. CASE ~ (q = p /\ k = step[p])
        <5>1. Live(q) /\ k < step[q]
          <6>1. CASE q = p
            BY <1>0, <2>4, <3>5, <4>2, <6>1
          <6>2. CASE q # p
            BY <1>b, <2>4, <3>5, <6>2, Zenon DEF Live
          <6> QED
            BY <6>1, <6>2, Zenon
        <5> DEFINE u == plan[q][k]
        <5>2. /\ u \in Outputs /\ 0 < rank[q][u]
              /\ rank[q][u] <= RankOf(stored[Output(u)], u)
          BY <3>3, <5>1, Zenon DEF IInv, Global
        <5>3. rank[q][u] <= RankOf(stored[Output(u)], u)'
          BY <3>1, <3>4, <5>2
        <5> QED
          BY <5>2, <5>3, Zenon
      <4> QED
        BY <4>1, <4>2, Zenon
    <3>6. ASSUME NEW q \in Processes, pc'[q] = "dirsync"
          PROVE  /\ 0 < rank'[q][output(q)']
                 /\ rank'[q][output(q)'] <= RankOf(entry[Output(output(q))], output(q))'
      <4>1. q # p /\ pc[q] = "dirsync" /\ output(q)' = output(q) /\ output(q) \in Outputs
        BY <1>b, <2>4, <3>6, CurrentOutput, Zenon DEF IInv, Local, output
      <4>2. RankOf(entry[Output(output(q))], output(q))' = RankOf(entry[Output(output(q))], output(q))
        BY <4>1, Zenon DEF RankOf, Output
      <4> QED
        BY <4>1, <4>2, Zenon DEF IInv, Global
    <3>7. ASSUME NEW q \in Processes, NEW u \in Outputs, <<q, u>> \in promised'
          PROVE  /\ parent[u] \in linked' /\ 0 < rank'[q][u]
                 /\ rank'[q][u] <= RankOf(stored[Output(u)], u)'
      <4>1. CASE <<q, u>> \in promised
        <5>1. /\ parent[u] \in linked /\ 0 < rank[q][u]
              /\ rank[q][u] <= RankOf(stored[Output(u)], u)
          BY <4>1, Zenon DEF IInv, Global, PromiseKept
        <5> QED
          BY <3>1, <3>4, <5>1
      <4>2. CASE <<q, u>> \notin promised
        <5>1. q = p /\ u = o /\ parent[o] \in linked
          BY <2>1, <3>7, <4>2, Zenon
        <5> QED
          BY <3>2, <5>1, Zenon
      <4> QED
        BY <4>1, <4>2, Zenon
    <3> QED
      BY <3>1, <3>5, <3>6, <3>7, Zenon DEF Global, PromiseKept
  <2>10. Abstract!Promise(p, o, InDirectory(parent[o]))
    <3>1. [u \in Outputs |-> stored[Output(u)]]'
            = [u \in Outputs |-> IF u \in InDirectory(parent[o])
                                 THEN [v \in Outputs |-> entry[Output(v)]][u]
                                 ELSE [v \in Outputs |-> stored[Output(v)]][u]]
      BY <2>2, Zenon DEF InDirectory
    <3>2. promised' = IF o \in {u \in Outputs : parent[u] \in linked}
                        THEN promised \union {<<p, o>>} ELSE promised
      BY <2>1, Zenon
    <3>3. o \in InDirectory(parent[o])
      BY Zenon DEF InDirectory
    <3> QED
      BY <1>0, <3>1, <3>2, <3>3, Zenon DEF Abstract!Promise, Abstract!SettledOn
  <2> QED
    BY <2>6, <2>9, <2>10, Zenon DEF Kept, IInv, Abstract!Next, InDirectory
<1> QED
  BY <1>1, <1>2, Zenon

-----------------------------------------------------------------------------
(* Steps of the operating system. *)
LEMMA WriteBackDataStep ==
  ASSUME IInv, NEW p \in Processes, NEW o \in Outputs, WriteBackData(p, o)
  PROVE  Kept
<1> USE DEF WriteBackData, history
<1>1. /\ written' \in [Processes -> [Outputs -> Bytes]]
      /\ \A q \in Processes, u \in Outputs : written'[q][u] \in {written[q][u], data[q][u]}
  BY Zenon DEF IInv, Local, TypeOK
<1>2. TypeOK'
  BY <1>1, Zenon DEF IInv, Local, TypeOK, Live
<1>3. \A f \in Processes, u \in Outputs : Settled(f, u) => Settled(f, u)'
  BY <1>1, Zenon DEF Settled
<1>4. \A q \in Processes : output(q)' = output(q) /\ temporary(q)' = temporary(q)
  BY Zenon DEF output, temporary
<1>5. \A q \in Processes : pc[q] = "rename" => output(q) \in Outputs
  BY CurrentOutput, Zenon DEF IInv, Local
<1>6. Local'
  BY <1>2, <1>3, <1>4, <1>5, Zenon DEF IInv, Local, LocalOf, Live
<1>7. Global'
  BY <1>3, QuietGlobal, Zenon DEF IInv, Local, Live
<1> QED
  BY <1>6, <1>7, QuietAbstract, Zenon DEF Kept, IInv

LEMMA WriteBackEntryStep ==
  ASSUME IInv, NEW n \in Names, WriteBackEntry(n)
  PROVE  Kept
<1> USE DEF WriteBackEntry, history
<1>1. stored' \in [Names -> Files]
  BY Zenon DEF IInv, Local, TypeOK
<1>2. TypeOK'
  BY <1>1, Zenon DEF IInv, Local, TypeOK, Live
<1>3. \A q \in Processes : output(q)' = output(q) /\ temporary(q)' = temporary(q)
  BY Zenon DEF output, temporary
<1>4. Local'
  BY <1>2, <1>3, Zenon DEF IInv, Local, LocalOf, Live, Settled
<1>5. \A o \in Outputs : stored'[Output(o)] = IF Output(o) = n THEN entry[Output(o)] ELSE stored[Output(o)]
  BY NamesDiffer, Zenon DEF IInv, Local, TypeOK
<1>6. Global'
  BY <1>5, QuietGlobal, Zenon DEF IInv, Local, Live, Settled
<1>7. Abstract!Settle({o \in Outputs : Output(o) = n})
  <2>1. [o \in Outputs |-> stored[Output(o)]]'
          = [o \in Outputs |-> IF o \in {u \in Outputs : Output(u) = n}
                               THEN [v \in Outputs |-> entry[Output(v)]][o]
                               ELSE [v \in Outputs |-> stored[Output(v)]][o]]
    BY <1>5, Zenon
  <2> QED
    BY <2>1, Zenon DEF Abstract!Settle, Abstract!SettledOn
<1> QED
  BY <1>4, <1>6, <1>7, Zenon DEF Kept, IInv, Abstract!Next

LEMMA WriteBackDirectoryStep ==
  ASSUME IInv, NEW d \in Directories, WriteBackDirectory(d)
  PROVE  Kept
<1> USE DEF WriteBackDirectory, history
<1>1. TypeOK'
  BY Zenon DEF IInv, Local, TypeOK, Live
<1>2. \A q \in Processes : output(q)' = output(q) /\ temporary(q)' = temporary(q)
  BY Zenon DEF output, temporary
<1>3. Local'
  BY <1>1, <1>2, Zenon DEF IInv, Local, LocalOf, Live, Settled
<1>4. Global'
  BY QuietGlobal, Zenon DEF IInv, Local, Live, Settled
<1>5. Abstract!Keep(InDirectory(d))
  <2>1. {o \in Outputs : parent[o] \in linked}'
          = {o \in Outputs : parent[o] \in linked} \union InDirectory(d)
    BY Zenon DEF InDirectory
  <2> QED
    BY <2>1, Zenon DEF Abstract!Keep
<1> QED
  BY <1>3, <1>4, <1>5, Zenon DEF Kept, IInv, Abstract!Next, InDirectory

(* After a crash the disk is what is visible, and no process is alive. *)
LEMMA CrashStep ==
  ASSUME IInv, Crash
  PROVE  Kept
<1>1. /\ data' = written /\ made' = linked
      /\ UNCHANGED <<written, linked, pid, step, clock, rank, promised>>
  BY Zenon DEF Crash, history
<1> USE <1>1
<1>2. \A p \in Processes : ~ Live(p)'
  BY Zenon DEF Live, Operations, Crash
<1>3. TypeOK'
  <2>1. pc' \in [Processes -> Operations \union {"new", "ok", "failed", "dead"}]
    BY Zenon DEF IInv, Local, TypeOK, Operations, Live, Crash
  <2>2. Survivor \in [Names -> Files]
    BY Zenon DEF IInv, Local, TypeOK, Survivor, Files
  <2>3. \A p \in Processes : step[p] <= Len(plan[p]) \/ pc'[p] = "ok"
    BY Zenon DEF IInv, Local, TypeOK, Live, Operations, Crash
  <2>4. file' \in [Processes -> Files] /\ \A p \in Processes : file'[p] = NOBODY
    BY Zenon DEF Files, Crash
  <2>5. data' \in [Processes -> [Outputs -> Bytes]] /\ made' \subseteq Directories
    BY Zenon DEF IInv, Local, TypeOK
  <2>6. entry' \in [Names -> Files] /\ stored' \in [Names -> Files]
    BY <2>2, Zenon DEF Crash
  <2> QED
    BY <2>1, <2>3, <2>4, <2>5, <2>6, Zenon DEF IInv, Local, TypeOK
<1>4. Local'
  <2>1. ASSUME NEW p \in Processes PROVE LocalOf(p)'
    <3>1. /\ pc'[p] \notin {"mkdir", "create", "write", "sync", "rename"} /\ file'[p] = NOBODY
          /\ pc'[p] = "new" => pc[p] = "new"
      BY Zenon DEF Live, Operations, Crash
    <3> QED
      BY <3>1, Zenon DEF IInv, Local, LocalOf
  <2> QED
    BY <1>2, <1>3, <2>1, Zenon DEF Local
<1>5. \A o \in Outputs :
        /\ entry'[Output(o)] = IF parent[o] \in linked THEN stored[Output(o)] ELSE NOBODY
        /\ stored'[Output(o)] = entry'[Output(o)] /\ stored[Output(o)] \in Files
  BY NamesDiffer, Zenon DEF Survivor, IInv, Local, TypeOK, Crash
<1>6. \A f \in Files, o \in Outputs :
        RankOf(f, o)' = RankOf(f, o) /\ RankOf(f, o) \in Nat /\ (Found(f, o) => Found(f, o)')
  BY DEF RankOf, Found, Settled, Files, IInv, Local, TypeOK
<1>7. Global'
  <2>1. \A o \in Outputs :
          /\ Found(entry[Output(o)], o)' /\ Found(stored[Output(o)], o)'
          /\ RankOf(stored[Output(o)], o)' <= RankOf(entry[Output(o)], o)'
          /\ parent[o] \in linked => /\ RankOf(entry[Output(o)], o)' = RankOf(stored[Output(o)], o)
                                     /\ RankOf(stored[Output(o)], o)' = RankOf(stored[Output(o)], o)
    <3> SUFFICES ASSUME NEW o \in Outputs
                 PROVE  /\ Found(entry[Output(o)], o)' /\ Found(stored[Output(o)], o)'
                        /\ RankOf(stored[Output(o)], o)' <= RankOf(entry[Output(o)], o)'
                        /\ parent[o] \in linked =>
                             /\ RankOf(entry[Output(o)], o)' = RankOf(stored[Output(o)], o)
                             /\ RankOf(stored[Output(o)], o)' = RankOf(stored[Output(o)], o)
      OBVIOUS
    <3>1. Found(stored[Output(o)], o)
      BY Zenon DEF IInv, Global
    <3>2. CASE parent[o] \in linked
      BY <1>5, <1>6, <3>1, <3>2 DEF Found, RankOf
    <3>3. CASE parent[o] \notin linked
      BY <1>5, <3>3 DEF Found, RankOf
    <3> QED
      BY <3>2, <3>3, Zenon
  <2>2. PromiseKept'
    BY <2>1, Zenon DEF IInv, Global, PromiseKept
  <2>3. PublishedInOrder'
    <3> SUFFICES ASSUME NEW p \in Processes, NEW i \in 1 .. Len(plan[p]),
                        NEW j \in 1 .. Len(plan[p]), i < j,
                        parent[plan[p][i]] = parent[plan[p][j]],
                        p \in {entry'[Output(plan[p][j])], stored'[Output(plan[p][j])]}
                 PROVE  /\ 0 < rank'[p][plan[p][i]]
                        /\ rank'[p][plan[p][i]] <= RankOf(entry[Output(plan[p][i])], plan[p][i])'
                        /\ rank'[p][plan[p][i]] <= RankOf(stored[Output(plan[p][i])], plan[p][i])'
      BY Zenon DEF PublishedInOrder
    <3>1. plan[p][i] \in Outputs /\ plan[p][j] \in Outputs
      BY PlanAssumption
    <3>2. parent[plan[p][i]] \in linked /\ p = stored[Output(plan[p][j])]
      BY <1>5, <3>1, ValuesAssumption, Zenon
    <3> QED
      BY <2>1, <3>1, <3>2, Zenon DEF IInv, Global, PublishedInOrder
  <2>4. \A p \in Processes : ~ Live(p)' /\ pc'[p] # "dirsync"
    BY <1>2, Zenon DEF Live, Operations
  <2> QED
    BY <2>1, <2>2, <2>3, <2>4, Zenon DEF IInv, Global
<1>8. Abstract!Crash
  <2>1. [o \in Outputs |-> entry[Output(o)]]'
          = [o \in Outputs |-> IF o \in {u \in Outputs : parent[u] \in linked}
                               THEN [v \in Outputs |-> stored[Output(v)]][o] ELSE NOBODY]
    BY <1>5, Zenon
  <2>2. [o \in Outputs |-> stored[Output(o)]]' = [o \in Outputs |-> entry[Output(o)]]'
    BY <1>5, Zenon
  <2> QED
    BY <2>1, <2>2, Zenon DEF Abstract!Crash
<1> QED
  BY <1>4, <1>7, <1>8, Zenon DEF Kept, IInv, Abstract!Next

-----------------------------------------------------------------------------
LEMMA InitHolds ==
  ASSUME Init
  PROVE  IInv /\ Abstract!Init
<1>0. /\ \A p \in Processes : pc[p] = "new" /\ step[p] = 1 /\ file[p] = NOBODY
      /\ \A p \in Processes, o \in Outputs : rank[p][o] = 0
      /\ pid \in [Processes -> Pids] /\ promised = {}
  BY Zenon DEF Init
<1>1. TypeOK
  <2>1. \A p \in Processes : 1 <= Len(plan[p])
    BY PlanAssumption
  <2> QED
    BY <2>1 DEF Init, TypeOK, Files, Bytes, Live, Operations
<1>2. Local
  <2>1. \A p \in Processes : \A i \in 1 .. Len(plan[p]) : plan[p][i] \in Outputs
    BY PlanAssumption
  <2> QED
    BY <1>0, <1>1, <2>1, Zenon DEF Local, LocalOf, Live, Operations
<1>3. \A o \in Outputs : entry[Output(o)] = NOBODY /\ stored[Output(o)] = NOBODY
  BY NamesDiffer, Zenon DEF Init
<1>4. \A p \in Processes : \A i \in 1 .. Len(plan[p]) : plan[p][i] \in Outputs
  BY PlanAssumption
<1>5. PublishedInOrder
  BY <1>3, <1>4, ValuesAssumption, Zenon DEF PublishedInOrder
<1>6. Global
  BY <1>0, <1>3, <1>5 DEF Global, PromiseKept, Found, RankOf, Live, Operations
<1>7. Abstract!Init
  BY <1>3, Zenon DEF Abstract!Init, Init
<1> QED
  BY <1>2, <1>6, <1>7, Zenon DEF IInv

(* Every step keeps the invariant and is a step of AtomicOutput or a stutter. *)
LEMMA StepHolds ==
  ASSUME IInv, [Next]_vars
  PROVE  IInv' /\ [Abstract!Next]_(Abstract!vars)
<1>1. ASSUME NEW p \in Processes, Publisher(p) PROVE Kept
  BY <1>1, StartStep, CreateDirAllStep, CreateTemporaryStep, WriteAllStep, SyncAllStep,
     RenameStep, SyncDirectoryStep, RemoveTemporaryStep, KillStep DEF Publisher
<1>2. ASSUME UNCHANGED vars PROVE Kept
  <2>1. Local'
    <3>1. TypeOK'
      BY <1>2, Zenon DEF vars, IInv, Local, TypeOK, Live
    <3>2. \A p \in Processes : output(p)' = output(p) /\ temporary(p)' = temporary(p)
      BY <1>2, Zenon DEF vars, output, temporary
    <3> QED
      BY <1>2, <3>1, <3>2, Zenon DEF vars, IInv, Local, LocalOf, Live, Settled
  <2>2. Global'
    BY <1>2, QuietGlobal, Zenon DEF vars, IInv, Local, Live, Settled
  <2> QED
    BY <1>2, <2>1, <2>2, QuietAbstract, Zenon DEF vars, Kept, IInv
<1>3. Next => Kept
  BY <1>1, WriteBackDataStep, WriteBackEntryStep, WriteBackDirectoryStep, CrashStep, Zenon DEF Next
<1> QED
  BY <1>2, <1>3, Zenon DEF Kept

(* Every variable keeps its type, and only live processes hold files open.  *)
THEOREM PublicationTypes == Spec => []TypeOK
<1>1. Init => IInv
  BY InitHolds, Zenon
<1>2. IInv /\ [Next]_vars => IInv'
  BY StepHolds, Zenon
<1>3. IInv => TypeOK
  BY Zenon DEF IInv, Local
<1> QED
  BY <1>1, <1>2, <1>3, PTL DEF Spec

(* The bytes under an output's name, visible or left by a crash, are one    *)
(* run's complete bytes, however many runs share directories and process    *)
(* ids and whichever of their steps fail (write_atomic).                    *)
THEOREM OutputsAreWhole == Spec => []OutputIsWhole
<1>1. Init => IInv
  BY InitHolds, Zenon
<1>2. IInv /\ [Next]_vars => IInv'
  BY StepHolds, Zenon
<1>3. IInv => OutputIsWhole
  BY Zenon DEF IInv, Global, Found, Settled, OutputIsWhole
<1> QED
  BY <1>1, <1>2, <1>3, PTL DEF Spec

(* What write_atomic has confirmed survives every crash. *)
THEOREM OutputsAreDurable == Spec => []PromiseKept
<1>1. Init => IInv
  BY InitHolds, Zenon
<1>2. IInv /\ [Next]_vars => IInv'
  BY StepHolds, Zenon
<1>3. IInv => PromiseKept
  BY Zenon DEF IInv, Global
<1> QED
  BY <1>1, <1>2, <1>3, PTL DEF Spec

(* The outputs of one run appear in the order of its plan, for readers and  *)
(* on the disk: verify never leaves a later one behind without the earlier  *)
(* ones of its directory.                                                   *)
THEOREM OutputsInOrder == Spec => []PublishedInOrder
<1>1. Init => IInv
  BY InitHolds, Zenon
<1>2. IInv /\ [Next]_vars => IInv'
  BY StepHolds, Zenon
<1>3. IInv => PublishedInOrder
  BY Zenon DEF IInv, Global
<1> QED
  BY <1>1, <1>2, <1>3, PTL DEF Spec

(* The protocol of write_atomic, write_verified_file and write_json_atomic  *)
(* implements AtomicOutput.                                                 *)
THEOREM PublicationIsAtomic == Spec => PublishesAtomically
<1>1. Init => IInv /\ Abstract!Init
  BY InitHolds, Zenon
<1>2. IInv /\ [Next]_vars => IInv' /\ [Abstract!Next]_(Abstract!vars)
  BY StepHolds, Zenon
<1> QED
  BY <1>1, <1>2, PTL DEF Spec, PublishesAtomically, Abstract!Spec
=============================================================================
