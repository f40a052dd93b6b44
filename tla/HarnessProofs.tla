--------------------------- MODULE HarnessProofs ----------------------------
(***************************************************************************)
(* The harness loses no process: for every timeout, sampling interval, log *)
(* bound and request, whether kills fail or not, and whatever the guest,   *)
(* QEMU and `ps` do.                                                       *)
(***************************************************************************)
EXTENDS BootSystem, TLAPS

Alive == {"running", "zombie"}
Gone  == {"none", "reaped"}

ChildTypes ==
  /\ child \in [Children -> Alive \union Gone]
  /\ guard \in [Children -> {"none", "armed", "disarmed"}]

Guarded == \A c \in Children : child[c] \in Alive => guard[c] = "armed"

(* The children that are gone at each place of the code: all before the     *)
(* spawn and after a return, QEMU once the loop has ended, `ps` once the    *)
(* sampler is dropped.                                                      *)
GoneAt ==
  /\ step \in {"prepare", "spawn", "returned", "failed", "done"} =>
       child["qemu"] \in Gone /\ child["ps"] \in Gone
  /\ step \in {"final_observe", "final_poll", "finish"} => child["qemu"] \in Gone
  /\ step = "drop_qemu" => child["ps"] \in Gone

IInv == ChildTypes /\ Guarded /\ GoneAt

(* The invariant says what ChildrenReaped asks for. *)
LEMMA IInvReaped == IInv => ChildrenReaped
BY DEF IInv, ChildTypes, Guarded, GoneAt, ChildrenReaped, Children, Alive, Gone

(* No process has been started at first. *)
LEMMA InitIInv == Init => IInv
BY DEF Init, HostInit, IInv, ChildTypes, Guarded, GoneAt, Children, Alive, Gone

(* A step of the loop, or one that leaves it, that touches no process. *)
LEMMA QuietStep ==
  ASSUME IInv, UNCHANGED <<child, guard>>,
         \/ step' = step
         \/ step = "prepare" /\ step' \in {"spawn", "failed"}
         \/ step = "spawn" /\ step' = "failed"
         \/ step' \in {"sample_clock", "observe", "try_wait", "check_deadline", "terminate",
                       "poll", "drop_sampler"}
         \/ step = "final_observe" /\ step' = "final_poll"
         \/ step = "returned" /\ step' \in {"failed", "done"}
  PROVE  IInv'
BY DEF IInv, ChildTypes, Guarded, GoneAt, Children, Alive, Gone

(* ChildGuard::terminate and ChildGuard::drop leave a reaped child, or one  *)
(* that was not alive.                                                      *)
LEMMA DropGone ==
  ASSUME ChildTypes, Guarded, NEW c \in Children, Drop(c)
  PROVE  /\ ChildTypes' /\ Guarded' /\ child'[c] \in Gone
         /\ \A d \in Children : d # c => child'[d] = child[d]
<1>1. CASE guard[c] = "armed"
  BY <1>1 DEF Drop, KillAndWait, ChildTypes, Guarded, Children, Alive, Gone
<1>2. CASE guard[c] # "armed"
  BY <1>2 DEF Drop, ChildTypes, Guarded, Children, Alive, Gone
<1> QED BY <1>1, <1>2

(* The five outcomes of RssSampler::poll concern `ps` only. *)
LEMMA PollKeeps ==
  ASSUME ChildTypes, Guarded, NEW time,
         PollReaps(time) \/ PollWaits \/ PollKills(time) \/ PollStarts(time) \/ PollSkips(time)
  PROVE  ChildTypes' /\ Guarded' /\ child'["qemu"] = child["qemu"]
<1>1. CASE PollReaps(time)
  BY <1>1 DEF PollReaps, ChildTypes, Guarded, Children, Alive, Gone
<1>2. CASE PollWaits
  BY <1>2 DEF PollWaits, ChildTypes, Guarded, Children, Alive, Gone
<1>3. CASE PollKills(time)
  BY <1>3 DEF PollKills, ChildTypes, Guarded, Children, Alive, Gone
<1>4. CASE PollStarts(time)
  BY <1>4 DEF PollStarts, Spawned, ChildTypes, Guarded, Children, Alive, Gone
<1>5. CASE PollSkips(time)
  BY <1>5 DEF PollSkips, ChildTypes, Guarded, Children, Alive, Gone
<1> QED BY <1>1, <1>2, <1>3, <1>4, <1>5

(* The steps of the harness. *)
LEMMA HarnessKeeps == IInv /\ HarnessStep => IInv'
<1> SUFFICES ASSUME IInv, HarnessStep PROVE IInv'
  OBVIOUS
<1>1. CASE Prepare
  BY <1>1, QuietStep DEF Prepare
<1>2. CASE Spawn
  BY <1>2 DEF Spawn, Spawned, IInv, ChildTypes, Guarded, GoneAt, Children, Alive, Gone
<1>3. CASE SampleClock
  BY <1>3, QuietStep DEF SampleClock
<1>4. CASE ObserveLog
  BY <1>4, QuietStep DEF ObserveLog, Observe
<1>5. CASE HostError
  BY <1>5, QuietStep DEF HostError
<1>6. CASE TryWait
  <2>1. CASE child["qemu"] = "zombie"
    BY <1>6, <2>1 DEF TryWait, IInv, ChildTypes, Guarded, GoneAt, Children, Alive, Gone
  <2>2. CASE child["qemu"] # "zombie"
    BY <1>6, <2>2, QuietStep DEF TryWait
  <2> QED BY <2>1, <2>2
<1>7. CASE CheckDeadline
  BY <1>7, QuietStep DEF CheckDeadline
<1>8. CASE Terminate
  BY <1>8 DEF Terminate, KillAndWait, IInv, ChildTypes, Guarded, GoneAt, Children, Alive, Gone
<1>9. CASE PollSampler
  <2>1. ChildTypes' /\ Guarded'
    BY <1>9, PollKeeps DEF PollSampler, Poll, IInv
  <2> QED BY <1>9, <2>1 DEF PollSampler, Poll, IInv, GoneAt
<1>10. CASE FinalObserve
  BY <1>10, QuietStep DEF FinalObserve, Observe
<1>11. CASE FinalPoll
  <2>1. ChildTypes' /\ Guarded' /\ child'["qemu"] = child["qemu"]
    BY <1>11, PollKeeps DEF FinalPoll, Poll, IInv
  <2> QED BY <1>11, <2>1 DEF FinalPoll, Poll, IInv, GoneAt
<1>12. CASE Finish
  <2>1. CASE guard["ps"] = "armed"
    BY <1>12, <2>1 DEF Finish, FinishSampler, IInv, ChildTypes, Guarded, GoneAt, Children, Alive, Gone
  <2>2. CASE guard["ps"] # "armed"
    BY <1>12, <2>2 DEF Finish, FinishSampler, IInv, ChildTypes, Guarded, GoneAt, Children, Alive, Gone
  <2> QED BY <2>1, <2>2
<1>13. CASE DropSampler
  <2>1. ChildTypes' /\ Guarded' /\ child'["ps"] \in Gone
    BY <1>13, DropGone DEF DropSampler, IInv, Children
  <2> QED BY <1>13, <2>1 DEF DropSampler, IInv, GoneAt
<1>14. CASE DropQemu
  <2>1. ChildTypes' /\ Guarded' /\ child'["qemu"] \in Gone /\ child'["ps"] = child["ps"]
    BY <1>14, DropGone DEF DropQemu, IInv, Children
  <2> QED BY <1>14, <2>1 DEF DropQemu, IInv, GoneAt
<1>15. CASE Report
  BY <1>15, QuietStep DEF Report
<1> QED
  BY <1>1, <1>2, <1>3, <1>4, <1>5, <1>6, <1>7, <1>8, <1>9, <1>10, <1>11, <1>12, <1>13, <1>14,
     <1>15 DEF HarnessStep

(* The ends of the processes, and everything else around the harness. *)
LEMMA SurroundingsKeep == IInv /\ (Tick \/ PsExits \/ Environment) => IInv'
<1> SUFFICES ASSUME IInv, Tick \/ PsExits \/ Environment PROVE IInv'
  OBVIOUS
<1>1. CASE Tick
  BY <1>1, QuietStep DEF Tick
<1>2. CASE PsExits
  BY <1>2 DEF PsExits, IInv, ChildTypes, Guarded, GoneAt, Children, Alive, Gone
<1>3. CASE GuestStartsRecord
  BY <1>3, QuietStep DEF GuestStartsRecord, HostUnchanged
<1>4. CASE GuestEndsRecord
  BY <1>4, QuietStep DEF GuestEndsRecord, HostUnchanged
<1>5. CASE FirmwareWrites
  BY <1>5, QuietStep DEF FirmwareWrites, HostUnchanged
<1>6. CASE GuestStops
  BY <1>6, QuietStep DEF GuestStops, HostUnchanged
<1>7. CASE QemuExits
  BY <1>7 DEF QemuExits, Running, HostUnchanged, IInv, ChildTypes, Guarded, GoneAt, Children,
     Alive, Gone
<1>8. CASE QemuDies
  BY <1>8 DEF QemuDies, Running, HostUnchanged, IInv, ChildTypes, Guarded, GoneAt, Children,
     Alive, Gone
<1> QED BY <1>1, <1>2, <1>3, <1>4, <1>5, <1>6, <1>7, <1>8 DEF Environment

(* observe_boot and execute_bounded_qemu return, by every path, only when   *)
(* every process they started has been reaped, and until then each is held  *)
(* by an armed ChildGuard (ChildGuard, RssSampler).                         *)
THEOREM ChildrenAreReaped == Spec => []ChildrenReaped
<1>1. IInv /\ [Next]_vars => IInv'
  <2> SUFFICES ASSUME IInv, [Next]_vars PROVE IInv'
    OBVIOUS
  <2>1. CASE UNCHANGED vars
    BY <2>1, QuietStep DEF vars, host
  <2>2. CASE Next
    BY <2>2, HarnessKeeps, SurroundingsKeep DEF Next
  <2> QED BY <2>1, <2>2
<1> QED BY <1>1, InitIInv, IInvReaped, PTL DEF Spec

-----------------------------------------------------------------------------
(* The types of the harness need two facts about its surroundings: the log  *)
(* is made of records and prose, and a guest that exited wrote a known      *)
(* value.                                                                   *)
Logged == Boot!KnownRecords \union {PROSE}

Typed ==
  /\ TypeOK
  /\ debug_log \in Seq(Logged) /\ line \in Logged
  /\ power = "exited" => exit_value \in QemuExitCodes

LEMMA SuccessorsKnown == Boot!Successors \subseteq Boot!KnownRecords
BY DEF Boot!Successors, Boot!KnownRecords

LEMMA ExitCodesKnown == Boot!ExitCodes \subseteq QemuExitCodes
BY DEF Boot!ExitCodes, QemuExitCodes, Boot!LoaderFailed, LoaderFailed, Boot!Success, Success,
       Boot!ContractRejected, ContractRejected, Boot!KernelPanicked, KernelPanicked, KernelReturned

LEMMA ClassificationKnown ==
  \A t, s, p : classify_boot(t, s, p) \in Classifications
BY DEF classify_boot, Classifications

LEMMA InitTyped == Init => Typed
<1> SUFFICES ASSUME Init PROVE Typed
  OBVIOUS
<1>1. /\ 0 \in 0 .. MaxTime /\ 0 \in 0 .. MaxTime + RSS_SAMPLE_INTERVAL /\ 0 \in 0 .. MAX_LOG
  BY TimesAssumption, LogAssumption
<1>2. run.classification = NONE
  BY DEF Init, HostInit, NO_RUN
<1>3. TypeOK
  BY <1>1, <1>2 DEF Init, HostInit, TypeOK, Steps
<1> QED BY <1>3 DEF Init, HostInit, Typed, Logged

(* A step that moves nothing but the place in the code. *)
LEMMA MoveTyped ==
  ASSUME Typed, step' \in Steps, UNCHANGED <<now, child, status, guard, elapsed, timed_out, observer,
                                             sampler, log_file, run, guest>>
  PROVE  Typed'
BY DEF Typed, TypeOK, observer, sampler, log_file, guest

LEMMA ObserveTyped ==
  ASSUME Typed, NEW label, NEW next \in Steps, Observe(label, next), UNCHANGED guest
  PROVE  Typed'
<1>1. Len(debug_log) \in Nat
  BY DEF Typed
<1>2. Readable \in 0 .. MAX_LOG
  BY <1>1, LogAssumption DEF Readable
<1>3. observed_at' \in {NEVER} \union (0 .. MaxTime) /\ scanned' \in 0 .. MAX_LOG
  BY <1>2 DEF Observe, Typed, TypeOK, observer
<1> QED BY <1>3 DEF Observe, Typed, TypeOK, sampler, log_file, guest

LEMMA PollTyped ==
  ASSUME Typed, NEW label, NEW next \in Steps, NEW time \in 0 .. MaxTime,
         Poll(label, time, next), UNCHANGED guest
  PROVE  Typed'
<1>1. /\ child' \in [Children -> {"none", "running", "zombie", "reaped"}]
      /\ guard' \in [Children -> {"none", "armed", "disarmed"}]
      /\ ps_started' \in 0 .. MaxTime
      /\ peak_rss' \in BOOLEAN /\ disabled' \in BOOLEAN
  BY DEF Poll, PollReaps, PollWaits, PollKills, PollStarts, PollSkips, Spawned, sampler, Typed,
         TypeOK
<1>2. next_sample' \in 0 .. MaxTime + RSS_SAMPLE_INTERVAL
  <2>1. time + RSS_SAMPLE_INTERVAL \in 0 .. MaxTime + RSS_SAMPLE_INTERVAL
    BY TimesAssumption
  <2> QED BY <2>1 DEF Poll, PollReaps, PollWaits, PollKills, PollStarts, PollSkips,
                      sampler, Typed, TypeOK
<1> QED BY <1>1, <1>2 DEF Poll, Typed, TypeOK, observer, log_file, guest

LEMMA DropTyped ==
  ASSUME Typed, NEW c \in Children, Drop(c), step' \in Steps,
         UNCHANGED <<now, elapsed, timed_out, observer, sampler, log_file, run, guest>>
  PROVE  Typed'
<1>1. /\ child' \in [Children -> {"none", "running", "zombie", "reaped"}]
      /\ guard' \in [Children -> {"none", "armed", "disarmed"}]
      /\ status' \in {status, SIGNALLED}
  BY DEF Drop, KillAndWait, Typed, TypeOK
<1> QED BY <1>1 DEF Typed, TypeOK, observer, sampler, log_file, guest

LEMMA HarnessTyped == Typed /\ HarnessStep /\ UNCHANGED guest => Typed'
<1> SUFFICES ASSUME Typed, HarnessStep, UNCHANGED guest PROVE Typed'
  OBVIOUS
<1> USE DEF Steps
<1>1. CASE Prepare
  BY <1>1, MoveTyped DEF Prepare
<1>2. CASE Spawn
  BY <1>2 DEF Spawn, Spawned, Typed, TypeOK, observer, sampler, log_file, guest
<1>3. CASE SampleClock
  BY <1>3 DEF SampleClock, Typed, TypeOK, observer, sampler, log_file, guest
<1>4. CASE ObserveLog
  BY <1>4, ObserveTyped DEF ObserveLog
<1>5. CASE HostError
  BY <1>5, MoveTyped DEF HostError
<1>6. CASE TryWait
  BY <1>6 DEF TryWait, Typed, TypeOK, observer, sampler, log_file, guest
<1>7. CASE CheckDeadline
  BY <1>7 DEF CheckDeadline, Typed, TypeOK, observer, sampler, log_file, guest
<1>8. CASE Terminate
  BY <1>8 DEF Terminate, KillAndWait, Typed, TypeOK, observer, sampler, log_file, guest
<1>9. CASE PollSampler
  BY <1>9, PollTyped DEF PollSampler, Typed, TypeOK
<1>10. CASE FinalObserve
  BY <1>10, ObserveTyped DEF FinalObserve
<1>11. CASE FinalPoll
  BY <1>11, PollTyped DEF FinalPoll, Typed, TypeOK
<1>12. CASE Finish
  <2>1. child' \in [Children -> {"none", "running", "zombie", "reaped"}] /\ peak_rss' \in BOOLEAN
    BY <1>12 DEF Finish, FinishSampler, Typed, TypeOK
  <2> QED BY <1>12, <2>1 DEF Finish, Typed, TypeOK, observer, log_file, guest
<1>13. CASE DropSampler
  BY <1>13, DropTyped DEF DropSampler, Children
<1>14. CASE DropQemu
  BY <1>14, DropTyped DEF DropQemu, Children
<1>15. CASE Report
  <2>1. run'.classification \in {NONE} \union Classifications
    <3>1. CASE UNCHANGED run
      BY <3>1 DEF Typed, TypeOK
    <3>2. CASE ~UNCHANGED run
      <4>1. PICK cut : run'.classification
                         = classify_boot(timed_out, status, parse_protocol_stream(cut))
        <5> DEFINE R(cut, v) ==
              LET p == parse_protocol_stream(cut) IN
              [classification |-> classify_boot(timed_out, status, p),
               exit_status |-> status, duration |-> elapsed, time_to_ready |-> observed_at,
               ready |-> p.ready, rejected |-> p.rejected, panic |-> p.panic,
               terminal_code |-> p.terminal_code, violation |-> p.violation,
               verdict |-> v]
        <5>1. \E cut : \E v : run' = [R(cut, NONE) EXCEPT !.verdict = v]
          BY <1>15, <3>2, Zenon DEF Report
        <5>2. \A cut, v : [R(cut, NONE) EXCEPT !.verdict = v].classification
                            = classify_boot(timed_out, status, parse_protocol_stream(cut))
          OBVIOUS
        <5> QED BY <5>1, <5>2
      <4> QED BY <4>1, ClassificationKnown
    <3> QED BY <3>1, <3>2
  <2> QED BY <1>15, <2>1 DEF Report, Typed, TypeOK, observer, sampler, log_file, guest
<1> QED
  BY <1>1, <1>2, <1>3, <1>4, <1>5, <1>6, <1>7, <1>8, <1>9, <1>10, <1>11, <1>12, <1>13, <1>14,
     <1>15 DEF HarnessStep

LEMMA SurroundingsTyped ==
  Typed /\ (((Tick \/ PsExits) /\ UNCHANGED guest) \/ Environment) => Typed'
<1> SUFFICES ASSUME Typed, ((Tick \/ PsExits) /\ UNCHANGED guest) \/ Environment PROVE Typed'
  OBVIOUS
<1> USE DEF Typed, TypeOK, HostUnchanged, observer, sampler, log_file, guest
<1>1. CASE Tick /\ UNCHANGED guest
  BY <1>1, TimesAssumption DEF Tick
<1>2. CASE PsExits /\ UNCHANGED guest
  BY <1>2 DEF PsExits
<1>3. CASE GuestStartsRecord
  BY <1>3, SuccessorsKnown DEF GuestStartsRecord, Logged
<1>4. CASE GuestEndsRecord
  BY <1>4 DEF GuestEndsRecord, Logged
<1>5. CASE FirmwareWrites
  BY <1>5 DEF FirmwareWrites, Logged
<1>6. CASE GuestStops
  BY <1>6, ExitCodesKnown DEF GuestStops
<1>7. CASE QemuExits
  BY <1>7 DEF QemuExits
<1>8. CASE QemuDies
  BY <1>8 DEF QemuDies
<1> QED BY <1>1, <1>2, <1>3, <1>4, <1>5, <1>6, <1>7, <1>8 DEF Environment

(* For every timeout, interval, bound and request, and however long QEMU's  *)
(* log grows, the observer reads no further than MAX_OBSERVED_LOG_BYTES and *)
(* a report has one of the seven classifications (ReadyMarkerObserver,      *)
(* classify_boot).                                                          *)
THEOREM HarnessTypes == Spec => []TypeOK
<1>1. Typed /\ [Next]_vars => Typed'
  <2> SUFFICES ASSUME Typed, [Next]_vars PROVE Typed'
    OBVIOUS
  <2>1. CASE UNCHANGED vars
    BY <2>1 DEF vars, host, Typed, TypeOK, observer, sampler, log_file, guest
  <2>2. CASE Next
    BY <2>2, HarnessTyped, SurroundingsTyped DEF Next
  <2> QED BY <2>1, <2>2
<1>2. Typed => TypeOK
  BY DEF Typed
<1> QED BY <1>1, <1>2, InitTyped, PTL DEF Spec
=============================================================================
