----------------------------- MODULE BootSystem -----------------------------
(***************************************************************************)
(* One whole boot: a guest that keeps BootProtocol, inside a QEMU process, *)
(* under the host harness.  Guest, QEMU, `ps`, clock and harness           *)
(* interleave freely; only the harness and the clock are fair, so the      *)
(* guest may hang at any point.                                            *)
(***************************************************************************)
EXTENDS QemuHarness

CONSTANTS
  MaxProse,     \* bound: lines of firmware text in the log
  QemuMayDie    \* whether QEMU may end without the guest's doing

ASSUME GuestAssumption == MaxProse \in Nat /\ QemuMayDie \in BOOLEAN

VARIABLES
  power,        \* the guest: "on", "exited", "halted" or "reset"
  exit_value    \* what it wrote to the debug-exit device, 0 before

guest == <<power, exit_value>>
vars  == <<host, guest>>

(* The records among the lines. *)
records == SelectSeq(debug_log, LAMBDA l : l # PROSE)

Boot == INSTANCE BootProtocol WITH trace <- records, outcome <- power, value <- exit_value

Init == HostInit /\ power = "on" /\ exit_value = 0

Running == child["qemu"] = "running"
HostUnchanged ==
  UNCHANGED <<request, step, now, guard, elapsed, timed_out, observer, sampler, run>>

(* A record reaches the log in two steps, as in Machine. *)
GuestStartsRecord ==
  /\ Running /\ power = "on" /\ line = PROSE
  /\ line' \in Boot!Successors
  /\ UNCHANGED <<debug_log, child, status, guest>> /\ HostUnchanged

GuestEndsRecord ==
  /\ Running /\ line # PROSE
  /\ debug_log' = Append(debug_log, line)
  /\ line' = PROSE
  /\ UNCHANGED <<child, status, guest>> /\ HostUnchanged

(* Firmware text, while there is firmware. *)
FirmwareWrites ==
  /\ Running /\ power = "on" /\ line = PROSE
  /\ Len(records) < 3 /\ Len(debug_log) - Len(records) < MaxProse
  /\ debug_log' = Append(debug_log, PROSE)
  /\ UNCHANGED <<line, child, status, guest>> /\ HostUnchanged

(* qemu_invocation attaches the debug-exit device in scenario mode only. *)
GuestStops ==
  /\ Running /\ power = "on" /\ line = PROSE
  /\ \/ mode = SCENARIO /\ Boot!ExitCodes # {}
        /\ power' = "exited" /\ exit_value' \in Boot!ExitCodes
     \/ mode = TIMEOUT_PROBE /\ Boot!ExitCodes # {}
        /\ power' = "halted" /\ UNCHANGED exit_value
     \/ Len(records) = 2 /\ power' = "reset" /\ UNCHANGED exit_value
  /\ UNCHANGED <<log_file, child, status>> /\ HostUnchanged

(* The process ends some time after the guest: with the device's status,    *)
(* or with 0 on a reset (-no-reboot).                                       *)
QemuExits ==
  /\ Running /\ power \in {"exited", "reset"}
  /\ child' = [child EXCEPT !["qemu"] = "zombie"]
  /\ status' = IF power = "exited" THEN HostStatus(exit_value) ELSE 0
  /\ UNCHANGED <<log_file, guest>> /\ HostUnchanged

(* QEMU fails on its own: an error exit, or a signal. *)
QemuDies ==
  /\ Running /\ QemuMayDie
  /\ child' = [child EXCEPT !["qemu"] = "zombie"]
  /\ status' \in {1, SIGNALLED}
  /\ UNCHANGED <<log_file, guest>> /\ HostUnchanged

Environment ==
  \/ GuestStartsRecord \/ GuestEndsRecord \/ FirmwareWrites \/ GuestStops \/ QemuExits \/ QemuDies

Next ==
  \/ HarnessStep /\ UNCHANGED guest
  \/ Tick /\ UNCHANGED guest
  \/ PsExits /\ UNCHANGED guest
  \/ Environment

(* The operating system runs the harness and the clock does not stop; of    *)
(* the guest, QEMU and `ps` nothing is assumed.                             *)
Fairness == WF_vars(HarnessStep /\ UNCHANGED guest) /\ WF_vars(Tick /\ UNCHANGED guest)

Spec == Init /\ [][Next]_vars /\ Fairness

-----------------------------------------------------------------------------
Steps ==
  {"prepare", "spawn", "sample_clock", "observe", "try_wait", "check_deadline", "terminate", "poll",
   "final_observe", "final_poll", "finish", "drop_sampler", "drop_qemu", "returned",
   "failed", "done"}

(* Every variable keeps its type; the observer never reads beyond its       *)
(* bound, however long the log.                                             *)
TypeOK ==
  /\ step \in Steps
  /\ now \in 0 .. MaxTime /\ elapsed \in 0 .. MaxTime /\ ps_started \in 0 .. MaxTime
  /\ next_sample \in 0 .. MaxTime + RSS_SAMPLE_INTERVAL
  /\ observed_at \in {NEVER} \union (0 .. MaxTime) /\ scanned \in 0 .. MAX_LOG
  /\ child \in [Children -> {"none", "running", "zombie", "reaped"}]
  /\ guard \in [Children -> {"none", "armed", "disarmed"}]
  /\ status \in {SIGNALLED, 0, 1} \union {HostStatus(v) : v \in QemuExitCodes}
  /\ timed_out \in BOOLEAN /\ peak_rss \in BOOLEAN /\ disabled \in BOOLEAN
  /\ run.classification \in {NONE} \union Classifications

(* No process outlives the harness and none is lost on the way: a child     *)
(* that has not been reaped has an armed ChildGuard, and when observe_boot  *)
(* returns, by any of its paths, every child it spawned has been reaped     *)
(* ("Ensures every spawned QEMU process is killed and reaped on early       *)
(* return").                                                                *)
ChildrenReaped ==
  /\ \A c \in Children : child[c] \in {"running", "zombie"} => guard[c] = "armed"
  /\ step \in {"returned", "failed", "done"} =>
       \A c \in Children : child[c] \in {"none", "reaped"}

(* The records a scenario asks for. *)
ExpectedRecord ==
  [normal |-> KERNEL_READY, truncated |-> CONTRACT_LENGTH_REJECTED, panic |-> KERNEL_PANIC]
Expected(s) == IF s = "bad-version" THEN ABI_VERSION_REJECTED ELSE ExpectedRecord[s]

GuestDid(s) == power = "exited" /\ records = HandedOff \o <<Expected(s)>>

(* A scenario test passes only if the guest really went through the whole   *)
(* boot, wrote the record its scenario asks for and exited on its own: no   *)
(* timing of kill, exit, log growth or firmware text makes another boot     *)
(* pass (classify_boot, validate_scenario_outcome).                         *)
AcceptedIsTrue ==
  mode = SCENARIO /\ run.verdict = "accepted" => GuestDid(scenario)

(* And a boot that did so before the harness gave up on it passes: the test *)
(* is not flaky.  In particular the observer has seen the ready marker no   *)
(* later than the parser (the observe after the loop).                      *)
TrueIsAccepted ==
  /\ mode = SCENARIO /\ step = "done" /\ GuestDid(scenario)
  /\ status = HostStatus(exit_value) /\ ~timed_out /\ Len(debug_log) <= MAX_LOG
  => run.verdict = "accepted"

(* Every classification has its cause: the failures a report may show for   *)
(* a guest that keeps the protocol, and nothing else.  MissingMarker is     *)
(* never one of them.                                                       *)
ClassificationExplained ==
  LET ended == status = HostStatus(exit_value) /\ power = "exited"
      last  == records[Len(records)]
  IN
  /\ run.classification = "Timeout" => run.duration >= Timeout
  /\ run.classification = "LoaderFailure" => ended /\ exit_value = LoaderFailed
  /\ run.classification = "Rejected" => ended /\ last \in Rejections
  /\ run.classification = "Panic" => ended /\ last = KERNEL_PANIC
  /\ run.classification = "Ready" => ended /\ last = KERNEL_READY
  /\ run.classification = "UnexpectedExit" =>
       \/ status \in {0, 1, SIGNALLED}
       \/ Len(debug_log) > MAX_LOG
  /\ run.classification # "MissingMarker"

(* What the documentation asks of a passing timeout probe: "no process exit *)
(* status, and evidence that the ready marker was observed before the exact *)
(* child was killed and reaped" (docs/boot/README.md).                      *)
ProbeIsEvidence ==
  mode = TIMEOUT_PROBE /\ run.verdict = "accepted" =>
    run.exit_status = SIGNALLED /\ run.time_to_ready # NEVER

(* Where the harness kills a child and waits for it, in terminate or a drop. *)
WaitSteps(c) == IF c = "qemu" THEN {"drop_qemu"} ELSE {"poll", "final_poll", "finish", "drop_sampler"}

(* Whatever the guest, QEMU and `ps` do, hangs included, the harness comes  *)
(* to an end: the loop of execute_bounded_qemu stops at the deadline at the *)
(* latest.  The one exception is a child that the operating system does not *)
(* end: then the harness is left waiting for that child.                    *)
HarnessReturns ==
  \/ <>(step \in {"done", "failed"})
  \/ <>[](\E c \in Children : Blocks(c) /\ step \in WaitSteps(c))
=============================================================================
