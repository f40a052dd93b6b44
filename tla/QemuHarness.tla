---------------------------- MODULE QemuHarness -----------------------------
(***************************************************************************)
(* The host side of one boot (crates/xtask, qemu.rs): observe_boot from    *)
(* its inputs to the validated report, with the two kinds of child process *)
(* it owns (QEMU, and the `ps` of the RSS sampler), the observer that      *)
(* watches the growing log, and the monotonic deadline.                    *)
(*                                                                         *)
(* Time is a clock of ticks.  A line of the log is one unit of its size    *)
(* bound.  kill and wait are one step, which is possible once the child    *)
(* has ended or can be killed: nothing can happen to a child in between    *)
(* that the harness could tell.                                            *)
(***************************************************************************)
EXTENDS DiagnosticProtocol, SequencesExt

CONSTANTS
  Timeout,               \* request.timeout
  RSS_SAMPLE_INTERVAL,
  RSS_SAMPLE_TIMEOUT,
  MAX_LOG,               \* MAX_OBSERVED_LOG_BYTES = MAX_CAPTURED_LOG_BYTES
  MaxTime,               \* bound: the clock stops here
  KillCanFail,           \* whether Child::kill may return an error
  PsCanStart,            \* whether the host has a `ps` to spawn
  Requests               \* the requests <<mode, scenario>> considered

ASSUME TimesAssumption ==
  /\ Timeout \in Nat \ {0} /\ RSS_SAMPLE_INTERVAL \in Nat \ {0}
  /\ RSS_SAMPLE_TIMEOUT \in Nat \ {0} /\ MaxTime \in Nat /\ Timeout < MaxTime
ASSUME LogAssumption == MAX_LOG \in Nat
ASSUME HostAssumption == KillCanFail \in BOOLEAN /\ PsCanStart \in BOOLEAN

VARIABLES
  mode, scenario,   \* the request
  unkillable,       \* the children the operating system does not end when asked to
  step,             \* where the harness is
  now,              \* time since `started`
  child,            \* the operating system's view of the two children
  status,           \* QEMU's exit status, None (SIGNALLED) before
  guard,            \* the ChildGuard held for a child
  elapsed, timed_out,
  observed_at,      \* ReadyMarkerObserver, and
  scanned,          \* the lines its cursor has read
  ps_started, next_sample, peak_rss, disabled,   \* RssSampler
  debug_log,        \* the complete lines of debug.log
  line,             \* the unfinished line after them, PROSE for none
  run               \* the BootRun and its validation

request  == <<mode, scenario, unkillable>>
observer == <<observed_at, scanned>>
sampler  == <<ps_started, next_sample, peak_rss, disabled>>
log_file == <<debug_log, line>>
host     == <<request, step, now, child, status, guard, elapsed, timed_out, observer,
              sampler, log_file, run>>

Children == {"qemu", "ps"}
NEVER    == -1

SCENARIO      == "scenario"
TIMEOUT_PROBE == "timeout-probe"

(* The requests main.rs makes: a probe is only made of the normal image.    *)
AllRequests ==
  {<<SCENARIO, s>> : s \in {"normal", "bad-version", "truncated", "panic"}}
    \union {<<TIMEOUT_PROBE, "normal">>}

ASSUME RequestsAssumption == Requests \subseteq AllRequests

NO_RUN == [classification |-> NONE, verdict |-> NONE]

HostInit ==
  /\ \E r \in Requests : mode = r[1] /\ scenario = r[2]
  /\ unkillable \in SUBSET (IF KillCanFail THEN Children ELSE {})
  /\ step = "prepare" /\ now = 0
  /\ child = [c \in Children |-> "none"] /\ status = SIGNALLED
  /\ guard = [c \in Children |-> "none"]
  /\ elapsed = 0 /\ timed_out = FALSE
  /\ observed_at = NEVER /\ scanned = 0
  /\ ps_started = 0 /\ next_sample = 0 /\ peak_rss = FALSE /\ disabled = FALSE
  /\ debug_log = <<>> /\ line = PROSE
  /\ run = NO_RUN

-----------------------------------------------------------------------------
(* ChildGuard.  A child is none, running, a zombie, or reaped. *)

Spawned(c) ==
  /\ child' = [child EXCEPT ![c] = "running"]
  /\ guard' = [guard EXCEPT ![c] = "armed"]

(* Child::kill and Child::wait.  A child that had already ended keeps the   *)
(* status it ended with; while an unkillable one runs, the wait blocks.     *)
Blocks(c) == c \in unkillable /\ child[c] = "running"

KillAndWait(c) ==
  /\ ~ Blocks(c)
  /\ child' = [child EXCEPT ![c] = "reaped"]
  /\ status' = IF c = "qemu" /\ child[c] = "running" THEN SIGNALLED ELSE status

(* ChildGuard::drop, and that of an owner without one.  An error of kill is *)
(* ignored, and wait follows.                                               *)
Drop(c) ==
  /\ IF guard[c] = "armed" THEN KillAndWait(c) ELSE UNCHANGED <<child, status>>
  /\ guard' = [guard EXCEPT ![c] = "none"]

-----------------------------------------------------------------------------
(* observe_boot before the execution: an input, a tool or a staged file may *)
(* be refused, and then nothing has been started.                           *)
Prepare ==
  /\ step = "prepare"
  /\ step' \in {"spawn", "failed"}
  /\ UNCHANGED <<request, now, child, status, guard, elapsed, timed_out, observer, sampler,
                 log_file, run>>

(* execute_bounded_qemu, whose clock starts with it. *)

Spawn ==
  /\ step = "spawn"
  /\ \/ Spawned("qemu") /\ step' = "sample_clock"
     \/ step' = "failed" /\ UNCHANGED <<child, guard>>
  /\ UNCHANGED <<request, now, status, elapsed, timed_out, observer, sampler, log_file, run>>

SampleClock ==
  /\ step = "sample_clock"
  /\ elapsed' = now
  /\ step' = "observe"
  /\ UNCHANGED <<request, now, child, status, guard, timed_out, observer, sampler, log_file, run>>

(* ReadyMarkerObserver::observe: the lines added since the last call, up to *)
(* the bound.  It stops looking once it has seen the marker.                *)

Readable == IF Len(debug_log) < MAX_LOG THEN Len(debug_log) ELSE MAX_LOG

ReadyVisible == \E i \in scanned + 1 .. Readable : debug_log[i] = KERNEL_READY

Observe(label, next) ==
  /\ step = label
  /\ IF observed_at # NEVER THEN UNCHANGED observer
     ELSE /\ observed_at' = IF ReadyVisible THEN now ELSE NEVER
          /\ scanned' = Readable
  /\ step' = next
  /\ UNCHANGED <<request, now, child, status, guard, elapsed, timed_out, sampler, log_file, run>>

ObserveLog == Observe("observe", "try_wait")

(* An I/O error of the observer or an error of try_wait leaves the function *)
(* through the drops of its locals, the last declared first.                *)
HostErrorSteps == {"observe", "try_wait", "final_observe"}
HostError ==
  /\ step \in HostErrorSteps
  /\ step \in {"observe", "final_observe"} => observed_at = NEVER
  /\ step' = "drop_sampler"
  /\ UNCHANGED <<request, now, child, status, guard, elapsed, timed_out, observer, sampler,
                 log_file, run>>

TryWait ==
  /\ step = "try_wait"
  /\ IF child["qemu"] = "zombie"
     THEN /\ child' = [child EXCEPT !["qemu"] = "reaped"]
          /\ guard' = [guard EXCEPT !["qemu"] = "disarmed"]
          /\ step' = "final_observe"
     ELSE step' = "check_deadline" /\ UNCHANGED <<child, guard>>
  /\ UNCHANGED <<request, now, status, elapsed, timed_out, observer, sampler, log_file, run>>

(* Plausible mistake: equality, which the clock can step over. *)
CheckDeadlineExactly ==
  /\ step = "check_deadline"
  /\ IF elapsed = Timeout
     THEN timed_out' = TRUE /\ step' = "terminate"
     ELSE step' = "poll" /\ UNCHANGED timed_out
  /\ UNCHANGED <<request, now, child, status, guard, elapsed, observer, sampler, log_file, run>>

CheckDeadline ==
  /\ step = "check_deadline"
  /\ IF elapsed >= Timeout
     THEN timed_out' = TRUE /\ step' = "terminate"
     ELSE step' = "poll" /\ UNCHANGED timed_out
  /\ UNCHANGED <<request, now, child, status, guard, elapsed, observer, sampler, log_file, run>>

(* Plausible mistake: the guard is disarmed before the kill. *)
TerminateDisarmsFirst ==
  /\ step = "terminate"
  /\ guard' = [guard EXCEPT !["qemu"] = "disarmed"]
  /\ \/ KillAndWait("qemu") /\ step' = "final_observe"
     \/ KillCanFail /\ step' = "drop_sampler" /\ UNCHANGED <<child, status>>
  /\ UNCHANGED <<request, now, elapsed, timed_out, observer, sampler, log_file, run>>

(* ChildGuard::terminate on QEMU; a kill that fails leaves it armed. *)
Terminate ==
  /\ step = "terminate"
  /\ \/ /\ KillAndWait("qemu")
        /\ guard' = [guard EXCEPT !["qemu"] = "disarmed"]
        /\ step' = "final_observe"
     \/ /\ KillCanFail
        /\ step' = "drop_sampler"
        /\ UNCHANGED <<child, status, guard>>
  /\ UNCHANGED <<request, now, elapsed, timed_out, observer, sampler, log_file, run>>

(* RssSampler::poll.  A `ps` that ended may have printed a number or not;   *)
(* one that is late, or cannot be queried, is killed, by terminate or, when *)
(* that fails, by the drop of its guard.                                    *)
PollReaps(time) ==
  /\ guard["ps"] = "armed" /\ child["ps"] = "zombie"
  /\ child' = [child EXCEPT !["ps"] = "reaped"]
  /\ guard' = [guard EXCEPT !["ps"] = "none"]
  /\ peak_rss' \in {peak_rss, TRUE}
  /\ next_sample' = time + RSS_SAMPLE_INTERVAL
  /\ UNCHANGED <<ps_started, disabled>>

PollWaits ==
  /\ guard["ps"] = "armed" /\ child["ps"] = "running"
  /\ now - ps_started < RSS_SAMPLE_TIMEOUT
  /\ UNCHANGED <<child, guard, sampler>>

PollKills(time) ==
  /\ guard["ps"] = "armed" /\ ~ Blocks("ps")
  /\ child' = [child EXCEPT !["ps"] = "reaped"]
  /\ guard' = [guard EXCEPT !["ps"] = "none"]
  /\ next_sample' = time + RSS_SAMPLE_INTERVAL
  /\ UNCHANGED <<ps_started, peak_rss, disabled>>

PollStarts(time) ==
  /\ guard["ps"] = "none" /\ ~disabled /\ time >= next_sample
  /\ \/ PsCanStart /\ Spawned("ps") /\ ps_started' = now /\ UNCHANGED disabled
     \/ disabled' = TRUE /\ UNCHANGED <<child, guard, ps_started>>
  /\ UNCHANGED <<next_sample, peak_rss>>

PollSkips(time) ==
  /\ guard["ps"] = "none" /\ (disabled \/ time < next_sample)
  /\ UNCHANGED <<child, guard, sampler>>

Poll(label, time, next) ==
  /\ step = label
  /\ PollReaps(time) \/ PollWaits \/ PollKills(time) \/ PollStarts(time) \/ PollSkips(time)
  /\ step' = next
  /\ UNCHANGED <<request, now, status, elapsed, timed_out, observer, log_file, run>>

PollSampler == Poll("poll", elapsed, "sample_clock")

(* Plausible mistake: no look at the log after the loop. *)
FinalObserveMissing ==
  /\ step = "final_observe"
  /\ step' = "final_poll"
  /\ UNCHANGED <<request, now, child, status, guard, elapsed, timed_out, observer, sampler,
                 log_file, run>>

(* After the loop. *)
FinalObserve == Observe("final_observe", "final_poll")
FinalPoll == Poll("final_poll", now, "finish")

(* RssSampler::finish takes a last sample if `ps` has ended and kills it    *)
(* otherwise.                                                               *)
FinishSampler ==
  IF guard["ps"] = "armed"
  THEN /\ ~ Blocks("ps")
       /\ child' = [child EXCEPT !["ps"] = "reaped"]
       /\ peak_rss' \in IF child["ps"] = "zombie" THEN {peak_rss, TRUE} ELSE {peak_rss}
  ELSE UNCHANGED <<child, peak_rss>>

(* The end of execute_bounded_qemu, with which both guards go away.         *)
Finish ==
  /\ step = "finish"
  /\ FinishSampler
  /\ guard' = [c \in Children |-> "none"]
  /\ elapsed' = now
  /\ step' = "returned"
  /\ UNCHANGED <<request, now, status, timed_out, observer, ps_started, next_sample, disabled,
                 log_file, run>>

DropSampler ==
  /\ step = "drop_sampler"
  /\ Drop("ps")
  /\ step' = "drop_qemu"
  /\ UNCHANGED <<request, now, elapsed, timed_out, observer, sampler, log_file, run>>

DropQemu ==
  /\ step = "drop_qemu"
  /\ Drop("qemu")
  /\ step' = "failed"
  /\ UNCHANGED <<request, now, elapsed, timed_out, observer, sampler, log_file, run>>

-----------------------------------------------------------------------------
(* observe_boot after the execution, and the command's validation. *)

(* parse_protocol_stream on the bounded log; of an unfinished record the    *)
(* whole prefix may have been written, or less.                             *)
parse_protocol_stream(cut) ==
  EndOfStream(FoldLeft(process_protocol_line, ProtocolTrace(Len(debug_log) > MAX_LOG),
                       SubSeq(debug_log, 1, Readable)),
              cut)

LogContains(record) == \E i \in 1 .. Readable : debug_log[i] = record

(* Plausible mistake: the terminal code alone decides. *)
ValidateTerminalCode(r) ==
  /\ r.violation = NONE
  /\ r.terminal_code = IF scenario = "normal" THEN "KERNEL_READY"
                       ELSE IF scenario = "bad-version" THEN "ABI_VERSION"
                       ELSE IF scenario = "truncated" THEN "CONTRACT_LENGTH"
                       ELSE "KERNEL_PANIC"

validate_scenario_outcome(r) ==
  IF scenario = "normal" THEN
    /\ r.classification = "Ready" /\ r.exit_status = READY_EXIT_STATUS
    /\ r.ready /\ ~r.rejected /\ ~r.panic /\ r.time_to_ready # NEVER
    /\ r.terminal_code = "KERNEL_READY" /\ r.violation = NONE
  ELSE IF scenario = "bad-version" THEN
    /\ r.classification = "Rejected" /\ r.exit_status = REJECT_EXIT_STATUS
    /\ LogContains(ABI_VERSION_REJECTED) /\ ~LogContains(CONTRACT_LENGTH_REJECTED)
    /\ ~r.ready /\ ~r.panic /\ r.time_to_ready = NEVER
    /\ r.terminal_code = "ABI_VERSION" /\ r.violation = NONE
  ELSE IF scenario = "truncated" THEN
    /\ r.classification = "Rejected" /\ r.exit_status = REJECT_EXIT_STATUS
    /\ LogContains(CONTRACT_LENGTH_REJECTED) /\ ~LogContains(ABI_VERSION_REJECTED)
    /\ ~r.ready /\ ~r.panic /\ r.time_to_ready = NEVER
    /\ r.terminal_code = "CONTRACT_LENGTH" /\ r.violation = NONE
  ELSE
    /\ r.classification = "Panic" /\ r.exit_status = PANIC_EXIT_STATUS
    /\ ~r.ready /\ ~r.rejected /\ r.time_to_ready = NEVER
    /\ r.terminal_code = "KERNEL_PANIC" /\ r.violation = NONE

validate_timeout_probe(r) == r.classification = "Timeout" /\ r.duration >= Timeout

(* Reading the logs may fail; otherwise the report is printed, and then     *)
(* validated: validate_boot_outcome and validate_timeout_probe.             *)
Report ==
  /\ step = "returned"
  /\ \/ step' = "failed" /\ UNCHANGED run
     \/ \E cut \in IF line = PROSE THEN {FALSE} ELSE BOOLEAN :
          LET p == parse_protocol_stream(cut)
              r == [classification |-> classify_boot(timed_out, status, p),
                    exit_status |-> status, duration |-> elapsed, time_to_ready |-> observed_at,
                    ready |-> p.ready, rejected |-> p.rejected, panic |-> p.panic,
                    terminal_code |-> p.terminal_code, violation |-> p.violation,
                    verdict |-> NONE]
              accepted == IF mode = SCENARIO THEN validate_scenario_outcome(r)
                                             ELSE validate_timeout_probe(r)
          IN  /\ run' = [r EXCEPT !.verdict = IF accepted THEN "accepted" ELSE "refused"]
              /\ step' = "done"
  /\ UNCHANGED <<request, now, child, status, guard, elapsed, timed_out, observer, sampler,
                 log_file>>

HarnessStep ==
  \/ Prepare \/ Spawn \/ SampleClock \/ ObserveLog \/ HostError \/ TryWait \/ CheckDeadline \/ Terminate
  \/ PollSampler \/ FinalObserve \/ FinalPoll \/ Finish \/ DropSampler \/ DropQemu \/ Report

-----------------------------------------------------------------------------
(* The clock, and the end of a `ps`. *)
Tick ==
  /\ now < MaxTime /\ step # "prepare"
  /\ now' = now + 1
  /\ UNCHANGED <<request, step, child, status, guard, elapsed, timed_out, observer, sampler,
                 log_file, run>>

PsExits ==
  /\ child["ps"] = "running"
  /\ child' = [child EXCEPT !["ps"] = "zombie"]
  /\ UNCHANGED <<request, step, now, status, guard, elapsed, timed_out, observer, sampler,
                 log_file, run>>
=============================================================================
