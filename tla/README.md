# PolytopeOS: specification and proofs

This directory holds TLA+ models of PolytopeOS: the UEFI loader, the contract it hands
to the kernel, the kernel's entry, the host harness that boots both under QEMU and
decides whether the boot was right, and the tools around it (disk images, reproducible
builds, the layout inspector, publication of files). TLC checks the models on small
instances; TLAPS proves the central properties for every value of the constants.
Paths below are relative to the repository.

## The system and its parts

| Part | Source | Model |
|---|---|---|
| Diagnostic records, line parser, classification | `crates/xtask/src/qemu.rs`, `crates/kernel/src/diagnostics.rs` | `DiagnosticProtocol`, `ProtocolParser`, `BootProtocol` |
| Boot contract (fields, validation, byte ABI) | `crates/boot-contract` | `BootContract`, `RegionValidator`, `KernelBoundary` |
| Kernel-image parser | `crates/boot-elf` | `BootElf` |
| UEFI loader | `crates/uefi-loader` | `UefiLoader`, `Handoff` |
| Console and debug exit | `crates/arch-x86_64` | `Machine` |
| Kernel entry | `arch/x86_64/boot/entry.S`, `crates/kernel/src/bin/x86_64.rs` | `KernelEntry`, `KernelBoundary` |
| Loader and kernel together | | `Guest` |
| Boot harness | `crates/xtask/src/qemu.rs` | `QemuHarness`, `BootSystem` |
| Publication of files (`write_atomic` and its two siblings) | `image.rs`, `repro.rs`, `qemu.rs` in `crates/xtask/src` | `FilePublication`, `AtomicOutput` |
| Image builder and validator | `crates/xtask/src/image.rs` | `DiskImage` |
| Reproducibility verifier | `crates/xtask/src/repro.rs` | `ReproVerifier`, `PathContract` |
| Kernel-layout inspector | `crates/xtask/src/inspect.rs`, `arch/x86_64/kernel/linker.ld` | `KernelInspector` |
| Baselines, temporary directories, command line, lexer, `BootState`, `polyctl`, fuzz targets, scripts | | none, see "Not modelled" |

One boot runs like this. The harness stages a validated image and spawns QEMU. In the
guest the loader reports `LOADER_START`, reads two files, validates and loads the ELF
image, reserves the stack guard and the contract's pages, reports `ELF_VALID`, leaves
boot services, encodes the contract, reports `HANDOFF_READY` and jumps. The kernel
clears its BSS, validates registers and contract, reports one record and writes a value
to QEMU's debug-exit device. Meanwhile the harness looks at the growing log, samples
memory with `ps`, and kills QEMU at a deadline. Afterwards it parses the log, classifies
the boot from markers and exit status, and validates the report.

Around a boot, `build-image` assembles a disk of one GPT partition with a FAT32 volume and
publishes it; `repro-check` builds everything twice, compares, scans for host paths and
publishes what agrees; `inspect-kernel` compares the linker's map with the ELF image.
Images, reports and verified artifacts are published by the same protocol.

## Modules

**DiagnosticProtocol** has the records, `process_protocol_line`, `classify_boot` and the
exit values. The code compares whole lines, so a record is its sequence number and its
code. Other lines are `OVERLONG`, `MALFORMED` (prefix without grammar) or `PROSE`.
**ProtocolParser** is `parse_protocol_stream` as a loop over an arbitrary stream.

**BootProtocol** is the abstract specification of a boot: which record may follow which,
which exit value agrees with the records, when the machine may halt or reset. The guest
is shown to implement it, and the harness is checked against any guest that does.

**BootContract** has the contract's records, its builder and validators, `encode`,
`prevalidate` and `parse`. Bytes are kept as a sequence of ABI fields next to a byte length.
`U64_BOUND` stands for 2^64: a checked operation fails when its result reaches it.
**RegionValidator** is the loop of `validate_regions`, turn by turn.

**BootElf** is `parse`: the header checks, then one action per program header. The
locals of `validate_program_headers` are its variables.

**Machine** is the processor's program counter, the debug console and the debug-exit
device. `write_record` is two steps (before and at the newline), since the host can read
or kill between them. **UefiLoader** has one action per firmware call or record of
`main`, `prepare_kernel`, `read_bounded_file`, `load_segments`, `reserve_stack_guard`,
`ContractStorage::allocate`, `encode_contract` and `transfer_to_kernel`; a label of `pc`
is a place in that code. The firmware is external: `FirmwareFails` and `LoaderPanics`
are its refusals and the panics of the `uefi` library, `pages` is its page allocator,
`FirmwareMaps` are the maps it may return (any cut of runs, two orders, odd extra
descriptors). **KernelEntry** is `entry.S` and `polytope_kernel_main`. **Guest** puts the
two on one machine. **KernelBoundary** enters the kernel without the loader, with any
registers and a contract that is damaged in up to two fields or has any regions; here
`polytope_kernel_main` runs `validate_regions` turn by turn, as `RegionValidator` has it.

**QemuHarness** is `observe_boot`: `Prepare` stands for all that is refused before the
spawn, then `execute_bounded_qemu` one statement per action (`step` is the place in it),
with `ChildGuard` (`guard`), the operating system's view of the children (`child`), the
observer (`observed_at`, `scanned`) and `RssSampler`; then parsing, classification and
validation in `Report`. **BootSystem** composes it with a guest that keeps
`BootProtocol`, a QEMU process that may also die by itself, `ps` and the clock.

**FilePublication** is the protocol that `write_atomic`, `write_verified_file` and
`write_json_atomic` share: directory, exclusive temporary file, write, sync, rename, sync
of the directory, removal after an error. `entry` and `data` are what processes see,
`stored` and `written` what is on the disk; the operating system brings one to the other
in any order (`WriteBack...`), and `Crash` leaves the disk only. A process publishes the
outputs of its `plan` one after the other, as `verify` does, can fail at every call, can
be killed, and its id can be given out again. **AtomicOutput** is the abstract
specification: a publication is one step and a confirmed one is never lost.

**DiskImage** has a disk of sectors. `build_image_bytes` is one action that writes GPT, both
FATs, directories and files and goes on to the read-back; a stored image may then have
sectors damaged or put elsewhere, and is validated again: `validate_gpt_layout`,
`validate_fat32` with a step per FAT entry, a step per directory entry, a step per chunk
of a file. The `gpt` and `fatfs` libraries are external and modelled from their use. A
directory is a chain of sectors of slots. fatfs passes over some of them (`SKIPPED`: the
volume label, deleted entries, parts of long names) and goes on along the FAT when a sector
has no end mark (`NextCluster`), and `validate_directory` counts neither.

**ReproVerifier** is `verify`: Git's two answers, `build_once` in two directories, the
comparisons, the assembled images and the publications. Cargo takes over what it finds
in its target directory, builds may differ or leak a path, the source is edited and
committed at any time. `moved` and `changes` record when: before the first Cargo, or how
often during the builds. A build reads the source at one instant. A setup says where the host's directories lie, what may go wrong in
a build, how often the source is edited and what is to be published. **PathContract** has
the operators the verifier uses on paths: the remap options and what rustc does with them,
and the scan for host paths, for directories that lie inside each other in any way.

**KernelInspector** reads a linker map line by line and makes the checks of boot-elf's
`parse` on segments and entry and those of `validate_combined`. Map and ELF come from a model of `linker.ld`, with sections moved,
lines missing, repeated, altered or moved, and fields of the ELF altered.

## Runs

| Run | Question | Bounds |
|---|---|---|
| `protocol_parser` | Does the parser accept exactly the canonical boots? Are its markers consistent, do they latch? | streams of up to 5 protocol lines over 15 kinds; the longest canonical boot has 4 |
| `boot_elf` | Is every accepted image a load plan the loader can carry out, with a protected entry? | up to 4 headers, 3 segments allowed, a header for each error, limits reached exactly |
| `guest` | Do loader and kernel keep the protocol, pass a true memory map, name the right failure, stop? | 8 pages, 8 regions, 48 images, 5 memories, 6 sets of odd descriptors |
| `kernel_boundary` | Does the kernel alone serve exactly the well-formed contracts, and report versions as such? Does comparing neighbours accept exactly the disjoint ascending maps? | 3 entries (a pair that are no neighbours), 14 regions with ends at and beyond the word size, any two fields set to 4 values each, 5 register pairs |
| `boot_outcomes` | Does a scenario pass exactly when the guest did what it asks for? Has every classification its cause? | all requests, deadline 2, log bound 4 lines, one line of firmware text, so that the log can outgrow the bound |
| `boot_processes` | Is every child reaped on every path? Does the harness always return? | kill may fail once or never end QEMU or `ps`, `ps` runs and hangs, deadline 1 of 2 ticks, log bound 3 |
| `file_publication` | Is every output whole and every confirmation durable, in the order of the plan, without leftovers? Is the protocol atomic? | two runs of two outputs, with one process id or two; a directory that exists or not |
| `disk_image` | Is what is built accepted? Is an accepted disk what its manifest says, with nothing hidden? Is reading bounded, does it end? | 38 sectors, payloads at and above the limits, any one or two sectors damaged, or directories and FAT rewritten together so that a directory has two clusters, runs into another one or is circular |
| `repro_verifier` | Is what is published reproduced and free of host paths, do the remap options suffice, is the report true, does the verifier end? | one verifier, two source versions; a usual layout with up to three edits of the source, or one edit and three kinds of impurity, one turned inside out, and quiet hosts whose four directories lie anywhere in a tree of 5 nodes |
| `kernel_inspector` | Has an accepted kernel a sound layout, is damage detected, is what `linker.ld` lets pass accepted? | 3 kernels, up to 2 faults among moved sections, map lines and ELF fields |
| `contract_length` (violation) | Are wrong fixed sizes reported as `CONTRACT_LENGTH`, as documented? | as `kernel_boundary` |
| `probe_evidence` (violation) | Has a passing timeout probe the documented evidence? | as `boot_outcomes` |

Deadlock checking is off in all runs: each of these programs ends. That they end at the
right place is what the liveness properties say (`Stops`, `HarnessReturns`, `Terminates`,
`ValidationEnds`).

The two violations are disagreements between documentation and code.
`docs/boot/DIAGNOSTICS.md:62` counts wrong header, total and record sizes as
`CONTRACT_LENGTH`; `polytope_kernel_main` reports them as `CONTRACT_INVALID`.
`docs/boot/README.md:187-189` asks a passing timeout probe to have seen the ready marker
and to have no exit status; `validate_timeout_probe` checks neither.

### What three properties leave open

`ValidationEnds` excepts one case, `Circling`: the FAT links directory sectors in a circle,
and all their slots are ones that fatfs passes over. `raw_entries`, which bounds every other
iteration, does not grow then, and the FAT checks do not look for circles. Without the
exception TLC finds this case. The builder cannot produce it.

`ReportDescribesSource` says that a report of success is about one source: loader and
kernel were built from it, and if the report names a clean revision, it is that
revision. It holds up to two changes of the source during the builds: the comparison of
both builds then fails, or nothing was built in between. With three changes, each at its
place, both builds can mix the same two sources. And it leaves out a source that changes
between Git's answers and the first Cargo, which the code does not notice.

`PublishesReproduced` says that image, loader and kernel are the same in both builds and
name no directory of the host. The linker's map is published too, and the code neither
compares nor scans it: it is the first build's map, of a kernel that both builds made.

### Bounds

`MaxLines` (parser), `MaxTime` (clock), `MaxProse` (firmware lines), `MaxFaults` (inspector)
and the `edits` of a verifier's setup are bounds that are not in the code. The clock stops
after the deadline: the only later comparison of times is the sampler's, which can pass
its own timeout within the bound. `MAX_LOG`,
`MAX_MEMORY_REGIONS`, `PAGE_SIZE`, `U64_BOUND`, the ELF limits and the file sizes are
limits of the code with small values, and so is the geometry of `DiskImage`: a tight one,
where the largest payloads leave one cluster free. `repro_verifier` has one verifier:
verifiers share nothing but the outputs, and two runs that publish to the same outputs are
`file_publication`'s question. Two runs of two outputs are enough there for every kind of
conflict the protocol can have: over a temporary name, an output, and a directory. One
line of the log is one unit of `MAX_LOG`; 4 MiB never cut a line in the model, where in
the code they may: the cut line is then reported as a truncated log either way.

### Fairness

`Guest` assumes that the processor keeps running. `BootSystem` assumes that the operating
system schedules the harness and that the monotonic clock advances, and nothing of the
guest, QEMU or `ps`. `HarnessReturns` excepts one case: a child that the operating system
does not end when asked to (`unkillable`). `terminate` and `ChildGuard::drop` then wait for
a child that may never end, and the code does block, for good.
`DiskImage` is a single loop that runs. `ReproVerifier` assumes that the command is
scheduled and that each call it makes returns, with a result or an error: Cargo and Git
are assumed to. Nothing is assumed of edits, kills, crashes and write-backs.

## Theorems

| Theorem | Module | Statement |
|---|---|---|
| `ParserTypes`, `ParserSound`, `ParserComplete`, `ParserEvidence` | `ProtocolParserProofs` | `TypeOK`, `AcceptedIsCanonical`, `CanonicalIsAccepted`, `EvidenceConsistent`, for any set of lines and any length |
| `ParserLatches` | `ProtocolParserProofs` | `EvidenceLatches` |
| `RegionTypes`, `RegionsSound`, `RegionsComplete` | `RegionValidatorProofs` | `TypeOK`, `AcceptedIsMemoryMap`, `MemoryMapIsAccepted`, for any capacity, page size and word size |
| `ElfTypes`, `ElfSound`, `ElfComplete`, `ElfEntryProtected` | `BootElfProofs` | `TypeOK`, `AcceptedIsLoadPlan`, `LoadPlanIsAccepted`, `EntryIsProtected`, for every limit, page size, word size, header and table |
| `GuestTypes` | `GuestProofs` | `TypeOK` of the guest |
| `GuestKeepsProtocol` | `GuestProofs` | the guest implements `BootProtocol`, for all images, memories, firmware maps and sizes |
| `ChildrenAreReaped` | `HarnessProofs` | `ChildrenReaped`, for every deadline, sampling interval, log bound and request, whether kills fail or not |
| `HarnessTypes` | `HarnessProofs` | `TypeOK` of the boot system, for the same, however long the log grows |
| `PublicationTypes`, `OutputsAreWhole`, `OutputsAreDurable`, `OutputsInOrder` | `FilePublicationProofs` | `TypeOK`, `OutputIsWhole`, `PromiseKept`, `PublishedInOrder`, for any processes, ids, outputs, directories and plans, with failures, kills and crashes anywhere |
| `PublicationIsAtomic` | `FilePublicationProofs` | the protocol implements `AtomicOutput` |
| `AcceptedIsWhole`, `ValidationIsBounded` | `DiskImageProofs` | `NothingHidden`, `ReadsAreBounded`, for every geometry, payload and damage |

The constants' assumptions are the named `ASSUME`s of the component modules and nothing
else; TLC evaluates each in a passing run.

*Parser.* `AcceptedIsCanonical` says nothing of the parser's state, so the invariant
ties the two: `AcceptedShape` gives, for each trace state without a violation, the records
read so far and `last_sequence`; `CodeOnlyAtEnd` says that a terminal code is set in the
last state only, which is why no second marker can follow. `CanonicalExtension` lists how
a canonical boot grows, and `AcceptedLine` and `RejectedLine` treat the two outcomes of a
line.

*Regions.* `AcceptedIsMemoryMap` speaks of all pairs, the loop of neighbours. `Prefix` says
that the regions before `index` are valid and pairwise ordered and that `previous_start`
and `previous_end` are the last one's. A new region that starts at or after the last
one's end then does so for all earlier ones, since a valid region has a positive length.

*ELF.* `LoopInv` is the same idea with pages: the segments before `index` are sound, their
pages are pairwise disjoint and end at or below `previous_end`. It rests on two facts of
arithmetic: rounding up bounds its argument from both sides (`CeilBounds`), and from a
page-aligned start, rounding up the end is rounding up the length (`AlignedCeil`), so that
the end the loop compares with is the end of what the loader allocates. For completeness
the invariant also says that `previous_start` and `previous_end` are some earlier
segment's: a segment refused as unsorted or overlapping then contradicts that one.

*Guest.* `InStep` says for each label of `pc` which records are out, what
`next_panic_sequence` is, and that a record under way is one the protocol allows. It is
needed because a panic or failure may come from ten labels and writes a record whose
sequence number was stored earlier. There is one lemma per action. The kernel's
verdict enters only as one of the five kernel records. `SameRecords`, `SameTraces` and
`SameExits` identify the constants of the instance of `BootProtocol` with the guest's own.
`TraceLemmas` has facts on short sequences.

*Harness.* `ChildrenReaped` speaks of the places where the code returns; the invariant
says which children are gone on the way there (`GoneAt`): QEMU once the loop has ended,
`ps` once the sampler is dropped, which Rust does before it drops QEMU's guard. The
lemmas `DropGone`, `PollKeeps` and `QuietStep` treat the drop of a guard, the five
outcomes of `RssSampler::poll`, and the steps that touch no process.

The types need only that the log is made of records and prose and that an exited guest
wrote a known value (`Typed`).

*Publication.* The invariant has two halves. `Local` says what a process in the middle of
the protocol owns: ids of live processes differ, so the temporary file under its name is
its own, and from the sync on its bytes are on the disk. `Global` says what this means for
outputs and disk: what is found under an output's name was published and is complete, the
disk never runs ahead of the directory, and what a process has finished is on the disk or
was overtaken. There is one lemma per action; rename, directory sync and crash are the
long ones. Each also shows that the step is one of `AtomicOutput` or changes nothing of it.

*Disk.* `Checked` says that the GPT checks, and behind them the comparison of the boot
sectors, hold of the disk as it is, at every place of the code behind them: the disk does
not change during validation. `RangesCover` is the arithmetic that the ranges
they look at leave no sector out. `Bounded` carries the limits through the loops over
directories and files.

Only model-checked: liveness, which rests on fairness and is out of the prover's reach;
the verdicts of the harness (`AcceptedIsTrue` and its companions), where the parser is a
fold over the log, and the contents of the memory map, whose construction folds and sorts
sequences: both need induction over data; `NoTemporaryLeft`; the kernel's verdict on whole
contracts in `kernel_boundary`; and the runs `repro_verifier`, `kernel_inspector` and the
rest of `disk_image`. Type correctness, on the other hand, is proved where a theorem above
names `TypeOK` and is not repeated in a run.

## Abstractions

- The COM1 copy of the log is left out. The validations search the combined log for two
  rejection records; both copies carry the same ones.
- Copying file bytes into segments, and zeroing them, is left out: the parser's checks on
  the ranges are `BootElf`'s, the pages a segment takes are `UefiLoader`'s.
- `attributes` of a region is always 0 and the scenario argument is 0 in an encoded contract.
- A log file that becomes shorter is not modelled: the harness creates it and QEMU appends.
- `KernelReturned` and the loader's sequence-4 panic are part of the protocol and are
  accepted by the parser; neither can be reached in the guest, since
  `polytope_kernel_main` does not return and nothing between the last store and the jump
  can panic.
- A file is created, written and synced whole: the model has no partly written bytes but
  `TORN`, and a rename is atomic on the disk, as journalling file systems make it.
- `PromiseKept` leaves out directories that `create_dir_all` has just created: the code does
  not sync their parent, so that a crash may take them, and it does not promise otherwise.
- `DiskImage` does not tell deleted entries, volume labels and parts of long names from each
  other. Checksums are part of a sector's contents: a damaged one is different contents.
- `KernelInspector` has no file offsets: those checks of `parse` are in `BootElf`.
- `ReproVerifier` leaves out hosts that use `/workspace` or `/build` themselves and a
  workspace at the root of the file system. The scan is for bytes, so it may also refuse a
  name that coincides with a path; it then fails, and nothing is published.
- `KernelInspector` keeps the kind and the values of a map line, not its text.

## Not modelled

- `BootState` (`crates/kernel/src/lib.rs`): a table of phases that no code calls. It has no
  behaviour in the system, and a model would repeat the table.
- `run_baseline` and `sample_statistics` (`qemu.rs`): they repeat `observe_boot`, one run
  after the other, and compute with the reports.
- `temporary.rs`: creation and removal of a directory whose name is new to the process.
  `ReproVerifier` takes from it that a directory is empty and its verifier's own, and that
  removing it may fail.
- The command line (`main.rs`): options are read once, in one thread, before anything
  happens. `QemuHarness` has the requests that `command_boot_test` can pass on.
- The lexer (`crates/compiler`): a sequential iterator over a string that no part of the
  boot path uses.
- `polyctl`: argument dispatch and printing around the lexer.
- Fuzz targets and scripts: drivers of the parts above.
- In `repro.rs`, the check of the fixed rustc arguments and the search for tools: they
  refuse a request before anything is built, and are the failing branches of `Discover` and
  `PrepareTarget`.
- Process ids of QEMU and `ps`: the last `ps` may be given the id of a process that is
  already reaped (`qemu.rs:469`), and then measures another process.
