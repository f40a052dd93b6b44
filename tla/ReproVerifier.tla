---------------------------- MODULE ReproVerifier ----------------------------
(***************************************************************************)
(* repro-check: builds loader and kernel twice in two directories that     *)
(* start empty, compares, scans for host paths, assembles the image twice, *)
(* and publishes image, loader, kernel and map of the first build.  The    *)
(* source tree is edited and committed meanwhile, builds are not always    *)
(* reproducible, every step may fail, and a verifier can be killed.        *)
(* Publication of one file is atomic (AtomicOutput), and a temporary       *)
(* directory is new and private (temporary.rs).                            *)
(***************************************************************************)
EXTENDS PathContract

CONSTANTS
  Verifiers,     \* runs of repro-check
  Versions,      \* contents of the source tree, HEAD is one of them
  Setups,        \* [layout, impurities, edits, wanted, map], see below
  NOTHING        \* no file, no value

Builds == {"build-a", "build-b"}
Outputs == {"image", "loader", "kernel", "map"}

(* A setup is the layout of the host's directories ("temporary" instead of  *)
(* "target"), what may go wrong in its builds, a bound on edits and         *)
(* commits, the optional outputs, and whether the build contract names a    *)
(* map.  An impurity is a timestamp in the bytes, or a kind of directory    *)
(* whose path gets into them past rustc, by a build script for example.     *)

NO_BUILD == [loader |-> NOTHING, kernel |-> NOTHING, map |-> NOTHING]

(* The target directory of a build is inside the verifier's temporary one. *)
Directories(layout, v, b) ==
  [kind \in Kinds |-> IF kind = "target" THEN layout.temporary \o <<v, b>> ELSE layout[kind]]

(* What rustc makes of a file in each of them. *)
Mentioned(layout, v, b) ==
  LET directory == Directories(layout, v, b) IN
  {Rustc(Options(Remaps(directory)), directory[kind] \o <<"file">>) : kind \in Kinds}

VARIABLES
  tree, head, edits,   \* the work tree and the commit checked out
  contents,            \* contents[v][b]: what cargo left in the build directory b
  setup,               \* as Init chose it, like the next two
  directories,         \* directories[v][b]: those that a build in b is given
  mentioned,           \* mentioned[v][b]: the paths rustc writes then
  pc, revision, clean, \* Git's answers are NOTHING for None
  built,               \* BuiltArtifacts of both builds
  outputs,             \* published files: by whom, and the bytes
  moved,               \* history: tree or commit changed between rev-parse and first build
  changes              \* history: how often the tree changed during the builds

source_vars == <<tree, head, edits>>
host == <<setup, directories, mentioned>>
run_vars == <<revision, clean, built>>
history == <<moved, changes>>
vars == <<source_vars, contents, host, pc, run_vars, outputs, history>>

Init ==
  /\ tree \in Versions /\ head \in Versions /\ edits = 0
  /\ contents = [v \in Verifiers |-> [b \in Builds |-> NO_BUILD]]
  /\ setup \in Setups
  /\ directories = [v \in Verifiers |-> [b \in Builds |-> Directories(setup.layout, v, b)]]
  /\ mentioned = [v \in Verifiers |-> [b \in Builds |-> Mentioned(setup.layout, v, b)]]
  /\ pc = [v \in Verifiers |-> "new"]
  /\ revision = [v \in Verifiers |-> NOTHING] /\ clean = [v \in Verifiers |-> NOTHING]
  /\ built = [v \in Verifiers |-> [b \in Builds |-> NO_BUILD]]
  /\ outputs = [o \in Outputs |-> NOTHING]
  /\ moved = [v \in Verifiers |-> FALSE] /\ changes = [v \in Verifiers |-> 0]

At(v, label) == pc[v] = label
Goto(v, label) == pc' = [pc EXCEPT ![v] = label]
Ended(v) == pc[v] \in {"ok", "failed", "killed"}
Live(v) == ~ Ended(v) /\ pc[v] # "new"

(* Plausible mistake: the failing step is tried again. *)
Retry(v) == UNCHANGED pc

(* The ? of a step: locals are dropped, the directory with them. *)
Fail(v) == Goto(v, "drop-failed")
Environment == <<source_vars, host, history>>

-----------------------------------------------------------------------------
(* Paths, tools, their versions and Cargo.lock. *)
Discover(v) ==
  /\ At(v, "new")
  /\ \/ Discoverable(setup.layout) /\ Goto(v, "rev-parse")
     \/ Goto(v, "failed")
  /\ UNCHANGED <<Environment, contents, run_vars, outputs>>

(* git_source_state runs Git twice; what fails is None. *)
RevParse(v) ==
  /\ At(v, "rev-parse") /\ Goto(v, "status")
  /\ \E answer \in {head, NOTHING} : revision' = [revision EXCEPT ![v] = answer]
  /\ UNCHANGED <<Environment, contents, clean, built, outputs>>

Status(v) ==
  /\ At(v, "status") /\ Goto(v, "create")
  /\ \E answer \in {tree = head, NOTHING} : clean' = [clean EXCEPT ![v] = answer]
  /\ UNCHANGED <<Environment, contents, revision, built, outputs>>

CreateTemporary(v) ==
  /\ At(v, "create")
  /\ Goto(v, "mkdir-a") \/ Goto(v, "failed")
  /\ UNCHANGED <<Environment, contents, run_vars, outputs>>

-----------------------------------------------------------------------------
(* build_once for the build b, in the directory b. *)

Label(step, b) == step \o IF b = "build-a" THEN "-a" ELSE "-b"

(* Plausible mistake: both builds use one target directory. *)
OneTarget(b) == "build-a"

Target(b) == b

(* The BuildPathContract of a build in d. *)
path_contract(v, d) == Remaps(directories[v][d])

(* create_dir_all, canonicalize and BuildPathContract::new. *)
PrepareTarget(v, b) ==
  /\ At(v, Label("mkdir", b))
  /\ \/ HasContract(directories[v][Target(b)]) /\ Goto(v, Label("loader", b))
     \/ Fail(v)
  /\ UNCHANGED <<Environment, contents, run_vars, outputs>>

FileIn(v, d, kind) == directories[v][d][kind] \o <<"file">>

(* The bytes of an artifact: its source, the paths rustc put into it, and   *)
(* what else is in it, a path included.  Cargo takes what is already in the *)
(* directory for up to date when the source has not changed since.          *)
Fresh(old) == old # NOTHING /\ old.source = tree

Compiled(v, d, old) ==
  IF Fresh(old) THEN {old}
  ELSE {[source |-> tree, paths |-> mentioned[v][d],
         impurity |-> IF i \in Kinds THEN FileIn(v, d, i) ELSE <<i>>]
          : i \in setup.impurities \union {NOTHING}}

BuildLoader(v, b) ==
  LET d == Target(b) IN
  /\ At(v, Label("loader", b))
  /\ \/ /\ \E l \in Compiled(v, d, contents[v][d].loader) :
             contents' = [contents EXCEPT ![v][d].loader = l]
        /\ Goto(v, Label("kernel", b))
     \/ Fail(v) /\ UNCHANGED contents
  /\ UNCHANGED <<Environment, run_vars, outputs>>

(* The map the linker writes of a kernel lists the input files, by paths    *)
(* that the options to rustc do not touch: no two builds write the same.    *)
Linked(v, d, k) == [of |-> k, inputs |-> {FileIn(v, d, "target")}]

BuildKernel(v, b) ==
  LET d == Target(b)
      old == contents[v][d]
  IN
  /\ At(v, Label("kernel", b))
  /\ \/ /\ \E k \in Compiled(v, d, old.kernel) :
             contents' = [contents EXCEPT
               ![v][d].kernel = k,
               ![v][d].map = IF Fresh(old.kernel) THEN old.map ELSE Linked(v, d, k)]
        /\ Goto(v, Label("read", b))
     \/ Fail(v) /\ UNCHANGED contents
  /\ UNCHANGED <<Environment, run_vars, outputs>>

PathsIn(artifact) == artifact.paths \union {artifact.impurity}

(* verify_path_privacy for the contract of the build in d. *)
Private(artifact, v, d) == ~ Exposes(path_contract(v, d), PathsIn(artifact))

ReadArtifacts(v, b) ==
  LET d == Target(b)
      found == contents[v][d]
  IN
  /\ At(v, Label("read", b))
  /\ \/ /\ found.loader # NOTHING /\ found.kernel # NOTHING
        /\ Private(found.loader, v, d) /\ Private(found.kernel, v, d)
        /\ built' = [built EXCEPT ![v][b] =
             [found EXCEPT !.map = IF setup.map THEN @ ELSE NOTHING]]
        /\ Goto(v, IF b = "build-a" THEN "mkdir-b" ELSE "compare")
     \/ Fail(v) /\ UNCHANGED <<built>>
  /\ UNCHANGED <<Environment, contents, revision, clean, outputs>>

-----------------------------------------------------------------------------
first(v) == built[v]["build-a"]

(* Plausible mistake in the next definition: a build is compared with itself. *)
SecondIsFirst(v) == built[v]["build-a"]

second(v) == built[v]["build-b"]

(* Loaders, kernels, and the path evidence, a function of their bytes; not  *)
(* the maps.                                                                *)
Compare(v) ==
  /\ At(v, "compare")
  /\ IF first(v).loader = second(v).loader /\ first(v).kernel = second(v).kernel
       THEN Goto(v, "assemble") ELSE Fail(v)
  /\ UNCHANGED <<Environment, contents, run_vars, outputs>>

Image(b) == [loader |-> b.loader, kernel |-> b.kernel]

(* Both images are assembled, compared and scanned. *)
Assemble(v) ==
  /\ At(v, "assemble")
  /\ \/ /\ Image(first(v)) = Image(second(v))
        /\ \A d \in Builds : Private(first(v).loader, v, d) /\ Private(first(v).kernel, v, d)
        /\ Goto(v, "image")
     \/ Fail(v)
  /\ UNCHANGED <<Environment, contents, run_vars, outputs>>

After == [image |-> "loader", loader |-> "kernel", kernel |-> "map", map |-> "drop-ok"]

BytesOf(v, o) == IF o = "image" THEN Image(first(v)) ELSE first(v)[o]

(* Plausible mistake: a missing map is an empty file. *)
PublishUnchecked(v, o) ==
  /\ At(v, o) /\ Goto(v, After[o])
  /\ outputs' = IF o = "image" \/ o \in setup.wanted
                  THEN [outputs EXCEPT ![o] = [by |-> v, bytes |-> BytesOf(v, o)]] ELSE outputs
  /\ UNCHANGED <<Environment, contents, run_vars>>

(* write_verified_file for the image, and for the others if requested.  A   *)
(* publication can fail after the rename.  A map that is requested but not  *)
(* part of the build contract is an error.                                  *)
Publish(v, o) ==
  /\ At(v, o)
  /\ IF o # "image" /\ o \notin setup.wanted THEN Goto(v, After[o]) /\ UNCHANGED outputs
     ELSE \/ /\ BytesOf(v, o) # NOTHING
             /\ outputs' = [outputs EXCEPT ![o] = [by |-> v, bytes |-> BytesOf(v, o)]]
             /\ Goto(v, After[o]) \/ Fail(v)
          \/ Fail(v) /\ UNCHANGED outputs
  /\ UNCHANGED <<Environment, contents, run_vars>>

ForgetLocals(v) ==
  /\ revision' = [revision EXCEPT ![v] = NOTHING] /\ clean' = [clean EXCEPT ![v] = NOTHING]
  /\ built' = [built EXCEPT ![v] = [b \in Builds |-> NO_BUILD]]

(* The value is returned, or the error; removing the directory may fail,    *)
(* unnoticed.                                                               *)
Return(v) ==
  /\ pc[v] \in {"drop-ok", "drop-failed"}
  /\ IF At(v, "drop-ok") THEN Goto(v, "ok") /\ UNCHANGED run_vars
                         ELSE Goto(v, "failed") /\ ForgetLocals(v)
  /\ \/ contents' = [contents EXCEPT ![v] = [b \in Builds |-> NO_BUILD]]
     \/ UNCHANGED contents
  /\ UNCHANGED <<Environment, outputs>>

Kill(v) ==
  /\ Live(v) /\ Goto(v, "killed") /\ ForgetLocals(v)
  /\ UNCHANGED <<Environment, contents, outputs>>

Verifier(v) ==
  \/ Discover(v) \/ RevParse(v) \/ Status(v) \/ CreateTemporary(v)
  \/ \E b \in Builds :
       PrepareTarget(v, b) \/ BuildLoader(v, b) \/ BuildKernel(v, b) \/ ReadArtifacts(v, b)
  \/ Compare(v) \/ Assemble(v) \/ (\E o \in Outputs : Publish(v, o)) \/ Return(v)

(* Behind rev-parse and before the first Cargo; between it and the last.    *)
BeforeBuilds == {"status", "create", "mkdir-a", "loader-a"}
DuringBuilds == {"kernel-a", "read-a", "mkdir-b", "loader-b", "kernel-b"}

(* Someone works on the sources. *)
Edit ==
  /\ edits < setup.edits /\ edits' = edits + 1
  /\ \/ tree' \in Versions \ {tree} /\ UNCHANGED head
     \/ head # tree /\ head' = tree /\ UNCHANGED tree
  /\ moved' = [v \in Verifiers |-> moved[v] \/ pc[v] \in BeforeBuilds]
  /\ changes' = [v \in Verifiers |->
       IF tree' # tree /\ pc[v] \in DuringBuilds THEN changes[v] + 1 ELSE changes[v]]
  /\ UNCHANGED <<contents, host, pc, run_vars, outputs>>

Next == (\E v \in Verifiers : Verifier(v) \/ Kill(v)) \/ Edit

Spec == Init /\ [][Next]_vars
FairSpec == Spec /\ \A v \in Verifiers : WF_vars(Verifier(v))

-----------------------------------------------------------------------------
(* The file o with these bytes is made of the artifacts in files. *)
HoldsBytes(o, bytes, files) ==
  CASE o = "image" -> bytes = Image(files)
    [] o = "map"   -> bytes.of = files.kernel
    [] OTHER       -> bytes = files[o]

(* An image, loader or kernel that a step publishes was built twice: at     *)
(* this moment two different directories of the verifier, which were empty  *)
(* before, hold exactly these bytes, and they mention no directory of the   *)
(* host, neither build's target directory included, though each build looks *)
(* for its own only.  Of the map, which verify neither compares nor scans,  *)
(* this is not claimed: it is the first build's and describes a kernel that *)
(* both have built.                                                         *)
PublishesReproduced ==
  [][\A o \in Outputs : outputs'[o] # outputs[o] =>
       LET v == outputs'[o].by IN
       /\ \A b \in Builds : HoldsBytes(o, outputs'[o].bytes, contents[v][b])
       /\ o = "map" => outputs'[o].bytes = contents[v]["build-a"].map
       /\ \A b \in Builds, a \in {"loader", "kernel"}, d \in Builds, kind \in Kinds :
            \A path \in PathsIn(contents[v][b][a]) : ~ Occurs(directories[v][d][kind], path)]_vars

(* The remap options suffice: no path that rustc puts into an artifact lies *)
(* in a directory of the host, and both builds get the same ones, however   *)
(* the directories lie inside each other.  What the scan still refuses is   *)
(* an impurity or a coincidence of names, and no comparison fails because   *)
(* of the directory a build was made in.                                    *)
RemappingSuffices ==
  \A v \in Verifiers, a \in {"loader", "kernel"}, b \in Builds :
    contents[v][b][a] # NOTHING =>
      /\ \A path \in contents[v][b][a].paths, kind \in Kinds :
           ~ IsPrefix(directories[v][b][kind], path)
      /\ \A c \in Builds : contents[v][c][a] # NOTHING =>
           contents[v][b][a].paths = contents[v][c][a].paths

(* An Ok means that every requested output exists, and those this run       *)
(* published last are the files its report names.                           *)
ReportDescribesOutputs ==
  \A v \in Verifiers : At(v, "ok") =>
    \A o \in {"image"} \union setup.wanted :
      /\ outputs[o] # NOTHING /\ outputs[o].bytes # NOTHING
      /\ outputs[o].by = v => HoldsBytes(o, outputs[o].bytes, first(v))

(* What an Ok is about comes from one version of the sources ("use the same *)
(* source tree", docs/boot/IMAGE_LAYOUT.md), although the four builds each  *)
(* read the tree at a time of their own: one change between them, or two,   *)
(* makes the builds differ, or is undone in time.  It takes three, back and *)
(* forth, to pair a loader with a kernel of another version.  A report of a *)
(* clean revision names that version, unless tree or commit changed between *)
(* Git's first answer and the first Cargo; nothing would notice that.       *)
ReportDescribesSource ==
  \A v \in Verifiers : At(v, "ok") /\ changes[v] < 3 =>
    /\ first(v).loader.source = first(v).kernel.source
    /\ revision[v] # NOTHING /\ clean[v] = TRUE /\ ~ moved[v] =>
         first(v).loader.source = revision[v]

(* Every verifier comes to an end. *)
Terminates == \A v \in Verifiers : Live(v) ~> Ended(v)
=============================================================================
