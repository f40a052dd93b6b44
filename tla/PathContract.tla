---------------------------- MODULE PathContract ----------------------------
(***************************************************************************)
(* How repro-check keeps the host's paths out of its artifacts: the four   *)
(* directories a build mentions are remapped to fixed names, and what was  *)
(* built is scanned for the directories.  They may lie inside each other   *)
(* in any way.  A path is the sequence of its components, a layout gives   *)
(* the directories: [target, workspace, cargo_home, user_home |-> path].   *)
(***************************************************************************)
EXTENDS Naturals, Sequences, SequencesExt

Kinds == {"target", "workspace", "cargo_home", "user_home"}

(* HostPaths::discover: a home that is the root would match every path. *)
Discoverable(layout) == layout.user_home # <<>> /\ layout.cargo_home # <<>>

(* All below /workspace or /build, which no layout is taken to use. *)
Destination(kind) ==
  IF kind = "workspace" THEN <<"workspace", "polytope-os">> ELSE <<"build", kind>>

PathRemap(layout, kind) == [source |-> layout[kind], destination |-> Destination(kind)]

Remaps(layout) ==
  <<PathRemap(layout, "target"), PathRemap(layout, "workspace"),
    PathRemap(layout, "cargo_home"), PathRemap(layout, "user_home")>>

(* BuildPathContract::new refuses two directories that are the same. *)
HasContract(layout) == \A i, j \in DOMAIN Remaps(layout) :
  i # j => Remaps(layout)[i].source # Remaps(layout)[j].source

(* Plausible mistake in the next definition: options in the contract's order. *)
OptionsInOrder(contract) == contract

(* encoded_rustflags *)
Options(contract) == Reverse(contract)

(* rustc: the last option whose source is a prefix of the path applies. *)
Rustc(options, path) ==
  LET matching == {i \in DOMAIN options : IsPrefix(options[i].source, path)} IN
  IF matching = {} THEN path
  ELSE LET i == CHOOSE i \in matching : \A j \in matching : j <= i IN
       options[i].destination \o SubSeq(path, Len(options[i].source) + 1, Len(path))

(* first_subslice: the pattern anywhere in the path. *)
Occurs(pattern, path) ==
  \E i \in 1 .. Len(path) + 1 - Len(pattern) : SubSeq(path, i, i + Len(pattern) - 1) = pattern

(* verify_path_privacy *)
Exposes(contract, paths) ==
  \E i \in DOMAIN contract, path \in paths : Occurs(contract[i].source, path)
=============================================================================
