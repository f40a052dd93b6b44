-------------------------- MODULE MCFilePublication --------------------------
(* Two runs, at the same time or one after the other, with different ids or *)
(* the same one, that publish an image and a kernel to a directory that may *)
(* not exist yet.                                                           *)
EXTENDS FilePublication

CONSTANTS image, kernel, target

MCParent == [o \in Outputs |-> target]
MCPlan == [p \in Processes |-> <<image, kernel>>]
=============================================================================
