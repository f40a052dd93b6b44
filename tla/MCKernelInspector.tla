------------------------- MODULE MCKernelInspector -------------------------
(* Kernels of four to five pages: sections that end at a page boundary or   *)
(* within a page, one that is empty, and one that reaches the stack guard.  *)
EXTENDS KernelInspector

Kernel(t, r, d, b) == [n \in LoadSections |->
  CASE n = ".text" -> t [] n = ".rodata" -> r [] n = ".data" -> d [] n = ".bss" -> b]

MCKernels == {Kernel(1, 2, 1, 3), Kernel(2, 2, 0, 2), Kernel(1, 1, 2, 4)}
MCDrifts == {-2, -1, 0, 1, 2}
=============================================================================
