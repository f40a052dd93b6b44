---------------------------- MODULE MCBootSystem ----------------------------
(* One scenario stands for all where only the processes matter.  A timeout  *)
(* probe differs from it by a guest that halts, and any guest may hang.     *)
EXTENDS BootSystem

ProcessRequests == {<<SCENARIO, "normal">>}
=============================================================================
