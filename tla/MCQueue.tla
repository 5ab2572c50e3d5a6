-------------------------------- MODULE MCQueue --------------------------------
(***************************************************************************)
(* The kernel's small system together with the loops on its process       *)
(* table.                                                                  *)
(***************************************************************************)
EXTENDS MCKernel, QueueLoops
=============================================================================
