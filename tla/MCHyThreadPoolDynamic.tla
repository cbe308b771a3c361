------------------------ MODULE MCHyThreadPoolDynamic ------------------------
(* HyThreadPoolDynamic with small pools; a task is 16 bytes, as on the     *)
(* 64-bit targets.                                                         *)
EXTENDS HyThreadPoolDynamic

MCItemSize == 16
=============================================================================
