---------------------------- MODULE MCHyFifoLock ----------------------------
(* HyFifoLock on a ring of two bytes whose counters wrap after four, with  *)
(* calls of one byte and of the whole ring.                                *)
EXTENDS HyFifoLock

CONSTANTS w1, w2, r1, r2, owner, none

MCPayloads == {<<1>>, <<2, 1>>}
MCLens     == {1, 2}
=============================================================================
