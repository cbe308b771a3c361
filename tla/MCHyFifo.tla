------------------------------ MODULE MCHyFifo ------------------------------
(* HyFifo on a ring of four bytes whose counters wrap after eight, with    *)
(* writes that fit, fill or exceed the room and reads of one byte up to    *)
(* more than the ring holds.                                               *)
EXTENDS HyFifo

MCPayloads == {<<1>>, <<2, 1>>, <<1, 2, 3, 1, 2>>}
MCLens     == {1, 2, 5}
=============================================================================
