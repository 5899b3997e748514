-------------------------- MODULE MCFrameAllocator -------------------------
(* A bitmap of two bytes of which four frames are free, the way a memory   *)
(* map leaves holes: frames 3, 4, 7 of the first byte and 9 of the second. *)
EXTENDS FrameAllocator

MCAvailable == {3, 4, 7, 9}
=============================================================================
