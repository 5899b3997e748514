------------------------------- MODULE MCHeap -------------------------------
(* Small heaps: pages of 64 bytes instead of 4096, from address 64 on.     *)
EXTENDS Heap

NoArrays == {}

(* An array of two 12-byte members, and one whose size overflows a word of *)
(* 4096 values.                                                            *)
MCArrays == {<<2, 12>>, <<3, 2048>>}
=============================================================================
