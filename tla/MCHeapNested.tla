---------------------------- MODULE MCHeapNested ----------------------------
(* Small heaps: pages of 64 bytes instead of 4096, from address 64 on.     *)
EXTENDS HeapNested

NoArrays == {}

(* An array of two 4-byte members, and one whose size overflows a word of *)
(* 4096 values.                                                            *)
MCArrays == {<<2, 4>>, <<3, 2048>>}
=============================================================================
