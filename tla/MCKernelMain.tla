---------------------------- MODULE MCKernelMain ----------------------------
(* Page tables of four entries instead of 1024, so that the heap's pages   *)
(* need several, and as many frames as the most demanding choice of sizes  *)
(* takes.                                                                  *)
EXTENDS KernelMain

MCPtIndices == 0 .. 3

MCAvailable == {2, 3} \union 5 .. 13

(* Configuration registers with these ids, class 6 and header type 129.    *)
Registers(vendor, device) ==
  [r \in {0, 4, 8, 12} |->
     CASE r = 0  -> Bus!WordOf(vendor) \union Bus!ShiftedLeft(Bus!WordOf(device), 16)
       [] r = 4  -> Bus!WordOf(263)
       [] r = 8  -> Bus!ShiftedLeft(Bus!WordOf(6), 24)
       [] r = 12 -> Bus!ShiftedLeft(Bus!WordOf(129), 16)]

(* An empty bus; a host bridge alone; one with devices whose addresses     *)
(* differ in one field, and whose ids have one digit or the most.          *)
MCMachines ==
  {<< >>,
   [f \in {<<0, 0, 0>>} |-> Registers(32902, 4663)],
   [f \in {<<0, 0, 0>>, <<0, 0, 7>>, <<0, 31, 7>>, <<255, 31, 7>>, <<254, 31, 7>>} |->
      IF f = <<255, 31, 7>> THEN Registers(65535, 10) ELSE Registers(f[1] + f[3], 9)]}

MCWanted == {<<0, 0, 0>>, <<0, 31, 7>>, <<255, 31, 7>>}
=============================================================================
