------------------------------- MODULE MCBoot -------------------------------
(* Start-up on the memory maps of MCEarlyPmm.                              *)
EXTENDS Boot, MCEarlyPmm
=============================================================================
