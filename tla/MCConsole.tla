----------------------------- MODULE MCConsole ------------------------------
(* A screen of two rows of three columns, of which the page holds one cell *)
(* more, full of what the firmware wrote, and a text of two characters for *)
(* the handler.  The addresses of the wrappers differ in one half of the   *)
(* word each.                                                              *)
EXTENDS Console

MCFirmware == [i \in Cells |-> "x"]

MCPressed == <<"p", "d">>

MCAddress ==
  [h \in Handlers |-> CASE h = "exception" -> {31, 30, 20, 16, 12, 4}
                       [] h = "pit"       -> {31, 30, 20, 12, 4}
                       [] h = "keyboard"  -> {31, 30, 20, 12, 5}]
=============================================================================
