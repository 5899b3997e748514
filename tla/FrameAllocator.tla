--------------------------- MODULE FrameAllocator --------------------------
(***************************************************************************)
(* The physical memory manager of mem.c at run time: the global pmm and    *)
(* the calls get_page() and free_page().  Callers are the rest of the      *)
(* kernel; a caller gives back only a frame it holds, once.                *)
(*                                                                         *)
(* held, lastTwo and ranDry are history variables: the code keeps no       *)
(* record of who holds a frame.                                            *)
(***************************************************************************)
EXTENDS FrameBitmap

CONSTANT NoFrame    (* no answer: no get_page() yet, or a free_page() since then *)

ASSUME NoFrameAssumption == NoFrame \notin Frames \union Beyond

VARIABLES
  pmm,      (* struct managed_memory pmm                                   *)
  held,     (* frames returned by get_page() and not given back            *)
  lastTwo,  (* the answers of the last two calls, when both were get_page() *)
  ranDry    (* has every frame of the bitmap been in use at some time?     *)

vars == <<pmm, held, lastTwo, ranDry>>

FreeFrames == {f \in Frames : ~ GetPageState(pmm, f)}

Init ==
  /\ pmm \in HandedOver
  /\ held = {}
  /\ lastTwo = <<NoFrame, NoFrame>>
  /\ ranDry = FALSE

GetPage ==
  /\ pmm' = AfterGetPage(pmm)
  /\ held' = held \union {NextFrame(pmm)}
  /\ lastTwo' = <<lastTwo[2], NextFrame(pmm)>>
  /\ ranDry' = (ranDry \/ pmm'.next_index = Size)

FreePage(f) ==
  /\ f \in held
  /\ pmm' = AfterFreePage(pmm, f)
  /\ held' = held \ {f}
  /\ lastTwo' = <<NoFrame, NoFrame>>
  /\ UNCHANGED ranDry

Next == GetPage \/ \E f \in Frames \union Beyond : FreePage(f)

Spec == Init /\ [][Next]_vars

-----------------------------------------------------------------------------
TypeOK ==
  /\ pmm \in ManagedMemory
  /\ held \subseteq Frames \union Beyond
  /\ lastTwo \in (Frames \union Beyond \union {NoFrame})
                   \X (Frames \union Beyond \union {NoFrame})
  /\ ranDry \in BOOLEAN

(* The bitmap knows exactly the frames in use: a frame is marked when it   *)
(* was not available at boot or a caller holds it, and no other is.  A     *)
(* stale mark would be a leak, a missing one a frame handed out twice.     *)
BitmapMatchesHolders ==
  \A f \in Frames : GetPageState(pmm, f) <=> (f \notin Available \/ f \in held)

(* get_page() returns the hinted frame without testing its bit, so the     *)
(* hint has to be right after every call: it names a free frame, or, once  *)
(* the memory has run out, the byte after the bitmap.                      *)
HintIsFreeOrBeyond ==
  \/ NextFrame(pmm) \in FreeFrames
  \/ ranDry /\ NextFrame(pmm) \in Beyond

(* No caller is given a frame of the managed memory that another caller    *)
(* still holds, however calls of get_page() and free_page() alternate.     *)
NoFrameGrantedTwice ==
  [][GetPage /\ lastTwo'[2] \in Frames => lastTwo'[2] \notin held]_vars

(* kernel_main() takes two pages and prints "get_page() probably works     *)
(* partially at least" when they differ: two calls in a row give two       *)
(* different frames.                                                       *)
ConsecutivePagesDiffer ==
  lastTwo[1] # NoFrame => lastTwo[1] # lastTwo[2]

(* The promise of module FramePool, with the clear bits as the free pool.  *)
Pool == INSTANCE FramePool WITH
          Managed <- Frames, Outside <- Beyond,
          free <- FreeFrames, held <- held, ranDry <- ranDry

ImplementsPool == Pool!PoolSpec
=============================================================================
