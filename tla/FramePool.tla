----------------------------- MODULE FramePool -----------------------------
(***************************************************************************)
(* What the physical memory manager promises its callers, without bitmap   *)
(* or hint: a pool of frames from which a caller takes a free one and to   *)
(* which it gives back one it holds.  The promise has a limit that the     *)
(* code does not report: once the pool has run dry get_page() may answer   *)
(* with a frame beyond the memory it manages, more than once.              *)
(***************************************************************************)
CONSTANTS
  Managed,   (* the frames the manager describes                           *)
  Outside    (* the frames it may name once the pool has run dry           *)

VARIABLES
  free,      (* the frames that nobody holds                               *)
  held,      (* the frames callers hold                                    *)
  ranDry     (* has the pool ever been empty?                              *)

poolVars == <<free, held, ranDry>>

PoolInit ==
  /\ free \in (SUBSET Managed) \ {{}}
  /\ held = {}
  /\ ranDry = FALSE

Take(f) ==
  /\ f \in free
  /\ free' = free \ {f}
  /\ held' = held \union {f}
  /\ ranDry' = (ranDry \/ free = {f})

TakeOutside(f) ==
  /\ ranDry
  /\ f \in Outside
  /\ held' = held \union {f}
  /\ UNCHANGED <<free, ranDry>>

GiveBack(f) ==
  /\ f \in held
  /\ held' = held \ {f}
  /\ free' = IF f \in Managed THEN free \union {f} ELSE free
  /\ UNCHANGED ranDry

PoolNext ==
  \/ \E f \in Managed : Take(f)
  \/ \E f \in Outside : TakeOutside(f)
  \/ \E f \in Managed \union Outside : GiveBack(f)

PoolSpec == PoolInit /\ [][PoolNext]_poolVars
=============================================================================
