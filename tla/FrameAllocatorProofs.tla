------------------------ MODULE FrameAllocatorProofs -----------------------
(***************************************************************************)
(* Proofs about module FrameAllocator, for every size of the bitmap and    *)
(* every set of available frames.                                          *)
(***************************************************************************)
EXTENDS FrameAllocator, FrameBitmapProofs

LEMMA TypePreserved == TypeOK /\ [Next]_vars => TypeOK'
<1> SUFFICES ASSUME TypeOK, [Next]_vars PROVE TypeOK'
  OBVIOUS
<1>1. CASE GetPage
  <2>1. pmm' \in ManagedMemory /\ NextFrame(pmm) \in Frames \union Beyond
    BY <1>1, GetPageEffect DEF GetPage, TypeOK
  <2>2. ranDry' \in BOOLEAN
    BY <1>1 DEF GetPage, TypeOK
  <2>3. QED
    BY <1>1, <2>1, <2>2 DEF GetPage, TypeOK
<1>2. ASSUME NEW f \in Frames \union Beyond, FreePage(f)
      PROVE  TypeOK'
  <2>1. pmm' \in ManagedMemory
    BY <1>2, FreePageEffect DEF FreePage, TypeOK
  <2>2. QED
    BY <1>2, <2>1 DEF FreePage, TypeOK
<1>3. CASE UNCHANGED vars
  BY <1>3 DEF vars, TypeOK
<1>4. QED
  BY <1>1, <1>2, <1>3 DEF Next

LEMMA InitTypeOK == Init => TypeOK
<1> SUFFICES ASSUME Init PROVE TypeOK
  OBVIOUS
<1>1. pmm \in ManagedMemory
  BY HandedOverEffect DEF Init
<1>2. lastTwo \in (Frames \union Beyond \union {NoFrame})
                    \X (Frames \union Beyond \union {NoFrame})
  BY DEF Init
<1>3. QED
  BY <1>1, <1>2 DEF Init, TypeOK

(* Type correctness: the structure keeps its shape, in particular the hint *)
(* never leaves the bitmap by more than the byte after it.                 *)
THEOREM TypeCorrect == Spec => []TypeOK
  BY InitTypeOK, TypePreserved, PTL DEF Spec

(* The inductive invariant.  The two properties of the runs are not        *)
(* inductive alone: that free_page() restores a clear bit needs held       *)
(* frames to be available ones, and that a given-back frame beyond the     *)
(* bitmap is a legal hint needs the pool to have run dry before.           *)
AllocatorInv ==
  /\ TypeOK
  /\ BitmapMatchesHolders
  /\ HintIsFreeOrBeyond
  /\ held \intersect Frames \subseteq Available
  /\ held \intersect Beyond # {} => ranDry

LEMMA InitAllocatorInv == Init => AllocatorInv
<1> SUFFICES ASSUME Init PROVE AllocatorInv
  OBVIOUS
<1>1. pmm \in ManagedMemory /\ held = {}
  BY HandedOverEffect DEF Init
<1>2. TypeOK
  BY InitTypeOK
<1>3. \A f \in Frames : GetPageState(pmm, f) <=> f \notin Available
  BY HandedOverEffect DEF Init
<1>4. NextFrame(pmm) \in Available
  BY DEF Init, HandedOver
<1>5. QED
  BY <1>1, <1>2, <1>3, <1>4, AvailableAssumption
     DEF AllocatorInv, BitmapMatchesHolders, HintIsFreeOrBeyond, FreeFrames

LEMMA NextAllocatorInv == AllocatorInv /\ [Next]_vars => AllocatorInv'
<1> SUFFICES ASSUME AllocatorInv, [Next]_vars PROVE AllocatorInv'
  OBVIOUS
<1>1. TypeOK'
  BY TypePreserved DEF AllocatorInv
<1>2. Frames \intersect Beyond = {}
  BY SizeAssumption DEF Frames, Beyond
<1>3. CASE GetPage
  <2>1. /\ pmm \in ManagedMemory
        /\ pmm' = AfterGetPage(pmm)
        /\ held' = held \union {NextFrame(pmm)}
        /\ ranDry' = (ranDry \/ pmm'.next_index = Size)
    BY <1>3 DEF GetPage, AllocatorInv, TypeOK
  <2>2. NextFrame(pmm) \in Frames => NextFrame(pmm) \in Available \ held
    BY <1>2 DEF AllocatorInv, HintIsFreeOrBeyond, BitmapMatchesHolders, FreeFrames
  <2>3. BitmapMatchesHolders'
    BY <2>1, <2>2, GetPageEffect DEF AllocatorInv, BitmapMatchesHolders
  <2>4. HintIsFreeOrBeyond'
    BY <2>1, GetPageEffect DEF HintIsFreeOrBeyond, FreeFrames
  <2>5. (held \intersect Frames \subseteq Available)'
    BY <2>1, <2>2 DEF AllocatorInv
  <2>6. (held \intersect Beyond # {} => ranDry)'
    BY <1>2, <2>1 DEF AllocatorInv, HintIsFreeOrBeyond, FreeFrames
  <2>7. QED
    BY <1>1, <2>3, <2>4, <2>5, <2>6 DEF AllocatorInv
<1>4. ASSUME NEW f \in Frames \union Beyond, FreePage(f)
      PROVE  AllocatorInv'
  <2>1. /\ pmm \in ManagedMemory /\ f \in held
        /\ pmm' = AfterFreePage(pmm, f)
        /\ held' = held \ {f}
        /\ ranDry' = ranDry
    BY <1>4 DEF FreePage, AllocatorInv, TypeOK
  <2>2. f \in Frames => f \in Available
    BY <2>1 DEF AllocatorInv
  <2>3. BitmapMatchesHolders'
    BY <2>1, <2>2, FreePageEffect DEF AllocatorInv, BitmapMatchesHolders
  <2>4. HintIsFreeOrBeyond'
    BY <2>1, FreePageEffect DEF AllocatorInv, HintIsFreeOrBeyond, FreeFrames
  <2>5. (held \intersect Frames \subseteq Available)'
        /\ (held \intersect Beyond # {} => ranDry)'
    BY <2>1 DEF AllocatorInv
  <2>6. QED
    BY <1>1, <2>3, <2>4, <2>5 DEF AllocatorInv
<1>5. CASE UNCHANGED vars
  BY <1>1, <1>5 DEF vars, AllocatorInv, BitmapMatchesHolders, HintIsFreeOrBeyond, FreeFrames
<1>6. QED
  BY <1>3, <1>4, <1>5 DEF Next

(* The bitmap always marks exactly the frames in use.                      *)
THEOREM AllocatorSafe == Spec => []BitmapMatchesHolders
<1>1. AllocatorInv => BitmapMatchesHolders
  BY DEF AllocatorInv
<1>2. QED
  BY <1>1, InitAllocatorInv, NextAllocatorInv, PTL DEF Spec

(* The hint that get_page() trusts is always right: it names a free frame  *)
(* until the memory has run out.                                           *)
THEOREM HintRight == Spec => []HintIsFreeOrBeyond
<1>1. AllocatorInv => HintIsFreeOrBeyond
  BY DEF AllocatorInv
<1>2. QED
  BY <1>1, InitAllocatorInv, NextAllocatorInv, PTL DEF Spec

(* get_page() never returns a frame of the managed memory that a caller    *)
(* still holds.                                                            *)
THEOREM SingleGrant == Spec => NoFrameGrantedTwice
<1>1. AllocatorInv /\ [Next]_vars
        => [GetPage /\ lastTwo'[2] \in Frames => lastTwo'[2] \notin held]_vars
  <2> SUFFICES ASSUME AllocatorInv, GetPage, lastTwo'[2] \in Frames
               PROVE  lastTwo'[2] \notin held
    OBVIOUS
  <2>1. lastTwo'[2] = NextFrame(pmm)
    BY DEF GetPage
  <2>2. NextFrame(pmm) \notin Beyond
    BY <2>1, SizeAssumption DEF Frames, Beyond
  <2>3. QED
    BY <2>1, <2>2
       DEF AllocatorInv, HintIsFreeOrBeyond, BitmapMatchesHolders, FreeFrames
<1>2. QED
  BY <1>1, InitAllocatorInv, NextAllocatorInv, PTL DEF Spec, NoFrameGrantedTwice

-----------------------------------------------------------------------------
(* The memory manager implements the pool of frames of module FramePool:   *)
(* every get_page() takes a free frame, or one outside the managed memory  *)
(* once the pool has run dry, and every free_page() gives a frame back.    *)
THEOREM Refinement == Spec => ImplementsPool
<1>1. Init => Pool!PoolInit
  <2> SUFFICES ASSUME Init PROVE Pool!PoolInit
    OBVIOUS
  <2>1. FreeFrames # {}
    <3>1. NextFrame(pmm) \in Available
      BY DEF Init, HandedOver
    <3>2. BitmapMatchesHolders /\ held = {}
      BY InitAllocatorInv DEF AllocatorInv, Init
    <3>3. QED
      BY <3>1, <3>2, AvailableAssumption DEF BitmapMatchesHolders, FreeFrames
  <2>2. QED
    BY <2>1 DEF Init, Pool!PoolInit, FreeFrames
<1>2. AllocatorInv /\ AllocatorInv' /\ [Next]_vars => [Pool!PoolNext]_(Pool!poolVars)
  <2> SUFFICES ASSUME AllocatorInv, AllocatorInv', [Next]_vars
               PROVE  [Pool!PoolNext]_(Pool!poolVars)
    OBVIOUS
  <2>1. pmm \in ManagedMemory /\ ranDry \in BOOLEAN /\ Frames \intersect Beyond = {}
    BY SizeAssumption DEF AllocatorInv, TypeOK, Frames, Beyond
  <2>2. CASE GetPage /\ NextFrame(pmm) \in Frames
    <3> DEFINE f == NextFrame(pmm)
    <3>1. f \in FreeFrames
      BY <2>1, <2>2 DEF AllocatorInv, HintIsFreeOrBeyond
    <3>2. FreeFrames' = FreeFrames \ {f}
      BY <2>1, <2>2, GetPageEffect DEF GetPage, FreeFrames
    <3>3. pmm'.next_index = Size <=> FreeFrames' = {}
      BY <2>1, <2>2, GetPageEffect DEF GetPage, FreeFrames
    <3>4. ranDry' = (ranDry \/ FreeFrames = {f})
      BY <2>2, <3>1, <3>2, <3>3 DEF GetPage
    <3>5. Pool!Take(f)
      BY <2>2, <3>1, <3>2, <3>4 DEF GetPage, Pool!Take
    <3>6. QED
      BY <2>2, <3>5 DEF Pool!PoolNext
  <2>3. CASE GetPage /\ NextFrame(pmm) \notin Frames
    <3> DEFINE f == NextFrame(pmm)
    <3>1. f \in Beyond /\ ranDry
      BY <2>3 DEF AllocatorInv, HintIsFreeOrBeyond, FreeFrames
    <3>2. FreeFrames' = FreeFrames
      BY <2>1, <2>3, GetPageEffect DEF GetPage, FreeFrames
    <3>3. Pool!TakeOutside(f)
      BY <2>1, <2>3, <3>1, <3>2 DEF GetPage, Pool!TakeOutside
    <3>4. QED
      BY <3>1, <3>3 DEF Pool!PoolNext
  <2>4. ASSUME NEW f \in Frames \union Beyond, FreePage(f)
        PROVE  Pool!PoolNext
    <3>1. FreeFrames' = IF f \in Frames THEN FreeFrames \union {f} ELSE FreeFrames
      BY <2>1, <2>4, FreePageEffect DEF FreePage, FreeFrames
    <3>2. Pool!GiveBack(f)
      BY <2>4, <3>1 DEF FreePage, Pool!GiveBack
    <3>3. QED
      BY <3>2 DEF Pool!PoolNext
  <2>5. CASE UNCHANGED vars
    BY <2>5 DEF vars, Pool!poolVars, FreeFrames
  <2>6. QED
    BY <2>2, <2>3, <2>4, <2>5 DEF Next
<1>3. QED
  BY <1>1, <1>2, InitAllocatorInv, NextAllocatorInv, PTL
     DEF Spec, ImplementsPool, Pool!PoolSpec
=============================================================================
