------------------------- MODULE FrameBitmapProofs -------------------------
(***************************************************************************)
(* Lemmas about the operators of module FrameBitmap, for every size of the *)
(* bitmap and every set of available frames: what get_page() and           *)
(* free_page() do to the structure they are given.                         *)
(***************************************************************************)
EXTENDS FrameBitmap, NumberLemmas

(* The conversions between frames and bits of the bitmap are inverse.      *)
LEMMA FrameOfBit ==
  ASSUME NEW i \in 0 .. Size, NEW o \in Bits
  PROVE  /\ FrameAt(i, o) \in Frames \union Beyond
         /\ FrameAt(i, o) \in Frames <=> i < Size
         /\ IndexOf(FrameAt(i, o)) = i
         /\ OffsetOf(FrameAt(i, o)) = o
  BY SizeAssumption DEF FrameAt, IndexOf, OffsetOf, Frames, Beyond, Bits

LEMMA BitOfFrame ==
  ASSUME NEW f \in Frames \union Beyond
  PROVE  /\ IndexOf(f) \in 0 .. Size
         /\ OffsetOf(f) \in Bits
         /\ FrameAt(IndexOf(f), OffsetOf(f)) = f
         /\ f \in Frames <=> IndexOf(f) < Size
         /\ f \in Beyond <=> IndexOf(f) = Size
  BY SizeAssumption DEF FrameAt, IndexOf, OffsetOf, Frames, Beyond, Bits

(* The scan of get_page() finds a byte with a clear bit when there is one. *)
LEMMA ScanFindsByte ==
  ASSUME NEW b \in [0 .. Size -> SUBSET Bits], NotFull(b) # {}
  PROVE  /\ FirstNotFull(b) \in 0 .. Size - 1
         /\ b[FirstNotFull(b)] # Full
<1>1. NotFull(b) \in SUBSET Nat
  BY SizeAssumption DEF NotFull
<1>2. \E i \in NotFull(b) : \A j \in NotFull(b) : i <= j
  BY <1>1, LeastNumber
<1>3. FirstNotFull(b) \in NotFull(b)
  BY <1>2 DEF FirstNotFull
<1>4. QED
  BY <1>3 DEF NotFull

(* first_zero_in_byte() names a clear bit of every byte but 0xFF.          *)
LEMMA FirstZeroIsClear ==
  ASSUME NEW byte \in SUBSET Bits, byte # Full
  PROVE  FirstZeroInByte(byte) \in Bits \ byte
<1>1. Bits \ byte \in SUBSET Nat /\ Bits \ byte # {}
  <2>1. Bits \ byte \in SUBSET Nat
    BY DEF Bits
  <2>2. Bits \ byte # {}
    BY DEF Full
  <2>3. QED
    BY <2>1, <2>2
<1>2. \E o \in Bits \ byte : \A z \in Bits \ byte : o <= z
  BY <1>1, LeastNumber
<1>3. QED
  BY <1>2 DEF FirstZeroInByte
-----------------------------------------------------------------------------
(* What get_page() does to the structure: it marks the hinted frame and no *)
(* other, and the new hint is a clear frame if one is left and the byte    *)
(* after the bitmap if none is.                                            *)
LEMMA GetPageEffect ==
  ASSUME NEW p \in ManagedMemory
  PROVE  /\ AfterGetPage(p) \in ManagedMemory
         /\ NextFrame(p) \in Frames \union Beyond
         /\ \A f \in Frames :
              GetPageState(AfterGetPage(p), f) <=> (GetPageState(p, f) \/ f = NextFrame(p))
         /\ \/ /\ AfterGetPage(p).next_index # Size
               /\ NextFrame(AfterGetPage(p)) \in Frames
               /\ ~ GetPageState(AfterGetPage(p), NextFrame(AfterGetPage(p)))
            \/ /\ AfterGetPage(p).next_index = Size
               /\ NextFrame(AfterGetPage(p)) \in Beyond
               /\ \A f \in Frames : GetPageState(AfterGetPage(p), f)
<1> DEFINE marked == [p.bitmap EXCEPT ![p.next_index] = @ \union {p.next_offset}]
           q      == AfterGetPage(p)
<1>1. /\ p.next_index \in 0 .. Size
      /\ p.next_offset \in Bits
      /\ p.bitmap \in [0 .. Size -> SUBSET Bits]
  BY DEF ManagedMemory
<1>2. marked \in [0 .. Size -> SUBSET Bits]
  BY <1>1
<1>3. NextFrame(p) \in Frames \union Beyond
  BY <1>1, FrameOfBit DEF NextFrame
<1>4. q.bitmap = marked
  BY DEF AfterGetPage
<1>5. ASSUME NEW f \in Frames
      PROVE  GetPageState(q, f) <=> (GetPageState(p, f) \/ f = NextFrame(p))
  <2>1. /\ IndexOf(f) \in 0 .. Size /\ OffsetOf(f) \in Bits
        /\ FrameAt(IndexOf(f), OffsetOf(f)) = f
    BY BitOfFrame
  <2>2. f = NextFrame(p) <=> IndexOf(f) = p.next_index /\ OffsetOf(f) = p.next_offset
    BY <1>1, <2>1, FrameOfBit DEF NextFrame
  <2>3. GetPageState(q, f) <=> OffsetOf(f) \in marked[IndexOf(f)]
    BY <1>4 DEF GetPageState
  <2>4. QED
    BY <1>1, <2>1, <2>2, <2>3 DEF GetPageState
<1>6. CASE NotFull(marked) # {}
  <2>1. /\ q.next_index = FirstNotFull(marked)
        /\ q.next_offset = FirstZeroInByte(marked[FirstNotFull(marked)])
    BY <1>6 DEF AfterGetPage
  <2>2. /\ FirstNotFull(marked) \in 0 .. Size - 1
        /\ marked[FirstNotFull(marked)] # Full
    BY <1>2, <1>6, ScanFindsByte
  <2>3. FirstZeroInByte(marked[FirstNotFull(marked)])
          \in Bits \ marked[FirstNotFull(marked)]
    BY <1>2, <2>2, FirstZeroIsClear, SizeAssumption
  <2>4. /\ q.next_index \in 0 .. Size /\ q.next_index < Size
        /\ q.next_offset \in Bits /\ q.next_offset \notin marked[q.next_index]
    BY <2>1, <2>2, <2>3, SizeAssumption
  <2>5. q \in ManagedMemory
    BY <1>2, <2>4 DEF ManagedMemory, AfterGetPage
  <2>6. NextFrame(q) \in Frames /\ ~ GetPageState(q, NextFrame(q))
    BY <1>4, <2>4, FrameOfBit DEF NextFrame, GetPageState
  <2>7. q.next_index # Size
    BY <2>4, SizeAssumption
  <2>8. QED
    BY <1>3, <1>5, <2>5, <2>6, <2>7
<1>7. CASE NotFull(marked) = {}
  <2>1. q.next_index = Size /\ q.next_offset = p.next_offset
    BY <1>7 DEF AfterGetPage
  <2>2. q \in ManagedMemory
    <3>1. q = [bitmap |-> marked, next_index |-> Size, next_offset |-> p.next_offset]
      BY <1>7 DEF AfterGetPage
    <3>2. Size \in 0 .. Size
      BY SizeAssumption
    <3> HIDE DEF marked, q
    <3>3. QED
      BY <1>1, <1>2, <3>1, <3>2 DEF ManagedMemory
  <2>3. NextFrame(q) \in Beyond
    BY <1>1, <2>1, SizeAssumption DEF NextFrame, FrameAt, Beyond, Bits
  <2>4. ASSUME NEW f \in Frames
        PROVE  GetPageState(q, f)
    <3>1. IndexOf(f) \in 0 .. Size - 1 /\ OffsetOf(f) \in Bits
      BY BitOfFrame, SizeAssumption
    <3>2. marked[IndexOf(f)] = Full
      BY <1>7, <3>1 DEF NotFull
    <3>3. QED
      BY <1>4, <3>1, <3>2 DEF GetPageState, Full
  <2>5. QED
    BY <1>3, <1>5, <2>1, <2>2, <2>3, <2>4
<1>8. QED
  BY <1>6, <1>7

(* What free_page() does: it clears the frame and makes it the hint.       *)
LEMMA FreePageEffect ==
  ASSUME NEW p \in ManagedMemory, NEW f \in Frames \union Beyond
  PROVE  /\ AfterFreePage(p, f) \in ManagedMemory
         /\ NextFrame(AfterFreePage(p, f)) = f
         /\ \A g \in Frames :
              GetPageState(AfterFreePage(p, f), g) <=> (GetPageState(p, g) /\ g # f)
<1> DEFINE q == AfterFreePage(p, f)
<1>1. p.bitmap \in [0 .. Size -> SUBSET Bits]
  BY DEF ManagedMemory
<1>2. /\ IndexOf(f) \in 0 .. Size /\ OffsetOf(f) \in Bits
      /\ FrameAt(IndexOf(f), OffsetOf(f)) = f
  BY BitOfFrame
<1>3. q \in ManagedMemory
  BY <1>1, <1>2 DEF ManagedMemory, AfterFreePage
<1>4. NextFrame(q) = f
  BY <1>2 DEF NextFrame, AfterFreePage
<1>5. ASSUME NEW g \in Frames
      PROVE  GetPageState(q, g) <=> (GetPageState(p, g) /\ g # f)
  <2>1. /\ IndexOf(g) \in 0 .. Size /\ OffsetOf(g) \in Bits
        /\ FrameAt(IndexOf(g), OffsetOf(g)) = g
    BY BitOfFrame
  <2>2. g = f <=> IndexOf(g) = IndexOf(f) /\ OffsetOf(g) = OffsetOf(f)
    BY <1>2, <2>1
  <2>3. q.bitmap = [p.bitmap EXCEPT ![IndexOf(f)] = @ \ {OffsetOf(f)}]
    BY DEF AfterFreePage
  <2>4. QED
    BY <1>1, <1>2, <2>1, <2>2, <2>3 DEF GetPageState
<1>6. QED
  BY <1>3, <1>4, <1>5
-----------------------------------------------------------------------------
(* The structure late_pmm_init() takes over is one, every frame that is    *)
(* not available is marked in it, and the hint names an available one.     *)
LEMMA HandedOverEffect ==
  ASSUME NEW p \in HandedOver
  PROVE  /\ p \in ManagedMemory
         /\ NextFrame(p) \in Available
         /\ \A f \in Frames : GetPageState(p, f) <=> f \notin Available
<1>1. p \in ManagedMemory
  BY SizeAssumption DEF HandedOver, ManagedMemory, Full
<1>2. NextFrame(p) \in Available
  BY DEF HandedOver
<1>3. ASSUME NEW f \in Frames
      PROVE  GetPageState(p, f) <=> f \notin Available
  <2>1. /\ IndexOf(f) \in 0 .. Size - 1 /\ OffsetOf(f) \in Bits
        /\ FrameAt(IndexOf(f), OffsetOf(f)) = f
    BY BitOfFrame, SizeAssumption
  <2>2. p.bitmap[IndexOf(f)]
          = {o \in Bits : FrameAt(IndexOf(f), o) \notin Available}
    BY <2>1, SizeAssumption DEF HandedOver
  <2>3. QED
    BY <2>1, <2>2 DEF GetPageState
<1>4. QED
  BY <1>1, <1>2, <1>3
=============================================================================
