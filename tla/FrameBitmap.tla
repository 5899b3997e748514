---------------------------- MODULE FrameBitmap ----------------------------
(***************************************************************************)
(* The data structure of the physical memory manager of                    *)
(* kernel/arch/i386/mem.c: struct managed_memory, a bitmap with one bit    *)
(* per 4096-byte frame (1 = in use) and a hint at the frame the next       *)
(* get_page() returns.  The operators below are the C functions as pure    *)
(* functions of that structure, so that every component that calls         *)
(* get_page() inside a larger step (map_page, init_heap, kmalloc) uses the *)
(* same definition.                                                        *)
(*                                                                         *)
(* A frame is represented by its number (physical address / PAGE_SIZE) and *)
(* a byte of the bitmap by the set of its 1 bits.                          *)
(***************************************************************************)
EXTENDS Integers

CONSTANTS
  Size,       (* pmm.size: the number of bytes of the bitmap              *)
  Available   (* the frames init_frame_allocator() left marked as free    *)

Bits   == 0 .. 7
Full   == Bits                   \* the byte 0xFF
Frames == 0 .. 8 * Size - 1      \* the frames the bitmap describes

(* init_frame_allocator() only reaches the bitmap when it has found a      *)
(* memory map, so the bitmap is not empty and at least one frame is free.  *)
ASSUME SizeAssumption      == Size \in Nat \ {0}
ASSUME AvailableAssumption == Available \subseteq Frames /\ Available # {}

(* The frames "described" by the byte just past the bitmap: get_page()     *)
(* returns one of them when the bitmap is full, because its scan leaves    *)
(* next_index at pmm.size.                                                 *)
Beyond == 8 * Size .. 8 * Size + 7

-----------------------------------------------------------------------------
(* offsets_to_physaddr() and physaddr_to_offsets(), in frames.             *)
FrameAt(index, offset) == 8 * index + offset
IndexOf(frame)         == frame \div 8
OffsetOf(frame)        == frame % 8

(* The managed_memory structures there can be.  Byte Size of the bitmap is *)
(* the byte after it, which get_page() writes once the bitmap is full.     *)
ManagedMemory ==
  [bitmap      : [0 .. Size -> SUBSET Bits],
   next_index  : 0 .. Size,
   next_offset : Bits]

(* first_zero_in_byte(): the lowest clear bit, 8 for 0xFF.                 *)
FirstZeroInByte(byte) ==
  IF byte = Full THEN 8
  ELSE CHOOSE o \in Bits \ byte : \A z \in Bits \ byte : o <= z

(* get_page_state(): is the frame marked as used?                          *)
GetPageState(pmm, frame) == OffsetOf(frame) \in pmm.bitmap[IndexOf(frame)]

(* The frame get_page() returns: the one the hint names, without looking   *)
(* at its bit.                                                             *)
NextFrame(pmm) == FrameAt(pmm.next_index, pmm.next_offset)

(* The loop of get_page(): the first byte below pmm.size that is not 0xFF  *)
(* and its lowest clear bit; when there is none the index ends at pmm.size *)
(* and the offset keeps its old value.                                     *)
(* Mutant: the loop leaves out the last byte.                              *)
NotFullButLast(bitmap) == {i \in 0 .. Size - 2 : bitmap[i] # Full}

NotFull(bitmap) == {i \in 0 .. Size - 1 : bitmap[i] # Full}

FirstNotFull(bitmap) ==
  CHOOSE i \in NotFull(bitmap) : \A j \in NotFull(bitmap) : i <= j

(* Mutants: next_offset keeps its old value; it is taken from a full byte  *)
(* when there is no other; the frame is not marked.                        *)
AfterGetPageSameOffset(pmm) ==
  LET marked == [pmm.bitmap EXCEPT ![pmm.next_index] = @ \union {pmm.next_offset}]
  IN  [pmm EXCEPT !.bitmap = marked,
                  !.next_index = IF NotFull(marked) # {} THEN FirstNotFull(marked) ELSE Size]

AfterGetPageOffsetOfFull(pmm) ==
  LET marked == [pmm.bitmap EXCEPT ![pmm.next_index] = @ \union {pmm.next_offset}]
      index  == IF NotFull(marked) # {} THEN FirstNotFull(marked) ELSE Size
  IN  [bitmap |-> marked, next_index |-> index,
       next_offset |-> FirstZeroInByte(IF index = Size THEN Full ELSE marked[index])]

AfterGetPageUnmarked(pmm) ==
  [pmm EXCEPT !.next_index = FirstNotFull(pmm.bitmap),
              !.next_offset = FirstZeroInByte(pmm.bitmap[FirstNotFull(pmm.bitmap)])]

(* get_page(): mark the hinted frame, then search the next hint.           *)
AfterGetPage(pmm) ==
  LET marked == [pmm.bitmap EXCEPT ![pmm.next_index] = @ \union {pmm.next_offset}]
      found  == NotFull(marked) # {}
  IN  [bitmap      |-> marked,
       next_index  |-> IF found THEN FirstNotFull(marked) ELSE Size,
       next_offset |-> IF found THEN FirstZeroInByte(marked[FirstNotFull(marked)])
                                ELSE pmm.next_offset]

(* Mutant: the bit stays set.                                              *)
AfterFreePageStillSet(pmm, frame) ==
  [pmm EXCEPT !.next_index = IndexOf(frame), !.next_offset = OffsetOf(frame)]

(* free_page(): clear the bit of the frame, which becomes the next hint.   *)
AfterFreePage(pmm, frame) ==
  [bitmap      |-> [pmm.bitmap EXCEPT ![IndexOf(frame)] = @ \ {OffsetOf(frame)}],
   next_index  |-> IndexOf(frame),
   next_offset |-> OffsetOf(frame)]

(* The structure late_pmm_init() takes over: init_frame_allocator() sets   *)
(* every byte to 0xFF, clears the bit of each available frame and lets the *)
(* hint name the first frame it cleared, in the order of the memory map.   *)
(* The byte after the bitmap is whatever the page holds.                   *)
HandedOver ==
  {pmm \in [bitmap : {[i \in 0 .. Size |->
                         IF i < Size THEN {o \in Bits : FrameAt(i, o) \notin Available}
                                     ELSE after] : after \in {{}, Full}},
            next_index : 0 .. Size - 1, next_offset : Bits] :
     NextFrame(pmm) \in Available}
=============================================================================
