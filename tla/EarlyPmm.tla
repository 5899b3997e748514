------------------------------ MODULE EarlyPmm ------------------------------
(***************************************************************************)
(* init_frame_allocator() of kernel/arch/i386/early_pmm_init.c: before     *)
(* paging is on, it reads the boot loader's memory map, trims the          *)
(* available areas to whole pages in front of the reserved ones, places    *)
(* the bitmap behind the kernel and clears the bits of the frames          *)
(* get_page() may hand out.  The structure it leaves is what               *)
(* late_pmm_init() makes the frame allocator of module FrameAllocator.     *)
(*                                                                         *)
(* The bitmap is represented by the set of the frames whose bits are       *)
(* clear; a member beyond the last byte is a write behind the bitmap.  The *)
(* loader loaded the kernel, so the magic number is right; no memory map   *)
(* (bit 6 of flags is clear) has the effect of an empty one.               *)
(***************************************************************************)
EXTENDS Integers, Sequences, FiniteSetsExt

CONSTANTS
  PageSize,     (* PAGE_SIZE                                               *)
  Word,         (* 2^32: the values of a pointer and of a uint32_t         *)
  LongWord,     (* 2^64: the values of a length in the memory map          *)
  KernelStart,  (* _kernel_start, where the loader put the kernel: MB      *)
  KernelSize,   (* kernel_end_p - kernel_start_p                           *)
  MemoryMaps    (* the memory maps: sequences of areas                     *)

Areas == [addr : Nat, length : Nat, available : BOOLEAN]

ASSUME PageAssumption   == PageSize \in Nat /\ PageSize >= 8
ASSUME WordAssumption   == /\ Word \in Nat \ {0} /\ Word % PageSize = 0
                           /\ LongWord \in Nat /\ LongWord > Word /\ LongWord % Word = 0
ASSUME KernelAssumption == KernelStart \in Nat /\ KernelStart % PageSize = 0
                           /\ KernelSize \in Nat \ {0}
                           /\ KernelStart + KernelSize + PageSize <= Word
ASSUME MapsAssumption   == MemoryMaps \subseteq Seq(Areas)

VARIABLES
  given,         (* the memory map as the boot loader wrote it             *)
  mmap,          (* the memory map, trimmed up to here                     *)
  step,          (* the loop, and the entry it is at                       *)
  kernel_entry,  (* the entry that is taken for the kernel's, 0 for none   *)
  total_size,    (* last_addr + last_size                                  *)
  early_pmm      (* the structure handed to late_pmm_init()                *)

vars == <<given, mmap, step, kernel_entry, total_size, early_pmm>>

(* div_ceil(), of numbers whose sum fits into a size_t.                    *)
DivCeil(a, b) == (a + b - 1) \div b

KernelPages == DivCeil(KernelSize, PageSize)

(* early_pmm lies in the .bss section.                                     *)
NoMemory == [bitmap |-> 0, size |-> 0, clear |-> {}, next |-> 0, free_pages |-> 0]

Init ==
  /\ given \in MemoryMaps
  /\ mmap = given
  /\ step = <<"scan", 1>>
  /\ kernel_entry = 0
  /\ total_size = 0
  /\ early_pmm = NoMemory

-----------------------------------------------------------------------------
(* sanitize_available(), first half: an available area ends where the      *)
(* lowest of the other areas that start inside it begins.                  *)
StartsInside(map, e) ==
  {map[i].addr : i \in {j \in DOMAIN map :
     ~ map[j].available /\ e.addr < map[j].addr /\ map[j].addr < e.addr + e.length}}

UpToReserved(map, e) ==
  IF StartsInside(map, e) = {} THEN e
  ELSE [e EXCEPT !.length = Min(StartsInside(map, e)) - e.addr]

(* Second half: the start is rounded up to a page.  The length is reduced  *)
(* by the distance of the shifted end to the next page, modulo 2^64.       *)
Rounded(e) ==
  LET start == e.addr + (PageSize - (e.addr % PageSize))
  IN  IF e.addr % PageSize = 0 THEN e
      ELSE [e EXCEPT !.addr = start,
                     !.length = (@ - (PageSize - ((start + @) % PageSize))) % LongWord]

(* Mutant: areas are not trimmed to the reserved ones.                     *)
SanitizedRoundedOnly(map, e) == IF e.available THEN Rounded(e) ELSE e

Sanitized(map, e) == IF e.available THEN Rounded(UpToReserved(map, e)) ELSE e

(* What is taken for the kernel's entry.                                   *)
HoldsKernel(e) == KernelStart >= e.addr /\ e.length >= KernelSize

(* Lines 77-89: the last entry that starts no later than the kernel and is *)
(* long enough, untrimmed, is the kernel's; the last available entry tells *)
(* how much memory there is.                                               *)
Scan(i) ==
  LET e == mmap[i]
      s == Sanitized(mmap, e)
  IN  /\ step = <<"scan", i>>
      /\ kernel_entry' = IF HoldsKernel(e) THEN i ELSE kernel_entry
      /\ mmap' = [mmap EXCEPT ![i] = s]
      /\ total_size' = IF e.available THEN (s.addr + s.length) % LongWord ELSE total_size
      /\ step' = <<"scan", i + 1>>
      /\ UNCHANGED <<given, early_pmm>>

-----------------------------------------------------------------------------
(* Mutant: no byte for the last pages.                                     *)
BitmapSizeFloor(total)  == ((total \div PageSize) % Word) \div 8

(* The number of pages has 64 bits; div_ceil() takes and adds 32 of them.  *)
BitmapSize(total)       == ((((total \div PageSize) % Word) + 8 - 1) % Word) \div 8
BitmapPages(total)      == DivCeil(BitmapSize(total), PageSize)
CombinedPages(total)    == KernelPages + BitmapPages(total)

(* Lines 91-118: the bitmap follows the kernel if the kernel's area has    *)
(* room for both, with every bit set; if not, there is no memory to manage. *)
SetUp ==
  /\ step = <<"scan", Len(mmap) + 1>>
  /\ IF kernel_entry # 0
        /\ mmap[kernel_entry].length \div PageSize >= CombinedPages(total_size)
     THEN /\ early_pmm' = [NoMemory EXCEPT !.bitmap = KernelStart + KernelPages * PageSize,
                                           !.size = BitmapSize(total_size)]
          /\ step' = <<"clear", 1>>
     ELSE step' = <<"done", 0>> /\ UNCHANGED early_pmm
  /\ UNCHANGED <<given, mmap, kernel_entry, total_size>>

NumPages(e)       == (e.length \div PageSize) % Word

(* Mutant: the address is not cut to a word.                               *)
PageAddressUncut(e, i) == e.addr + i * PageSize

PageAddress(e, i) == (e.addr + i * PageSize) % Word

IsKernelOrBitmap(address) ==
  KernelStart <= address /\ address < KernelStart + PageSize * CombinedPages(total_size)

(* Mutant: the last page of an area is forgotten.                          *)
ClearedButLast(e) ==
  {i \in 0 .. NumPages(e) - 2 : ~ IsKernelOrBitmap(PageAddress(e, i))
                               /\ PageAddress(e, i) >= KernelStart}

(* The pages of an area whose bits the loop clears: not the kernel's, not  *)
(* the bitmap's, not below MB.                                             *)
Cleared(e) ==
  {i \in 0 .. NumPages(e) - 1 : ~ IsKernelOrBitmap(PageAddress(e, i))
                               /\ PageAddress(e, i) >= KernelStart}

(* Mutant: the hint is the first page of the area, cleared or not.         *)
AfterClearHintUntested(pmm, e) ==
  [pmm EXCEPT !.clear = @ \union {PageAddress(e, i) \div PageSize : i \in Cleared(e)},
              !.free_pages = @ + Cardinality(Cleared(e)),
              !.next = IF pmm.free_pages = 0 THEN PageAddress(e, 0) \div PageSize ELSE @]

(* The first page cleared is the first get_page() hands out.               *)
AfterClear(pmm, e) ==
  [pmm EXCEPT !.clear = @ \union {PageAddress(e, i) \div PageSize : i \in Cleared(e)},
              !.free_pages = @ + Cardinality(Cleared(e)),
              !.next = IF pmm.free_pages = 0 /\ Cleared(e) # {}
                       THEN PageAddress(e, Min(Cleared(e))) \div PageSize ELSE @]

(* Lines 120-148, one entry of the map.                                    *)
Clear(i) ==
  /\ step = <<"clear", i>>
  /\ early_pmm' = IF mmap[i].available THEN AfterClear(early_pmm, mmap[i]) ELSE early_pmm
  /\ step' = IF i = Len(mmap) THEN <<"done", 0>> ELSE <<"clear", i + 1>>
  /\ UNCHANGED <<given, mmap, kernel_entry, total_size>>

(* It returns to boot.S: a deadlock before this would be a lost start-up.  *)
Return == step = <<"done", 0>> /\ UNCHANGED vars

InitFrameAllocator == SetUp \/ \E i \in DOMAIN mmap : Scan(i) \/ Clear(i)

Next == InitFrameAllocator \/ Return

Spec == Init /\ [][Next]_vars

-----------------------------------------------------------------------------
Done == step = <<"done", 0>>

(* The addresses of a page and the bytes of an area.                       *)
PageBytes(frame) == PageSize * frame .. PageSize * frame + PageSize - 1
AreaBytes(e)     == e.addr .. e.addr + e.length - 1
AvailableAreas   == {given[i] : i \in {j \in DOMAIN given : given[j].available}}
ReservedAreas    == {given[i] : i \in {j \in DOMAIN given : ~ given[j].available}}

TypeOK ==
  /\ step \in ({"scan"} \X (1 .. Len(mmap) + 1)) \union ({"clear"} \X DOMAIN mmap)
              \union {<<"done", 0>>}
  /\ \A i \in DOMAIN mmap : mmap[i] \in Areas
  /\ kernel_entry \in 0 .. Len(mmap) /\ total_size \in Nat
  /\ early_pmm.clear \subseteq 0 .. Word \div PageSize - 1

(* Every page that is marked as free lies in one available area, touches   *)
(* no reserved one and belongs neither to the kernel nor to the bitmap.    *)
FreePagesAreUsable ==
  \A f \in early_pmm.clear :
    /\ \E e \in AvailableAreas : PageBytes(f) \subseteq AreaBytes(e)
    /\ \A e \in ReservedAreas : PageBytes(f) \intersect AreaBytes(e) = {}
    /\ \A b \in PageBytes(f) : ~ (KernelStart <= b /\ b < early_pmm.bitmap + early_pmm.size)

(* No bit is cleared behind the bitmap, whichever area the size was taken  *)
(* from, and the bitmap lies in available memory.                          *)
BitmapHoldsAllPages ==
  early_pmm.size > 0 =>
    /\ \A f \in early_pmm.clear : f < 8 * early_pmm.size
    /\ \E e \in AvailableAreas :
         early_pmm.bitmap .. early_pmm.bitmap + early_pmm.size - 1 \subseteq AreaBytes(e)

(* No memory is lost that an area beginning with a page offers in front of *)
(* its first reserved part: each such page above the bitmap is free, if a  *)
(* pointer can name it.                                                    *)
UsablePagesAreFree ==
  Done /\ early_pmm.size > 0 =>
    \A e \in AvailableAreas : e.addr % PageSize = 0 /\ e.addr + e.length <= Word =>
      \A f \in e.addr \div PageSize .. (e.addr + e.length) \div PageSize - 1 :
        \/ f \in early_pmm.clear
        \/ PageSize * f < KernelStart + PageSize * CombinedPages(total_size)
        \/ \E r \in ReservedAreas : e.addr < r.addr /\ r.addr < PageSize * (f + 1)

(* What late_pmm_init() relies on: if any page is free, the hint names one, *)
(* since get_page() returns it without looking, and free_pages counts      *)
(* them.                                                                   *)
HandsOverFreeHint ==
  /\ early_pmm.clear # {} => early_pmm.next \in early_pmm.clear
  /\ early_pmm.free_pages = Cardinality(early_pmm.clear)

-----------------------------------------------------------------------------
(* The memory maps init_frame_allocator() is right for.  What begins in an *)
(* available area is trimmed off, but nothing may reach into it from       *)
(* before; what is left of it starts with a page, or it ends with one and  *)
(* is no shorter.  What a pointer cannot name lies so that, cut to a word, *)
(* it names pages below the kernel.  Available areas are listed upwards,   *)
(* and the last entry that could be the kernel's begins with it.           *)
NothingReachesInto(m, e) ==
  \A j \in DOMAIN m : ~ m[j].available =>
    e.addr < m[j].addr \/ m[j].addr + m[j].length <= e.addr

HasWholePages(e) ==
  \/ e.addr % PageSize = 0
  \/ (e.addr + e.length) % PageSize = 0 /\ e.length >= PageSize

IsUsual(m) ==
  \A i \in DOMAIN m :
    /\ m[i].available =>
         /\ NothingReachesInto(m, m[i])
         /\ HasWholePages(UpToReserved(m, m[i]))
         /\ m[i].addr + m[i].length <= Word + KernelStart
         /\ \A j \in DOMAIN m : j < i /\ m[j].available => m[j].addr + m[j].length <= m[i].addr
    /\ HoldsKernel(m[i]) =>
         \/ m[i].available /\ m[i].addr = KernelStart
         \/ \E j \in DOMAIN m : i < j /\ HoldsKernel(m[j])
=============================================================================
