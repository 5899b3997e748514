----------------------------- MODULE HeapAreas ------------------------------
(***************************************************************************)
(* The kernel heap of mem.c as a data structure: the struct heap_area      *)
(* headers between heap_start and heap_end and what kmalloc(),             *)
(* kpagealloc() and kfree() do to them.  A heap is a record                *)
(*   head   : the headers in memory, by address; memory a caller has       *)
(*            written to holds none                                        *)
(*   mapped : the pages of the heap that have a page table entry           *)
(* and the operators return the heap after the call.  Addresses and sizes  *)
(* are in bytes, in words of Modulus values; all addresses are multiples   *)
(* of 8, so the flag bits of `next' are separate fields.                   *)
(*                                                                         *)
(* Dereferencing an address that holds no header (NULL, an unmapped page   *)
(* or a caller's data) is undefined: the operators named ...Derefs say     *)
(* which addresses a call uses as a header.                                *)
(***************************************************************************)
EXTENDS Integers

CONSTANTS
  PageSize,    (* PAGE_SIZE                                                *)
  HeapStart,   (* heap_start                                               *)
  HeapTop,     (* the first address after the heap                         *)
  Modulus      (* the number of values of a size_t                         *)

ASSUME PageSizeAssumption  == PageSize \in Nat /\ PageSize > 16 /\ PageSize % 8 = 0
ASSUME HeapRangeAssumption ==
  /\ HeapStart \in Nat \ {0} /\ HeapStart % PageSize = 0
  /\ HeapTop \in Nat /\ HeapTop % PageSize = 0 /\ HeapStart < HeapTop
ASSUME ModulusAssumption == Modulus \in Nat /\ Modulus % 8 = 0 /\ HeapTop < Modulus

NULL     == 0
HeadSize == 8                      \* sizeof(struct heap_area)
HeapEnd  == HeapTop - HeadSize     \* heap_end

PageOf(address) == address - (address % PageSize)
Pages == {PageSize * i : i \in HeapStart \div PageSize .. (HeapTop - 1) \div PageSize}

(* Mutant: the loops end before the last page (p < end_page).              *)
PagesUpTo(first, last) == {p \in Pages : PageOf(first) <= p /\ p < PageOf(last)}

(* The pages the loops of kmalloc() and kpagealloc() map where no page is  *)
(* present yet.                                                            *)
PagesThrough(first, last) == {p \in Pages : PageOf(first) <= p /\ p <= last}

-----------------------------------------------------------------------------
(* set_next_address() and set_prev_address(), set_area_used() (flags keep  *)
(* their value), and a header written by a caller of them from scratch.    *)
SetNext(head, a, next) == [head EXCEPT ![a].next = next]
SetPrev(head, a, prev) == [head EXCEPT ![a].prev = prev]
SetUsed(head, a, used) == [head EXCEPT ![a].used = used]

Header(next, prev) == [next |-> next, prev |-> prev, used |-> FALSE, epsilon |-> FALSE]

WithHead(head, a, header) ==
  [x \in DOMAIN head \union {a} |-> IF x = a THEN header ELSE head[x]]

(* get_area_size() *)
AreaSize(head, a) ==
  IF head[a].epsilon \/ head[a].next = NULL THEN 0 ELSE head[a].next - a - HeadSize

(* A caller writes the n bytes at address p: what was a header there is    *)
(* one no more.                                                            *)
Overwritten(head, p, n) ==
  [a \in {x \in DOMAIN head : x + HeadSize <= p \/ p + n <= x} |-> head[a]]

(* init_heap(): one free area between heap_start and heap_end, the page of *)
(* each mapped.                                                            *)
InitialHeap ==
  [head   |-> [a \in {HeapStart, HeapEnd} |->
                 IF a = HeapStart THEN Header(HeapEnd, NULL)
                 ELSE [Header(NULL, HeapStart) EXCEPT !.epsilon = TRUE]],
   mapped |-> {PageOf(HeapStart), PageOf(HeapEnd)}]

-----------------------------------------------------------------------------
(* The loop over the areas, from heap_start to the epsilon area: the areas *)
(* it visits.  `next' pointers ascend, so an area is visited when an area  *)
(* below it is and points to it.                                           *)
Visited(head) ==
  LET visited[a \in DOMAIN head] ==
        \/ a = HeapStart
        \/ \E b \in DOMAIN head : b < a /\ ~ head[b].epsilon /\ head[b].next = a /\ visited[b]
  IN  {a \in DOMAIN head : visited[a]}

WalkDerefs(head) == {head[a].next : a \in {b \in Visited(head) : ~ head[b].epsilon}}

(* The smallest of the areas `fitting', the first one among equals: the    *)
(* loops replace best_fit only by a strictly smaller area.                 *)
BestFit(head, fitting) ==
  CHOOSE a \in fitting : \A b \in fitting :
    \/ AreaSize(head, a) < AreaSize(head, b)
    \/ AreaSize(head, a) = AreaSize(head, b) /\ a <= b

FreeAreas(head) == {a \in Visited(head) : ~ head[a].epsilon /\ ~ head[a].used}

DivCeil(n, d) == ((n + d - 1) % Modulus) \div d       \* div_ceil() of util.h

(* Mutants: no rounding to eight bytes; no space for the header.           *)
PaddedSizeUnrounded(size) == (size + HeadSize) % Modulus
PaddedSizeNoHeader(size)  == 8 * DivCeil(size, 8)

(* The size kmalloc() looks for: the request and a header, rounded up to   *)
(* eight bytes, in size_t arithmetic.                                      *)
PaddedSize(size) == 8 * DivCeil((size + HeadSize) % Modulus, 8)

KmallocFits(head, size) ==
  {a \in FreeAreas(head) : AreaSize(head, a) > PaddedSize(size)}

(* Mutants: the new area is not linked to the one after it; the used bit   *)
(* of the block is not set.                                                *)
AfterKmallocUnlinked(heap, size) ==
  LET fit == BestFit(heap.head, KmallocFits(heap.head, size))
      new == fit + PaddedSize(size)
  IN  [head   |-> SetUsed(SetNext(WithHead(heap.head, new, Header(NULL, fit)), fit, new), fit, TRUE),
       mapped |-> heap.mapped \union PagesThrough(fit, new),
       ptr    |-> fit + HeadSize]

AfterKmallocUnmarked(heap, size) ==
  LET fit == BestFit(heap.head, KmallocFits(heap.head, size))
      new == fit + PaddedSize(size)
  IN  [head   |-> SetNext(WithHead(heap.head, new, Header(heap.head[fit].next, fit)), fit, new),
       mapped |-> heap.mapped \union PagesThrough(fit, new),
       ptr    |-> fit + HeadSize]

(* kmalloc(): the best fitting area, of which the rest becomes an area of  *)
(* its own when it is larger than two headers.  The `prev' pointer of the  *)
(* area after the new one keeps its value.                                 *)
AfterKmalloc(heap, size) ==
  LET fit   == BestFit(heap.head, KmallocFits(heap.head, size))
      new   == fit + PaddedSize(size)
      split == AreaSize(heap.head, fit) - PaddedSize(size) > 2 * HeadSize
      head  == IF split
               THEN SetNext(WithHead(heap.head, new, Header(heap.head[fit].next, fit)), fit, new)
               ELSE heap.head
  IN  [head   |-> SetUsed(head, fit, TRUE),
       mapped |-> IF split THEN heap.mapped \union PagesThrough(fit, new) ELSE heap.mapped,
       ptr    |-> fit + HeadSize]

(* Mutant: the page after the area is not rounded down to a page.          *)
NextPageUnmasked(a) == a + PageSize

(* kpagealloc(): what an area has to hold for `size' bytes from the next   *)
(* page on, with the header right before that page and the one after the   *)
(* block; one header more when the area does not already begin there.      *)
NextPage(a)         == PageOf(a) + PageSize
StartsAtPage(a)     == NextPage(a) - HeadSize = a
FullSize(a, size)   == (size + (NextPage(a) - a) + HeadSize) % Modulus
NeededSize(a, size) == FullSize(a, size) + (IF StartsAtPage(a) THEN 0 ELSE HeadSize)

KpageallocFits(head, size) ==
  {a \in FreeAreas(head) :
     AreaSize(head, a) > size /\ AreaSize(head, a) > NeededSize(a, size)}

AfterKpagealloc(heap, size) ==
  LET fit   == BestFit(heap.head, KpageallocFits(heap.head, size))
      ret   == NextPage(fit) - HeadSize
      after == heap.head[fit].next
      head1 == IF StartsAtPage(fit) THEN heap.head
               ELSE SetNext(SetPrev(WithHead(heap.head, ret, Header(after, fit)), after, ret), fit, ret)
      new   == ret + size + HeadSize
      split == AreaSize(heap.head, fit) - FullSize(fit, size) > 2 * HeadSize
      head2 == IF split THEN SetNext(WithHead(head1, new, Header(after, ret)), ret, new)
                        ELSE head1
  IN  [head   |-> SetUsed(head2, ret, TRUE),
       mapped |-> IF split THEN heap.mapped \union PagesThrough(NextPage(fit), new)
                           ELSE heap.mapped,
       ptr    |-> ret + HeadSize]

-----------------------------------------------------------------------------
(* merge_free_areas() *)
TowardsRoot(head, a) == head[a].prev # NULL /\ ~ head[head[a].prev].used
TowardsTail(head, a) == head[a].next # NULL /\ ~ head[head[a].next].used

(* Mutant: areas merge only with the one after them.                       *)
MergedTailOnly(head, a) ==
  IF TowardsTail(head, a)
  THEN SetPrev(SetNext(head, a, head[head[a].next].next), head[a].next, a)
  ELSE head

Merged(head, a) ==
  LET prev == head[a].prev
      next == head[a].next
  IN  IF TowardsRoot(head, a) /\ TowardsTail(head, a)
      THEN SetPrev(SetNext(head, prev, head[next].next), head[next].next, prev)
      ELSE IF TowardsTail(head, a) THEN SetPrev(SetNext(head, a, head[next].next), next, a)
      ELSE IF TowardsRoot(head, a) THEN SetNext(SetPrev(head, next, prev), prev, next)
      ELSE head

MergeDerefs(head, a) ==
  LET neighbours == {head[a].prev, head[a].next} \ {NULL}
  IN  IF ~ neighbours \subseteq DOMAIN head \/ ~ TowardsRoot(head, a) THEN neighbours
      ELSE {head[a].prev, head[a].next}
             \union (IF TowardsTail(head, a) THEN {head[head[a].next].next} ELSE {})

(* Mutants: the used bit stays set; the free area is not merged.           *)
AfterKfreeStillUsed(head, a) == IF head[a].used THEN Merged(head, a) ELSE head
AfterKfreeUnmerged(head, a)  == SetUsed(head, a, FALSE)

(* kfree() of the area with header a *)
AfterKfree(head, a) == IF head[a].used THEN Merged(SetUsed(head, a, FALSE), a) ELSE head

KfreeDerefs(head, a) ==
  IF a \in DOMAIN head /\ head[a].used THEN {a} \union MergeDerefs(SetUsed(head, a, FALSE), a)
  ELSE {a}
=============================================================================
