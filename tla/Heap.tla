-------------------------------- MODULE Heap --------------------------------
(***************************************************************************)
(* The kernel heap of mem.c in use: one action per call.  A caller frees   *)
(* or resizes only blocks it owns, asks for at least one byte and writes   *)
(* all of every block it is given.  The calls are atomic: kernel_main()    *)
(* makes them and no interrupt handler does.                               *)
(*                                                                         *)
(* owned is a history variable.  wild becomes TRUE when a call uses as a   *)
(* header an address that holds none; what the kernel does from then on is *)
(* undefined, and the model stops.                                         *)
(*                                                                         *)
(* Physical memory does not run out here: module FrameAllocator shows what *)
(* get_page() answers when it does.                                        *)
(***************************************************************************)
EXTENDS HeapAreas, FiniteSets

CONSTANTS
  Sizes,        (* the sizes callers ask kmalloc() and krealloc() for      *)
  Arrays,       (* the <<nmemb, size>> callers ask kcalloc() for           *)
  PageCounts,   (* the page counts callers ask kpagealloc() for            *)
  Resizes,      (* do callers use krealloc()?                              *)
  MaxBlocks     (* bound: the number of blocks owned at a time             *)

ASSUME RequestsAssumption ==
  /\ Sizes \subseteq Nat \ {0}
  /\ Arrays \subseteq (Nat \ {0}) \X (Nat \ {0})
  /\ PageCounts \subseteq Nat \ {0}
  /\ Resizes \in BOOLEAN

VARIABLES
  heap,    (* the headers and the page mappings of the heap                *)
  owned,   (* the blocks callers own: the sizes they asked for, by address *)
  wild     (* was memory that holds no header used as one?                 *)

vars == <<heap, owned, wild>>

Init ==
  /\ heap = InitialHeap
  /\ owned = << >>
  /\ wild = FALSE

-----------------------------------------------------------------------------
With(blocks, p, n) == [q \in DOMAIN blocks \union {p} |-> IF q = p THEN n ELSE blocks[q]]
Without(blocks, p) == [q \in DOMAIN blocks \ {p} |-> blocks[q]]

GoesWild == wild' = TRUE /\ UNCHANGED <<heap, owned>>

WalkIsSound == WalkDerefs(heap.head) \subseteq DOMAIN heap.head

(* An allocation: the walk over the areas finds no area large enough and   *)
(* the call returns NULL, or the caller gets `result.ptr' and writes it.   *)
Allocates(fits, result, size) ==
  \/ ~ WalkIsSound /\ GoesWild
  \/ WalkIsSound /\ fits = {} /\ UNCHANGED vars
  \/ /\ WalkIsSound /\ fits # {}
     /\ \E after \in {result} :
          /\ heap' = [head   |-> Overwritten(after.head, after.ptr, size),
                      mapped |-> after.mapped]
          /\ owned' = With(owned, after.ptr, size)
     /\ UNCHANGED wild

MayAllocate == ~ wild /\ Cardinality(DOMAIN owned) < MaxBlocks

Kmalloc(size) ==
  /\ MayAllocate
  /\ Allocates(KmallocFits(heap.head, size), AfterKmalloc(heap, size), size)

(* kcalloc(): nothing when the product overflows; the memset() is part of  *)
(* the caller's writing.                                                   *)
Total(nmemb, size) == (nmemb * size) % Modulus

Kcalloc(nmemb, size) ==
  /\ MayAllocate
  /\ size = Total(nmemb, size) \div nmemb
  /\ Allocates(KmallocFits(heap.head, Total(nmemb, size)),
               AfterKmalloc(heap, Total(nmemb, size)), nmemb * size)

Kpagealloc(n) ==
  LET size == (n * PageSize) % Modulus
  IN  /\ MayAllocate
      /\ Allocates(KpageallocFits(heap.head, size), AfterKpagealloc(heap, size), n * PageSize)

Kfree(p) ==
  LET a     == p - HeadSize
      sound == KfreeDerefs(heap.head, a) \subseteq DOMAIN heap.head
  IN  /\ ~ wild
      /\ \/ ~ sound /\ GoesWild
         \/ /\ sound
            /\ heap' = [heap EXCEPT !.head = AfterKfree(heap.head, a)]
            /\ owned' = Without(owned, p)
            /\ UNCHANGED wild

(* krealloc(): the area is large enough and the caller keeps its block ... *)
Keeps(p, size) ==
  /\ AreaSize(heap.head, p - HeadSize) >= size
  /\ heap' = [heap EXCEPT !.head = Overwritten(heap.head, p, size)]
  /\ owned' = With(owned, p, size)
  /\ UNCHANGED wild

(* ... or a new block receives the bytes of the old area and kfree()      *)
(* takes the old one back; without room for it the old block stays.        *)
Moves(p, size) ==
  LET a      == p - HeadSize
      fits   == KmallocFits(heap.head, size)
      fresh  == AfterKmalloc(heap, size)
      copied == Overwritten(fresh.head, fresh.ptr, AreaSize(heap.head, a))
      sound  == KfreeDerefs(copied, a) \subseteq DOMAIN copied
  IN  /\ AreaSize(heap.head, a) < size
      /\ \/ ~ WalkIsSound /\ GoesWild
         \/ WalkIsSound /\ fits = {} /\ UNCHANGED vars
         \/ WalkIsSound /\ fits # {} /\ ~ sound /\ GoesWild
         \/ /\ WalkIsSound /\ fits # {} /\ sound
            /\ heap' = [head   |-> Overwritten(AfterKfree(copied, a), fresh.ptr, size),
                        mapped |-> fresh.mapped]
            /\ owned' = With(Without(owned, p), fresh.ptr, size)
            /\ UNCHANGED wild

Krealloc(p, size) ==
  /\ ~ wild /\ Resizes
  /\ \/ p - HeadSize \notin DOMAIN heap.head /\ GoesWild
     \/ p - HeadSize \in DOMAIN heap.head /\ (Keeps(p, size) \/ Moves(p, size))

Next ==
  \/ \E size \in Sizes : Kmalloc(size)
  \/ \E array \in Arrays : Kcalloc(array[1], array[2])
  \/ \E n \in PageCounts : Kpagealloc(n)
  \/ \E p \in DOMAIN owned : Kfree(p)
  \/ \E p \in DOMAIN owned, size \in Sizes : Krealloc(p, size)

Spec == Init /\ [][Next]_vars

-----------------------------------------------------------------------------
(* Headers, blocks and page mappings lie in the heap, at multiples of 8.   *)
TypeOK ==
  /\ heap.mapped \subseteq Pages
  /\ \A a \in DOMAIN heap.head : a % 8 = 0 /\ HeapStart <= a /\ a <= HeapEnd
  /\ \A p \in DOMAIN owned : p % 8 = 0 /\ owned[p] \in Nat \ {0}
  /\ wild \in BOOLEAN

(* No call takes NULL, unmapped memory or a caller's data for the header   *)
(* of an area, wherever the next and prev pointers lead it.                *)
HeadsAreHeads == ~ wild

(* The used bit tells which areas callers own: every block is exactly one  *)
(* used area of the list, and every used area belongs to a caller.         *)
UsedAreasAreOwned ==
  {a + HeadSize : a \in {b \in Visited(heap.head) : heap.head[b].used}} = DOMAIN owned

(* A block is as long as its caller asked for: the bytes up to the next    *)
(* header belong to nobody else.                                           *)
BlockHoldsRequest ==
  \A p \in DOMAIN owned :
    /\ p - HeadSize \in DOMAIN heap.head
    /\ owned[p] <= AreaSize(heap.head, p - HeadSize)

(* A caller can write all of its block: each of its pages is mapped.       *)
BlocksAreMapped ==
  \A p \in DOMAIN owned, page \in Pages :
    PageOf(p) <= page /\ page < p + owned[p] => page \in heap.mapped

(* The walk over the areas never faults on a page that is not present:     *)
(* every header it visits lies in a mapped page, although pages are mapped *)
(* only when an area is split.                                             *)
VisitedHeadsAreMapped ==
  ~ wild => \A a \in Visited(heap.head) : PageOf(a) \in heap.mapped

(* Once everything is given back, the heap is one free area again: no      *)
(* sequence of calls leaves the memory in pieces.                          *)
NothingOwnedIsOneArea ==
  DOMAIN owned = {} => Visited(heap.head) = {HeapStart, HeapEnd}

(* kpagealloc() returns whole pages: the block begins a page.              *)
PageBlocksAreAligned ==
  [][\A n \in PageCounts : Kpagealloc(n) =>
       \A p \in DOMAIN owned' \ DOMAIN owned : p % PageSize = 0]_vars

(* The calls implement the promise of module BlockStore: disjoint blocks   *)
(* of the heap's memory, each as long as was asked for.                    *)
Store == INSTANCE BlockStore WITH
           Low <- HeapStart, High <- HeapEnd,
           Sizes <- Sizes \union {array[1] * array[2] : array \in Arrays}
                          \union {n * PageSize : n \in PageCounts}

ImplementsBlockStore == Store!StoreSpec
=============================================================================
