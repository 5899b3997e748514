----------------------------- MODULE MappedHeap -----------------------------
(***************************************************************************)
(* The heap's self test on the page tables and the frames below it: what   *)
(* init_heap(), kmalloc() and kpagealloc() do to heap.mapped is done here  *)
(* to the tables, with a frame of get_page() for every page and for every  *)
(* table (mem.c, module PageTables).                                       *)
(***************************************************************************)
EXTENDS HeapSelfTest, PageTables

CONSTANT TableEntries   \* the entries of a page table

ASSUME TableAssumption == TableEntries \in Nat \ {0} /\ PtIndices = 0 .. TableEntries - 1

VARIABLE vm       (* the memory manager, the page directory and the tables *)

(* pdindex and ptindex of a page's address.                                *)
Indices(page) == <<(page \div PageSize) \div TableEntries, (page \div PageSize) % TableEntries>>

HeapPds == {Indices(page)[1] : page \in Pages}

(* No table of the heap's part of the address space exists yet, and frames *)
(* are full of what was in memory before.                                  *)
Unmapped ==
  [pmm   : HandedOver,
   pd    : {[d \in HeapPds |-> Absent]},
   table : {[f \in Frames \union Beyond |-> [t \in PtIndices |-> Mapping(0, TRUE, TRUE)]]}]

MappedInit == TestInit /\ vm \in Unmapped

(* Mutant: get_physaddr() is not asked, only pages of new tables are mapped. *)
NotPresentTables(pages) == {page \in pages : ~ vm.pd[Indices(page)[1]].present}

(* The pages for which get_physaddr() returns NULL.                        *)
NotPresent(pages) == {page \in pages : ~ IsMapped(vm, Indices(page))}

(* The loops of init_heap(), kpagealloc() and kmalloc(): map_page() of a   *)
(* fresh frame for one page after the other, the lowest first.  The pages  *)
(* of the first two, whose calls come first, are not global.               *)
MapNextPage ==
  /\ \E page \in NotPresent(heap.mapped) :
       /\ \A other \in NotPresent(heap.mapped) : page <= other
       /\ vm' = AfterMapFresh(vm, Indices(page), step > 2)
  /\ UNCHANGED testVars

(* Every call of the test has its pages mapped before the next one.  The   *)
(* frames are not given back, since kfree() unmaps nothing.                *)
MappedStep ==
  \/ NotPresent(heap.mapped) = {} /\ TestStep /\ UNCHANGED vm
  \/ MapNextPage

-----------------------------------------------------------------------------
PresentPages   == {page \in Pages : IsMapped(vm, Indices(page))}
FrameOf(page)  == EntryOf(vm, Indices(page)).frame
PresentTables  == {d \in HeapPds : vm.pd[d].present}
PageFrames     == {FrameOf(page) : page \in PresentPages}
TableFrames    == {vm.pd[d].frame : d \in PresentTables}

(* The pages the heap counts on have page table entries when a call is     *)
(* over, and no others have, whatever was in the frames that became page   *)
(* tables.  Each has a frame of its own, each table another one, all of    *)
(* them were free memory and are marked as used, and no other frame is: so *)
(* two blocks never share memory and no call loses a frame, as long as     *)
(* get_page() has not run out of frames and returned one that is not in    *)
(* the bitmap.                                                             *)
HeapPagesAreBacked ==
  PageFrames \union TableFrames \subseteq Frames =>
    /\ PresentPages \subseteq heap.mapped
    /\ NotPresent(heap.mapped) = {} => PresentPages = heap.mapped
    /\ \A p, q \in PresentPages : FrameOf(p) = FrameOf(q) => p = q
    /\ \A d, e \in PresentTables : vm.pd[d].frame = vm.pd[e].frame => d = e
    /\ PageFrames \intersect TableFrames = {}
    /\ PageFrames \union TableFrames = {f \in Available : GetPageState(vm.pmm, f)}
=============================================================================
