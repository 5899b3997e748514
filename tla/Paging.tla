------------------------------- MODULE Paging -------------------------------
(***************************************************************************)
(* Virtual memory of mem.c in use: one page directory whose last entry     *)
(* maps itself, page tables allocated by map_page() when it first needs    *)
(* them, the frames get_page() supplies, and the processor's TLB, which    *)
(* boot.S lets keep global entries across a reload of CR3 (bit 7 of CR4).  *)
(*                                                                         *)
(* Callers do what the callers in mem.c and kernel.c do: they map a fresh  *)
(* frame where nothing is mapped (kmalloc, kpagealloc) and device memory   *)
(* (the VGA buffer).  Nothing in the kernel unmaps a page yet; here a      *)
(* caller does it with the two calls there are for it, unmap_page() and    *)
(* free_page().                                                            *)
(***************************************************************************)
EXTENDS PageTables, FiniteSets

CONSTANTS
  PdIndices,    (* the page directory entries in use                       *)
  Device,       (* the frame of the device memory                          *)
  LastFrame,    (* frame 0xFFFFF, the frame of an entry whose bits are all 1 *)
  TlbSize       (* bound: the translations the processor keeps at a time   *)

ASSUME DeviceAssumption == Device \in Frames \ Available
ASSUME LastFrameAssumption == LastFrame \in Int \ (Frames \union Beyond)

VARIABLES
  vm,    (* the memory manager, the page directory and the page tables     *)
  tlb    (* the translations the processor has cached, by page             *)

vars == <<vm, tlb>>

Pages   == PdIndices \X PtIndices
Memory  == Frames \union Beyond
Entries == [present : BOOLEAN, frame : Memory \union {LastFrame}, writable : BOOLEAN,
            global : BOOLEAN]

(* The tables when the kernel starts: nothing mapped in these parts of the *)
(* address space, and frames full of what was in memory before.            *)
Init ==
  /\ vm \in [pmm : HandedOver,
             pd : {[d \in PdIndices |-> Absent]},
             table : {[f \in Memory |-> [t \in PtIndices |-> Mapping(LastFrame, TRUE, TRUE)]]}]
  /\ tlb = << >>

-----------------------------------------------------------------------------
(* flush_full_tlb(): reloading CR3 drops all but the global entries.       *)
Flushed(cached) ==
  LET global == {page \in DOMAIN cached : cached[page].global}
  IN  [page \in global |-> cached[page]]

-----------------------------------------------------------------------------
(* kmalloc(), kpagealloc(): if(get_physaddr(p) == NULL)                    *)
(* map_page(get_page(), p, flags).                                         *)
MapFresh(page, global) ==
  /\ ~ IsMapped(vm, page)
  /\ vm' = AfterMapFresh(vm, page, global)
  /\ tlb' = Flushed(tlb)

(* kernel_main(): map_page(0xB8000, 0xC03FE000, 0x103).                    *)
MapDevice(page) ==
  /\ vm' = AfterMapPage(vm, page, Mapping(Device, TRUE, TRUE))
  /\ tlb' = IF vm' = vm THEN tlb ELSE Flushed(tlb)

(* unmap_page() of a page some caller mapped: the entry becomes ~0.  The   *)
(* frame behind it goes back with free_page(), unless it is the device's.  *)
Unmapped(v, page) ==
  [v EXCEPT !.table[v.pd[page[1]].frame][page[2]] = Mapping(LastFrame, TRUE, TRUE),
            !.pmm = IF EntryOf(v, page).frame = Device THEN @
                    ELSE AfterFreePage(@, EntryOf(v, page).frame)]

IsUnmapped(v, page) == EntryOf(v, page).frame = LastFrame

(* Mutant: no flush after the entry is changed.                            *)
UnmapPageUnflushed(page) ==
  /\ IsMapped(vm, page) /\ ~ IsUnmapped(vm, page)
  /\ vm' = Unmapped(vm, page)
  /\ UNCHANGED tlb

UnmapPage(page) ==
  /\ IsMapped(vm, page) /\ ~ IsUnmapped(vm, page)
  /\ vm' = Unmapped(vm, page)
  /\ tlb' = Flushed(tlb)

(* The processor uses a page and caches its translation.                   *)
Access(page) ==
  /\ IsMapped(vm, page) /\ page \notin DOMAIN tlb /\ Cardinality(DOMAIN tlb) < TlbSize
  /\ tlb' = [p \in DOMAIN tlb \union {page} |->
               IF p = page THEN EntryOf(vm, page) ELSE tlb[p]]
  /\ UNCHANGED vm

Next ==
  \/ \E page \in Pages, global \in BOOLEAN : MapFresh(page, global)
  \/ \E page \in Pages : MapDevice(page) \/ UnmapPage(page) \/ Access(page)

Spec == Init /\ [][Next]_vars

-----------------------------------------------------------------------------
TypeOK ==
  /\ vm \in [pmm : ManagedMemory, pd : [PdIndices -> Entries],
             table : [Memory -> [PtIndices -> Entries]]]
  /\ DOMAIN tlb \subseteq Pages /\ \A page \in DOMAIN tlb : tlb[page] \in Entries

(* What frames are used for: as the table of a directory entry or behind a *)
(* page; and the time before get_page() has run out of frames and handed   *)
(* out what is beyond the bitmap.                                          *)
TablesInUse == {d \in PdIndices : vm.pd[d].present}
MappedPages == {page \in Pages : IsMapped(vm, page) /\ ~ IsUnmapped(vm, page)}
FrameBehind(page) == EntryOf(vm, page).frame

FramesInUse == {vm.pd[d].frame : d \in TablesInUse} \union {FrameBehind(p) : p \in MappedPages}

NotExhausted == FramesInUse \intersect Beyond = {}

(* No frame has two uses: two tables, a table and a page, or two pages     *)
(* never share one, whatever order tables and pages are created in.  A     *)
(* page that maps a page table would let its user rewrite the mappings.    *)
FramesHaveOneUse ==
  NotExhausted =>
    /\ \A d, e \in TablesInUse : vm.pd[d].frame = vm.pd[e].frame => d = e
    /\ \A d \in TablesInUse, p \in MappedPages : vm.pd[d].frame # FrameBehind(p)
    /\ \A p, q \in MappedPages :
         FrameBehind(p) = FrameBehind(q) /\ FrameBehind(p) # Device => p = q

(* No frame is lost: the frames marked in the bitmap since boot are those  *)
(* some table or page uses.                                                *)
NoFrameIsLost ==
  NotExhausted =>
    {f \in Available : GetPageState(vm.pmm, f)} = FramesInUse \ {Device}

(* A page keeps its frame once it is mapped: no call for another page, and *)
(* no map_page() of the same one, changes or removes the mapping.          *)
MappingsAreStable ==
  [][NotExhausted /\ NotExhausted' =>
       \A page \in MappedPages :
         EntryOf(vm', page) = EntryOf(vm, page) \/ UnmapPage(page)]_vars

(* flush_full_tlb() leaves nothing stale of the pages that are not global. *)
LocalTlbAgreesWithTables ==
  NotExhausted =>
    \A page \in DOMAIN tlb : tlb[page].global \/ tlb[page] = EntryOf(vm, page)

(* flush_full_tlb() leaves nothing stale: every cached translation is the  *)
(* one in the page tables.                                                 *)
TlbAgreesWithTables ==
  NotExhausted => \A page \in DOMAIN tlb : tlb[page] = EntryOf(vm, page)
=============================================================================
