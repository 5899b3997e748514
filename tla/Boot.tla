-------------------------------- MODULE Boot --------------------------------
(***************************************************************************)
(* Start-up, from init_frame_allocator() to init_heap(): the page tables   *)
(* boot.S builds before it turns paging on, the jump to the high half,     *)
(* late_pmm_init(), which makes the bitmap of module EarlyPmm reachable    *)
(* again, and every map_page() and get_page() of kernel_main() before its  *)
(* self test.  The terminal, the interrupts and the segments are module    *)
(* Console's.                                                              *)
(*                                                                         *)
(* A page the kernel uses and that is not mapped, or not for writing (CR0  *)
(* bit 16 is set), ends the start-up with a page fault.                    *)
(***************************************************************************)
EXTENDS EarlyPmm

CONSTANTS
  TableEntries,   (* the entries of a page table: 1024                     *)
  NoWriteEnd,     (* _kernel_nowrite_end, as a physical address            *)
  BootDirectory,  (* the frame of boot_page_directory                      *)
  BootTable,      (* the frame of boot_page_table1                         *)
  VgaFrame        (* the frame of the VGA buffer, 0xB8                     *)

VARIABLES
  stage,        (* the call that is next: of boot.S, then of kernel_main() *)
  bitmap_page,  (* i of late_pmm_init(), counted from kernel_page_count on *)
  vm            (* the memory manager, the page directory and the tables   *)

bootVars == <<given, mmap, step, kernel_entry, total_size, early_pmm, stage,
              bitmap_page, vm>>

PtIndices == 0 .. TableEntries - 1

Tables == INSTANCE PageTables WITH Size <- early_pmm.size, Available <- early_pmm.clear

(* The directory entries in use.                                           *)
IdentityPd == 0
KernelPd   == 768       \* 0xC0000000
HeapPds    == {896, 1022}
WindowPd   == 1023      \* the directory itself

HeapStartPage == <<896, 0>>
HeapEndPage   == <<1022, TableEntries - 1>>
VgaPage       == <<KernelPd, TableEntries - 2>>

KernelFrames    == {i \in PtIndices : KernelStart <= i * PageSize
                                      /\ i * PageSize < KernelStart + KernelSize}
ReadOnlyFrames  == {i \in KernelFrames : i * PageSize < NoWriteEnd}

(* The kernel has its tables in its own data; the pages late_pmm_init()    *)
(* gives to the bitmap, right behind as many as the kernel has but from    *)
(* 0xC0000000 on, end before the kernel begins, and the page of the VGA    *)
(* buffer lies behind it: true for a kernel and a bitmap of less than 1 MB *)
(* together.                                                               *)
ASSUME TablesAssumption ==
  /\ TableEntries \in Nat /\ NoWriteEnd \in Nat
  /\ {BootDirectory, BootTable} \subseteq KernelFrames \ ReadOnlyFrames
ASSUME LayoutAssumption ==
  /\ KernelStart + KernelSize <= (TableEntries - 2) * PageSize
  /\ KernelPages < KernelStart \div PageSize
  /\ \A m \in MemoryMaps : \A i \in DOMAIN m :
       KernelPages + BitmapPages(m[i].addr + m[i].length) <= KernelStart \div PageSize
ASSUME VgaAssumption ==
  /\ VgaFrame \in 0 .. KernelStart \div PageSize - 1
  /\ \A m \in MemoryMaps : \A i \in DOMAIN m :
       VgaFrame \notin m[i].addr \div PageSize .. (m[i].addr + m[i].length - 1) \div PageSize

(* early_pmm as the structure of FrameBitmap, with what may follow it.     *)
Managed(pmm, after) ==
  [bitmap      |-> [i \in 0 .. pmm.size |->
                      IF i = pmm.size THEN after
                      ELSE {o \in 0 .. 7 : 8 * i + o \notin pmm.clear}],
   next_index  |-> pmm.next \div 8,
   next_offset |-> pmm.next % 8]

BootInit ==
  /\ Init
  /\ stage = "init_frame_allocator" /\ bitmap_page = 0
  /\ vm = [pmm |-> Managed(NoMemory, {}), pd |-> << >>, table |-> << >>]

-----------------------------------------------------------------------------
(* Mutant: the loop does not stop behind the kernel.                       *)
BootEntryBeyond(i) ==
  IF i * PageSize < KernelStart \/ i = TableEntries - 1 THEN Tables!Absent
  ELSE Tables!Mapping(i, i * PageSize >= NoWriteEnd, TRUE)

(* The loop of boot.S: the kernel's pages, read-only up to its data.       *)
BootEntry(i) ==
  IF i \in KernelFrames THEN Tables!Mapping(i, i * PageSize >= NoWriteEnd, TRUE)
  ELSE Tables!Absent

(* _start, lines 47-107: one table behind two directory entries, and the   *)
(* directory behind the last; paging is on.                                *)
SetUpPaging ==
  /\ Done /\ stage = "init_frame_allocator"
  /\ vm' = [vm EXCEPT
       !.pd = [d \in {IdentityPd, KernelPd, WindowPd} \union HeapPds |->
                 CASE d \in {IdentityPd, KernelPd} -> Tables!Mapping(BootTable, TRUE, FALSE)
                   [] d = WindowPd -> Tables!Mapping(BootDirectory, TRUE, FALSE)
                   [] OTHER -> Tables!Absent],
       !.table = [f \in {BootTable} |-> [i \in PtIndices |-> BootEntry(i)]]]
  /\ stage' = "high_half"

(* Mutant: the identity mapping stays.                                     *)
EnterHighHalfOnly ==
  stage = "high_half" /\ stage' = "late_pmm_init" /\ UNCHANGED vm

(* The first instructions of .text: the identity mapping goes.             *)
EnterHighHalf ==
  /\ stage = "high_half"
  /\ vm' = [vm EXCEPT !.pd[IdentityPd] = Tables!Absent]
  /\ stage' = "late_pmm_init"

-----------------------------------------------------------------------------
(* map_page() reaches directory and tables through the window.             *)
WindowIsOpen == vm.pd[WindowPd] = Tables!Mapping(BootDirectory, TRUE, FALSE)

BitmapPage(k)    == <<KernelPd, KernelPages + k>>
BitmapMapping(k) == Tables!Mapping(early_pmm.bitmap \div PageSize + k, TRUE, TRUE)

(* Mutant: no page for a part of one.                                      *)
BitmapPageCountFloor == early_pmm.size \div PageSize

BitmapPageCount == DivCeil(early_pmm.size, PageSize)

(* late_pmm_init(): the structure is copied, ...                           *)
LatePmmInit ==
  /\ stage = "late_pmm_init"
  /\ \E after \in {{}, 0 .. 7} : vm' = [vm EXCEPT !.pmm = Managed(early_pmm, after)]
  /\ stage' = "map_bitmap"
  /\ UNCHANGED bitmap_page

(* ... each page of the bitmap is mapped (what map_page() answers is not   *)
(* looked at), and the bitmap is used at its new address.                  *)
MapBitmapPage ==
  /\ stage = "map_bitmap" /\ bitmap_page < BitmapPageCount
  /\ IF WindowIsOpen
     THEN /\ vm' = Tables!AfterMapPage(vm, BitmapPage(bitmap_page), BitmapMapping(bitmap_page))
          /\ bitmap_page' = bitmap_page + 1 /\ UNCHANGED stage
     ELSE stage' = "fault" /\ UNCHANGED <<bitmap_page, vm>>

LatePmmInitReturns ==
  /\ stage = "map_bitmap" /\ bitmap_page >= BitmapPageCount
  /\ stage' = "map_vga"
  /\ UNCHANGED <<bitmap_page, vm>>

(* kernel_main() silently exits when the VGA buffer cannot be mapped.      *)
MapVga ==
  /\ stage = "map_vga"
  /\ IF Tables!IsMapped(vm, VgaPage) THEN stage' = "returned" /\ UNCHANGED vm
     ELSE /\ vm' = Tables!AfterMapPage(vm, VgaPage, Tables!Mapping(VgaFrame, TRUE, TRUE))
          /\ stage' = "first_page"

-----------------------------------------------------------------------------
(* The bytes of the bitmap get_page() uses: the hinted one and those its   *)
(* loop looks at.                                                          *)
BytesUsed(pmm) ==
  {pmm.next_index} \union
  {i \in 0 .. early_pmm.size - 1 : i <= Tables!AfterGetPage(pmm).next_index}

IsWritable(v, page) == Tables!EntryOf(v, page).present /\ Tables!EntryOf(v, page).writable

Taken(v) == [v EXCEPT !.pmm = Tables!AfterGetPage(@)]

GetPageFaults(v) == \E i \in BytesUsed(v.pmm) : ~ IsWritable(v, BitmapPage(i \div PageSize))

(* Line 43: two pages are taken, compared and never used.                  *)
GetPage(this, next) ==
  /\ stage = this
  /\ IF GetPageFaults(vm) THEN stage' = "fault" /\ UNCHANGED vm
     ELSE stage' = next /\ vm' = Taken(vm)

(* init_heap(): a page for each end of the heap, each in a table of its    *)
(* own, for which map_page() takes a second page.                          *)
MapHeapPage(this, page, next) ==
  /\ stage = this
  /\ IF GetPageFaults(vm) \/ GetPageFaults(Taken(vm)) THEN stage' = "fault" /\ UNCHANGED vm
     ELSE stage' = next /\ vm' = Tables!AfterMapFresh(vm, page, FALSE)

KernelMain ==
  \/ MapVga
  \/ GetPage("first_page", "second_page")
  \/ GetPage("second_page", "heap_start")
  \/ MapHeapPage("heap_start", HeapStartPage, "heap_end")
  \/ MapHeapPage("heap_end", HeapEndPage, "up")

(* The heap is there, or the processor halts.                              *)
StartUpEnds == stage \in {"up", "fault", "returned"} /\ UNCHANGED bootVars

BootNext ==
  \/ InitFrameAllocator /\ UNCHANGED <<stage, bitmap_page, vm>>
  \/ (LatePmmInit \/ MapBitmapPage \/ LatePmmInitReturns) /\ UNCHANGED vars
  \/ (SetUpPaging \/ EnterHighHalf \/ KernelMain) /\ UNCHANGED <<vars, bitmap_page>>
  \/ StartUpEnds

BootSpec == BootInit /\ [][BootNext]_bootVars

-----------------------------------------------------------------------------
(* The pages get_page() has to supply on the way: two for the comparison,  *)
(* two of the heap and their two tables.                                   *)
PagesTaken == 6

EnoughMemory == Cardinality(early_pmm.clear) >= PagesTaken

AfterLateInit == stage \in {"map_vga", "first_page", "second_page", "heap_start", "heap_end", "up"}

MappedPages ==
  {page \in ({IdentityPd, KernelPd} \union HeapPds) \X PtIndices : Tables!IsMapped(vm, page)}

FrameBehind(page) == Tables!EntryOf(vm, page).frame

(* What init_frame_allocator() leaves, as late_pmm_init() takes it over, is *)
(* a structure the frame allocator starts from (module FrameAllocator and  *)
(* its theorems): every free page has its clear bit, no other bit is       *)
(* clear, and the hint names a free page.                                  *)
ManagerIsHandedOver ==
  stage = "map_vga" /\ early_pmm.clear # {} => vm.pmm \in Tables!HandedOver

(* From late_pmm_init() on, whatever is mapped later, each page of the     *)
(* bitmap pointer's memory is the page init_frame_allocator() reserved     *)
(* for it, and can be written.                                             *)
BitmapIsReachable ==
  AfterLateInit =>
    \A k \in 0 .. DivCeil(early_pmm.size, PageSize) - 1 :
      Tables!EntryOf(vm, BitmapPage(k)) = BitmapMapping(k)

(* In kernel_main() no frame is behind two pages; what the heap and its    *)
(* tables are given was free memory, never the kernel's, the bitmap's or a *)
(* device's; and the kernel's code cannot be written through any page.     *)
MemoryHasOneUse ==
  AfterLateInit /\ EnoughMemory =>
    /\ \A p, q \in MappedPages : FrameBehind(p) = FrameBehind(q) => p = q
    /\ \A p \in MappedPages : p[1] \in HeapPds => FrameBehind(p) \in early_pmm.clear
    /\ \A d \in HeapPds : vm.pd[d].present =>
         /\ vm.pd[d].frame \in early_pmm.clear
         /\ \A p \in MappedPages : FrameBehind(p) # vm.pd[d].frame
    /\ \A p \in MappedPages :
         Tables!EntryOf(vm, p).writable => FrameBehind(p) \notin ReadOnlyFrames

(* The only way not to get to the self test is to have no memory: with six *)
(* free pages kernel_main() neither exits nor takes a page fault.          *)
StartUpSucceeds == stage \in {"fault", "returned"} => ~ EnoughMemory
=============================================================================
