----------------------------- MODULE PageTables -----------------------------
(***************************************************************************)
(* The page directory and the page tables of mem.c as a data structure: a  *)
(* record of the memory manager, the directory and the tables, and         *)
(* map_page() and get_physaddr() as operators on it, for the components    *)
(* that map pages inside a larger step (late_pmm_init(), init_heap(),      *)
(* kmalloc(), kpagealloc()).                                               *)
(*                                                                         *)
(* A virtual page is named by its indices <<d, t>> in the directory and in *)
(* the table; addresses that are not page-aligned make map_page() return   *)
(* an error and change nothing, and are left out.  Of the flags, those     *)
(* that tell callers apart are kept: writable and global.                  *)
(***************************************************************************)
EXTENDS FrameBitmap

CONSTANT PtIndices    \* the indices of a page table

Absent == [present |-> FALSE, frame |-> 0, writable |-> FALSE, global |-> FALSE]

Mapping(frame, writable, global) ==
  [present |-> TRUE, frame |-> frame, writable |-> writable, global |-> global]

Empty == [t \in PtIndices |-> Absent]

(* The page table entry for a page, and get_physaddr() of it.              *)
EntryOf(v, page) ==
  IF v.pd[page[1]].present THEN v.table[v.pd[page[1]].frame][page[2]] ELSE Absent

IsMapped(v, page) == EntryOf(v, page).present

(* The frame of a directory entry's table, with these contents.            *)
Holding(table, frame, entries) ==
  [f \in DOMAIN table \union {frame} |-> IF f = frame THEN entries ELSE table[f]]

(* Mutants: a new page table is not cleared; it takes the frame of the     *)
(* hint without get_page().                                                *)
WithTableUncleared(v, d) ==
  IF v.pd[d].present THEN v
  ELSE [v EXCEPT !.pd[d] = Mapping(NextFrame(v.pmm), TRUE, FALSE), !.pmm = AfterGetPage(v.pmm)]

WithTableUncounted(v, d) ==
  IF v.pd[d].present THEN v
  ELSE [v EXCEPT !.pd[d] = Mapping(NextFrame(v.pmm), TRUE, FALSE),
                 !.table = Holding(@, NextFrame(v.pmm), Empty)]

(* map_page(): the page table comes from get_page(), unchecked, and is     *)
(* cleared; ...                                                            *)
WithTable(v, d) ==
  IF v.pd[d].present THEN v
  ELSE [v EXCEPT !.pd[d] = Mapping(NextFrame(v.pmm), TRUE, FALSE),
                 !.table = Holding(@, NextFrame(v.pmm), Empty),
                 !.pmm = AfterGetPage(v.pmm)]

(* Mutant: an entry that is already present is overwritten.                *)
AfterMapPageForced(v, page, entry) ==
  [WithTable(v, page[1]) EXCEPT !.table[WithTable(v, page[1]).pd[page[1]].frame][page[2]] = entry]

(* ... the entry is written unless a mapping is already present.           *)
AfterMapPage(v, page, entry) ==
  LET with == WithTable(v, page[1])
  IN  IF IsMapped(with, page) THEN with
      ELSE [with EXCEPT !.table[with.pd[page[1]].frame][page[2]] = entry]

(* map_page(get_page(), ...) of the heap: the frame is taken before        *)
(* map_page() takes one for the table.                                     *)
AfterMapFresh(v, page, global) ==
  AfterMapPage([v EXCEPT !.pmm = AfterGetPage(v.pmm)], page,
               Mapping(NextFrame(v.pmm), TRUE, global))
=============================================================================
