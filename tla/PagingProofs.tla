---------------------------- MODULE PagingProofs ----------------------------
(***************************************************************************)
(* Proofs about module Paging, for every bitmap, every page directory and  *)
(* page table, every device frame and every size of the TLB.               *)
(***************************************************************************)
EXTENDS Paging, FrameBitmapProofs

(* The parts of the state of module Paging, of any tables v: the calls     *)
(* change the tables in several steps, and the lemmas follow the steps.    *)
VmType ==
  [pmm : ManagedMemory, pd : [PdIndices -> Entries],
   table : [Memory -> [PtIndices -> Entries]]]

Tables(v) == {d \in PdIndices : v.pd[d].present}
Backed(v) == {p \in Pages : IsMapped(v, p) /\ ~ IsUnmapped(v, p)}
InUse(v)  == {v.pd[d].frame : d \in Tables(v)} \union {EntryOf(v, p).frame : p \in Backed(v)}

(* What the tables always are: every table in use is a frame get_page()    *)
(* can return, so looking up a page stays inside the tables.               *)
WellFormed(v) == v \in VmType /\ \A d \in Tables(v) : v.pd[d].frame \in Memory

(* Are all page tables frames of the bitmap?  From the first table beyond  *)
(* it on, nothing is promised, and no call ever takes a table away.        *)
TablesInside(v) == \A d \in Tables(v) : v.pd[d].frame \in Frames

(* The bookkeeping of frames, with the frames `taken' by get_page() that   *)
(* no table holds yet.                                                     *)
HintIsFree(v) ==
  NextFrame(v.pmm) \in Frames => ~ GetPageState(v.pmm, NextFrame(v.pmm))

MarkedIsUsed(v, taken) ==
  \A f \in Frames :
    GetPageState(v.pmm, f) <=> (f \notin Available \/ f \in InUse(v) \union taken)

UsedWasAvailable(v, taken) ==
  /\ \A d \in Tables(v) : v.pd[d].frame \in Available
  /\ \A p \in Backed(v) : EntryOf(v, p).frame \in Available \union {Device} \union Beyond
  /\ \A f \in taken : f \in Frames => f \in Available \ InUse(v)

OneUse(v) ==
  /\ \A d, e \in Tables(v) : v.pd[d].frame = v.pd[e].frame => d = e
  /\ \A d \in Tables(v), p \in Backed(v) : v.pd[d].frame # EntryOf(v, p).frame
  /\ \A p, q \in Backed(v) :
       EntryOf(v, p).frame = EntryOf(v, q).frame /\ EntryOf(v, p).frame \in Available => p = q

Consistent(v, taken) ==
  HintIsFree(v) /\ MarkedIsUsed(v, taken) /\ UsedWasAvailable(v, taken) /\ OneUse(v)

(* The cached translations that a flush would drop are up to date.         *)
LocalIsCurrent ==
  \A page \in DOMAIN tlb : tlb[page].global \/ tlb[page] = EntryOf(vm, page)

(* The inductive invariant.  The properties of the runs speak of the time  *)
(* before memory is exhausted, which can begin again when the last page    *)
(* beyond the bitmap is unmapped; so the bookkeeping has to hold while     *)
(* such pages are mapped, as long as the page tables are not beyond.       *)
PagingInv ==
  /\ TypeOK
  /\ WellFormed(vm)
  /\ TablesInside(vm) => Consistent(vm, {})
  /\ LocalIsCurrent

-----------------------------------------------------------------------------
LEMMA FramesAndBeyond ==
  /\ Frames \intersect Beyond = {}
  /\ 0 \in Memory
  /\ LastFrame \notin Memory
  /\ Device \in Frames /\ Device \notin Available /\ Available \subseteq Frames
  BY SizeAssumption, AvailableAssumption, DeviceAssumption, LastFrameAssumption
     DEF Frames, Beyond, Memory

(* Looking up a page gives an entry.                                       *)
LEMMA EntryType ==
  ASSUME NEW v, WellFormed(v), NEW page \in Pages
  PROVE  EntryOf(v, page) \in Entries
<1>1. page[1] \in PdIndices /\ page[2] \in PtIndices
  BY DEF Pages
<1>2. CASE v.pd[page[1]].present
  BY <1>1, <1>2 DEF WellFormed, VmType, Tables, EntryOf
<1>3. CASE ~ v.pd[page[1]].present
  BY <1>3, FramesAndBeyond DEF EntryOf, Absent, Entries
<1>4. QED
  BY <1>2, <1>3

LEMMA MappingType ==
  ASSUME NEW f \in Memory \union {LastFrame}, NEW w \in BOOLEAN, NEW g \in BOOLEAN
  PROVE  /\ Mapping(f, w, g) \in Entries
         /\ Mapping(f, w, g).present
         /\ Mapping(f, w, g).frame = f
  BY DEF Mapping, Entries

LEMMA EmptyType == Empty \in [PtIndices -> Entries]
  BY FramesAndBeyond DEF Empty, Absent, Entries

(* Equal lookups and equal tables are equal uses.                          *)
LEMMA SameUse ==
  ASSUME NEW v, NEW w, Tables(w) = Tables(v),
         \A d \in Tables(v) : w.pd[d].frame = v.pd[d].frame,
         \A p \in Pages : EntryOf(w, p) = EntryOf(v, p)
  PROVE  Backed(w) = Backed(v) /\ InUse(w) = InUse(v)
<1>1. Backed(w) = Backed(v)
  BY DEF Backed, IsMapped, IsUnmapped
<1>2. \A p \in Backed(v) : EntryOf(w, p) = EntryOf(v, p)
  BY DEF Backed
<1>3. QED
  BY <1>1, <1>2 DEF InUse

-----------------------------------------------------------------------------
(* get_page() of a caller: one more frame is taken.                        *)
LEMMA TakeFrame ==
  ASSUME NEW v, WellFormed(v)
  PROVE  LET w == [v EXCEPT !.pmm = AfterGetPage(v.pmm)]
         IN  /\ WellFormed(w)
             /\ NextFrame(v.pmm) \in Memory
             /\ w.pd = v.pd /\ w.table = v.table
             /\ Tables(w) = Tables(v)
             /\ \A p \in Pages : EntryOf(w, p) = EntryOf(v, p)
             /\ Consistent(v, {}) => Consistent(w, {NextFrame(v.pmm)})
<1> DEFINE w == [v EXCEPT !.pmm = AfterGetPage(v.pmm)]
           f == NextFrame(v.pmm)
<1>1. v.pmm \in ManagedMemory
  BY DEF WellFormed, VmType
<1>2. w.pmm = AfterGetPage(v.pmm) /\ w.pd = v.pd /\ w.table = v.table
  BY DEF WellFormed, VmType
<1>3. w \in VmType
  BY <1>1, GetPageEffect DEF WellFormed, VmType
<1>4. Tables(w) = Tables(v) /\ \A p \in Pages : EntryOf(w, p) = EntryOf(v, p)
  BY <1>2 DEF Tables, EntryOf
<1>5. WellFormed(w)
  BY <1>2, <1>3, <1>4 DEF WellFormed
<1>6. f \in Memory
  BY <1>1, GetPageEffect DEF Memory
<1>7. ASSUME Consistent(v, {}) PROVE Consistent(w, {f})
  <2>1. Backed(w) = Backed(v) /\ InUse(w) = InUse(v)
    BY <1>2, <1>4, SameUse
  <2>2. f \in Frames => f \in Available \ InUse(v)
    BY <1>7 DEF Consistent, HintIsFree, MarkedIsUsed
  <2>3. HintIsFree(w)
    BY <1>1, <1>2, GetPageEffect, FramesAndBeyond DEF HintIsFree
  <2>4. MarkedIsUsed(w, {f})
    BY <1>1, <1>2, <1>7, <2>1, GetPageEffect DEF Consistent, MarkedIsUsed
  <2>5. UsedWasAvailable(w, {f})
    BY <1>2, <1>4, <1>7, <2>1, <2>2 DEF Consistent, UsedWasAvailable, Backed
  <2>6. OneUse(w)
    BY <1>2, <1>4, <1>7, <2>1 DEF Consistent, OneUse, Backed
  <2>7. QED
    BY <2>3, <2>4, <2>5, <2>6 DEF Consistent
<1>8. QED
  BY <1>2, <1>4, <1>5, <1>6, <1>7

(* map_page() where the page table is there or has to be made: no lookup   *)
(* changes, and the new table has a frame of its own.                      *)
LEMMA AddTable ==
  ASSUME NEW v, WellFormed(v), NEW d \in PdIndices, NEW taken
  PROVE  LET w == WithTable(v, d)
         IN  /\ WellFormed(w)
             /\ w.pd[d].present
             /\ TablesInside(w) => TablesInside(v)
             /\ TablesInside(w) /\ Consistent(v, taken) =>
                  /\ Consistent(w, taken)
                  /\ \A p \in Pages : EntryOf(w, p) = EntryOf(v, p)
<1> DEFINE w == WithTable(v, d)
           t == NextFrame(v.pmm)
<1>1. CASE v.pd[d].present
  BY <1>1 DEF WithTable
<1>2. CASE ~ v.pd[d].present
  <2>1. v.pmm \in ManagedMemory /\ t \in Memory /\ t \in Memory \union {LastFrame}
    BY GetPageEffect DEF WellFormed, VmType, Memory
  <2>2. /\ w.pmm = AfterGetPage(v.pmm)
        /\ w.pd = [v.pd EXCEPT ![d] = Mapping(t, TRUE, FALSE)]
        /\ w.table = [f \in Memory |-> IF f = t THEN Empty ELSE v.table[f]]
    BY <1>2, <2>1 DEF WithTable, Holding, WellFormed, VmType
  <2>3. w \in VmType
    <3>1. w.pmm \in ManagedMemory
      BY <2>1, <2>2, GetPageEffect
    <3>2. w.pd \in [PdIndices -> Entries]
      BY ZenonT(60), <2>1, <2>2, MappingType DEF WellFormed, VmType
    <3>3. w.table \in [Memory -> [PtIndices -> Entries]]
      BY <2>2, EmptyType DEF WellFormed, VmType
    <3>4. w = [v EXCEPT !.pd = w.pd, !.table = w.table, !.pmm = w.pmm]
      BY <1>2 DEF WithTable, WellFormed, VmType
    <3>5. QED
      BY <3>1, <3>2, <3>3, <3>4 DEF WellFormed, VmType
  <2>4. /\ w.pd[d].present /\ w.pd[d].frame = t
        /\ \A e \in PdIndices \ {d} : w.pd[e] = v.pd[e]
        /\ Tables(w) = Tables(v) \union {d} /\ d \notin Tables(v)
    <3>1. w.pd[d] = Mapping(t, TRUE, FALSE) /\ \A e \in PdIndices \ {d} : w.pd[e] = v.pd[e]
      BY <2>2 DEF WellFormed, VmType
    <3>2. w.pd[d].present /\ w.pd[d].frame = t
      BY <3>1 DEF Mapping
    <3> HIDE DEF w
    <3>3. QED
      BY <1>2, <3>1, <3>2 DEF Tables
  <2>5. WellFormed(w)
    BY <2>1, <2>3, <2>4 DEF WellFormed, Tables
  <2>6. TablesInside(w) => TablesInside(v)
    BY <2>4 DEF TablesInside, Tables
  <2>7. ASSUME TablesInside(w), Consistent(v, taken)
        PROVE  /\ Consistent(w, taken)
               /\ \A p \in Pages : EntryOf(w, p) = EntryOf(v, p)
    <3>1. t \in Available \ (InUse(v) \union taken)
      BY <2>4, <2>7 DEF Consistent, HintIsFree, MarkedIsUsed, TablesInside
    <3>2. ASSUME NEW p \in Pages PROVE EntryOf(w, p) = EntryOf(v, p)
      <4>1. p[1] \in PdIndices /\ p[2] \in PtIndices
        BY DEF Pages
      <4>2. CASE p[1] = d
        <5>1. w.table[t] = Empty
          BY <2>1, <2>2
        <5>2. EntryOf(w, p) = Empty[p[2]]
          BY <2>4, <4>2, <5>1 DEF EntryOf
        <5>3. QED
          BY <1>2, <4>1, <4>2, <5>2 DEF EntryOf, Empty
      <4>3. CASE p[1] # d /\ v.pd[p[1]].present
        <5>1. p[1] \in Tables(v) /\ v.pd[p[1]].frame \in Memory /\ v.pd[p[1]].frame # t
          BY <3>1, <4>1, <4>3 DEF Tables, InUse, WellFormed
        <5>2. QED
          BY <2>2, <2>4, <4>1, <4>3, <5>1 DEF EntryOf
      <4>4. CASE p[1] # d /\ ~ v.pd[p[1]].present
        BY <2>4, <4>1, <4>4 DEF EntryOf
      <4>5. QED
        BY <4>2, <4>3, <4>4
    <3>3. Backed(w) = Backed(v)
      BY <3>2 DEF Backed, IsMapped, IsUnmapped
    <3>4. \A p \in Backed(v) : EntryOf(w, p) = EntryOf(v, p)
      BY <3>2 DEF Backed
    <3>5. \A e \in Tables(v) : w.pd[e].frame = v.pd[e].frame /\ v.pd[e].frame # t
      BY <2>4, <3>1 DEF Tables, InUse
    <3>6. InUse(w) = InUse(v) \union {t}
      BY <2>4, <3>3, <3>4, <3>5 DEF InUse
    <3>7. HintIsFree(w)
      BY <2>1, <2>2, GetPageEffect, FramesAndBeyond DEF HintIsFree
    <3>8. MarkedIsUsed(w, taken)
      BY <2>1, <2>2, <2>7, <3>6, GetPageEffect DEF Consistent, MarkedIsUsed
    <3>9. UsedWasAvailable(w, taken)
      BY <2>4, <2>7, <3>1, <3>3, <3>4, <3>5, <3>6 DEF Consistent, UsedWasAvailable
    <3>10. OneUse(w)
      <4>1. \A p \in Backed(v) : EntryOf(v, p).frame # t
        BY <3>1 DEF InUse
      <4>2. \A e, g \in Tables(w) : w.pd[e].frame = w.pd[g].frame => e = g
        BY <2>4, <2>7, <3>5 DEF Consistent, OneUse
      <4>3. \A e \in Tables(w), p \in Backed(w) : w.pd[e].frame # EntryOf(w, p).frame
        BY <2>4, <2>7, <3>3, <3>4, <3>5, <4>1 DEF Consistent, OneUse
      <4>4. QED
        BY <2>7, <3>3, <3>4, <4>2, <4>3 DEF Consistent, OneUse
    <3>11. QED
      BY <3>2, <3>7, <3>8, <3>9, <3>10 DEF Consistent
  <2>8. QED
    BY <2>4, <2>5, <2>6, <2>7
<1>3. QED
  BY <1>1, <1>2

(* An entry is written where the table is there: one lookup changes, since *)
(* no two directory entries share a table.                                 *)
Written(w, page, entry) ==
  [w EXCEPT !.table[w.pd[page[1]].frame][page[2]] = entry]

LEMMA WriteEffect ==
  ASSUME NEW w, WellFormed(w), NEW page \in Pages, w.pd[page[1]].present,
         NEW entry \in Entries
  PROVE  LET x == Written(w, page, entry)
         IN  /\ WellFormed(x) /\ x.pmm = w.pmm /\ x.pd = w.pd
             /\ Tables(x) = Tables(w)
             /\ EntryOf(x, page) = entry
             /\ OneUse(w) => \A p \in Pages \ {page} : EntryOf(x, p) = EntryOf(w, p)
<1> DEFINE x == Written(w, page, entry)
           f == w.pd[page[1]].frame
<1>1. page[1] \in PdIndices /\ page[2] \in PtIndices
  BY DEF Pages
<1>2. page[1] \in Tables(w) /\ f \in Memory
  BY <1>1 DEF Tables, WellFormed
<1>3. /\ x.pmm = w.pmm /\ x.pd = w.pd
      /\ x.table = [w.table EXCEPT ![f][page[2]] = entry]
  BY DEF Written, WellFormed, VmType
<1>4. x \in VmType
  <2>1. x.table \in [Memory -> [PtIndices -> Entries]]
    BY <1>1, <1>2, <1>3 DEF WellFormed, VmType
  <2>2. x = [w EXCEPT !.table = x.table]
    BY DEF Written, WellFormed, VmType
  <2>3. QED
    BY <2>1, <2>2 DEF WellFormed, VmType
<1>5. Tables(x) = Tables(w)
  BY <1>3 DEF Tables
<1>6. WellFormed(x)
  BY <1>3, <1>4, <1>5 DEF WellFormed
<1>7. EntryOf(x, page) = entry
  BY <1>1, <1>2, <1>3 DEF EntryOf, WellFormed, VmType
<1>8. ASSUME OneUse(w), NEW p \in Pages \ {page}
      PROVE  EntryOf(x, p) = EntryOf(w, p)
  <2>1. p[1] \in PdIndices /\ p[2] \in PtIndices /\ (p[1] # page[1] \/ p[2] # page[2])
    BY DEF Pages
  <2>2. CASE ~ w.pd[p[1]].present
    BY <1>3, <2>2 DEF EntryOf
  <2>3. CASE w.pd[p[1]].present /\ p[1] # page[1]
    <3>1. p[1] \in Tables(w) /\ w.pd[p[1]].frame # f
      BY <1>2, <1>8, <2>1, <2>3 DEF Tables, OneUse
    <3>2. w.pd[p[1]].frame \in Memory
      BY <3>1 DEF WellFormed
    <3>3. x.table[w.pd[p[1]].frame] = w.table[w.pd[p[1]].frame]
      BY <1>2, <1>3, <3>1, <3>2 DEF WellFormed, VmType
    <3>4. QED
      BY <1>3, <2>3, <3>3 DEF EntryOf
  <2>4. CASE p[1] = page[1] /\ p[2] # page[2]
    <3>1. x.table[f][p[2]] = w.table[f][p[2]]
      BY <1>1, <1>2, <1>3, <2>1, <2>4 DEF WellFormed, VmType
    <3>2. QED
      BY <1>3, <2>4, <3>1 DEF EntryOf
  <2>5. QED
    BY <2>1, <2>2, <2>3, <2>4
<1>9. QED
  BY <1>3, <1>5, <1>6, <1>7, <1>8

(* The end of map_page(): the entry takes the frame of the caller, or the  *)
(* device's.                                                               *)
LEMMA MapEntry ==
  ASSUME NEW w, WellFormed(w), NEW page \in Pages, w.pd[page[1]].present,
         ~ IsMapped(w, page),
         NEW entry \in Entries, entry.present, entry.frame \in Memory,
         NEW taken, taken = {entry.frame} \/ (taken = {} /\ entry.frame = Device)
  PROVE  LET x == Written(w, page, entry)
         IN  Consistent(w, taken) => Consistent(x, {})
<1> DEFINE x == Written(w, page, entry)
           f == entry.frame
<1> SUFFICES ASSUME Consistent(w, taken) PROVE Consistent(x, {})
  OBVIOUS
<1>1. f \in Memory /\ (taken = {f} \/ (taken = {} /\ f = Device))
  OBVIOUS
<1>2. /\ x.pmm = w.pmm /\ x.pd = w.pd /\ Tables(x) = Tables(w)
      /\ EntryOf(x, page) = entry
      /\ \A p \in Pages \ {page} : EntryOf(x, p) = EntryOf(w, p)
  BY WriteEffect DEF Consistent
<1>3. EntryOf(x, page).present /\ EntryOf(x, page).frame = f
  BY <1>2
<1> HIDE DEF x, f
<1>4. page \notin Backed(w) /\ f # LastFrame
  BY <1>1, FramesAndBeyond DEF Backed
<1>5. Backed(x) = Backed(w) \union {page}
  BY <1>2, <1>3, <1>4 DEF Backed, IsMapped, IsUnmapped
<1>6. \A p \in Backed(w) : EntryOf(x, p) = EntryOf(w, p)
  BY <1>2, <1>4 DEF Backed
<1>7. InUse(x) = InUse(w) \union {f}
  BY <1>2, <1>3, <1>5, <1>6 DEF InUse
<1>8. /\ f \in Available => f \notin InUse(w)
      /\ f \in Available \union {Device} \union Beyond
      /\ \A d \in Tables(w) : w.pd[d].frame # f
  <2>1. CASE taken = {f}
    BY <1>1, <2>1, FramesAndBeyond DEF Consistent, UsedWasAvailable, Memory, InUse
  <2>2. CASE f = Device
    BY <2>2, FramesAndBeyond DEF Consistent, UsedWasAvailable
  <2>3. QED
    BY <1>1, <2>1, <2>2
<1>9. HintIsFree(x)
  BY <1>2 DEF Consistent, HintIsFree
<1>10. MarkedIsUsed(x, {})
  BY <1>1, <1>2, <1>7, FramesAndBeyond DEF Consistent, MarkedIsUsed
<1>11. UsedWasAvailable(x, {})
  BY <1>2, <1>3, <1>5, <1>6, <1>8 DEF Consistent, UsedWasAvailable
<1>12. OneUse(x)
  <2>1. \A p \in Backed(w) : EntryOf(w, p).frame = f => f \notin Available
    BY <1>8 DEF InUse
  <2>2. \A d \in Tables(x), p \in Backed(x) : x.pd[d].frame # EntryOf(x, p).frame
    BY <1>2, <1>3, <1>5, <1>6, <1>8 DEF Consistent, OneUse
  <2>3. \A p, q \in Backed(x) :
          EntryOf(x, p).frame = EntryOf(x, q).frame /\ EntryOf(x, p).frame \in Available
            => p = q
    BY <1>3, <1>5, <1>6, <2>1 DEF Consistent, OneUse
  <2>4. QED
    BY <1>2, <2>2, <2>3 DEF Consistent, OneUse
<1>13. QED
  BY <1>9, <1>10, <1>11, <1>12 DEF Consistent

(* unmap_page() and free_page(): the frame of the page is free again.      *)
LEMMA UnmapEffect ==
  ASSUME NEW v, WellFormed(v), NEW page \in Pages,
         IsMapped(v, page), ~ IsUnmapped(v, page)
  PROVE  LET x == Unmapped(v, page)
         IN  /\ WellFormed(x) /\ x.pd = v.pd /\ Tables(x) = Tables(v)
             /\ Consistent(v, {}) =>
                  /\ Consistent(x, {})
                  /\ \A p \in Pages \ {page} : EntryOf(x, p) = EntryOf(v, p)
<1> DEFINE x     == Unmapped(v, page)
           f     == EntryOf(v, page).frame
           entry == Mapping(LastFrame, TRUE, TRUE)
           y     == Written(v, page, entry)
<1>1. v.pd[page[1]].present /\ f \in Memory /\ page \in Backed(v)
  BY EntryType DEF IsMapped, EntryOf, Absent, IsUnmapped, Entries, Backed
<1>2. entry \in Entries /\ entry.frame = LastFrame
  BY MappingType
<1>3. /\ WellFormed(y) /\ y.pmm = v.pmm /\ y.pd = v.pd /\ Tables(y) = Tables(v)
      /\ EntryOf(y, page) = entry
      /\ OneUse(v) => \A p \in Pages \ {page} : EntryOf(y, p) = EntryOf(v, p)
  BY ZenonT(60), <1>1, <1>2, WriteEffect
<1>4. x = [y EXCEPT !.pmm = IF f = Device THEN v.pmm ELSE AfterFreePage(v.pmm, f)]
  BY DEF Unmapped, Written, WellFormed, VmType
<1>5. /\ x.pd = v.pd /\ x.table = y.table
      /\ x.pmm = IF f = Device THEN v.pmm ELSE AfterFreePage(v.pmm, f)
  BY <1>3, <1>4 DEF WellFormed, VmType
<1>6. v.pmm \in ManagedMemory /\ f \in Frames \union Beyond
  BY <1>1 DEF WellFormed, VmType, Memory
<1>7. x \in VmType
  <2>1. x.pmm \in ManagedMemory
    BY <1>5, <1>6, FreePageEffect
  <2>2. QED
    BY <1>3, <1>4, <1>5, <2>1 DEF WellFormed, VmType
<1>8. Tables(x) = Tables(v) /\ \A p \in Pages : EntryOf(x, p) = EntryOf(y, p)
  BY <1>3, <1>5 DEF Tables, EntryOf
<1>9. WellFormed(x)
  BY <1>5, <1>7, <1>8 DEF WellFormed
<1>10. ASSUME Consistent(v, {})
       PROVE  Consistent(x, {}) /\ \A p \in Pages \ {page} : EntryOf(x, p) = EntryOf(v, p)
  <2>1. \A p \in Pages \ {page} : EntryOf(x, p) = EntryOf(v, p)
    BY <1>3, <1>8, <1>10 DEF Consistent
  <2>2. EntryOf(x, page).frame = LastFrame
    BY <1>2, <1>3, <1>8
  <2>3. Backed(x) = Backed(v) \ {page}
    BY <1>1, <2>1, <2>2 DEF Backed, IsMapped, IsUnmapped
  <2>4. \A p \in Backed(v) \ {page} : EntryOf(x, p) = EntryOf(v, p)
    BY <2>1 DEF Backed
  <2>5. InUse(v) = InUse(x) \union {f}
    BY <1>1, <1>5, <1>8, <2>3, <2>4 DEF InUse
  <2>6. f \in Available => f \notin InUse(x)
    <3>1. \A d \in Tables(v) : v.pd[d].frame # f
      BY <1>1, <1>10 DEF Consistent, OneUse
    <3>2. \A p \in Backed(v) \ {page} : f \in Available => EntryOf(v, p).frame # f
      BY <1>1, <1>10 DEF Consistent, OneUse
    <3>3. QED
      BY <1>5, <1>8, <2>3, <2>4, <3>1, <3>2 DEF InUse
  <2>7. f \in Available \union {Device} \union Beyond
    BY <1>1, <1>10 DEF Consistent, UsedWasAvailable
  <2>8. HintIsFree(x)
    BY <1>5, <1>6, <1>10, FreePageEffect DEF Consistent, HintIsFree
  <2>9. MarkedIsUsed(x, {})
    <3>1. \A g \in Frames : GetPageState(v.pmm, g) <=> (g \notin Available \/ g \in InUse(v))
      BY <1>10 DEF Consistent, MarkedIsUsed
    <3>2. CASE f = Device
      BY <1>5, <2>5, <3>1, <3>2, FramesAndBeyond DEF MarkedIsUsed
    <3>3. CASE f # Device
      <4>1. \A g \in Frames : GetPageState(x.pmm, g) <=> (GetPageState(v.pmm, g) /\ g # f)
        BY <1>5, <1>6, <3>3, FreePageEffect
      <4>2. QED
        BY <2>5, <2>6, <2>7, <3>1, <3>3, <4>1, FramesAndBeyond DEF MarkedIsUsed
    <3>4. QED
      BY <3>2, <3>3
  <2>10. UsedWasAvailable(x, {})
    BY <1>5, <1>8, <1>10, <2>3, <2>4 DEF Consistent, UsedWasAvailable
  <2>11. OneUse(x)
    BY <1>5, <1>8, <1>10, <2>3, <2>4 DEF Consistent, OneUse
  <2>12. QED
    BY <2>1, <2>8, <2>9, <2>10, <2>11 DEF Consistent
<1>11. QED
  BY <1>5, <1>8, <1>9, <1>10

(* map_page() as a whole, for a frame that was taken for a page where      *)
(* nothing is mapped, or for the device anywhere.                          *)
LEMMA MapPageEffect ==
  ASSUME NEW v, WellFormed(v), NEW page \in Pages,
         NEW entry \in Entries, entry.present, entry.frame \in Memory, NEW taken,
         \/ taken = {entry.frame} /\ ~ IsMapped(v, page)
         \/ taken = {} /\ entry.frame = Device
  PROVE  LET x == AfterMapPage(v, page, entry)
         IN  /\ WellFormed(x)
             /\ TablesInside(x) => TablesInside(v)
             /\ TablesInside(x) /\ Consistent(v, taken) =>
                  /\ Consistent(x, {})
                  /\ \A p \in Pages : IsMapped(v, p) => EntryOf(x, p) = EntryOf(v, p)
<1> DEFINE with == WithTable(v, page[1])
           x    == AfterMapPage(v, page, entry)
<1>1. page[1] \in PdIndices
  BY DEF Pages
<1>2. /\ WellFormed(with) /\ with.pd[page[1]].present
      /\ TablesInside(with) => TablesInside(v)
      /\ TablesInside(with) /\ Consistent(v, taken) =>
           Consistent(with, taken) /\ \A p \in Pages : EntryOf(with, p) = EntryOf(v, p)
  BY <1>1, AddTable
<1>3. CASE IsMapped(with, page)
  <2>1. x = with
    BY <1>3 DEF AfterMapPage
  <2>2. TablesInside(with) /\ Consistent(v, taken) => taken = {}
    BY <1>2, <1>3 DEF IsMapped
  <2>3. QED
    BY <1>2, <2>1, <2>2
<1>4. CASE ~ IsMapped(with, page)
  <2>1. x = Written(with, page, entry)
    BY <1>4 DEF AfterMapPage, Written
  <2> HIDE DEF x, with
  <2>2. /\ WellFormed(x) /\ x.pd = with.pd /\ Tables(x) = Tables(with)
        /\ OneUse(with) => \A p \in Pages \ {page} : EntryOf(x, p) = EntryOf(with, p)
    BY <1>2, <2>1, WriteEffect
  <2>3. TablesInside(x) <=> TablesInside(with)
    BY <2>2 DEF TablesInside
  <2>4. Consistent(with, taken) => Consistent(x, {})
    <3>1. taken = {entry.frame} \/ (taken = {} /\ entry.frame = Device)
      OBVIOUS
    <3>2. Consistent(with, taken) => Consistent(Written(with, page, entry), {})
      BY <1>2, <1>4, <3>1, MapEntry
    <3>3. QED
      BY <2>1, <3>2
  <2>5. ASSUME TablesInside(x), Consistent(v, taken), NEW p \in Pages, IsMapped(v, p)
        PROVE  EntryOf(x, p) = EntryOf(v, p)
    <3>1. EntryOf(with, p) = EntryOf(v, p) /\ EntryOf(with, page) = EntryOf(v, page)
      BY <1>2, <2>3, <2>5
    <3>2. p # page
      BY <1>4, <2>5, <3>1 DEF IsMapped
    <3>3. QED
      BY <1>2, <2>2, <2>3, <2>5, <3>1, <3>2 DEF Consistent
  <2>6. QED
    BY <1>2, <2>2, <2>3, <2>4, <2>5 DEF x
<1>5. QED
  BY <1>3, <1>4

LEMMA MapFreshEffect ==
  ASSUME NEW v, WellFormed(v), NEW page \in Pages, ~ IsMapped(v, page), NEW g \in BOOLEAN
  PROVE  LET x == AfterMapFresh(v, page, g)
         IN  /\ WellFormed(x)
             /\ TablesInside(x) => TablesInside(v)
             /\ TablesInside(x) /\ Consistent(v, {}) =>
                  /\ Consistent(x, {})
                  /\ \A p \in Pages : IsMapped(v, p) => EntryOf(x, p) = EntryOf(v, p)
<1> DEFINE w == [v EXCEPT !.pmm = AfterGetPage(v.pmm)]
           f == NextFrame(v.pmm)
           entry == Mapping(f, TRUE, g)
           x == AfterMapFresh(v, page, g)
<1>1. /\ WellFormed(w) /\ f \in Memory
      /\ w.pd = v.pd /\ Tables(w) = Tables(v)
      /\ \A p \in Pages : EntryOf(w, p) = EntryOf(v, p)
      /\ Consistent(v, {}) => Consistent(w, {f})
  BY TakeFrame
<1>2. x = AfterMapPage(w, page, entry)
  BY DEF AfterMapFresh
<1>3. \A p \in Pages : IsMapped(w, p) <=> IsMapped(v, p)
  BY <1>1 DEF IsMapped
<1>4. TablesInside(w) <=> TablesInside(v)
  BY <1>1 DEF TablesInside
<1>5. entry \in Entries /\ entry.present /\ entry.frame = f
  BY <1>1, MappingType
<1> HIDE DEF w, x, f, entry
<1>6. /\ WellFormed(x)
      /\ TablesInside(x) => TablesInside(w)
      /\ TablesInside(x) /\ Consistent(w, {f}) =>
           /\ Consistent(x, {})
           /\ \A p \in Pages : IsMapped(w, p) => EntryOf(x, p) = EntryOf(w, p)
  BY <1>1, <1>2, <1>3, <1>5, MapPageEffect
<1>7. QED
  BY <1>1, <1>3, <1>4, <1>6 DEF x

-----------------------------------------------------------------------------
(* What a change of the tables does to the invariant, and which mappings   *)
(* it leaves alone.                                                        *)
TablesStep ==
  /\ WellFormed(vm')
  /\ TablesInside(vm') => TablesInside(vm)
  /\ TablesInside(vm') /\ Consistent(vm, {}) => Consistent(vm', {})

KeepsMapped ==
  TablesInside(vm') /\ Consistent(vm, {}) =>
    \A p \in Pages : IsMapped(vm, p) => EntryOf(vm', p) = EntryOf(vm, p)

LEMMA MapFreshStep ==
  ASSUME WellFormed(vm), NEW page \in Pages, NEW g \in BOOLEAN, MapFresh(page, g)
  PROVE  TablesStep /\ KeepsMapped
  BY MapFreshEffect DEF MapFresh, TablesStep, KeepsMapped

LEMMA MapDeviceStep ==
  ASSUME WellFormed(vm), NEW page \in Pages, MapDevice(page)
  PROVE  TablesStep /\ KeepsMapped
<1>1. LET entry == Mapping(Device, TRUE, TRUE)
      IN  entry \in Entries /\ entry.present /\ entry.frame = Device /\ Device \in Memory
  BY FramesAndBeyond, MappingType DEF Memory
<1>2. QED
  BY <1>1, MapPageEffect DEF MapDevice, TablesStep, KeepsMapped

LEMMA UnmapPageStep ==
  ASSUME WellFormed(vm), NEW page \in Pages, UnmapPage(page)
  PROVE  TablesStep
<1>1. vm' = Unmapped(vm, page) /\ IsMapped(vm, page) /\ ~ IsUnmapped(vm, page)
  BY DEF UnmapPage
<1>2. QED
  BY <1>1, UnmapEffect DEF TablesStep, TablesInside

(* A flush leaves global translations only.                                *)
LEMMA FlushedEffect ==
  /\ DOMAIN Flushed(tlb) \subseteq DOMAIN tlb
  /\ \A page \in DOMAIN Flushed(tlb) : Flushed(tlb)[page] = tlb[page] /\ tlb[page].global
  BY DEF Flushed

TlbType == DOMAIN tlb \subseteq Pages /\ \A page \in DOMAIN tlb : tlb[page] \in Entries

LEMMA TlbStep ==
  ASSUME TlbType, LocalIsCurrent, WellFormed(vm), [Next]_vars
  PROVE  TlbType' /\ LocalIsCurrent'
<1>1. CASE tlb' = Flushed(tlb)
  BY <1>1, FlushedEffect DEF TlbType, LocalIsCurrent
<1>2. CASE UNCHANGED <<vm, tlb>>
  BY <1>2 DEF TlbType, LocalIsCurrent
<1>3. ASSUME NEW page \in Pages, Access(page) PROVE TlbType' /\ LocalIsCurrent'
  <2>1. /\ DOMAIN tlb' = DOMAIN tlb \union {page}
        /\ \A p \in DOMAIN tlb' : tlb'[p] = IF p = page THEN EntryOf(vm, page) ELSE tlb[p]
        /\ vm' = vm
    BY <1>3 DEF Access
  <2>2. EntryOf(vm, page) \in Entries
    BY EntryType
  <2>3. QED
    BY <2>1, <2>2 DEF TlbType, LocalIsCurrent
<1>4. QED
  BY <1>1, <1>2, <1>3 DEF Next, vars, MapFresh, MapDevice, UnmapPage

LEMMA InitPagingInv == Init => PagingInv
<1> SUFFICES ASSUME Init PROVE PagingInv
  OBVIOUS
<1>1. /\ vm.pmm \in HandedOver
      /\ vm.pd = [d \in PdIndices |-> Absent]
      /\ vm.table = [f \in Memory |-> [t \in PtIndices |-> Mapping(LastFrame, TRUE, TRUE)]]
      /\ vm = [pmm |-> vm.pmm, pd |-> vm.pd, table |-> vm.table]
      /\ tlb = << >>
  BY DEF Init
<1>2. vm.pmm \in ManagedMemory /\ NextFrame(vm.pmm) \in Available
      /\ \A f \in Frames : GetPageState(vm.pmm, f) <=> f \notin Available
  BY <1>1, HandedOverEffect
<1>3. Mapping(LastFrame, TRUE, TRUE) \in Entries /\ Absent \in Entries /\ ~ Absent.present
  BY FramesAndBeyond DEF Mapping, Absent, Entries
<1>4. vm.pd \in [PdIndices -> Entries] /\ vm.table \in [Memory -> [PtIndices -> Entries]]
  BY <1>1, <1>3
<1>5. vm \in VmType
  BY <1>1, <1>2, <1>4 DEF VmType
<1>6. Tables(vm) = {}
  BY <1>1, <1>3 DEF Tables
<1>7. Backed(vm) = {}
  BY <1>1, <1>3 DEF Backed, IsMapped, EntryOf, Pages
<1>8. InUse(vm) = {}
  BY <1>6, <1>7 DEF InUse
<1>9. Consistent(vm, {})
  BY <1>2, <1>6, <1>7, <1>8
     DEF Consistent, HintIsFree, MarkedIsUsed, UsedWasAvailable, OneUse
<1>10. DOMAIN tlb = {}
  BY <1>1
<1>11. QED
  BY <1>5, <1>6, <1>9, <1>10 DEF PagingInv, TypeOK, WellFormed, LocalIsCurrent, VmType

LEMMA NextPagingInv == PagingInv /\ [Next]_vars => PagingInv'
<1> SUFFICES ASSUME PagingInv, [Next]_vars PROVE PagingInv'
  OBVIOUS
<1>1. TlbType' /\ LocalIsCurrent'
  BY TlbStep DEF PagingInv, TypeOK, TlbType
<1>2. TablesStep
  <2>1. CASE UNCHANGED vm
    BY <2>1 DEF PagingInv, TablesStep
  <2>2. CASE \E page \in Pages, g \in BOOLEAN : MapFresh(page, g)
    BY <2>2, MapFreshStep DEF PagingInv
  <2>3. CASE \E page \in Pages : MapDevice(page)
    BY <2>3, MapDeviceStep DEF PagingInv
  <2>4. CASE \E page \in Pages : UnmapPage(page)
    BY <2>4, UnmapPageStep DEF PagingInv
  <2>5. QED
    BY <2>1, <2>2, <2>3, <2>4 DEF Next, vars, Access
<1>3. QED
  BY <1>1, <1>2 DEF PagingInv, TablesStep, TypeOK, TlbType, WellFormed, VmType

-----------------------------------------------------------------------------
(* The invariant in the words of the runs' properties.                     *)
LEMMA InvMeaning ==
  ASSUME PagingInv
  PROVE  /\ TablesInUse = Tables(vm) /\ MappedPages = Backed(vm) /\ FramesInUse = InUse(vm)
         /\ NotExhausted => TablesInside(vm) /\ Consistent(vm, {})
<1>1. TablesInUse = Tables(vm) /\ MappedPages = Backed(vm) /\ FramesInUse = InUse(vm)
  BY DEF TablesInUse, Tables, MappedPages, Backed, FramesInUse, InUse, FrameBehind
<1>2. NotExhausted => TablesInside(vm)
  BY <1>1 DEF NotExhausted, InUse, TablesInside, PagingInv, WellFormed, Memory
<1>3. QED
  BY <1>1, <1>2 DEF PagingInv

(* Type correctness: whatever is mapped and unmapped, in whichever order,  *)
(* every entry names a frame and every table and translation is one.       *)
THEOREM PagingTypeCorrect == Spec => []TypeOK
<1>1. PagingInv => TypeOK
  BY DEF PagingInv
<1>2. QED
  BY <1>1, InitPagingInv, NextPagingInv, PTL DEF Spec

(* Until memory is exhausted, no frame is two tables, a table and a page,  *)
(* or two pages.                                                           *)
THEOREM OneUseOfFrames == Spec => []FramesHaveOneUse
<1>1. PagingInv => FramesHaveOneUse
  <2> SUFFICES ASSUME PagingInv, NotExhausted
               PROVE  /\ \A d, e \in TablesInUse : vm.pd[d].frame = vm.pd[e].frame => d = e
                      /\ \A d \in TablesInUse, p \in MappedPages : vm.pd[d].frame # FrameBehind(p)
                      /\ \A p, q \in MappedPages :
                           FrameBehind(p) = FrameBehind(q) /\ FrameBehind(p) # Device => p = q
    BY DEF FramesHaveOneUse
  <2>1. Consistent(vm, {}) /\ TablesInUse = Tables(vm) /\ MappedPages = Backed(vm)
        /\ FramesInUse = InUse(vm)
    BY InvMeaning
  <2>2. \A p \in MappedPages : FrameBehind(p) # Device => FrameBehind(p) \in Available
    BY <2>1 DEF Consistent, UsedWasAvailable, FrameBehind, NotExhausted, InUse
  <2>3. QED
    BY <2>1, <2>2 DEF Consistent, OneUse, FrameBehind
<1>2. QED
  BY <1>1, InitPagingInv, NextPagingInv, PTL DEF Spec

(* Until memory is exhausted, the frames marked in the bitmap since boot   *)
(* are exactly those some table or page uses.                              *)
THEOREM NoFrameLost == Spec => []NoFrameIsLost
<1>1. PagingInv => NoFrameIsLost
  <2> SUFFICES ASSUME PagingInv, NotExhausted
               PROVE  {f \in Available : GetPageState(vm.pmm, f)} = FramesInUse \ {Device}
    BY DEF NoFrameIsLost
  <2>1. Consistent(vm, {}) /\ FramesInUse = InUse(vm)
    BY InvMeaning
  <2>2. InUse(vm) \subseteq Available \union {Device}
    BY <2>1 DEF Consistent, UsedWasAvailable, InUse, NotExhausted
  <2>3. QED
    BY <2>1, <2>2, FramesAndBeyond DEF Consistent, MarkedIsUsed
<1>2. QED
  BY <1>1, InitPagingInv, NextPagingInv, PTL DEF Spec

(* flush_full_tlb() leaves nothing stale of the pages that are not global. *)
THEOREM LocalTlbAgrees == Spec => []LocalTlbAgreesWithTables
<1>1. PagingInv => LocalTlbAgreesWithTables
  BY DEF PagingInv, LocalIsCurrent, LocalTlbAgreesWithTables
<1>2. QED
  BY <1>1, InitPagingInv, NextPagingInv, PTL DEF Spec

(* No call for another page, and no map_page() of the same one, changes or *)
(* removes a mapping while memory is not exhausted.                        *)
THEOREM StableMappings == Spec => MappingsAreStable
<1>1. PagingInv /\ PagingInv' /\ [Next]_vars =>
        [NotExhausted /\ NotExhausted' =>
           \A page \in MappedPages :
             EntryOf(vm', page) = EntryOf(vm, page) \/ UnmapPage(page)]_vars
  <2> SUFFICES ASSUME PagingInv, PagingInv', Next, NotExhausted, NotExhausted',
                      NEW page \in MappedPages
               PROVE  EntryOf(vm', page) = EntryOf(vm, page) \/ UnmapPage(page)
    OBVIOUS
  <2>1. Consistent(vm, {}) /\ TablesInside(vm)
    BY InvMeaning
  <2>2. TablesInside(vm')
    <3>1. \A d \in Tables(vm') : vm'.pd[d].frame \in FramesInUse' \intersect Memory
      BY DEF Tables, FramesInUse, TablesInUse, PagingInv, WellFormed
    <3>2. QED
      BY <3>1 DEF NotExhausted, TablesInside, Memory
  <2>3. page \in Pages /\ IsMapped(vm, page) /\ WellFormed(vm)
    BY DEF MappedPages, PagingInv
  <2>4. ASSUME NEW q \in Pages, NEW g \in BOOLEAN, MapFresh(q, g)
        PROVE  EntryOf(vm', page) = EntryOf(vm, page)
    BY <2>1, <2>2, <2>3, <2>4, MapFreshStep DEF KeepsMapped
  <2>5. ASSUME NEW q \in Pages, MapDevice(q)
        PROVE  EntryOf(vm', page) = EntryOf(vm, page)
    BY <2>1, <2>2, <2>3, <2>5, MapDeviceStep DEF KeepsMapped
  <2>6. ASSUME NEW q \in Pages, UnmapPage(q), q # page
        PROVE  EntryOf(vm', page) = EntryOf(vm, page)
    <3>1. vm' = Unmapped(vm, q) /\ IsMapped(vm, q) /\ ~ IsUnmapped(vm, q)
      BY <2>6 DEF UnmapPage
    <3>2. QED
      BY <2>1, <2>3, <2>6, <3>1, UnmapEffect
  <2>7. ASSUME NEW q \in Pages, Access(q)
        PROVE  EntryOf(vm', page) = EntryOf(vm, page)
    BY <2>7 DEF Access
  <2>8. QED
    BY <2>4, <2>5, <2>6, <2>7 DEF Next
<1>2. QED
  BY <1>1, InitPagingInv, NextPagingInv, PTL DEF Spec, MappingsAreStable
=============================================================================
