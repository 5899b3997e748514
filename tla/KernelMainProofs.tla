-------------------------- MODULE KernelMainProofs --------------------------
(***************************************************************************)
(* Proofs about module KernelMain: the pages the self test of              *)
(* kernel_main() uses are backed, for every heap, every bitmap and every   *)
(* size of the page tables; the ids it prints at its end are those of the  *)
(* device it asked for; and the test gives the heap back as it was.        *)
(***************************************************************************)
EXTENDS KernelMain, HeapProofs, FrameBitmapProofs

(* The parts of the state of module MappedHeap, of any tables v: the calls *)
(* change the tables in several steps, and the lemmas follow the steps.    *)
Memory  == Frames \union Beyond
Entries == [present : BOOLEAN, frame : Memory, writable : BOOLEAN, global : BOOLEAN]

VmType ==
  [pmm : ManagedMemory, pd : [HeapPds -> Entries], table : [Memory -> [PtIndices -> Entries]]]

EntryFor(v, page) == EntryOf(v, Indices(page))

Tables(v) == {d \in HeapPds : v.pd[d].present}
Backed(v) == {page \in Pages : EntryFor(v, page).present}
InUse(v)  == {v.pd[d].frame : d \in Tables(v)} \union {EntryFor(v, p).frame : p \in Backed(v)}

(* Are all page tables frames of the bitmap?  From the first table beyond  *)
(* it on, nothing is promised.                                             *)
TablesInside(v) == \A d \in Tables(v) : v.pd[d].frame \in Frames

(* The bookkeeping of frames, with the frames `taken' by get_page() that   *)
(* no table holds yet.                                                     *)
HintIsFree(v) ==
  NextFrame(v.pmm) \in Frames => ~ GetPageState(v.pmm, NextFrame(v.pmm))

MarkedIsUsed(v, taken) ==
  \A f \in Frames :
    GetPageState(v.pmm, f) <=> (f \notin Available \/ f \in InUse(v) \union taken)

UsedWasAvailable(v, taken) ==
  /\ \A d \in Tables(v) : v.pd[d].frame \in Available
  /\ \A p \in Backed(v) : EntryFor(v, p).frame \in Available \union Beyond
  /\ \A f \in taken : f \in Frames => f \in Available \ InUse(v)

OneUse(v) ==
  /\ \A d, e \in Tables(v) : v.pd[d].frame = v.pd[e].frame => d = e
  /\ \A d \in Tables(v), p \in Backed(v) : v.pd[d].frame # EntryFor(v, p).frame
  /\ \A p, q \in Backed(v) :
       EntryFor(v, p).frame = EntryFor(v, q).frame /\ EntryFor(v, p).frame \in Available => p = q

Consistent(v, taken) ==
  HintIsFree(v) /\ MarkedIsUsed(v, taken) /\ UsedWasAvailable(v, taken) /\ OneUse(v)

-----------------------------------------------------------------------------
(* The indices of a page of the heap name it and no other.                 *)
LEMMA IndicesOfPage ==
  ASSUME NEW p \in Pages
  PROVE  /\ p \in Nat
         /\ Indices(p)[1] \in HeapPds /\ Indices(p)[2] \in PtIndices
         /\ \A q \in Pages : Indices(p) = Indices(q) => p = q
<1> DEFINE N(a) == a \div PageSize
<1>1. /\ PageSize \in Nat \ {0} /\ TableEntries \in Nat \ {0}
      /\ PtIndices = 0 .. TableEntries - 1
  BY HeapConstants, TableAssumption
<1>2. ASSUME NEW a \in Pages
      PROVE  a \in Nat /\ N(a) \in Nat /\ a = PageSize * N(a)
  <2>1. PICK i \in HeapStart \div PageSize .. (HeapTop - 1) \div PageSize : a = PageSize * i
    BY DEF Pages
  <2>2. HeapStart \div PageSize \in Nat
    BY <1>1, HeapConstants, DivisionRemainder
  <2>3. i \in Nat
    <3> DEFINE low == HeapStart \div PageSize
    <3>1. i \in Int /\ low <= i /\ low \in Nat
      BY <2>2
    <3> HIDE DEF low
    <3>2. QED
      BY <3>1
  <2>4. (PageSize * i + 0) \div PageSize = i
    BY <1>1, <2>3, RemainderUnique
  <2>5. a \in Nat /\ a = PageSize * i + 0
    BY <1>1, <2>1, <2>3
  <2>6. N(a) = i
    BY <2>4, <2>5
  <2>7. QED
    BY <2>3, <2>5, <2>6, <1>1
<1>3. ASSUME NEW a \in Pages
      PROVE  /\ N(a) \div TableEntries \in Nat /\ N(a) % TableEntries \in 0 .. TableEntries - 1
             /\ N(a) = TableEntries * (N(a) \div TableEntries) + (N(a) % TableEntries)
  BY <1>1, <1>2, DivisionRemainder
<1>4. \A a : Indices(a) = <<N(a) \div TableEntries, N(a) % TableEntries>>
  BY DEF Indices
<1> HIDE DEF N
<1>5. ASSUME NEW q \in Pages, Indices(p) = Indices(q) PROVE p = q
  <2>1. N(p) \div TableEntries = N(q) \div TableEntries /\ N(p) % TableEntries = N(q) % TableEntries
    BY <1>4, <1>5
  <2>2. N(p) = N(q)
    BY <1>3, <2>1
  <2>3. QED
    BY <1>2, <2>2
<1>6. Indices(p)[1] \in HeapPds /\ Indices(p)[2] \in PtIndices
  <2>1. Indices(p)[1] \in HeapPds
    BY DEF HeapPds
  <2>2. Indices(p)[2] = N(p) % TableEntries
    BY <1>4
  <2>3. QED
    BY <1>1, <1>3, <2>1, <2>2
<1>7. QED
  BY <1>2, <1>5, <1>6

LEMMA FramesAndBeyond ==
  Frames \intersect Beyond = {} /\ 0 \in Memory /\ Available \subseteq Frames
  BY SizeAssumption, AvailableAssumption DEF Frames, Beyond, Memory

LEMMA MappingType ==
  ASSUME NEW f \in Memory, NEW g \in BOOLEAN
  PROVE  /\ Mapping(f, TRUE, g) \in Entries
         /\ Mapping(f, TRUE, g).present /\ Mapping(f, TRUE, g).frame = f
  BY DEF Mapping, Entries

LEMMA AbsentType ==
  Absent \in Entries /\ ~ Absent.present /\ Empty \in [PtIndices -> Entries]
  BY FramesAndBeyond DEF Absent, Entries, Empty

(* Looking up a page gives an entry.                                       *)
LEMMA EntryType ==
  ASSUME NEW v \in VmType, NEW page \in Pages
  PROVE  /\ EntryFor(v, page) \in Entries
         /\ EntryFor(v, page).present => Indices(page)[1] \in Tables(v)
<1>1. Indices(page)[1] \in HeapPds /\ Indices(page)[2] \in PtIndices
  BY IndicesOfPage
<1>2. v.pd \in [HeapPds -> Entries] /\ v.table \in [Memory -> [PtIndices -> Entries]]
  BY DEF VmType
<1>3. CASE v.pd[Indices(page)[1]].present
  <2>1. v.pd[Indices(page)[1]].frame \in Memory
    BY <1>1, <1>2 DEF Entries
  <2>2. QED
    BY <1>1, <1>2, <1>3, <2>1 DEF EntryFor, EntryOf, Tables
<1>4. CASE ~ v.pd[Indices(page)[1]].present
  BY <1>4, AbsentType DEF EntryFor, EntryOf
<1>5. QED
  BY <1>3, <1>4

(* Equal lookups and equal tables are equal uses.                          *)
LEMMA SameUse ==
  ASSUME NEW v, NEW w, Tables(w) = Tables(v),
         \A d \in Tables(v) : w.pd[d].frame = v.pd[d].frame,
         \A p \in Pages : EntryFor(w, p) = EntryFor(v, p)
  PROVE  Backed(w) = Backed(v) /\ InUse(w) = InUse(v)
<1>1. Backed(w) = Backed(v)
  BY DEF Backed
<1>2. \A p \in Backed(v) : EntryFor(w, p) = EntryFor(v, p)
  BY DEF Backed
<1>3. QED
  BY <1>1, <1>2 DEF InUse

-----------------------------------------------------------------------------
(* get_page() of the heap: one more frame is taken.                        *)
LEMMA TakeFrame ==
  ASSUME NEW v \in VmType
  PROVE  LET w == [v EXCEPT !.pmm = AfterGetPage(v.pmm)]
         IN  /\ w \in VmType
             /\ NextFrame(v.pmm) \in Memory
             /\ w.pd = v.pd /\ w.table = v.table
             /\ Tables(w) = Tables(v)
             /\ \A p \in Pages : EntryFor(w, p) = EntryFor(v, p)
             /\ Consistent(v, {}) => Consistent(w, {NextFrame(v.pmm)})
<1> DEFINE w == [v EXCEPT !.pmm = AfterGetPage(v.pmm)]
           f == NextFrame(v.pmm)
<1>1. v.pmm \in ManagedMemory
  BY DEF VmType
<1>2. w.pmm = AfterGetPage(v.pmm) /\ w.pd = v.pd /\ w.table = v.table
  BY DEF VmType
<1>3. w \in VmType
  BY <1>1, GetPageEffect DEF VmType
<1>4. Tables(w) = Tables(v) /\ \A p \in Pages : EntryFor(w, p) = EntryFor(v, p)
  BY <1>2 DEF Tables, EntryFor, EntryOf
<1>5. f \in Memory
  BY <1>1, GetPageEffect DEF Memory
<1>6. ASSUME Consistent(v, {}) PROVE Consistent(w, {f})
  <2>1. Backed(w) = Backed(v) /\ InUse(w) = InUse(v)
    BY <1>2, <1>4, SameUse
  <2>2. f \in Frames => f \in Available \ InUse(v)
    BY <1>6 DEF Consistent, HintIsFree, MarkedIsUsed
  <2>3. HintIsFree(w)
    BY <1>1, <1>2, GetPageEffect, FramesAndBeyond DEF HintIsFree
  <2>4. MarkedIsUsed(w, {f})
    BY <1>1, <1>2, <1>6, <2>1, GetPageEffect DEF Consistent, MarkedIsUsed
  <2>5. UsedWasAvailable(w, {f})
    BY <1>2, <1>4, <1>6, <2>1, <2>2 DEF Consistent, UsedWasAvailable, Backed
  <2>6. OneUse(w)
    BY <1>2, <1>4, <1>6, <2>1 DEF Consistent, OneUse, Backed
  <2>7. QED
    BY <2>3, <2>4, <2>5, <2>6 DEF Consistent
<1>7. QED
  BY <1>2, <1>3, <1>4, <1>5, <1>6

(* map_page() where the page table is there or has to be made: no lookup   *)
(* changes, and the new table has a frame of its own.                      *)
LEMMA AddTable ==
  ASSUME NEW v \in VmType, NEW d \in HeapPds, NEW taken
  PROVE  LET w == WithTable(v, d)
         IN  /\ w \in VmType
             /\ w.pd[d].present
             /\ TablesInside(w) => TablesInside(v)
             /\ TablesInside(w) /\ Consistent(v, taken) =>
                  /\ Consistent(w, taken)
                  /\ \A p \in Pages : EntryFor(w, p) = EntryFor(v, p)
<1> DEFINE w == WithTable(v, d)
           t == NextFrame(v.pmm)
<1>1. CASE v.pd[d].present
  BY <1>1 DEF WithTable
<1>2. CASE ~ v.pd[d].present
  <2>1. v.pmm \in ManagedMemory /\ t \in Memory
    BY GetPageEffect DEF VmType, Memory
  <2>2. /\ w.pmm = AfterGetPage(v.pmm)
        /\ w.pd = [v.pd EXCEPT ![d] = Mapping(t, TRUE, FALSE)]
        /\ w.table = [f \in Memory |-> IF f = t THEN Empty ELSE v.table[f]]
    BY <1>2, <2>1 DEF WithTable, Holding, VmType
  <2>3. w \in VmType
    <3>1. w.pmm \in ManagedMemory
      BY <2>1, <2>2, GetPageEffect
    <3>2. w.pd \in [HeapPds -> Entries]
      BY ZenonT(60), <2>1, <2>2, MappingType DEF VmType
    <3>3. w.table \in [Memory -> [PtIndices -> Entries]]
      BY <2>2, AbsentType DEF VmType
    <3>4. w = [v EXCEPT !.pd = w.pd, !.table = w.table, !.pmm = w.pmm]
      BY <1>2 DEF WithTable, VmType
    <3>5. QED
      BY <3>1, <3>2, <3>3, <3>4 DEF VmType
  <2>4. /\ w.pd[d].present /\ w.pd[d].frame = t
        /\ \A e \in HeapPds \ {d} : w.pd[e] = v.pd[e]
        /\ Tables(w) = Tables(v) \union {d} /\ d \notin Tables(v)
    <3>1. w.pd[d] = Mapping(t, TRUE, FALSE) /\ \A e \in HeapPds \ {d} : w.pd[e] = v.pd[e]
      BY <2>2 DEF VmType
    <3>2. w.pd[d].present /\ w.pd[d].frame = t
      BY <3>1 DEF Mapping
    <3> HIDE DEF w
    <3>3. QED
      BY <1>2, <3>1, <3>2 DEF Tables
  <2>5. TablesInside(w) => TablesInside(v)
    BY <2>4 DEF TablesInside, Tables
  <2>6. ASSUME TablesInside(w), Consistent(v, taken)
        PROVE  /\ Consistent(w, taken)
               /\ \A p \in Pages : EntryFor(w, p) = EntryFor(v, p)
    <3>1. t \in Available \ (InUse(v) \union taken)
      BY <2>4, <2>6 DEF Consistent, HintIsFree, MarkedIsUsed, TablesInside
    <3>2. ASSUME NEW p \in Pages PROVE EntryFor(w, p) = EntryFor(v, p)
      <4> DEFINE i == Indices(p)
      <4>1. i[1] \in HeapPds /\ i[2] \in PtIndices
        BY IndicesOfPage
      <4>2. EntryFor(w, p) = EntryOf(w, i) /\ EntryFor(v, p) = EntryOf(v, i)
        BY DEF EntryFor
      <4> HIDE DEF i
      <4>3. CASE i[1] = d
        <5>1. w.table[t] = Empty
          BY <2>1, <2>2
        <5>2. EntryOf(w, i) = Empty[i[2]]
          BY <2>4, <4>3, <5>1 DEF EntryOf
        <5>3. QED
          BY <1>2, <4>1, <4>2, <4>3, <5>2 DEF EntryOf, Empty
      <4>4. CASE i[1] # d /\ v.pd[i[1]].present
        <5>1. i[1] \in Tables(v) /\ v.pd[i[1]].frame # t
          BY <3>1, <4>1, <4>4 DEF Tables, InUse
        <5>2. v.pd[i[1]].frame \in Memory
          BY <4>1 DEF VmType, Entries
        <5>3. QED
          BY <2>2, <2>4, <4>1, <4>2, <4>4, <5>1, <5>2 DEF EntryOf
      <4>5. CASE i[1] # d /\ ~ v.pd[i[1]].present
        BY <2>4, <4>1, <4>2, <4>5 DEF EntryOf
      <4>6. QED
        BY <4>3, <4>4, <4>5
    <3>3. Backed(w) = Backed(v)
      BY <3>2 DEF Backed
    <3>4. \A p \in Backed(v) : EntryFor(w, p) = EntryFor(v, p)
      BY <3>2 DEF Backed
    <3>5. \A e \in Tables(v) : w.pd[e].frame = v.pd[e].frame /\ v.pd[e].frame # t
      BY <2>4, <3>1 DEF Tables, InUse
    <3>6. InUse(w) = InUse(v) \union {t}
      BY <2>4, <3>3, <3>4, <3>5 DEF InUse
    <3>7. HintIsFree(w)
      BY <2>1, <2>2, GetPageEffect, FramesAndBeyond DEF HintIsFree
    <3>8. MarkedIsUsed(w, taken)
      BY <2>1, <2>2, <2>6, <3>6, GetPageEffect DEF Consistent, MarkedIsUsed
    <3>9. UsedWasAvailable(w, taken)
      BY <2>4, <2>6, <3>1, <3>3, <3>4, <3>5, <3>6 DEF Consistent, UsedWasAvailable
    <3>10. OneUse(w)
      <4>1. \A p \in Backed(v) : EntryFor(v, p).frame # t
        BY <3>1 DEF InUse
      <4>2. \A e, g \in Tables(w) : w.pd[e].frame = w.pd[g].frame => e = g
        BY <2>4, <2>6, <3>5 DEF Consistent, OneUse
      <4>3. \A e \in Tables(w), p \in Backed(w) : w.pd[e].frame # EntryFor(w, p).frame
        BY <2>4, <2>6, <3>3, <3>4, <3>5, <4>1 DEF Consistent, OneUse
      <4>4. QED
        BY <2>6, <3>3, <3>4, <4>2, <4>3 DEF Consistent, OneUse
    <3>11. QED
      BY <3>2, <3>7, <3>8, <3>9, <3>10 DEF Consistent
  <2>7. QED
    BY <2>3, <2>4, <2>5, <2>6
<1>3. QED
  BY <1>1, <1>2

(* The entry of a page is written where its table is there: no other       *)
(* lookup changes, since no two directory entries share a table.           *)
Written(w, page, entry) ==
  [w EXCEPT !.table[w.pd[Indices(page)[1]].frame][Indices(page)[2]] = entry]

LEMMA WriteEffect ==
  ASSUME NEW w \in VmType, NEW page \in Pages, w.pd[Indices(page)[1]].present,
         NEW entry \in Entries
  PROVE  LET x == Written(w, page, entry)
         IN  /\ x \in VmType /\ x.pmm = w.pmm /\ x.pd = w.pd
             /\ Tables(x) = Tables(w)
             /\ EntryFor(x, page) = entry
             /\ OneUse(w) => \A p \in Pages \ {page} : EntryFor(x, p) = EntryFor(w, p)
<1> DEFINE x == Written(w, page, entry)
           i == Indices(page)
           f == w.pd[i[1]].frame
<1>1. i[1] \in HeapPds /\ i[2] \in PtIndices
  BY IndicesOfPage
<1>2. i[1] \in Tables(w) /\ f \in Memory
  BY <1>1 DEF Tables, VmType, Entries
<1>3. /\ x.pmm = w.pmm /\ x.pd = w.pd
      /\ x.table = [w.table EXCEPT ![f][i[2]] = entry]
  BY DEF Written, VmType
<1>4. EntryFor(x, page) = EntryOf(x, i)
  BY DEF EntryFor
<1>5. x = [w EXCEPT !.table = x.table]
  BY DEF Written, VmType
<1>6. w.pd[i[1]].present
  OBVIOUS
<1>7. \A p \in Pages : Indices(p) = i => p = page
  BY IndicesOfPage
<1>8. \A p \in Pages : EntryFor(x, p) = EntryOf(x, Indices(p)) /\ EntryFor(w, p) = EntryOf(w, Indices(p))
  BY DEF EntryFor
<1> HIDE DEF x, i
<1>9. x \in VmType
  <2>1. x.table \in [Memory -> [PtIndices -> Entries]]
    BY <1>1, <1>2, <1>3 DEF VmType
  <2>2. QED
    BY <1>5, <2>1 DEF VmType
<1>10. Tables(x) = Tables(w)
  BY <1>3 DEF Tables
<1>11. EntryFor(x, page) = entry
  BY <1>1, <1>2, <1>3, <1>4, <1>6 DEF EntryOf, VmType
<1>12. ASSUME OneUse(w), NEW p \in Pages \ {page}
       PROVE  EntryFor(x, p) = EntryFor(w, p)
  <2> DEFINE j == Indices(p)
  <2>1. j[1] \in HeapPds /\ j[2] \in PtIndices
    BY IndicesOfPage
  <2>2. j[1] # i[1] \/ j[2] # i[2]
    <3>1. j = <<j[1], j[2]>> /\ i = <<i[1], i[2]>>
      BY DEF Indices, i
    <3>2. j # i
      BY <1>7
    <3> HIDE DEF j
    <3>3. QED
      BY <3>1, <3>2
  <2>3. EntryFor(x, p) = EntryOf(x, j) /\ EntryFor(w, p) = EntryOf(w, j)
    BY <1>8
  <2> HIDE DEF j
  <2>4. CASE ~ w.pd[j[1]].present
    BY <1>3, <2>3, <2>4 DEF EntryOf
  <2>5. CASE w.pd[j[1]].present /\ j[1] # i[1]
    <3>1. j[1] \in Tables(w) /\ w.pd[j[1]].frame # f
      BY <1>2, <1>12, <2>1, <2>5 DEF Tables, OneUse
    <3>2. w.pd[j[1]].frame \in Memory
      BY <2>1 DEF VmType, Entries
    <3>3. x.table[w.pd[j[1]].frame] = w.table[w.pd[j[1]].frame]
      BY <1>2, <1>3, <3>1, <3>2 DEF VmType
    <3>4. EntryOf(x, j) = EntryOf(w, j)
      BY <1>3, <2>5, <3>3 DEF EntryOf
    <3>5. QED
      BY <2>3, <3>4
  <2>6. CASE j[1] = i[1] /\ j[2] # i[2]
    <3>1. x.table[f][j[2]] = w.table[f][j[2]]
      BY <1>1, <1>2, <1>3, <2>1, <2>6 DEF VmType
    <3>2. w.pd[j[1]].present /\ w.pd[j[1]].frame = f /\ x.pd = w.pd
      BY <1>3, <1>6, <2>6
    <3>3. EntryOf(x, j) = EntryOf(w, j)
      BY <3>1, <3>2 DEF EntryOf
    <3>4. QED
      BY <2>3, <3>3
  <2>7. QED
    BY <2>2, <2>4, <2>5, <2>6
<1>13. QED
  BY <1>3, <1>9, <1>10, <1>11, <1>12 DEF x

(* The end of map_page(): the entry takes the frame of the caller.         *)
LEMMA MapEntry ==
  ASSUME NEW w \in VmType, NEW page \in Pages, w.pd[Indices(page)[1]].present,
         ~ EntryFor(w, page).present,
         NEW entry \in Entries, entry.present
  PROVE  LET x == Written(w, page, entry)
         IN  Consistent(w, {entry.frame}) =>
               Consistent(x, {}) /\ Backed(x) = Backed(w) \union {page}
<1> DEFINE x == Written(w, page, entry)
           f == entry.frame
<1> SUFFICES ASSUME Consistent(w, {f})
             PROVE  Consistent(x, {}) /\ Backed(x) = Backed(w) \union {page}
  OBVIOUS
<1>1. f \in Memory
  BY DEF Entries
<1>2. /\ x.pmm = w.pmm /\ x.pd = w.pd /\ Tables(x) = Tables(w)
      /\ EntryFor(x, page) = entry
      /\ \A p \in Pages \ {page} : EntryFor(x, p) = EntryFor(w, p)
  BY WriteEffect DEF Consistent
<1>3. EntryFor(x, page).present /\ EntryFor(x, page).frame = f
  BY <1>2
<1> HIDE DEF x, f
<1>4. page \notin Backed(w)
  BY DEF Backed
<1>5. Backed(x) = Backed(w) \union {page}
  BY <1>2, <1>3, <1>4 DEF Backed
<1>6. \A p \in Backed(w) : EntryFor(x, p) = EntryFor(w, p)
  BY <1>2, <1>4 DEF Backed
<1>7. InUse(x) = InUse(w) \union {f}
  BY <1>2, <1>3, <1>5, <1>6 DEF InUse
<1>8. /\ f \in Available => f \notin InUse(w)
      /\ f \in Available \union Beyond
      /\ \A d \in Tables(w) : w.pd[d].frame # f
  BY <1>1, FramesAndBeyond DEF Consistent, UsedWasAvailable, Memory, InUse
<1>9. HintIsFree(x)
  BY <1>2 DEF Consistent, HintIsFree
<1>10. MarkedIsUsed(x, {})
  BY <1>2, <1>7 DEF Consistent, MarkedIsUsed
<1>11. UsedWasAvailable(x, {})
  BY <1>2, <1>3, <1>5, <1>6, <1>8 DEF Consistent, UsedWasAvailable
<1>12. OneUse(x)
  <2>1. \A p \in Backed(w) : EntryFor(w, p).frame = f => f \notin Available
    BY <1>8 DEF InUse
  <2>2. \A d \in Tables(x), p \in Backed(x) : x.pd[d].frame # EntryFor(x, p).frame
    BY <1>2, <1>3, <1>5, <1>6, <1>8 DEF Consistent, OneUse
  <2>3. \A p, q \in Backed(x) :
          EntryFor(x, p).frame = EntryFor(x, q).frame /\ EntryFor(x, p).frame \in Available
            => p = q
    BY <1>3, <1>5, <1>6, <2>1 DEF Consistent, OneUse
  <2>4. QED
    BY <1>2, <2>2, <2>3 DEF Consistent, OneUse
<1>13. QED
  BY <1>5, <1>9, <1>10, <1>11, <1>12 DEF Consistent

(* map_page() of a fresh frame for a page that is not mapped: that page is *)
(* backed as well, unless the table is from beyond the bitmap.             *)
LEMMA MapFreshEffect ==
  ASSUME NEW v \in VmType, NEW page \in Pages, ~ EntryFor(v, page).present, NEW g \in BOOLEAN
  PROVE  LET x == AfterMapFresh(v, Indices(page), g)
         IN  /\ x \in VmType
             /\ TablesInside(x) => TablesInside(v)
             /\ TablesInside(x) /\ Consistent(v, {}) =>
                  Consistent(x, {}) /\ Backed(x) = Backed(v) \union {page}
<1> DEFINE w     == [v EXCEPT !.pmm = AfterGetPage(v.pmm)]
           f     == NextFrame(v.pmm)
           entry == Mapping(f, TRUE, g)
           i     == Indices(page)
           with  == WithTable(w, i[1])
           x     == AfterMapFresh(v, i, g)
<1>1. /\ w \in VmType /\ f \in Memory
      /\ w.pd = v.pd /\ Tables(w) = Tables(v)
      /\ \A p \in Pages : EntryFor(w, p) = EntryFor(v, p)
      /\ Consistent(v, {}) => Consistent(w, {f})
  BY TakeFrame
<1>2. x = AfterMapPage(w, i, entry)
  BY DEF AfterMapFresh
<1>3. i[1] \in HeapPds
  BY IndicesOfPage
<1>4. entry \in Entries /\ entry.present /\ entry.frame = f
  BY <1>1, MappingType
<1>5. /\ with \in VmType /\ with.pd[i[1]].present
      /\ TablesInside(with) => TablesInside(w)
      /\ TablesInside(with) /\ Consistent(w, {f}) =>
           Consistent(with, {f}) /\ \A p \in Pages : EntryFor(with, p) = EntryFor(w, p)
  BY <1>1, <1>3, AddTable
<1>6. TablesInside(w) <=> TablesInside(v)
  BY <1>1 DEF TablesInside
<1>7. x = IF EntryFor(with, page).present THEN with ELSE Written(with, page, entry)
  BY <1>2 DEF AfterMapPage, Written, IsMapped, EntryFor
<1>8. with.pd[Indices(page)[1]].present
  BY <1>5
<1> HIDE DEF w, f, entry, i, with, x
<1>9. CASE EntryFor(with, page).present
  <2>1. ~ (TablesInside(with) /\ Consistent(v, {}))
    BY <1>1, <1>5, <1>9
  <2>2. QED
    BY <1>5, <1>6, <1>7, <1>9, <2>1 DEF x, i
<1>10. CASE ~ EntryFor(with, page).present
  <2>1. x = Written(with, page, entry)
    BY <1>7, <1>10
  <2>2. x \in VmType /\ x.pd = with.pd /\ Tables(x) = Tables(with)
    BY <1>4, <1>5, <1>8, <2>1, WriteEffect
  <2>3. TablesInside(x) <=> TablesInside(with)
    BY <2>2 DEF TablesInside
  <2>4. Consistent(with, {f}) => Consistent(x, {}) /\ Backed(x) = Backed(with) \union {page}
    BY <1>4, <1>5, <1>8, <1>10, <2>1, MapEntry
  <2>5. TablesInside(x) /\ Consistent(v, {}) => Backed(with) = Backed(v)
    BY <1>1, <1>5, <2>3 DEF Backed
  <2>6. QED
    BY <1>1, <1>5, <1>6, <2>2, <2>3, <2>4, <2>5 DEF x, i
<1>11. QED
  BY <1>9, <1>10

-----------------------------------------------------------------------------
(* The inductive invariant: what the calls before the one that is going on *)
(* have mapped is what the heap counts on, and the frames are accounted    *)
(* for, as long as no page table is beyond the bitmap.                     *)
MappedInv ==
  /\ heap.mapped \subseteq Pages /\ step \in Nat
  /\ vm \in VmType
  /\ TablesInside(vm) => Consistent(vm, {}) /\ Backed(vm) \subseteq heap.mapped

LEMMA MainInit_Inv == MainInit => MappedInv
<1> SUFFICES ASSUME MainInit PROVE MappedInv
  OBVIOUS
<1>1. heap = InitialHeap /\ step = 1 /\ vm \in Unmapped
  BY DEF MainInit, MappedInit, TestInit, Init
<1>2. heap.mapped \subseteq Pages
  <2>1. heap.mapped = {PageOf(HeapStart), PageOf(HeapEnd)}
    BY <1>1 DEF InitialHeap
  <2>2. HeapStart \in HeapStart .. HeapTop - 1 /\ HeapEnd \in HeapStart .. HeapTop - 1
    BY HeapConstants
  <2>3. QED
    BY <2>1, <2>2, PageOfAddress
<1>3. /\ vm.pmm \in HandedOver
      /\ vm.pd = [d \in HeapPds |-> Absent]
      /\ vm.table = [f \in Memory |-> [t \in PtIndices |-> Mapping(0, TRUE, TRUE)]]
      /\ vm = [pmm |-> vm.pmm, pd |-> vm.pd, table |-> vm.table]
  BY <1>1 DEF Unmapped, Memory
<1>4. vm \in VmType
  <2>1. vm.pmm \in ManagedMemory
    BY <1>3, HandedOverEffect
  <2>2. vm.pd \in [HeapPds -> Entries]
    BY <1>3, AbsentType
  <2>3. vm.table \in [Memory -> [PtIndices -> Entries]]
    <3>1. Mapping(0, TRUE, TRUE) \in Entries
      BY FramesAndBeyond, MappingType
    <3>2. QED
      BY <1>3, <3>1
  <2>4. QED
    BY <1>3, <2>1, <2>2, <2>3 DEF VmType
<1>5. Tables(vm) = {}
  BY <1>3, AbsentType DEF Tables
<1>6. Backed(vm) = {}
  BY <1>4, <1>5, EntryType DEF Backed
<1>7. InUse(vm) = {}
  BY <1>5, <1>6 DEF InUse
<1>8. /\ NextFrame(vm.pmm) \in Available
      /\ \A f \in Frames : GetPageState(vm.pmm, f) <=> f \notin Available
  BY <1>3, HandedOverEffect
<1>9. Consistent(vm, {})
  <2>1. HintIsFree(vm)
    BY <1>8, FramesAndBeyond DEF HintIsFree
  <2>2. MarkedIsUsed(vm, {})
    BY <1>7, <1>8 DEF MarkedIsUsed
  <2>3. UsedWasAvailable(vm, {}) /\ OneUse(vm)
    BY <1>5, <1>6 DEF UsedWasAvailable, OneUse
  <2>4. QED
    BY <2>1, <2>2, <2>3 DEF Consistent
<1>10. QED
  BY <1>1, <1>2, <1>4, <1>6, <1>9 DEF MappedInv

(* Calls of the heap only add pages to those it counts on, and pages of    *)
(* the heap.                                                               *)
OnlyMaps == heap.mapped \subseteq heap'.mapped /\ heap'.mapped \subseteq Pages

LEMMA AllocationMaps ==
  ASSUME heap.mapped \subseteq Pages, NEW fits, NEW result, NEW size,
         heap.mapped \subseteq result.mapped, result.mapped \subseteq Pages,
         Allocates(fits, result, size)
  PROVE  OnlyMaps
<1>1. CASE UNCHANGED heap
  BY <1>1 DEF OnlyMaps
<1>2. CASE heap' = [head |-> Overwritten(result.head, result.ptr, size), mapped |-> result.mapped]
  BY <1>2 DEF OnlyMaps
<1>3. QED
  BY <1>1, <1>2 DEF Allocates, GoesWild, vars

LEMMA AfterKmallocMaps ==
  ASSUME NEW h, h.mapped \subseteq Pages, NEW size
  PROVE  /\ h.mapped \subseteq AfterKmalloc(h, size).mapped
         /\ AfterKmalloc(h, size).mapped \subseteq Pages
         /\ h.mapped \subseteq AfterKpagealloc(h, size).mapped
         /\ AfterKpagealloc(h, size).mapped \subseteq Pages
  BY DEF AfterKmalloc, AfterKpagealloc, PagesThrough

LEMMA KreallocMaps ==
  ASSUME heap.mapped \subseteq Pages, NEW p, NEW size, Krealloc(p, size)
  PROVE  OnlyMaps
<1>1. CASE UNCHANGED heap
  BY <1>1 DEF OnlyMaps
<1>2. CASE heap' = [heap EXCEPT !.head = Overwritten(heap.head, p, size)]
  BY <1>2 DEF OnlyMaps
<1>3. CASE heap'.mapped = AfterKmalloc(heap, size).mapped
  BY <1>3, AfterKmallocMaps DEF OnlyMaps
<1>4. QED
  <2>1. CASE GoesWild
    BY <1>1, <2>1 DEF GoesWild
  <2>2. CASE Keeps(p, size)
    BY <1>2, <2>2 DEF Keeps
  <2>3. CASE Moves(p, size)
    BY <1>1, <1>3, <2>3 DEF Moves, GoesWild, vars
  <2>4. QED
    BY <2>1, <2>2, <2>3 DEF Krealloc

LEMMA KfreeMaps ==
  ASSUME heap.mapped \subseteq Pages, NEW p, Kfree(p)
  PROVE  OnlyMaps
<1>1. CASE UNCHANGED heap
  BY <1>1 DEF OnlyMaps
<1>2. CASE heap' = [heap EXCEPT !.head = AfterKfree(heap.head, p - HeadSize)]
  BY <1>2 DEF OnlyMaps
<1>3. QED
  BY <1>1, <1>2 DEF Kfree, GoesWild

LEMMA TestMaps ==
  ASSUME heap.mapped \subseteq Pages, TestStep
  PROVE  OnlyMaps /\ step' = step + 1
<1>1. ASSUME NEW x, NEW n, Allocation(x, n) PROVE OnlyMaps /\ step' = step + 1
  <2>1. CASE Kmalloc(n)
    BY <1>1, <2>1, AfterKmallocMaps, AllocationMaps DEF Kmalloc, Allocation
  <2>2. CASE Kpagealloc(n)
    BY <1>1, <2>2, AfterKmallocMaps, AllocationMaps DEF Kpagealloc, Allocation
  <2>3. QED
    BY <1>1, <2>1, <2>2 DEF Allocation
<1>2. ASSUME NEW x, Release(x) PROVE OnlyMaps /\ step' = step + 1
  BY <1>2, KfreeMaps DEF Release
<1>3. ASSUME NEW n, Krealloc(block["test"], n) PROVE OnlyMaps
  BY <1>3, KreallocMaps
<1>4. QED
  BY <1>1, <1>2, <1>3 DEF TestStep

LEMMA MainNext_Inv == MappedInv /\ [MainNext]_mainVars => MappedInv'
<1> SUFFICES ASSUME MappedInv, [MainNext]_mainVars PROVE MappedInv'
  OBVIOUS
<1>1. CASE TestStep /\ UNCHANGED vm
  <2>1. OnlyMaps /\ step' = step + 1
    BY <1>1, TestMaps DEF MappedInv
  <2>2. QED
    BY <1>1, <2>1 DEF MappedInv, OnlyMaps
<1>2. CASE MapNextPage
  <2>1. PICK page \in NotPresent(heap.mapped) : vm' = AfterMapFresh(vm, Indices(page), step > 2)
    BY <1>2 DEF MapNextPage
  <2>2. /\ page \in heap.mapped /\ page \in Pages /\ ~ EntryFor(vm, page).present
        /\ (step > 2) \in BOOLEAN /\ vm \in VmType
    BY <2>1 DEF NotPresent, IsMapped, EntryFor, MappedInv
  <2>3. /\ vm' \in VmType
        /\ TablesInside(vm') => TablesInside(vm)
        /\ TablesInside(vm') /\ Consistent(vm, {}) =>
             Consistent(vm', {}) /\ Backed(vm') = Backed(vm) \union {page}
    BY <2>1, <2>2, MapFreshEffect
  <2>4. UNCHANGED <<heap, step>>
    BY <1>2 DEF MapNextPage, testVars
  <2>5. QED
    BY <2>2, <2>3, <2>4 DEF MappedInv
<1>3. CASE UNCHANGED <<heap, vm>> /\ (step' = step + 1 \/ UNCHANGED step)
  BY <1>3 DEF MappedInv
<1>4. QED
  BY <1>1, <1>2, <1>3 DEF MainNext, MappedStep, ReadPci, Loop, mainVars

(* When the test has made a call and its pages are mapped, the page table  *)
(* entries are those of the pages the heap counts on, and no frame serves  *)
(* two of them, or a page and a page table, or is lost.                    *)
THEOREM PagesAreBacked == MainSpec => []HeapPagesAreBacked
<1>1. MappedInv => HeapPagesAreBacked
  <2> SUFFICES ASSUME MappedInv, PageFrames \union TableFrames \subseteq Frames
               PROVE  /\ PresentPages \subseteq heap.mapped
                      /\ NotPresent(heap.mapped) = {} => PresentPages = heap.mapped
                      /\ \A p, q \in PresentPages : FrameOf(p) = FrameOf(q) => p = q
                      /\ \A d, e \in PresentTables : vm.pd[d].frame = vm.pd[e].frame => d = e
                      /\ PageFrames \intersect TableFrames = {}
                      /\ PageFrames \union TableFrames = {f \in Available : GetPageState(vm.pmm, f)}
    BY DEF HeapPagesAreBacked
  <2>1. /\ PresentPages = Backed(vm) /\ PresentTables = Tables(vm)
        /\ \A p : FrameOf(p) = EntryFor(vm, p).frame
    BY DEF PresentPages, PresentTables, Backed, Tables, FrameOf, IsMapped, EntryFor
  <2>2. PageFrames = {EntryFor(vm, p).frame : p \in Backed(vm)}
    BY <2>1 DEF PageFrames
  <2>3. TableFrames = {vm.pd[d].frame : d \in Tables(vm)}
    BY <2>1 DEF TableFrames
  <2>4. TablesInside(vm)
    BY <2>3 DEF TablesInside
  <2>5. Consistent(vm, {}) /\ Backed(vm) \subseteq heap.mapped
    BY <2>4 DEF MappedInv
  <2>6. \A p \in Backed(vm) : EntryFor(vm, p).frame \in Available
    BY <2>2, <2>5, FramesAndBeyond DEF Consistent, UsedWasAvailable
  <2>7. NotPresent(heap.mapped) = {} => heap.mapped \subseteq Backed(vm)
    BY DEF NotPresent, IsMapped, EntryFor, Backed, MappedInv
  <2>8. PageFrames \union TableFrames = {f \in Available : GetPageState(vm.pmm, f)}
    <3>1. InUse(vm) = PageFrames \union TableFrames
      BY <2>2, <2>3 DEF InUse
    <3>2. InUse(vm) \subseteq Available
      BY <2>5, <2>6 DEF InUse, Consistent, UsedWasAvailable
    <3>3. \A f \in Available : GetPageState(vm.pmm, f) <=> f \in InUse(vm)
      BY <2>5, FramesAndBeyond DEF Consistent, MarkedIsUsed
    <3>4. QED
      BY <3>1, <3>2, <3>3
  <2>9. \A p, q \in PresentPages : FrameOf(p) = FrameOf(q) => p = q
    BY <2>1, <2>5, <2>6 DEF Consistent, OneUse
  <2>10. PageFrames \intersect TableFrames = {}
    BY <2>2, <2>3, <2>5 DEF Consistent, OneUse
  <2>11. QED
    BY <2>1, <2>5, <2>7, <2>8, <2>9, <2>10 DEF Consistent, OneUse
<1>2. QED
  BY <1>1, MainInit_Inv, MainNext_Inv, PTL DEF MainSpec

-----------------------------------------------------------------------------
(* The numbers of 16 bits.  What the sum over the bits of a word is, is    *)
(* written out: the library's fold is the only solution of its equation.   *)
LEMMA PowersOfTwo ==
  /\ 2^0 = 1 /\ 2^1 = 2 /\ 2^2 = 4 /\ 2^3 = 8 /\ 2^4 = 16 /\ 2^5 = 32 /\ 2^6 = 64 /\ 2^7 = 128
  /\ 2^8 = 256 /\ 2^9 = 512 /\ 2^10 = 1024 /\ 2^11 = 2048 /\ 2^12 = 4096 /\ 2^13 = 8192
  /\ 2^14 = 16384 /\ 2^15 = 32768
  OBVIOUS

Weight(word, b, value) == IF b \in word THEN value ELSE 0

LowByte(word) ==
  Weight(word, 0, 1) + Weight(word, 1, 2) + Weight(word, 2, 4) + Weight(word, 3, 8)
    + Weight(word, 4, 16) + Weight(word, 5, 32) + Weight(word, 6, 64) + Weight(word, 7, 128)

HighByte(word) ==
  Weight(word, 8, 256) + Weight(word, 9, 512) + Weight(word, 10, 1024) + Weight(word, 11, 2048)
    + Weight(word, 12, 4096) + Weight(word, 13, 8192) + Weight(word, 14, 16384)
    + Weight(word, 15, 32768)

Value(word) == LowByte(word) + HighByte(word)

LEMMA ValueType == \A word : Value(word) \in Nat
<1> SUFFICES ASSUME NEW word PROVE Value(word) \in Nat
  OBVIOUS
<1>1. LowByte(word) \in Nat
  BY DEF LowByte, Weight
<1>2. HighByte(word) \in Nat
  BY DEF HighByte, Weight
<1>3. QED
  BY <1>1, <1>2 DEF Value

(* Without one of its bits a word has that power of two less.              *)
LEMMA OneBitLess ==
  ASSUME NEW word, NEW b \in 0 .. 15, b \in word
  PROVE  Value(word) = 2^b + Value(word \ {b}) /\ 2^b \in Nat \ {0}
<1> DEFINE less == word \ {b}
           Parts(c, v) == /\ Weight(word, c, v) = Weight({b}, c, v) + Weight(less, c, v)
                          /\ Weight({b}, c, v) \in Nat /\ Weight(less, c, v) \in Nat
<1>1. LowByte(word) = LowByte({b}) + LowByte(less)
  <2>1. /\ Parts(0, 1) /\ Parts(1, 2) /\ Parts(2, 4) /\ Parts(3, 8)
        /\ Parts(4, 16) /\ Parts(5, 32) /\ Parts(6, 64) /\ Parts(7, 128)
    BY DEF Weight
  <2> HIDE DEF less
  <2>2. QED
    BY <2>1 DEF LowByte
<1>2. HighByte(word) = HighByte({b}) + HighByte(less)
  <2>1. Parts(8, 256) /\ Parts(9, 512) /\ Parts(10, 1024) /\ Parts(11, 2048)
    BY DEF Weight
  <2>2. Parts(12, 4096) /\ Parts(13, 8192) /\ Parts(14, 16384) /\ Parts(15, 32768)
    BY DEF Weight
  <2> HIDE DEF less
  <2>3. QED
    BY <2>1, <2>2 DEF HighByte
<1>3. ASSUME NEW s PROVE LowByte(s) \in Nat /\ HighByte(s) \in Nat
  <2>1. \A c : \A v \in Nat : Weight(s, c, v) \in Nat
    BY DEF Weight
  <2>2. QED
    BY <2>1 DEF LowByte, HighByte
<1>4. Value(word) = Value({b}) + Value(less)
  <2> HIDE DEF less
  <2>1. QED
    BY <1>1, <1>2, <1>3 DEF Value
<1>5. Value({b}) = 2^b /\ 2^b \in Nat \ {0}
  <2>1. \A c, v : Weight({b}, c, v) = IF c = b THEN v ELSE 0
    BY DEF Weight
  <2> HIDE DEF less
  <2>2. b = 0 => Value({b}) = 2^b /\ 2^b \in Nat \ {0}
    BY <2>1, PowersOfTwo DEF Value, LowByte, HighByte
  <2>3. b = 1 => Value({b}) = 2^b /\ 2^b \in Nat \ {0}
    BY <2>1, PowersOfTwo DEF Value, LowByte, HighByte
  <2>4. b = 2 => Value({b}) = 2^b /\ 2^b \in Nat \ {0}
    BY <2>1, PowersOfTwo DEF Value, LowByte, HighByte
  <2>5. b = 3 => Value({b}) = 2^b /\ 2^b \in Nat \ {0}
    BY <2>1, PowersOfTwo DEF Value, LowByte, HighByte
  <2>6. b = 4 => Value({b}) = 2^b /\ 2^b \in Nat \ {0}
    BY <2>1, PowersOfTwo DEF Value, LowByte, HighByte
  <2>7. b = 5 => Value({b}) = 2^b /\ 2^b \in Nat \ {0}
    BY <2>1, PowersOfTwo DEF Value, LowByte, HighByte
  <2>8. b = 6 => Value({b}) = 2^b /\ 2^b \in Nat \ {0}
    BY <2>1, PowersOfTwo DEF Value, LowByte, HighByte
  <2>9. b = 7 => Value({b}) = 2^b /\ 2^b \in Nat \ {0}
    BY <2>1, PowersOfTwo DEF Value, LowByte, HighByte
  <2>10. b = 8 => Value({b}) = 2^b /\ 2^b \in Nat \ {0}
    BY <2>1, PowersOfTwo DEF Value, LowByte, HighByte
  <2>11. b = 9 => Value({b}) = 2^b /\ 2^b \in Nat \ {0}
    BY <2>1, PowersOfTwo DEF Value, LowByte, HighByte
  <2>12. b = 10 => Value({b}) = 2^b /\ 2^b \in Nat \ {0}
    BY <2>1, PowersOfTwo DEF Value, LowByte, HighByte
  <2>13. b = 11 => Value({b}) = 2^b /\ 2^b \in Nat \ {0}
    BY <2>1, PowersOfTwo DEF Value, LowByte, HighByte
  <2>14. b = 12 => Value({b}) = 2^b /\ 2^b \in Nat \ {0}
    BY <2>1, PowersOfTwo DEF Value, LowByte, HighByte
  <2>15. b = 13 => Value({b}) = 2^b /\ 2^b \in Nat \ {0}
    BY <2>1, PowersOfTwo DEF Value, LowByte, HighByte
  <2>16. b = 14 => Value({b}) = 2^b /\ 2^b \in Nat \ {0}
    BY <2>1, PowersOfTwo DEF Value, LowByte, HighByte
  <2>17. b = 15 => Value({b}) = 2^b /\ 2^b \in Nat \ {0}
    BY <2>1, PowersOfTwo DEF Value, LowByte, HighByte
  <2>18. QED
    BY <2>2, <2>3, <2>4, <2>5, <2>6, <2>7, <2>8, <2>9,
       <2>10, <2>11, <2>12, <2>13, <2>14, <2>15, <2>16, <2>17
<1>6. QED
  BY <1>4, <1>5

LEMMA NumberOfIs ==
  ASSUME NEW word \in SUBSET (0 .. 15)
  PROVE  Bus!NumberOf(word) = Value(word)
<1> DEFINE F(f, s) == IF s = {} THEN 0
                      ELSE LET x == CHOOSE x \in s : TRUE IN 2^x + f[s \ {x}]
           sum  == [s \in SUBSET word |-> Value(s)]
           iter == CHOOSE f : f = [s \in SUBSET word |-> F(f, s)]
<1>1. ASSUME NEW f, NEW s \in SUBSET word, s # {},
             f[s \ {CHOOSE x \in s : TRUE}] = Value(s \ {CHOOSE x \in s : TRUE})
      PROVE  F(f, s) = Value(s)
  <2> DEFINE x == CHOOSE x \in s : TRUE
  <2>1. x \in s /\ x \in 0 .. 15
    BY <1>1
  <2>2. F(f, s) = 2^x + f[s \ {x}]
    BY <1>1
  <2> HIDE DEF F, x
  <2>3. QED
    BY <1>1, <2>1, <2>2, OneBitLess DEF x
<1>2. Value({}) = 0
  BY DEF Value, LowByte, HighByte, Weight
<1>3. sum = [s \in SUBSET word |-> F(sum, s)]
  <2>1. \A s \in SUBSET word : sum[s] = Value(s)
    OBVIOUS
  <2>2. ASSUME NEW s \in SUBSET word PROVE F(sum, s) = Value(s)
    <3>1. CASE s = {}
      BY <1>2, <3>1
    <3>2. CASE s # {}
      <4>1. s \ {CHOOSE x \in s : TRUE} \in SUBSET word
        OBVIOUS
      <4> HIDE DEF F, sum
      <4>2. QED
        BY <1>1, <2>1, <3>2, <4>1
    <3>3. QED
      BY <3>1, <3>2
  <2> HIDE DEF F
  <2>3. QED
    BY <2>2
<1>4. iter = [s \in SUBSET word |-> F(iter, s)]
  <2> HIDE DEF F, sum
  <2>1. QED
    BY <1>3
<1>5. Bus!NumberOf(word) = iter[word]
  BY DEF Bus!NumberOf, Bus!MapThenSumSet, Bus!MapThenFoldSet, MapThenSumSet, MapThenFoldSet
<1>6. \A s \in SUBSET word : iter[s] = F(iter, s)
  <2> HIDE DEF F, iter
  <2>1. QED
    BY <1>4
<1>7. \A s \in SUBSET word : iter[s] = Value(s)
  <2> DEFINE wrong == {s \in SUBSET word : iter[s] # Value(s)}
             values == {Value(s) : s \in wrong}
  <2> SUFFICES ASSUME wrong # {} PROVE FALSE
    OBVIOUS
  <2>1. values \in SUBSET Nat /\ values # {}
    BY ValueType
  <2>2. PICK v \in values : \A w \in values : v <= w
    BY <2>1, LeastNumber
  <2>3. PICK s \in wrong : v = Value(s)
    BY <2>2
  <2> HIDE DEF F, iter
  <2>4. \A r \in wrong : Value(s) <= Value(r)
    BY <2>2, <2>3
  <2>5. s # {}
    <3>1. F(iter, {}) = 0
      BY DEF F
    <3>2. QED
      BY <1>2, <1>6, <2>3, <3>1
  <2> DEFINE x == CHOOSE x \in s : TRUE
  <2>6. x \in s /\ x \in 0 .. 15
    BY <2>3, <2>5
  <2> HIDE DEF x
  <2>7. Value(s) = 2^x + Value(s \ {x}) /\ 2^x \in Nat \ {0}
    BY <2>6, OneBitLess
  <2>8. Value(s \ {x}) < Value(s)
    BY <2>7, ValueType
  <2>9. s \ {x} \notin wrong
    BY <2>4, <2>8, ValueType
  <2>10. iter[s \ {x}] = Value(s \ {x})
    BY <2>3, <2>9
  <2>11. F(iter, s) = Value(s)
    BY <1>1, <2>3, <2>5, <2>10 DEF x
  <2>12. QED
    BY <1>6, <2>3, <2>11
<1>8. QED
  BY <1>5, <1>7

(* The bits of a number of 8 bits, and back.                               *)
LEMMA WordOfIs ==
  ASSUME NEW n \in 0 .. 255
  PROVE  /\ Bus!WordOf(n) \subseteq 0 .. 7
         /\ n < 32 => Bus!WordOf(n) \subseteq 0 .. 4
         /\ n < 8 => Bus!WordOf(n) \subseteq 0 .. 2
         /\ Bus!NumberOf(Bus!WordOf(n)) = n
<1> DEFINE w == Bus!WordOf(n)
<1> DEFINE Digit(b) == b \in w <=> (n \div 2^b) % 2 = 1
<1>0. w \subseteq 0 .. 15
  BY DEF Bus!WordOf
<1>1. \A b \in 0 .. 15 : Digit(b)
  BY DEF Bus!WordOf
<1> HIDE DEF w
<1>2. 0 \in w <=> (n \div 1) % 2 = 1
  <2>1. Digit(0)
    BY <1>1
  <2>2. QED
    BY <2>1, PowersOfTwo
<1>3. 1 \in w <=> (n \div 2) % 2 = 1
  <2>1. Digit(1)
    BY <1>1
  <2>2. QED
    BY <2>1, PowersOfTwo
<1>4. 2 \in w <=> (n \div 4) % 2 = 1
  <2>1. Digit(2)
    BY <1>1
  <2>2. QED
    BY <2>1, PowersOfTwo
<1>5. 3 \in w <=> (n \div 8) % 2 = 1
  <2>1. Digit(3)
    BY <1>1
  <2>2. QED
    BY <2>1, PowersOfTwo
<1>6. 4 \in w <=> (n \div 16) % 2 = 1
  <2>1. Digit(4)
    BY <1>1
  <2>2. QED
    BY <2>1, PowersOfTwo
<1>7. 5 \in w <=> (n \div 32) % 2 = 1
  <2>1. Digit(5)
    BY <1>1
  <2>2. QED
    BY <2>1, PowersOfTwo
<1>8. 6 \in w <=> (n \div 64) % 2 = 1
  <2>1. Digit(6)
    BY <1>1
  <2>2. QED
    BY <2>1, PowersOfTwo
<1>9. 7 \in w <=> (n \div 128) % 2 = 1
  <2>1. Digit(7)
    BY <1>1
  <2>2. QED
    BY <2>1, PowersOfTwo
<1>10. 8 \notin w /\ 9 \notin w /\ 10 \notin w /\ 11 \notin w
  <2>1. Digit(8) /\ Digit(9) /\ Digit(10) /\ Digit(11)
    BY <1>1
  <2>2. QED
    BY <2>1, PowersOfTwo
<1>11. 12 \notin w /\ 13 \notin w /\ 14 \notin w /\ 15 \notin w
  <2>1. Digit(12) /\ Digit(13) /\ Digit(14) /\ Digit(15)
    BY <1>1
  <2>2. QED
    BY <2>1, PowersOfTwo
<1>12. w \subseteq 0 .. 7
  BY <1>0, <1>10, <1>11
<1>13. n < 32 => w \subseteq 0 .. 4
  <2>1. n < 32 => 5 \notin w /\ 6 \notin w /\ 7 \notin w
    BY <1>7, <1>8, <1>9
  <2>2. QED
    BY <1>12, <2>1
<1>14. n < 8 => w \subseteq 0 .. 2
  <2>1. n < 8 => 3 \notin w /\ 4 \notin w
    BY <1>5, <1>6
  <2>2. n < 8 => n < 32
    OBVIOUS
  <2>3. QED
    BY <1>13, <2>1, <2>2
<1>15. HighByte(w) = 0
  BY <1>10, <1>11 DEF HighByte, Weight
<1>16. LowByte(w) = n
  <2>1. /\ Weight(w, 0, 1) = n % 2 /\ Weight(w, 1, 2) = 2 * ((n \div 2) % 2)
        /\ Weight(w, 2, 4) = 4 * ((n \div 4) % 2) /\ Weight(w, 3, 8) = 8 * ((n \div 8) % 2)
    BY <1>2, <1>3, <1>4, <1>5 DEF Weight
  <2>2. /\ Weight(w, 4, 16) = 16 * ((n \div 16) % 2) /\ Weight(w, 5, 32) = 32 * ((n \div 32) % 2)
        /\ Weight(w, 6, 64) = 64 * ((n \div 64) % 2) /\ Weight(w, 7, 128) = 128 * ((n \div 128) % 2)
    BY <1>6, <1>7, <1>8, <1>9 DEF Weight
  <2>3. n = (n % 2) + 2 * ((n \div 2) % 2) + 4 * ((n \div 4) % 2) + 8 * ((n \div 8) % 2)
              + 16 * ((n \div 16) % 2) + 32 * ((n \div 32) % 2) + 64 * ((n \div 64) % 2)
              + 128 * ((n \div 128) % 2)
    OBVIOUS
  <2>4. QED
    BY <2>1, <2>2, <2>3 DEF LowByte
<1>17. Bus!NumberOf(w) = n
  <2>1. w \in SUBSET (0 .. 15)
    BY <1>12
  <2>2. QED
    BY <1>15, <1>16, <2>1, NumberOfIs DEF Value
<1>18. QED
  BY <1>12, <1>13, <1>14, <1>17 DEF w

(* What the host bridge reads out of an address that pci_read_config() has *)
(* composed is what it was composed of.                                    *)
ReadsAs(address, bus, slot, func, reg) ==
  /\ 31 \in address
  /\ Bus!Field(address, 16, 23) = Bus!WordOf(bus)
  /\ Bus!Field(address, 11, 15) = Bus!WordOf(slot)
  /\ Bus!Field(address, 8, 10) = Bus!WordOf(func)
  /\ Bus!Field(address, 0, 7) = Bus!WordOf(reg)

LEMMA AddressFields ==
  ASSUME NEW bus \in 0 .. 255, NEW slot \in 0 .. 31, NEW func \in 0 .. 7, NEW reg \in {0, 8, 12}
  PROVE  ReadsAs(Bus!ConfigAddress(bus, slot, func, reg), bus, slot, func, reg)
<1> DEFINE address == Bus!ConfigAddress(bus, slot, func, reg)
<1>1. /\ Bus!WordOf(bus) \subseteq 0 .. 7 /\ Bus!WordOf(slot) \subseteq 0 .. 4
      /\ Bus!WordOf(func) \subseteq 0 .. 2 /\ Bus!WordOf(reg) \subseteq 0 .. 7
  BY WordOfIs
<1>2. 0 \notin Bus!WordOf(reg) /\ 1 \notin Bus!WordOf(reg)
  BY PowersOfTwo DEF Bus!WordOf
<1>3. \A b : b \in address <=>
        \/ b = 31
        \/ b \in 16 .. 23 /\ b - 16 \in Bus!WordOf(bus)
        \/ b \in 11 .. 15 /\ b - 11 \in Bus!WordOf(slot)
        \/ b \in 8 .. 10 /\ b - 8 \in Bus!WordOf(func)
        \/ b \in Bus!WordOf(reg)
  BY <1>1, <1>2 DEF Bus!ConfigAddress, Bus!Enable, Bus!ShiftedLeft, Bus!AllOnes
<1>4. address \subseteq Int
  BY <1>1, <1>3
<1> HIDE DEF address
<1>5. ASSUME NEW first \in Nat, NEW last \in Nat, NEW b
      PROVE  b \in Bus!Field(address, first, last) <=>
               b \in 0 .. last - first /\ b + first \in address
  <2>1. ASSUME b \in Bus!Field(address, first, last)
        PROVE  b \in 0 .. last - first /\ b + first \in address
    <3>1. PICK c \in address : c >= first /\ b = c - first /\ b < last - first + 1
      BY <2>1 DEF Bus!Field, Bus!LowBits, Bus!ShiftedRight
    <3>2. c \in Int
      BY <1>4
    <3>3. QED
      BY <3>1, <3>2
  <2>2. ASSUME b \in 0 .. last - first, b + first \in address
        PROVE  b \in Bus!Field(address, first, last)
    <3>1. b + first >= first /\ b = (b + first) - first /\ b < last - first + 1
      BY <2>2
    <3>2. QED
      BY <2>2, <3>1 DEF Bus!Field, Bus!LowBits, Bus!ShiftedRight
  <2>3. QED
    BY <2>1, <2>2
<1>6. Bus!Field(address, 16, 23) = Bus!WordOf(bus)
  <2>1. ASSUME NEW b PROVE b \in Bus!Field(address, 16, 23) <=> b \in Bus!WordOf(bus)
    <3>1. b \in Bus!Field(address, 16, 23) <=> b \in 0 .. 23 - 16 /\ b + 16 \in address
      BY <1>5
    <3>2. CASE b \in 0 .. 7
      BY <1>1, <1>3, <3>1, <3>2
    <3>3. CASE b \notin 0 .. 7
      BY <1>1, <3>1, <3>3
    <3>4. QED
      BY <3>2, <3>3
  <2>2. QED
    BY <2>1
<1>7. Bus!Field(address, 11, 15) = Bus!WordOf(slot)
  <2>1. ASSUME NEW b PROVE b \in Bus!Field(address, 11, 15) <=> b \in Bus!WordOf(slot)
    <3>1. b \in Bus!Field(address, 11, 15) <=> b \in 0 .. 15 - 11 /\ b + 11 \in address
      BY <1>5
    <3>2. CASE b \in 0 .. 4
      BY <1>1, <1>3, <3>1, <3>2
    <3>3. CASE b \notin 0 .. 4
      BY <1>1, <3>1, <3>3
    <3>4. QED
      BY <3>2, <3>3
  <2>2. QED
    BY <2>1
<1>8. Bus!Field(address, 8, 10) = Bus!WordOf(func)
  <2>1. ASSUME NEW b PROVE b \in Bus!Field(address, 8, 10) <=> b \in Bus!WordOf(func)
    <3>1. b \in Bus!Field(address, 8, 10) <=> b \in 0 .. 10 - 8 /\ b + 8 \in address
      BY <1>5
    <3>2. CASE b \in 0 .. 2
      BY <1>1, <1>3, <3>1, <3>2
    <3>3. CASE b \notin 0 .. 2
      BY <1>1, <3>1, <3>3
    <3>4. QED
      BY <3>2, <3>3
  <2>2. QED
    BY <2>1
<1>9. Bus!Field(address, 0, 7) = Bus!WordOf(reg)
  <2>1. ASSUME NEW b PROVE b \in Bus!Field(address, 0, 7) <=> b \in Bus!WordOf(reg)
    <3>1. b \in Bus!Field(address, 0, 7) <=> b \in 0 .. 7 - 0 /\ b + 0 \in address
      BY <1>5
    <3>2. CASE b \in 0 .. 7
      BY <1>1, <1>3, <3>1, <3>2
    <3>3. CASE b \notin 0 .. 7
      BY <1>1, <3>1, <3>3
    <3>4. QED
      BY <3>2, <3>3
  <2>2. QED
    BY <2>1
<1>10. QED
  BY <1>3, <1>6, <1>7, <1>8, <1>9 DEF ReadsAs, address

(* The host bridge answers for the device that was asked for, or not.      *)
LEMMA DeviceAnswers ==
  ASSUME NEW devices \in Machines, NEW where \in Wanted, NEW reg \in {0, 8, 12}
  PROVE  Bus!ReadConfig(devices, where, reg) =
           IF where \in DOMAIN devices THEN devices[where][reg] ELSE Bus!AllOnes
<1>1. PICK bus \in 0 .. 255, slot \in 0 .. 31, func \in 0 .. 7 : where = <<bus, slot, func>>
  <2>1. where \in (0 .. 255) \X (0 .. 31) \X (0 .. 7)
    BY MachinesAssumption
  <2>2. /\ where = <<where[1], where[2], where[3]>>
        /\ where[1] \in 0 .. 255 /\ where[2] \in 0 .. 31 /\ where[3] \in 0 .. 7
    BY <2>1
  <2>3. QED
    BY <2>2
<1> DEFINE address == Bus!ConfigAddress(bus, slot, func, reg)
<1>2. /\ 31 \in address
      /\ Bus!Field(address, 16, 23) = Bus!WordOf(bus)
      /\ Bus!Field(address, 11, 15) = Bus!WordOf(slot)
      /\ Bus!Field(address, 8, 10) = Bus!WordOf(func)
      /\ Bus!Field(address, 0, 7) = Bus!WordOf(reg)
  <2>1. ReadsAs(address, bus, slot, func, reg)
    BY AddressFields
  <2> HIDE DEF address
  <2>2. QED
    BY <2>1 DEF ReadsAs
<1>3. slot \in 0 .. 255 /\ func \in 0 .. 255 /\ reg \in 0 .. 255
  OBVIOUS
<1>4. /\ Bus!NumberOf(Bus!WordOf(bus)) = bus /\ Bus!NumberOf(Bus!WordOf(slot)) = slot
      /\ Bus!NumberOf(Bus!WordOf(func)) = func /\ Bus!NumberOf(Bus!WordOf(reg)) = reg
  BY <1>3, WordOfIs
<1>5. Bus!ReadConfig(devices, where, reg) = Bus!Answer(devices, address)
  BY <1>1 DEF Bus!ReadConfig
<1> HIDE DEF address
<1>6. QED
  BY <1>1, <1>2, <1>4, <1>5 DEF Bus!Answer

-----------------------------------------------------------------------------
(* The digits iprint() prints.  The recursive function is built up from    *)
(* its restrictions to the numbers up to k, which agree where they meet.   *)
Digits(f, m) == IF m > 9 THEN Append(f[m \div 10], m % 10) ELSE <<m>>

UpTo(f, k) == f = [m \in 0 .. k |-> Digits(f, m)]

LEMMA TenthIsLess ==
  ASSUME NEW m \in Nat, m > 9
  PROVE  m \div 10 \in Nat /\ m \div 10 < m /\ m \div 10 > 0
         /\ m % 10 \in 0 .. 9 /\ m = 10 * (m \div 10) + (m % 10)
  OBVIOUS

LEMMA PrintUpTo == \A k \in Nat : \E f : UpTo(f, k)
<1> DEFINE wrong == {k \in Nat : ~ \E f : UpTo(f, k)}
<1> SUFFICES ASSUME wrong # {} PROVE FALSE
  OBVIOUS
<1>1. PICK k \in wrong : \A j \in wrong : k <= j
  <2>1. wrong \in SUBSET Nat
    OBVIOUS
  <2>2. QED
    BY <2>1, LeastNumber
<1>2. \E f : \A m \in 0 .. k : m > 9 => /\ m \div 10 \in DOMAIN f
                                       /\ f[m \div 10] = Digits(f, m \div 10)
  <2>1. CASE k = 0
    BY <2>1
  <2>2. CASE k > 0
    <3>1. k - 1 \in Nat /\ k - 1 \notin wrong
      BY <1>1, <2>2
    <3>2. PICK f : UpTo(f, k - 1)
      BY <3>1
    <3>3. DOMAIN f = 0 .. k - 1 /\ \A m \in 0 .. k - 1 : f[m] = Digits(f, m)
      BY <3>2 DEF UpTo
    <3>4. \A m \in 0 .. k : m > 9 => m \div 10 \in 0 .. k - 1
      BY <1>1, TenthIsLess
    <3>5. QED
      BY <3>3, <3>4
  <2>3. QED
    BY <1>1, <2>1, <2>2
<1>3. PICK f : \A m \in 0 .. k : m > 9 => /\ m \div 10 \in DOMAIN f
                                       /\ f[m \div 10] = Digits(f, m \div 10)
  BY <1>2
<1> DEFINE g == [m \in 0 .. k |-> Digits(f, m)]
<1>4. ASSUME NEW m \in 0 .. k PROVE Digits(g, m) = Digits(f, m)
  <2>1. CASE m > 9
    <3>1. m \div 10 \in 0 .. k
      BY <1>1, <2>1, TenthIsLess
    <3>2. g[m \div 10] = f[m \div 10]
      BY <1>3, <2>1, <3>1
    <3>3. QED
      BY <3>2 DEF Digits
  <2>2. CASE ~ m > 9
    BY <2>2 DEF Digits
  <2>3. QED
    BY <2>1, <2>2
<1>5. UpTo(g, k)
  BY <1>4 DEF UpTo
<1>6. QED
  BY <1>1, <1>5

LEMMA PrintAgrees ==
  ASSUME NEW f, NEW g, NEW j \in Nat, NEW k \in Nat, UpTo(f, j), UpTo(g, k)
  PROVE  \A m \in Nat : m <= j /\ m <= k => f[m] = g[m]
<1> DEFINE wrong == {m \in Nat : m <= j /\ m <= k /\ f[m] # g[m]}
<1> SUFFICES ASSUME wrong # {} PROVE FALSE
  OBVIOUS
<1>1. PICK m \in wrong : \A n \in wrong : m <= n
  <2>1. wrong \in SUBSET Nat
    OBVIOUS
  <2>2. QED
    BY <2>1, LeastNumber
<1>2. f[m] = Digits(f, m) /\ g[m] = Digits(g, m)
  <2>1. m \in 0 .. j /\ m \in 0 .. k
    BY <1>1
  <2>2. QED
    BY <2>1 DEF UpTo
<1>3. m > 9 => f[m \div 10] = g[m \div 10]
  <2>1. m > 9 => m \div 10 \in Nat /\ m \div 10 < m
    BY <1>1, TenthIsLess
  <2>2. QED
    BY <1>1, <2>1
<1>4. QED
  BY <1>1, <1>2, <1>3 DEF Digits

(* The equation of iprint() has a solution, and Iprint is one.             *)
LEMMA IprintIs ==
  ASSUME NEW n \in Nat
  PROVE  Iprint(n) = IF n > 9 THEN Append(Iprint(n \div 10), n % 10) ELSE <<n>>
<1> DEFINE Part(k) == CHOOSE f : UpTo(f, k)
           whole   == [m \in Nat |-> Part(m)[m]]
           digits  == CHOOSE f : f = [m \in Nat |-> Digits(f, m)]
<1>1. \A k \in Nat : UpTo(Part(k), k)
  BY PrintUpTo
<1> HIDE DEF Part
<1>2. ASSUME NEW m \in Nat PROVE Part(m)[m] = Digits(whole, m)
  <2>1. Part(m)[m] = Digits(Part(m), m)
    <3>1. m \in 0 .. m /\ UpTo(Part(m), m)
      BY <1>1
    <3>2. QED
      BY <3>1 DEF UpTo
  <2>2. ASSUME m > 9 PROVE Part(m)[m \div 10] = whole[m \div 10]
    <3>1. m \div 10 \in Nat /\ m \div 10 <= m
      BY <2>2, TenthIsLess
    <3>2. Part(m)[m \div 10] = Part(m \div 10)[m \div 10]
      BY <1>1, <3>1, PrintAgrees
    <3>3. QED
      BY <3>1, <3>2
  <2>3. QED
    BY <2>1, <2>2 DEF Digits
<1>3. whole = [m \in Nat |-> Digits(whole, m)]
  BY <1>2
<1>4. digits = [m \in Nat |-> Digits(digits, m)]
  <2> HIDE DEF whole
  <2>1. QED
    BY <1>3
<1>5. \A m : Iprint(m) = digits[m]
  BY DEF Iprint, Digits
<1> HIDE DEF digits
<1>6. \A m \in Nat : digits[m] = Digits(digits, m)
  BY <1>4
<1>7. QED
  BY <1>5, <1>6, TenthIsLess DEF Digits

-----------------------------------------------------------------------------
(* The number a sequence of digits stands for: the fold over the digits is *)
(* the last of the numbers v that its beginnings stand for.                *)
Reads(v, digits) ==
  /\ v \in [0 .. Len(digits) -> Nat] /\ v[0] = 0
  /\ \A i \in 1 .. Len(digits) : v[i] = 10 * v[i - 1] + digits[i]

NumberRead(digits) == FoldLeft(LAMBDA value, digit : 10 * value + digit, 0, digits)

(* The step of the library's fold, from the set s of places on.            *)
Step(f, digits, s) ==
  IF s = {} THEN 0 ELSE 10 * f[s \ {Max(s)}] + digits[Max(s)]

LEMMA MaxIs ==
  ASSUME NEW k \in Nat, NEW s \in SUBSET (1 .. k), k \in s
  PROVE  Max(s) = k
<1>1. k \in s /\ \A y \in s : k >= y
  OBVIOUS
<1>2. \A x \in s : (\A y \in s : x >= y) => x = k
  OBVIOUS
<1>3. QED
  BY <1>1, <1>2 DEF Max

LEMMA MaxInside ==
  ASSUME NEW k \in Nat, NEW s \in SUBSET (1 .. k), s # {}
  PROVE  Max(s) \in s
<1> DEFINE tops == {k - x : x \in s}
<1>1. tops \in SUBSET Nat /\ tops # {}
  <2>1. \A x \in s : k - x \in Nat
    OBVIOUS
  <2>2. PICK x \in s : TRUE
    OBVIOUS
  <2>3. k - x \in tops
    OBVIOUS
  <2>4. QED
    BY <2>1, <2>3
<1>2. PICK t \in tops : \A u \in tops : t <= u
  BY <1>1, LeastNumber
<1>3. PICK x \in s : t = k - x
  BY <1>2
<1>4. \A y \in s : x >= y
  <2> SUFFICES ASSUME NEW y \in s PROVE x >= y
    OBVIOUS
  <2>1. k - y \in tops
    OBVIOUS
  <2>2. k - x <= k - y
    BY <1>2, <1>3, <2>1
  <2>3. QED
    BY <2>2
<1>5. QED
  BY <1>4 DEF Max

(* The fold's equation has a solution.                                     *)
LEMMA FoldExists ==
  ASSUME NEW digits
  PROVE  \A k \in Nat : \E f : f = [s \in SUBSET (1 .. k) |-> Step(f, digits, s)]
<1> DEFINE Solves(f, k) == f = [s \in SUBSET (1 .. k) |-> Step(f, digits, s)]
           wrong == {k \in Nat : ~ \E f : Solves(f, k)}
<1> SUFFICES ASSUME wrong # {} PROVE FALSE
  OBVIOUS
<1>1. PICK k \in wrong : \A j \in wrong : k <= j
  <2>1. wrong \in SUBSET Nat
    OBVIOUS
  <2>2. QED
    BY <2>1, LeastNumber
<1>2. CASE k = 0
  <2> DEFINE f == [s \in SUBSET (1 .. 0) |-> 0]
  <2>1. \A s \in SUBSET (1 .. 0) : s = {}
    OBVIOUS
  <2>2. \A s \in SUBSET (1 .. 0) : Step(f, digits, s) = 0
    BY <2>1 DEF Step
  <2> DEFINE g == [s \in SUBSET (1 .. 0) |-> Step(f, digits, s)]
  <2>3. f = g
    BY <2>2
  <2> HIDE DEF f
  <2>4. Solves(f, 0)
    BY <2>3
  <2> HIDE DEF Solves
  <2>5. k \in wrong => ~ Solves(f, k)
    OBVIOUS
  <2>6. QED
    BY <1>1, <1>2, <2>4, <2>5
<1>3. CASE k > 0
  <2>1. k - 1 \in Nat /\ k - 1 \notin wrong
    <3>1. k \in Nat
      OBVIOUS
    <3> HIDE DEF wrong
    <3>2. QED
      BY <1>1, <1>3, <3>1
  <2>2. PICK f : Solves(f, k - 1)
    BY <2>1
  <2>3. \A s \in SUBSET (1 .. k - 1) : f[s] = Step(f, digits, s)
    BY <2>2
  <2> DEFINE Next1(s) == IF k \in s THEN 10 * f[s \ {k}] + digits[k] ELSE f[s]
             g == [s \in SUBSET (1 .. k) |-> Next1(s)]
  <2>4. \A s \in SUBSET (1 .. k) : k \notin s => s \in SUBSET (1 .. k - 1)
    BY <1>1
  <2>5. \A s \in SUBSET (1 .. k - 1) : s \in SUBSET (1 .. k) /\ g[s] = f[s]
    BY <1>1, <2>1
  <2>6. ASSUME NEW s \in SUBSET (1 .. k) PROVE Step(g, digits, s) = Next1(s)
    <3>1. CASE s = {}
      <4>1. Step(g, digits, s) = 0 /\ Step(f, digits, s) = 0
        BY <3>1 DEF Step
      <4>2. QED
        BY <2>3, <2>4, <3>1, <4>1
    <3>2. CASE k \in s
      <4>1. Max(s) = k
        BY <1>1, <3>2, MaxIs
      <4>2. s \ {k} \in SUBSET (1 .. k - 1)
        BY <2>4
      <4>3. g[s \ {k}] = f[s \ {k}]
        BY <2>5, <4>2
      <4>4. Step(g, digits, s) = 10 * g[s \ {k}] + digits[k]
        BY <3>2, <4>1 DEF Step
      <4>5. QED
        BY <3>2, <4>3, <4>4
    <3>3. CASE s # {} /\ k \notin s
      <4>1. s \in SUBSET (1 .. k - 1)
        BY <2>4, <3>3
      <4>2. s \ {Max(s)} \in SUBSET (1 .. k - 1)
        BY <4>1
      <4>3. g[s \ {Max(s)}] = f[s \ {Max(s)}]
        BY <2>5, <4>2
      <4> HIDE DEF g
      <4>4. Step(g, digits, s) = Step(f, digits, s)
        BY <4>3 DEF Step
      <4>5. QED
        BY <2>3, <3>3, <4>1, <4>4
    <3>4. QED
      BY <3>1, <3>2, <3>3
  <2>7. Solves(g, k)
    BY <2>6
  <2>8. QED
    BY <1>1, <2>7
<1>4. QED
  BY <1>1, <1>2, <1>3

LEMMA NumberReadIs ==
  ASSUME NEW S, NEW digits \in Seq(S), NEW v, Reads(v, digits)
  PROVE  NumberRead(digits) = v[Len(digits)]
<1> DEFINE L    == Len(digits)
           iter == CHOOSE f : f = [s \in SUBSET (1 .. L) |-> Step(f, digits, s)]
<1>1. L \in Nat /\ DOMAIN digits = 1 .. L
  OBVIOUS
<1>2. iter = [s \in SUBSET (1 .. L) |-> Step(iter, digits, s)]
  BY <1>1, FoldExists
<1>3. NumberRead(digits) = iter[1 .. L]
  BY <1>1 DEF NumberRead, FoldLeft, MapThenFoldSet, Step
<1> HIDE DEF iter
<1>4. \A s \in SUBSET (1 .. L) : iter[s] = Step(iter, digits, s)
  BY <1>2
<1>5. \A i \in Nat : i <= L => iter[1 .. i] = v[i]
  <2> DEFINE wrong == {i \in Nat : i <= L /\ iter[1 .. i] # v[i]}
  <2> SUFFICES ASSUME wrong # {} PROVE FALSE
    OBVIOUS
  <2>1. PICK i \in wrong : \A j \in wrong : i <= j
    <3>1. wrong \in SUBSET Nat
      OBVIOUS
    <3>2. QED
      BY <3>1, LeastNumber
  <2>2. iter[1 .. i] = Step(iter, digits, 1 .. i)
    BY <1>1, <1>4, <2>1
  <2>3. CASE i = 0
    <3>1. 1 .. i = {}
      BY <2>3
    <3>2. iter[1 .. i] = 0
      BY <2>2, <3>1 DEF Step
    <3>3. QED
      BY <2>1, <2>3, <3>2 DEF Reads
  <2>4. CASE i > 0
    <3>1. i \in 1 .. i /\ 1 .. i \in SUBSET (1 .. i)
      BY <2>1, <2>4
    <3>2. Max(1 .. i) = i
      BY <2>1, <3>1, MaxIs
    <3>3. (1 .. i) \ {i} = 1 .. (i - 1)
      BY <2>1, <2>4
    <3>4. iter[1 .. i] = 10 * iter[1 .. (i - 1)] + digits[i]
      BY <2>2, <3>1, <3>2, <3>3 DEF Step
    <3>5. iter[1 .. (i - 1)] = v[i - 1]
      BY <1>1, <2>1, <2>4
    <3>6. i \in 1 .. L
      BY <1>1, <2>1, <2>4
    <3>7. QED
      BY <2>1, <3>4, <3>5, <3>6 DEF Reads
  <2>5. QED
    BY <2>1, <2>3, <2>4
<1>6. QED
  BY <1>1, <1>3, <1>5

(* What iprint() prints of n: digits, at least one, none of them a leading *)
(* zero, and the number they stand for is n.                               *)
Prints(n) ==
  LET digits == Iprint(n)
  IN  /\ digits \in Seq(0 .. 9) /\ Len(digits) >= 1
      /\ n > 0 => digits[1] # 0
      /\ Len(digits) > 1 => n > 9
      /\ \E v : Reads(v, digits) /\ v[Len(digits)] = n

LEMMA AppendReads ==
  ASSUME NEW digits \in Seq(0 .. 9), NEW v, Reads(v, digits), NEW d \in 0 .. 9
  PROVE  \E u : /\ Reads(u, Append(digits, d))
                /\ u[Len(digits) + 1] = 10 * v[Len(digits)] + d
<1> DEFINE L == Len(digits)
           n == 10 * v[L] + d
           longer == Append(digits, d)
           u == [i \in 0 .. L + 1 |-> IF i <= L THEN v[i] ELSE n]
<1>1. L \in Nat /\ v \in [0 .. L -> Nat] /\ v[0] = 0
  BY DEF Reads
<1>2. v[L] \in Nat /\ n \in Nat
  BY <1>1
<1>3. Len(longer) = L + 1 /\ longer[L + 1] = d /\ \A i \in 1 .. L : longer[i] = digits[i]
  OBVIOUS
<1>4. \A i \in 1 .. L : v[i] = 10 * v[i - 1] + digits[i]
  BY DEF Reads
<1> HIDE DEF L, n, longer
<1>5. u \in [0 .. L + 1 -> Nat] /\ u[0] = 0
  BY <1>1, <1>2
<1>6. \A i \in 0 .. L : u[i] = v[i]
  BY <1>1
<1>7. u[L + 1] = n
  BY <1>1
<1>8. ASSUME NEW i \in 1 .. L + 1 PROVE u[i] = 10 * u[i - 1] + longer[i]
  <2>1. CASE i <= L
    <3>1. i \in 1 .. L /\ i - 1 \in 0 .. L /\ i \in 0 .. L
      BY <1>1, <2>1
    <3>2. QED
      BY <1>3, <1>4, <1>6, <3>1
  <2>2. CASE i = L + 1
    <3>1. i - 1 = L /\ L \in 0 .. L
      BY <1>1, <2>2
    <3>2. u[i - 1] = v[L]
      BY <1>6, <3>1
    <3>3. QED
      BY <1>3, <1>7, <2>2, <3>2 DEF n
  <2>3. QED
    BY <1>1, <2>1, <2>2
<1>9. Reads(u, longer)
  <2> HIDE DEF u
  <2>1. QED
    BY <1>3, <1>5, <1>8 DEF Reads
<1>10. QED
  BY <1>7, <1>9 DEF L, n, longer

LEMMA IprintPrints == \A n \in Nat : Prints(n)
<1> DEFINE wrong == {n \in Nat : ~ Prints(n)}
<1> SUFFICES ASSUME wrong # {} PROVE FALSE
  OBVIOUS
<1>1. PICK n \in wrong : \A m \in wrong : n <= m
  <2>1. wrong \in SUBSET Nat
    OBVIOUS
  <2>2. QED
    BY <2>1, LeastNumber
<1>2. n \in Nat /\ ~ Prints(n)
  BY <1>1
<1>3. CASE n <= 9
  <2> DEFINE u == [i \in 0 .. 1 |-> IF i = 0 THEN 0 ELSE n]
  <2>1. Iprint(n) = <<n>>
    BY <1>2, <1>3, IprintIs
  <2>2. n \in 0 .. 9
    BY <1>2, <1>3
  <2>3. <<n>> \in Seq(0 .. 9) /\ Len(<<n>>) = 1 /\ <<n>>[1] = n
    BY <2>2
  <2>4. u \in [0 .. 1 -> Nat] /\ u[0] = 0 /\ u[1] = n
    BY <1>2
  <2> HIDE DEF u
  <2>5. Reads(u, <<n>>)
    <3>1. \A i \in 1 .. 1 : i = 1 /\ i - 1 = 0
      OBVIOUS
    <3>2. n = 10 * 0 + n
      BY <1>2
    <3>3. QED
      BY <2>3, <2>4, <3>1, <3>2 DEF Reads
  <2>6. QED
    BY <1>2, <2>1, <2>3, <2>4, <2>5 DEF Prints
<1>4. CASE n > 9
  <2> DEFINE q == n \div 10
             d == n % 10
  <2>1. q \in Nat /\ q < n /\ q > 0 /\ d \in 0 .. 9 /\ n = 10 * q + d
    BY <1>2, <1>4, TenthIsLess
  <2>2. Iprint(n) = Append(Iprint(q), d)
    BY <1>2, <1>4, IprintIs
  <2> HIDE DEF q, d
  <2>3. Prints(q)
    <3>1. q \notin wrong
      BY <1>1, <1>2, <2>1
    <3>2. QED
      BY <2>1, <3>1
  <2> DEFINE digits == Iprint(q)
  <2>4. /\ digits \in Seq(0 .. 9) /\ Len(digits) >= 1 /\ digits[1] # 0
        /\ \E v : Reads(v, digits) /\ v[Len(digits)] = q
    BY <2>1, <2>3 DEF Prints
  <2> HIDE DEF digits
  <2>5. PICK v : Reads(v, digits) /\ v[Len(digits)] = q
    BY <2>4
  <2>6. PICK u : Reads(u, Append(digits, d)) /\ u[Len(digits) + 1] = 10 * q + d
    BY <2>1, <2>4, <2>5, AppendReads
  <2>7. /\ Append(digits, d) \in Seq(0 .. 9)
        /\ Len(Append(digits, d)) = Len(digits) + 1
        /\ Append(digits, d)[1] = digits[1]
    BY <2>1, <2>4
  <2>8. Iprint(n) = Append(digits, d)
    BY <2>2 DEF digits
  <2>9. u[Len(digits) + 1] = n /\ Len(digits) \in Nat
    BY <2>1, <2>4, <2>6
  <2>10. QED
    BY <1>2, <1>4, <2>4, <2>6, <2>7, <2>8, <2>9 DEF Prints
<1>5. QED
  BY <1>2, <1>3, <1>4

LEMMA IprintIsDecimal ==
  ASSUME NEW n \in Nat
  PROVE  IsDecimalOf(Iprint(n), n)
<1> DEFINE digits == Iprint(n)
<1>1. Prints(n)
  BY IprintPrints
<1>2. /\ digits \in Seq(0 .. 9) /\ Len(digits) >= 1
      /\ n > 0 => digits[1] # 0
      /\ Len(digits) > 1 => n > 9
      /\ \E v : Reads(v, digits) /\ v[Len(digits)] = n
  BY <1>1 DEF Prints
<1> HIDE DEF digits
<1>3. NumberRead(digits) = n
  BY <1>2, NumberReadIs
<1>4. \A i \in DOMAIN digits : digits[i] \in 0 .. 9
  BY <1>2
<1>5. Len(digits) > 1 => digits[1] # 0
  BY <1>2
<1>6. IsDecimalOf(digits, n)
  BY <1>3, <1>4, <1>5 DEF IsDecimalOf, NumberRead
<1>7. QED
  BY <1>6 DEF digits

-----------------------------------------------------------------------------
LEMMA FieldsAreNumbers ==
  ASSUME NEW word \in SUBSET Bus!AllOnes
  PROVE  /\ Bus!NumberOf(Bus!Field(word, 0, 15)) \in Nat
         /\ Bus!NumberOf(Bus!Field(word, 16, 31)) \in Nat
<1>1. word \subseteq 0 .. 31
  BY DEF Bus!AllOnes
<1>2. Bus!Field(word, 0, 15) \subseteq 0 .. 15
  BY <1>1 DEF Bus!Field, Bus!LowBits, Bus!ShiftedRight
<1>3. Bus!Field(word, 16, 31) \subseteq 0 .. 15
  BY <1>1 DEF Bus!Field, Bus!LowBits, Bus!ShiftedRight
<1>4. QED
  BY <1>2, <1>3, NumberOfIs, ValueType

(* Until kernel_main() reads the device, nothing is filled in or printed.  *)
PrintInv ==
  /\ step \in Nat
  /\ step <= LastCall + 1 => data = Nothing /\ printed = << >>
  /\ PrintsTheDevice

LEMMA ReadPciPrints ==
  ASSUME PrintInv, ReadPci
  PROVE  PrintInv'
<1>1. step' = LastCall + 2 /\ step' \in Nat /\ ~ step' <= LastCall + 1
  BY DEF ReadPci, LastCall
<1>2. data = Nothing /\ printed = << >>
  BY DEF PrintInv, ReadPci, LastCall
<1>3. machine' \in Machines /\ wanted' \in Wanted
  BY DEF ReadPci
<1>4. CASE wanted' \notin DOMAIN machine'
  <2>1. ~ Bus!Exists(machine', wanted')
    BY <1>3, <1>4, DeviceAnswers DEF Bus!Exists, Bus!DeviceAndVendor
  <2>2. data' = Nothing /\ printed' = << >>
    BY <1>2, <2>1 DEF ReadPci
  <2>3. QED
    BY <1>1, <1>4, <2>2 DEF PrintInv, PrintsTheDevice
<1>5. CASE wanted' \in DOMAIN machine'
  <2> DEFINE registers == machine'[wanted']
  <2>1. \A reg \in {0, 8, 12} : /\ Bus!ReadConfig(machine', wanted', reg) = registers[reg]
                                /\ registers[reg] \in SUBSET Bus!AllOnes
    BY <1>3, <1>5, DeviceAnswers, MachinesAssumption
  <2>2. registers[0] # Bus!AllOnes
    BY <1>3, <1>5, MachinesAssumption
  <2> HIDE DEF registers
  <2>3. Bus!Exists(machine', wanted')
    BY <2>1, <2>2 DEF Bus!Exists, Bus!DeviceAndVendor
  <2>4. /\ data' = Bus!DeviceBase(machine', wanted')
        /\ printed' = <<Iprint(Bus!NumberOf(data'.vendor_id)),
                        Iprint(Bus!NumberOf(data'.device_id))>>
    BY <2>3 DEF ReadPci
  <2>5. /\ data'.vendor_id = Bus!Field(registers[0], 0, 15)
        /\ data'.device_id = Bus!Field(registers[0], 16, 31)
        /\ data'.class = Bus!Field(registers[8], 24, 31)
        /\ data'.header_type = Bus!Field(registers[12], 16, 23)
    BY <2>1, <2>4 DEF Bus!DeviceBase, Bus!DeviceAndVendor, Bus!ClassSubProgRevision,
                      Bus!BistHeadLatCache
  <2>6. /\ IsDecimalOf(printed'[1], Bus!NumberOf(Bus!Field(registers[0], 0, 15)))
        /\ IsDecimalOf(printed'[2], Bus!NumberOf(Bus!Field(registers[0], 16, 31)))
        /\ Len(printed') = 2
    BY <2>1, <2>4, <2>5, FieldsAreNumbers, IprintIsDecimal
  <2>7. QED
    BY <1>1, <1>5, <2>5, <2>6 DEF PrintInv, PrintsTheDevice, registers
<1>6. QED
  BY <1>4, <1>5

(* The ids that kernel_main() prints are those of the device it asked for. *)
THEOREM PrintsRight == MainSpec => []PrintsTheDevice
<1>1. MainInit => PrintInv
  BY DEF MainInit, MappedInit, TestInit, PrintInv, PrintsTheDevice, LastCall
<1>2. PrintInv /\ [MainNext]_mainVars => PrintInv'
  <2> SUFFICES ASSUME PrintInv, [MainNext]_mainVars PROVE PrintInv'
    OBVIOUS
  <2>1. ASSUME MappedStep, UNCHANGED pciVars PROVE PrintInv'
    <3>1. step' \in Nat /\ (step' > LastCall + 1 <=> step > LastCall + 1)
      BY <2>1 DEF MappedStep, MapNextPage, TestStep, Allocation, Release, testVars,
                  PrintInv, LastCall
    <3>2. data' = data /\ printed' = printed /\ machine' = machine /\ wanted' = wanted
      BY <2>1 DEF pciVars
    <3>3. LastCall + 1 \in Nat /\ step \in Nat
      BY DEF PrintInv, LastCall
    <3>4. step' <= LastCall + 1 => data' = Nothing /\ printed' = << >>
      BY <3>1, <3>2, <3>3 DEF PrintInv
    <3>5. PrintsTheDevice'
      BY <3>1, <3>2 DEF PrintInv, PrintsTheDevice
    <3>6. QED
      BY <3>1, <3>4, <3>5 DEF PrintInv
  <2>2. CASE ReadPci
    BY <2>2, ReadPciPrints
  <2>3. CASE UNCHANGED mainVars
    BY <2>3 DEF PrintInv, PrintsTheDevice, mainVars
  <2>4. QED
    BY <2>1, <2>2, <2>3 DEF MainNext, Loop
<1>3. PrintInv => PrintsTheDevice
  BY DEF PrintInv
<1>4. QED
  BY <1>1, <1>2, <1>3, PTL DEF MainSpec

-----------------------------------------------------------------------------
(* The list during the self test.  The block of kpagealloc() divides the   *)
(* heap, and the area in front of it is the first one.  The prev pointers  *)
(* of all others but the last are right.  A free area is the first or the  *)
(* last of its half, and the one behind it is in use; the end of the heap  *)
(* is free.                                                                *)
First(head, pt, x) == x = HeapStart \/ head[pt].next = x

TestList(head, S, pt) ==
  /\ pt \in S \ {HeapStart, HeapEnd} /\ head[pt].used /\ head[pt].prev = HeapStart
  /\ head[HeapStart].prev = NULL
  /\ \A a \in S \ {HeapStart, HeapEnd, pt} :
       head[a].prev \in S \ {HeapEnd} /\ head[head[a].prev].next = a
  /\ \A f \in S \ {HeapEnd} :
       ~ head[f].used /\ head[f].next \notin {pt, HeapEnd}
         => head[head[f].next].used /\ First(head, pt, f)
  /\ \A x \in S \ {HeapEnd} : head[x].next = HeapEnd => ~ head[x].used

SameHalf(a, b, pt) == a < pt <=> b < pt

(* kfree() of a block that has no used area on one of its sides, within    *)
(* its half.                                                               *)
LEMMA TestFrees ==
  ASSUME NEW h, NEW S, PlainHeap(h, S), NEW pt, TestList(h.head, S, pt),
         NEW a \in S, h.head[a].used, a # pt,
         \A u, v \in S \ {pt} : h.head[u].used /\ h.head[v].used /\ u < a /\ a < v
                                => ~ SameHalf(u, a, pt) \/ ~ SameHalf(a, v, pt),
         NEW g, g = [head |-> AfterKfree(h.head, a), mapped |-> h.mapped]
  PROVE  /\ KfreeDerefs(h.head, a) \subseteq DOMAIN h.head
         /\ \E T : /\ PlainHeap(g, T) /\ TestList(g.head, T, pt)
                   /\ \A x \in T : x \in S /\ (g.head[x].used <=> h.head[x].used /\ x # a)
                   /\ \A x \in S \ {a} : h.head[x].used =>
                        x \in T /\ g.head[x].next = h.head[x].next
<1> DEFINE head == h.head
           new  == g.head
           b    == head[a].prev
           c    == head[a].next
           d    == head[c].next
           m    == Result(head, a)
           f    == Behind(head, a)
           root == FreeBefore(head, a)
           tail == FreeAfter(head, a)
<1>1. Linked(head, S)
  BY DEF PlainHeap
<1>2. /\ \A x \in S : x \in Nat /\ HeapStart <= x /\ x <= HeapEnd
      /\ \A x \in S \ {HeapEnd} : x < head[x].next /\ head[x].next \in S
      /\ \A x \in S \ {HeapEnd}, y \in S : y <= x \/ head[x].next <= y
      /\ \A x, y \in S \ {HeapEnd} : head[x].next = head[y].next => x = y
      /\ HeapStart \in S /\ HeapEnd \in S /\ ~ head[HeapEnd].used
  BY <1>1, LinkedOrder DEF Linked
<1>3. /\ pt \in S \ {HeapStart, HeapEnd} /\ head[pt].used /\ head[pt].prev = HeapStart
      /\ head[HeapStart].prev = NULL
      /\ \A x \in S \ {HeapStart, HeapEnd, pt} :
           head[x].prev \in S \ {HeapEnd} /\ head[head[x].prev].next = x
      /\ \A x \in S \ {HeapEnd} :
           ~ head[x].used /\ head[x].next \notin {pt, HeapEnd}
             => head[head[x].next].used /\ First(head, pt, x)
      /\ \A x \in S \ {HeapEnd} : head[x].next = HeapEnd => ~ head[x].used
  BY DEF TestList
<1>4. a \in S \ {HeapEnd} /\ c \in S \ {HeapEnd} /\ a < c /\ c < d /\ d \in S
  BY <1>2, <1>3
<1>5. a # HeapStart => b \in S \ {HeapEnd} /\ head[b].next = a /\ b < a
  BY <1>2, <1>3, <1>4
<1>6. BackLinked(head, S, a)
  BY <1>3, <1>5 DEF BackLinked
<1>7. /\ KfreeDerefs(head, a) \subseteq DOMAIN head
      /\ \E T : PlainHeap(g, T) /\ Freed(head, S, new, T, a)
  BY <1>4, <1>6, KfreeFrees
<1>8. PICK T : PlainHeap(g, T) /\ Freed(head, S, new, T, a)
  BY <1>7
<1>9. /\ root <=> a # HeapStart /\ ~ head[b].used
      /\ tail <=> ~ head[c].used
      /\ m = IF root THEN b ELSE a
      /\ f = IF tail THEN d ELSE c
  BY DEF FreeBefore, FreeAfter, Result, Behind
<1>10. /\ T = S \ ((IF root THEN {a} ELSE {}) \union (IF tail THEN {c} ELSE {}))
       /\ \A x \in T : /\ new[x].next = IF x = m THEN f ELSE head[x].next
                       /\ new[x].prev = IF root /\ x = f THEN m ELSE head[x].prev
                       /\ new[x].used <=> head[x].used /\ x # a
  BY <1>8 DEF Freed
<1> HIDE DEF b, c, d, m, f, root, tail, head, new
<1>11. /\ a # c /\ a # d /\ c # d
       /\ a # HeapStart => b # a /\ b # c /\ b # d
  <2>1. a \in Nat /\ c \in Nat /\ d \in Nat
    BY <1>2, <1>4
  <2>2. a # HeapStart => b \in Nat /\ b < a
    BY <1>2, <1>5
  <2>3. a < c /\ c < d
    BY <1>4
  <2>4. QED
    BY <2>1, <2>2, <2>3
<1>12. /\ m \in T \ {HeapEnd} /\ f \in T /\ m # f /\ pt \in T /\ HeapStart \in T /\ HeapEnd \in T
       /\ m # pt /\ ~ new[m].used
  <2>1. m \in T \ {HeapEnd} /\ m # pt
    BY <1>3, <1>4, <1>5, <1>9, <1>10, <1>11
  <2>2. f \in T /\ m # f
    BY <1>3, <1>4, <1>5, <1>9, <1>10, <1>11
  <2>3. pt \in T
    BY <1>3, <1>9, <1>10
  <2>4. HeapStart \in T /\ HeapEnd \in T
    BY <1>2, <1>4, <1>9, <1>10
  <2>5. ~ new[m].used
    BY <1>9, <1>10, <2>1
  <2>6. QED
    BY <2>1, <2>2, <2>3, <2>4, <2>5
(* A free area behind a is the last one of its half.                       *)
<1>13. tail => f \in {pt, HeapEnd}
  <2>1. ASSUME tail, f \notin {pt, HeapEnd} PROVE FALSE
    <3>1. First(head, pt, c)
      BY <1>3, <1>4, <1>9, <2>1 DEF d
    <3>2. c # HeapStart
      BY <1>2, <1>4
    <3>3. head[pt].next = head[a].next
      BY <3>1, <3>2 DEF First, c
    <3>4. QED
      BY <1>2, <1>3, <1>4, <3>3
  <2>2. QED
    BY <2>1
(* The result is the first area of its half, or the last one.              *)
<1>14. f \notin {pt, HeapEnd} => First(head, pt, m)
  <2>1. ASSUME f \notin {pt, HeapEnd} PROVE First(head, pt, m)
    <3>1. ~ tail /\ f = c /\ head[c].used
      BY <1>9, <1>13, <2>1
    <3>2. CASE root
      BY <1>3, <1>4, <1>5, <1>9, <3>2
    <3>3. CASE ~ root /\ a = HeapStart
      BY <1>9, <3>3 DEF First
    <3>4. CASE ~ root /\ b = pt /\ a # HeapStart
      BY <1>5, <1>9, <3>4 DEF First
    <3>5. CASE ~ root /\ b # pt /\ a # HeapStart
      <4>1. b \in S \ {pt} /\ c \in S \ {pt} /\ head[b].used /\ b < a /\ a < c
        BY <1>4, <1>5, <1>9, <2>1, <3>1, <3>5
      <4>2. pt <= b \/ a <= pt
        BY <1>2, <1>3, <1>5, <3>5
      <4>3. pt <= a \/ c <= pt
        BY <1>2, <1>3, <1>4 DEF c
      <4>4. pt \in Nat /\ a \in Nat /\ b \in Nat /\ c \in Nat
        BY <1>2, <1>3, <1>4, <4>1
      <4>5. SameHalf(b, a, pt) /\ SameHalf(a, c, pt)
        BY <4>1, <4>2, <4>3, <4>4 DEF SameHalf
      <4>6. QED
        BY <3>1, <4>1, <4>5 DEF head
    <3>6. QED
      BY <3>2, <3>3, <3>4, <3>5
  <2>2. QED
    BY <2>1
<1>15. new[pt].next = head[pt].next /\ new[pt].used
  BY <1>3, <1>10, <1>12
(* The block of kpagealloc() still names the first area.                   *)
<1>16. new[pt].prev = HeapStart
  <2>1. ASSUME root, pt = f PROVE m = HeapStart
    <3>1. m = b /\ b \in S \ {HeapEnd} /\ ~ head[b].used /\ head[b].next = a
      BY <1>5, <1>9, <2>1
    <3>2. First(head, pt, b)
      BY <1>3, <1>4, <3>1
    <3>3. b < pt
      BY <1>2, <1>3, <1>4, <1>5, <1>9, <2>1
    <3>4. head[pt].next # b
      BY <1>2, <1>3, <3>1, <3>3
    <3>5. QED
      BY <3>1, <3>2, <3>4 DEF First
  <2>2. QED
    BY <1>3, <1>10, <1>12, <2>1
<1>17. new[HeapStart].prev = NULL
  <2>1. root => f # HeapStart
    BY <1>2, <1>4, <1>9
  <2>2. QED
    BY <1>3, <1>10, <1>12, <2>1
<1>18. ASSUME NEW x \in T \ {HeapStart, HeapEnd, pt}
       PROVE  new[x].prev \in T \ {HeapEnd} /\ new[new[x].prev].next = x
  <2> DEFINE p == head[x].prev
  <2>1. x \in S \ {HeapStart, HeapEnd, pt} /\ p \in S \ {HeapEnd} /\ head[p].next = x
    BY <1>3, <1>10
  <2> HIDE DEF p
  <2>2. CASE root /\ x = f
    BY <1>10, <1>12, <2>2
  <2>3. CASE ~ root /\ x = f
    <3>1. ~ tail /\ x = c
      BY <1>9, <1>13, <2>1, <2>3
    <3>2. p = a
      BY <1>2, <1>4, <2>1, <3>1 DEF c
    <3>3. m = a /\ new[x].prev = p
      BY <1>9, <1>10, <2>3 DEF p
    <3>4. QED
      BY <1>10, <1>12, <2>3, <3>2, <3>3
  <2>4. CASE x # f
    <3>1. new[x].prev = p
      BY <1>10, <2>4 DEF p
    <3>2. p # a
      <4>1. ASSUME p = a PROVE FALSE
        <5>1. x = c
          BY <2>1, <4>1 DEF c
        <5>2. QED
          BY <1>9, <1>10, <2>4, <5>1
      <4>2. QED
        BY <4>1
    <3>3. tail => p # c
      BY <1>9, <2>1, <2>4 DEF d
    <3>4. root => p # b
      BY <1>5, <1>9, <1>10, <2>1
    <3>5. p \in T /\ p # m
      BY <1>9, <1>10, <2>1, <3>2, <3>3, <3>4
    <3>6. QED
      BY <1>10, <2>1, <3>1, <3>5
  <2>5. QED
    BY <2>2, <2>3, <2>4
<1>19. ASSUME NEW x \in T \ {HeapEnd}, ~ new[x].used, new[x].next \notin {pt, HeapEnd}
       PROVE  new[new[x].next].used /\ First(new, pt, x)
  <2>1. CASE x = m
    <3>1. new[x].next = f
      BY <1>10, <2>1
    <3>2. First(new, pt, x)
      BY <1>14, <1>15, <1>19, <2>1, <3>1 DEF First
    <3>3. f = c /\ head[c].used
      BY <1>9, <1>13, <1>19, <3>1
    <3>4. new[f].used
      BY <1>10, <1>11, <1>12, <3>3
    <3>5. QED
      BY <3>1, <3>2, <3>4
  <2>2. CASE x # m
    <3>1. x \in S /\ new[x].next = head[x].next /\ x # a
      BY <1>9, <1>10, <2>2
    <3>2. ~ head[x].used
      BY <1>10, <1>19, <3>1
    <3>3. head[head[x].next].used /\ First(head, pt, x)
      BY <1>3, <1>19, <3>1, <3>2
    <3>4. head[x].next # a
      BY <1>2, <1>4, <1>5, <1>9, <2>2, <3>1, <3>2
    <3>5. head[x].next \in T
      BY <1>2, <1>9, <1>10, <1>19, <3>1, <3>3, <3>4
    <3>6. QED
      BY <1>10, <1>15, <3>1, <3>3, <3>4, <3>5 DEF First
  <2>3. QED
    BY <2>1, <2>2
<1>20. ASSUME NEW x \in T \ {HeapEnd}, new[x].next = HeapEnd PROVE ~ new[x].used
  BY <1>3, <1>10, <1>12, <1>20
<1>21. TestList(new, T, pt)
  BY <1>3, <1>12, <1>15, <1>16, <1>17, <1>18, <1>19, <1>20 DEF TestList
<1>22. \A x \in S \ {a} : head[x].used => x \in T /\ new[x].next = head[x].next
  <2> SUFFICES ASSUME NEW x \in S \ {a}, head[x].used
               PROVE  x \in T /\ new[x].next = head[x].next
    OBVIOUS
  <2>1. x # m /\ (tail => x # c)
    BY <1>9
  <2>2. QED
    BY <1>10, <2>1
<1>23. \A x \in T : x \in S /\ (new[x].used <=> head[x].used /\ x # a)
  BY <1>10
<1>24. QED
  BY <1>7, <1>8, <1>21, <1>22, <1>23 DEF head, new

(* While the test allocates, a free area is the last one of its half, and  *)
(* the last one of the heap has `room' bytes to give.                      *)
Fresh(head, S, pt) ==
  \A f \in S \ {HeapEnd} : ~ head[f].used => head[f].next \in {pt, HeapEnd}

Room(head, S, room) ==
  \A t \in S \ {HeapEnd} : head[t].next = HeapEnd => t + room + 3 * HeadSize < HeapEnd

(* kmalloc() takes the size, a header and at most seven bytes.             *)
LEMMA PaddedSizeUpper ==
  ASSUME NEW size \in Nat, size + 2 * HeadSize <= Modulus
  PROVE  PaddedSize(size) <= size + 15
<1>1. Modulus \in Nat \ {0}
  BY HeapConstants
<1>2. (size + HeadSize) % Modulus = size + 8
  BY <1>1 DEF HeadSize
<1>3. (size + 8 + 8 - 1) % Modulus = size + 15
  BY <1>1 DEF HeadSize
<1>4. PaddedSize(size) = 8 * ((size + 15) \div 8)
  BY <1>2, <1>3 DEF PaddedSize, DivCeil
<1>5. QED
  BY <1>4

(* kmalloc() takes the front of the last area of a half.                   *)
TestTaken(h, S, pt, room, g, T, fit, size) ==
  /\ PlainHeap(g, T) /\ TestList(g.head, T, pt)
  /\ Fresh(g.head, T, pt) /\ Room(g.head, T, room - (size + 2 * HeadSize))
  /\ fit \in S \ {HeapEnd, pt} /\ S \subseteq T /\ ~ h.head[fit].used
  /\ \A x \in T : g.head[x].used <=> x = fit \/ (x \in S /\ h.head[x].used)
  /\ \A x \in S : h.head[x].used => g.head[x].next = h.head[x].next
  /\ \A u \in S \ {pt} : h.head[u].used /\ SameHalf(u, fit, pt) => u < fit
  /\ fit + 8 + size <= g.head[fit].next
  /\ AreaSize(g.head, fit) <= size + 31

LEMMA TestTakes ==
  ASSUME NEW h, NEW S, PlainHeap(h, S), NEW pt, TestList(h.head, S, pt), Fresh(h.head, S, pt),
         NEW room \in Nat, Room(h.head, S, room),
         NEW size \in Nat, size + 2 * HeadSize <= room, KmallocFits(h.head, size) # {},
         NEW n \in Nat, n <= size,
         NEW r, r = AfterKmalloc(h, size),
         NEW g, g = [head |-> Overwritten(r.head, r.ptr, n), mapped |-> r.mapped],
         NEW fit, fit = r.ptr - HeadSize
  PROVE  \E T : TestTaken(h, S, pt, room, g, T, fit, size)
<1> DEFINE head  == h.head
           after == head[fit].next
           pad   == PaddedSize(size)
<1>1. Linked(head, S)
  BY DEF PlainHeap
<1>2. /\ \A x \in S : x \in Nat /\ HeapStart <= x /\ x <= HeapEnd
      /\ \A x \in S \ {HeapEnd} : x < head[x].next /\ head[x].next \in S
      /\ \A x \in S \ {HeapEnd}, y \in S : y <= x \/ head[x].next <= y
      /\ \A x, y \in S \ {HeapEnd} : head[x].next = head[y].next => x = y
      /\ HeapStart \in S /\ HeapEnd \in S /\ HeapStart # HeapEnd /\ ~ head[HeapEnd].used
  BY <1>1, LinkedOrder DEF Linked
<1>3. /\ pt \in S \ {HeapStart, HeapEnd} /\ head[pt].used /\ head[pt].prev = HeapStart
      /\ head[HeapStart].prev = NULL
      /\ \A x \in S \ {HeapStart, HeapEnd, pt} :
           head[x].prev \in S \ {HeapEnd} /\ head[head[x].prev].next = x
      /\ \A x \in S \ {HeapEnd} : head[x].next = HeapEnd => ~ head[x].used
  BY DEF TestList
<1>4. room + 24 < HeapEnd
  <2>1. PICK t \in S \ {HeapEnd} : head[t].next = HeapEnd
    BY <1>1 DEF Linked
  <2>2. t + room + 24 < HeapEnd
    BY <2>1 DEF Room, HeadSize
  <2>3. QED
    BY <1>2, <2>2, HeapConstants
<1>5. size + 2 * HeadSize <= Modulus
  BY <1>4, HeapConstants DEF HeadSize
<1>6. PICK T, new :
        /\ PlainHeap(g, T) /\ Taken(h, S, g, T, fit, new, size)
        /\ pad < AreaSize(head, fit)
        /\ IF AreaSize(head, fit) - pad > 16 THEN new = fit + pad /\ new \notin S ELSE new = after
  BY <1>5, KmallocTakes
<1> HIDE DEF pad
<1>7. pad \in Nat /\ pad <= size + 15
  BY <1>5, PaddedSizeBounds, PaddedSizeUpper DEF pad
<1>8. /\ fit \in S \ {HeapEnd} /\ ~ head[fit].used
      /\ \/ T = S /\ new = after
         \/ /\ T = S \union {new} /\ new \notin S
            /\ g.head[new].next = after /\ g.head[new].prev = fit
            /\ ~ g.head[new].used
      /\ \A x \in S : /\ g.head[x].next = IF x = fit THEN new ELSE head[x].next
                      /\ g.head[x].prev = head[x].prev
                      /\ g.head[x].used <=> head[x].used \/ x = fit
      /\ fit + 8 + size <= new
  BY <1>6 DEF Taken
<1>9. /\ fit # pt /\ after \in {pt, HeapEnd} /\ fit \in Nat /\ after \in S /\ after \in Nat
      /\ fit < after /\ AreaSize(head, fit) = after - fit - 8
  <2>1. after \in {pt, HeapEnd}
    BY <1>8 DEF Fresh
  <2>2. fit # pt /\ fit \in Nat /\ after \in S /\ after \in Nat /\ fit < after
    BY <1>2, <1>3, <1>8
  <2>3. AreaSize(head, fit) = after - fit - 8
    BY <1>8, PlainHeapFacts
  <2>4. QED
    BY <2>1, <2>2, <2>3
<1>10. S \subseteq T /\ HeapEnd \in T /\ HeapStart \in T /\ pt \in T
  BY <1>2, <1>3, <1>8
<1>11. after = HeapEnd => /\ fit + room + 24 < HeapEnd
                          /\ AreaSize(head, fit) - pad > 16
                          /\ new = fit + pad /\ new \notin S
  <2>1. ASSUME after = HeapEnd PROVE fit + room + 24 < HeapEnd
    <3>1. \A t \in S \ {HeapEnd} : head[t].next = HeapEnd => t + room + 3 * 8 < HeapEnd
      BY DEF Room, HeadSize
    <3>2. fit + room + 3 * 8 < HeapEnd
      BY <1>8, <2>1, <3>1
    <3>3. QED
      BY <3>2
  <2>2. after = HeapEnd => AreaSize(head, fit) - pad > 16
    BY <1>7, <1>9, <2>1, HeapConstants DEF HeadSize
  <2>3. AreaSize(head, fit) - pad > 16 => new = fit + pad /\ new \notin S
    BY <1>6
  <2>4. QED
    BY <2>1, <2>2, <2>3
<1>12. \A x \in T : g.head[x].used <=> x = fit \/ (x \in S /\ head[x].used)
  <2> SUFFICES ASSUME NEW x \in T
               PROVE  g.head[x].used <=> x = fit \/ (x \in S /\ head[x].used)
    OBVIOUS
  <2>1. CASE x \in S
    BY <1>8, <2>1
  <2>2. CASE x \notin S
    <3>1. x = new /\ ~ g.head[new].used /\ x # fit
      BY <1>8, <2>2
    <3>2. QED
      BY <2>2, <3>1
  <2>3. QED
    BY <2>1, <2>2
<1>13. \A x \in S : head[x].used => g.head[x].next = head[x].next
  BY <1>8
<1>14. Fresh(g.head, T, pt)
  <2> SUFFICES ASSUME NEW f \in T \ {HeapEnd}, ~ g.head[f].used
               PROVE  g.head[f].next \in {pt, HeapEnd}
    BY DEF Fresh
  <2>1. CASE f \in S
    <3>1. f # fit /\ ~ head[f].used /\ g.head[f].next = head[f].next
      BY <1>8, <2>1
    <3>2. QED
      BY <2>1, <3>1 DEF Fresh
  <2>2. CASE f \notin S
    BY <1>8, <1>9, <2>2
  <2>3. QED
    BY <2>1, <2>2
<1>15. Room(g.head, T, room - (size + 2 * HeadSize))
  <2> SUFFICES ASSUME NEW t \in T \ {HeapEnd}, g.head[t].next = HeapEnd
               PROVE  t + (room - (size + 16)) + 24 < HeapEnd
    BY DEF Room, HeadSize
  <2>1. CASE t \in S /\ t # fit
    <3>1. t + room + 24 < HeapEnd
      BY <1>8, <2>1 DEF Room, HeadSize
    <3>2. QED
      BY <1>2, <2>1, <3>1, HeapConstants
  <2>2. CASE t = fit
    <3>1. new = HeapEnd
      BY <1>8, <2>2
    <3>2. after = HeapEnd
      BY <1>2, <1>8, <3>1
    <3>3. QED
      BY <1>2, <1>11, <3>1, <3>2
  <2>3. CASE t \notin S
    <3>1. t = new /\ after = HeapEnd
      BY <1>8, <2>3
    <3>2. QED
      BY <1>7, <1>9, <1>11, <3>1, HeapConstants DEF HeadSize
  <2>4. QED
    BY <2>1, <2>2, <2>3
<1>16. \A u \in S \ {pt} : head[u].used /\ SameHalf(u, fit, pt) => u < fit
  <2> SUFFICES ASSUME NEW u \in S \ {pt}, head[u].used, SameHalf(u, fit, pt), ~ u < fit
               PROVE  FALSE
    OBVIOUS
  <2>1. /\ u \in Nat /\ pt \in Nat /\ HeapEnd \in Nat
        /\ u # fit /\ u # HeapEnd /\ u <= HeapEnd
        /\ u <= fit \/ after <= u
        /\ pt <= fit \/ after <= pt
    BY <1>2, <1>3, <1>8, HeapConstants
  <2>2. QED
    BY <1>9, <2>1 DEF SameHalf
<1>17. fit + 8 + size <= g.head[fit].next
  BY <1>8
<1>18. AreaSize(g.head, fit) <= size + 31
  <2>1. AreaSize(g.head, fit) = new - fit - 8
    <3>1. fit \in T \ {HeapEnd} /\ g.head[fit].next = new
      BY <1>8
    <3>2. QED
      BY <1>6, <3>1, PlainHeapFacts
  <2>2. CASE AreaSize(head, fit) - pad > 16
    BY <1>6, <1>7, <1>9, <2>1, <2>2
  <2>3. CASE ~ AreaSize(head, fit) - pad > 16
    BY <1>6, <1>7, <1>9, <2>1, <2>3
  <2>4. QED
    BY <2>2, <2>3
<1>19. TestList(g.head, T, pt)
  <2>1. g.head[pt].used /\ g.head[pt].prev = HeapStart /\ g.head[HeapStart].prev = NULL
    BY <1>2, <1>3, <1>8
  <2>2. ASSUME NEW x \in T \ {HeapStart, HeapEnd, pt}
        PROVE  g.head[x].prev \in T \ {HeapEnd} /\ g.head[g.head[x].prev].next = x
    <3>1. CASE x \in S
      <4> DEFINE p == head[x].prev
      <4>1. p \in S \ {HeapEnd} /\ head[p].next = x /\ g.head[x].prev = p
        BY <1>3, <1>8, <3>1, <2>2
      <4>2. p # fit
        BY <1>9, <2>2, <4>1
      <4> HIDE DEF p
      <4>3. g.head[p].next = head[p].next /\ p \in T
        BY <1>8, <1>10, <4>1, <4>2
      <4>4. QED
        BY <4>1, <4>3
    <3>2. CASE x \notin S
      BY <1>8, <1>10, <3>2
    <3>3. QED
      BY <3>1, <3>2
  <2>3. ASSUME NEW x \in T \ {HeapEnd}, g.head[x].next = HeapEnd PROVE ~ g.head[x].used
    <3>1. CASE x = fit
      <4>1. new = HeapEnd
        BY <1>8, <2>3, <3>1
      <4>2. after = HeapEnd
        BY <1>2, <1>8, <4>1
      <4>3. QED
        BY <1>2, <1>11, <4>1, <4>2
    <3>2. CASE x # fit /\ x \in S
      BY <1>3, <1>8, <2>3, <3>2
    <3>3. CASE x \notin S
      BY <1>8, <3>3
    <3>4. QED
      BY <3>1, <3>2, <3>3
  <2>4. QED
    BY <1>3, <1>10, <1>14, <2>1, <2>2, <2>3 DEF TestList, Fresh
<1>20. QED
  BY <1>6, <1>8, <1>9, <1>10, <1>12, <1>13, <1>14, <1>15, <1>16, <1>17, <1>18, <1>19
     DEF TestTaken

(* The fields of a header that is made.                                    *)
LEMMA HeaderType ==
  ASSUME NEW a \in Nat, NEW b \in Nat
  PROVE  /\ Header(a, b) \in Headers /\ Header(a, b).next = a /\ Header(a, b).prev = b
         /\ ~ Header(a, b).used /\ ~ Header(a, b).epsilon
  BY DEF Header, Headers

(* init_heap(): one free area.                                             *)
LEMMA InitialIsPlain ==
  LET h == InitialHeap
      S == {HeapStart, HeapEnd}
  IN  /\ PlainHeap(h, S)
      /\ h.head[HeapStart].next = HeapEnd /\ h.head[HeapStart].prev = NULL
      /\ ~ h.head[HeapStart].used /\ ~ h.head[HeapEnd].used
<1> DEFINE h    == InitialHeap
           head == h.head
           S    == {HeapStart, HeapEnd}
<1>1. /\ DOMAIN head = S /\ HeapStart # HeapEnd
      /\ head[HeapStart] \in Headers /\ head[HeapEnd] \in Headers
      /\ head[HeapStart].next = HeapEnd /\ head[HeapStart].prev = NULL
      /\ ~ head[HeapStart].used /\ ~ head[HeapEnd].used
      /\ ~ head[HeapStart].epsilon /\ head[HeapEnd].epsilon
      /\ h.mapped = {PageOf(HeapStart), PageOf(HeapEnd)}
  <2>1. HeapStart # HeapEnd /\ HeapStart \in Nat /\ HeapEnd \in Nat
    BY HeapConstants
  <2>2. /\ DOMAIN head = S
        /\ head[HeapStart] = Header(HeapEnd, NULL)
        /\ head[HeapEnd] = [Header(NULL, HeapStart) EXCEPT !.epsilon = TRUE]
        /\ h.mapped = {PageOf(HeapStart), PageOf(HeapEnd)}
    BY <2>1 DEF InitialHeap
  <2> HIDE DEF head
  <2>3. NULL \in Nat
    BY DEF NULL
  <2>4. /\ head[HeapStart] \in Headers /\ head[HeapStart].next = HeapEnd
        /\ head[HeapStart].prev = NULL
        /\ ~ head[HeapStart].used /\ ~ head[HeapStart].epsilon
    BY <2>1, <2>2, <2>3 DEF Header, Headers
  <2>5. head[HeapEnd] = [next |-> NULL, prev |-> HeapStart, used |-> FALSE, epsilon |-> TRUE]
    BY <2>2 DEF Header
  <2>6. head[HeapEnd] \in Headers /\ ~ head[HeapEnd].used /\ head[HeapEnd].epsilon
    BY <2>1, <2>3, <2>5 DEF Headers
  <2>7. QED
    BY <2>1, <2>2, <2>4, <2>6
<1> HIDE DEF h
<1>2. HeapStart \in Addresses /\ HeapEnd \in Addresses /\ HeapStart < HeapEnd
  BY HeapConstants DEF Addresses
<1>3. Linked(head, S)
  BY <1>1, <1>2, HeapConstants DEF Linked
<1>4. HeapOK(h)
  <2>1. PageOf(HeapStart) \in Pages /\ PageOf(HeapEnd) \in Pages
    BY <1>2, AddressIsHeap, PageOfAddress
  <2>2. QED
    BY <1>1, <1>2, <2>1 DEF HeapOK
<1>5. ASSUME NEW page \in Pages, page <= HeapStart PROVE page \in h.mapped
  <2>1. page <= PageOf(HeapStart) /\ PageOf(HeapStart) \in Pages
    BY <1>2, <1>5, AddressIsHeap, PageOfAddress, PageUnique
  <2>2. /\ HeapStart <= PageOf(HeapStart) /\ PageOf(HeapStart) <= HeapStart
        /\ PageOf(HeapStart) \in Nat
    BY <1>2, AddressIsHeap, PageOfAddress
  <2>3. HeapStart <= page
    BY PagesInHeap
  <2>4. page = PageOf(HeapStart)
    BY <2>1, <2>2, <2>3, HeapConstants DEF Pages
  <2>5. QED
    BY <1>1, <2>4
<1>6. PlainHeap(h, S)
  BY <1>1, <1>3, <1>4, <1>5 DEF PlainHeap
<1>7. QED
  BY <1>1, <1>6 DEF h

(* kpagealloc() as the first call: its block ends where `new' is, and its  *)
(* header is the last one before the second page.                          *)
LEMMA TestPages ==
  ASSUME NEW h, h = InitialHeap,
         NEW size \in Nat, size % 8 = 0, KpageallocFits(h.head, size) # {}, NEW room \in Nat, 16 <= room,
         HeapStart + PageSize + size + room + 3 * HeadSize < HeapEnd,
         NEW r, r = AfterKpagealloc(h, size),
         NEW g, g = [head |-> Overwritten(r.head, r.ptr, size), mapped |-> r.mapped],
         NEW pt, pt = r.ptr - HeadSize
  PROVE  \E S :
           /\ PlainHeap(g, S) /\ TestList(g.head, S, pt)
           /\ Fresh(g.head, S, pt) /\ Room(g.head, S, room)
           /\ \A x \in S : g.head[x].used <=> x = pt
           /\ r.ptr = pt + 8 /\ r.ptr \in Nat /\ r.ptr + size <= g.head[pt].next
<1> DEFINE head == h.head
           new  == pt + 8 + size
           full == size + PageSize + 8
           h1   == WithHead(head, pt, Header(HeapEnd, HeapStart))
           h2   == SetPrev(h1, HeapEnd, pt)
           h3   == SetNext(h2, HeapStart, pt)
           h4   == WithHead(h3, new, Header(HeapEnd, pt))
           h5   == SetNext(h4, pt, new)
           S    == {HeapStart, pt, new, HeapEnd}
<1>1. /\ PlainHeap(h, {HeapStart, HeapEnd})
      /\ head[HeapStart].next = HeapEnd /\ head[HeapStart].prev = NULL
      /\ ~ head[HeapStart].used /\ ~ head[HeapEnd].used
  BY InitialIsPlain
<1>2. /\ HeapStart \in Nat /\ PageSize \in Nat /\ PageSize > 16 /\ HeapEnd \in Nat
      /\ HeapStart < HeapEnd /\ PageSize <= HeapStart /\ HeapEnd < Modulus /\ Modulus \in Nat
  BY HeapConstants
<1>3. BestFit(head, KpageallocFits(head, size)) = HeapStart /\ AreaSize(head, HeapStart) = HeapEnd - HeapStart - 8
  <2>1. /\ FreeAreas(head) = {a \in {HeapStart, HeapEnd} \ {HeapEnd} : ~ head[a].used}
        /\ AreaSize(head, HeapStart) = HeapEnd - HeapStart - 8
        /\ AreaSize(head, HeapStart) \in Nat
    BY <1>1, <1>2, PlainHeapFacts
  <2>2. KpageallocFits(head, size) \subseteq {HeapStart}
    BY <1>2, <2>1 DEF KpageallocFits
  <2>3. BestFit(head, KpageallocFits(head, size)) \in KpageallocFits(head, size)
    BY <1>2, <2>1, <2>2, BestFitFits
  <2>4. QED
    BY <2>1, <2>2, <2>3
<1>4. /\ PageOf(HeapStart) = HeapStart
      /\ NextPage(HeapStart) = HeapStart + PageSize
      /\ ~ StartsAtPage(HeapStart)
  <2>1. PageOf(HeapStart) = HeapStart
    BY <1>2, HeapRangeAssumption DEF PageOf
  <2>2. QED
    BY <1>2, <2>1 DEF NextPage, StartsAtPage, HeadSize
<1>5. FullSize(HeapStart, size) = full
  <2>1. FullSize(HeapStart, size) = full % Modulus
    BY <1>2, <1>4 DEF FullSize, HeadSize
  <2>2. full \in 0 .. Modulus - 1
    BY <1>2 DEF HeadSize
  <2> HIDE DEF full
  <2>3. QED
    BY <1>2, <2>1, <2>2
<1>6. AreaSize(head, HeapStart) - FullSize(HeapStart, size) > 2 * HeadSize
  BY <1>2, <1>3, <1>5 DEF HeadSize
<1>7. /\ r.ptr = pt + 8 /\ pt = HeapStart + PageSize - 8 /\ r.ptr \in Nat
      /\ r.head = SetUsed(h5, pt, TRUE)
      /\ r.mapped = h.mapped \union PagesThrough(HeapStart + PageSize, new)
  <2> DEFINE fit   == BestFit(head, KpageallocFits(head, size))
             ret   == NextPage(fit) - HeadSize
             after == head[fit].next
             end   == ret + size + HeadSize
             split == AreaSize(head, fit) - FullSize(fit, size) > 2 * HeadSize
             head1 == IF StartsAtPage(fit) THEN head
                      ELSE SetNext(SetPrev(WithHead(head, ret, Header(after, fit)), after, ret), fit, ret)
             head2 == IF split THEN SetNext(WithHead(head1, end, Header(after, ret)), ret, end)
                               ELSE head1
  <2>1. /\ r.ptr = ret + HeadSize /\ r.head = SetUsed(head2, ret, TRUE)
        /\ r.mapped = IF split THEN h.mapped \union PagesThrough(NextPage(fit), end) ELSE h.mapped
    BY DEF AfterKpagealloc
  <2> HIDE DEF fit, head
  <2>2. fit = HeapStart
    BY <1>3 DEF fit, head
  <2>3. /\ r.ptr = ret + HeadSize /\ ret = HeapStart + PageSize - HeadSize
        /\ after = HeapEnd /\ split
    <3>1. ret = HeapStart + PageSize - HeadSize
      <4>1. NextPage(fit) = HeapStart + PageSize
        BY <1>4, <2>2
      <4>2. QED
        BY <1>2, <4>1 DEF HeadSize
    <3>2. after = HeapEnd
      BY <1>1, <2>2 DEF head
    <3>3. split
      BY <1>6, <2>2 DEF head
    <3>4. QED
      BY <2>1, <3>1, <3>2, <3>3
  <2>4. head1 = SetNext(SetPrev(WithHead(head, ret, Header(HeapEnd, HeapStart)), HeapEnd, ret), HeapStart, ret)
    BY <1>4, <2>2, <2>3
  <2>5. head2 = SetNext(WithHead(head1, end, Header(HeapEnd, ret)), ret, end)
    BY <2>3
  <2> HIDE DEF ret, head1, head2, split, after
  <2>6. ret = pt /\ end = new /\ r.ptr = pt + 8 /\ pt = HeapStart + PageSize - 8 /\ r.ptr \in Nat
    BY <1>2, <2>3 DEF HeadSize
  <2> HIDE DEF end, new
  <2>7. r.head = SetUsed(h5, pt, TRUE)
    BY <2>1, <2>4, <2>5, <2>6
  <2>8. r.mapped = h.mapped \union PagesThrough(HeapStart + PageSize, new)
    BY <1>4, <2>1, <2>2, <2>3, <2>6
  <2>9. QED
    BY <2>6, <2>7, <2>8
<1>8. /\ pt \in Nat /\ new \in Nat /\ new = pt + 8 + size /\ new = HeapStart + PageSize + size
      /\ HeapStart + 8 < pt /\ pt < new /\ new + room + 24 < HeapEnd
  BY <1>2, <1>7 DEF HeadSize
<1>9. /\ pt % 8 = 0 /\ new % 8 = 0
  <2>1. (HeapStart + PageSize) % 8 = 0
    BY <1>2, HeapConstants, PageSizeAssumption
  <2>2. QED
    BY <1>2, <1>7, <1>8, <2>1
<1> HIDE DEF new
<1>10. /\ DOMAIN head = {HeapStart, HeapEnd}
       /\ head[HeapStart] \in Headers /\ head[HeapEnd] \in Headers
       /\ ~ head[HeapStart].epsilon /\ head[HeapEnd].epsilon
  BY <1>1, <1>2 DEF PlainHeap, Linked, InitialHeap
<1> HIDE DEF head
<1>11. /\ DOMAIN h1 = {HeapStart, pt, HeapEnd}
       /\ h1[HeapStart] = head[HeapStart] /\ h1[HeapEnd] = head[HeapEnd]
       /\ h1[pt] = Header(HeapEnd, HeapStart)
  BY <1>2, <1>8, <1>10 DEF WithHead
<1> HIDE DEF h1
<1>12. /\ DOMAIN h2 = {HeapStart, pt, HeapEnd}
       /\ h2[HeapStart] = head[HeapStart] /\ h2[HeapEnd] = [head[HeapEnd] EXCEPT !.prev = pt]
       /\ h2[pt] = Header(HeapEnd, HeapStart)
  BY <1>2, <1>8, <1>11 DEF SetPrev
<1> HIDE DEF h2
<1>13. /\ DOMAIN h3 = {HeapStart, pt, HeapEnd}
       /\ h3[HeapStart] = [head[HeapStart] EXCEPT !.next = pt]
       /\ h3[HeapEnd] = [head[HeapEnd] EXCEPT !.prev = pt]
       /\ h3[pt] = Header(HeapEnd, HeapStart)
  BY <1>2, <1>8, <1>12 DEF SetNext
<1> HIDE DEF h3
<1>14. /\ DOMAIN h4 = S
       /\ h4[HeapStart] = h3[HeapStart] /\ h4[HeapEnd] = h3[HeapEnd] /\ h4[pt] = h3[pt]
       /\ h4[new] = Header(HeapEnd, pt)
  BY <1>2, <1>8, <1>13 DEF WithHead
<1> HIDE DEF h4
<1>15. /\ DOMAIN h5 = S
       /\ h5[HeapStart] = h3[HeapStart] /\ h5[HeapEnd] = h3[HeapEnd]
       /\ h5[pt] = [h3[pt] EXCEPT !.next = new]
       /\ h5[new] = Header(HeapEnd, pt)
  BY <1>2, <1>8, <1>14 DEF SetNext
<1> HIDE DEF h5
<1>16. /\ DOMAIN r.head = S
       /\ r.head[HeapStart] = [head[HeapStart] EXCEPT !.next = pt]
       /\ r.head[HeapEnd] = [head[HeapEnd] EXCEPT !.prev = pt]
       /\ r.head[pt] \in Headers /\ r.head[pt].next = new /\ r.head[pt].prev = HeapStart
       /\ r.head[pt].used /\ ~ r.head[pt].epsilon
       /\ r.head[new] \in Headers /\ r.head[new].next = HeapEnd /\ r.head[new].prev = pt
       /\ ~ r.head[new].used /\ ~ r.head[new].epsilon
  <2>1. /\ DOMAIN r.head = S
        /\ r.head[HeapStart] = h5[HeapStart] /\ r.head[HeapEnd] = h5[HeapEnd]
        /\ r.head[new] = h5[new]
        /\ r.head[pt] = [h5[pt] EXCEPT !.used = TRUE]
    <3>1. pt \in S /\ HeapStart \in S \ {pt} /\ HeapEnd \in S \ {pt} /\ new \in S \ {pt}
      BY <1>2, <1>8
    <3> HIDE DEF S
    <3>2. \A x \in S \ {pt} : r.head[x] = h5[x]
      BY <1>7, <1>15 DEF SetUsed
    <3>3. DOMAIN r.head = S /\ r.head[pt] = [h5[pt] EXCEPT !.used = TRUE]
      BY <1>7, <1>15, <3>1 DEF SetUsed
    <3>4. QED
      BY <3>1, <3>2, <3>3
  <2>2. /\ h3[pt] \in Headers /\ h3[pt].next = HeapEnd /\ h3[pt].prev = HeapStart
        /\ ~ h3[pt].used /\ ~ h3[pt].epsilon
    BY <1>2, <1>13, HeaderType
  <2>3. /\ h5[pt] \in Headers /\ h5[pt].next = new /\ h5[pt].prev = HeapStart
        /\ ~ h5[pt].used /\ ~ h5[pt].epsilon
    BY <1>8, <1>15, <2>2 DEF Headers
  <2>4. /\ r.head[pt] \in Headers /\ r.head[pt].next = new /\ r.head[pt].prev = HeapStart
        /\ r.head[pt].used /\ ~ r.head[pt].epsilon
    BY <2>1, <2>3 DEF Headers
  <2>5. /\ h5[new] \in Headers /\ h5[new].next = HeapEnd /\ h5[new].prev = pt
        /\ ~ h5[new].used /\ ~ h5[new].epsilon
    BY <1>2, <1>8, <1>15, HeaderType
  <2>6. QED
    BY <1>13, <1>15, <2>1, <2>4, <2>5
<1>17. g.head = Overwritten(r.head, pt + 8, size) /\ g.mapped = r.mapped
  BY <1>7
<1>18. \A x \in S : x \in DOMAIN g.head /\ g.head[x] = r.head[x]
  <2>1. \A x \in S : x \in DOMAIN r.head /\ (x + HeadSize <= pt + 8 \/ pt + 8 + size <= x)
    BY <1>2, <1>8, <1>16 DEF HeadSize
  <2>2. QED
    BY <1>17, <2>1, OverwrittenFields
<1>19. /\ g.head[HeapStart].next = pt /\ g.head[HeapStart].prev = NULL
       /\ g.head[pt].next = new /\ g.head[pt].prev = HeapStart /\ g.head[pt].used
       /\ g.head[new].next = HeapEnd /\ g.head[new].prev = pt /\ ~ g.head[new].used
       /\ ~ g.head[HeapStart].used /\ ~ g.head[HeapEnd].used
       /\ ~ g.head[HeapStart].epsilon /\ ~ g.head[pt].epsilon /\ ~ g.head[new].epsilon
       /\ g.head[HeapEnd].epsilon
       /\ \A x \in S : g.head[x] \in Headers
  <2>1. /\ g.head[HeapStart] = [head[HeapStart] EXCEPT !.next = pt]
        /\ g.head[HeapEnd] = [head[HeapEnd] EXCEPT !.prev = pt]
        /\ g.head[pt] = r.head[pt] /\ g.head[new] = r.head[new]
    BY <1>16, <1>18
  <2>2. /\ g.head[HeapStart] \in Headers /\ g.head[HeapStart].next = pt
        /\ g.head[HeapStart].prev = NULL
        /\ ~ g.head[HeapStart].used /\ ~ g.head[HeapStart].epsilon
    BY <1>1, <1>8, <1>10, <2>1 DEF Headers, head
  <2>3. g.head[HeapEnd] \in Headers /\ ~ g.head[HeapEnd].used /\ g.head[HeapEnd].epsilon
    <3>1. head[HeapEnd] \in Headers /\ ~ head[HeapEnd].used /\ head[HeapEnd].epsilon
      BY <1>1, <1>10 DEF head
    <3> DEFINE e == head[HeapEnd]
    <3> HIDE DEF e
    <3>2. g.head[HeapEnd] = [e EXCEPT !.prev = pt] /\ pt \in Nat
      BY <1>8, <2>1 DEF e
    <3>3. e \in Headers /\ ~ e.used /\ e.epsilon
      BY <3>1 DEF e
    <3>4. QED
      BY <3>2, <3>3 DEF Headers
  <2>4. QED
    BY <1>16, <2>1, <2>2, <2>3
<1>20. pt \in Addresses /\ new \in Addresses /\ HeapStart \in Addresses /\ HeapEnd \in Addresses
  BY <1>2, <1>8, <1>9, HeapConstants DEF Addresses
<1>21. Linked(g.head, S)
  BY <1>2, <1>8, <1>18, <1>19, <1>20 DEF Linked
<1>22. HeapOK(g)
  <2>1. WalkDerefs(h.head) \subseteq DOMAIN h.head /\ HeapOK(h)
    BY <1>1, PlainHeapFacts DEF PlainHeap
  <2>2. HeapOK(r)
    BY <2>1, KpageallocEffect
  <2>3. DOMAIN g.head \subseteq DOMAIN r.head
    BY <1>17, OverwrittenDomain
  <2>4. QED
    BY <1>17, <2>3, <2>2, FewerHeads
<1>23. ASSUME NEW x \in S \ {HeapEnd}, NEW page \in Pages, page <= x PROVE page \in g.mapped
  <2>1. HeapStart \in Pages /\ HeapStart <= page /\ page \in Nat /\ x <= new
    <3>1. PageOf(HeapStart) \in Pages
      BY <1>20, AddressIsHeap, PageOfAddress
    <3>2. x <= new
      BY <1>2, <1>8
    <3>3. HeapStart \in Pages
      BY <1>4, <3>1
    <3>4. HeapStart <= page /\ page \in Nat
      BY PagesInHeap
    <3>5. QED
      BY <3>2, <3>3, <3>4
  <2>2. CASE page = HeapStart
    <3>1. HeapStart \in {HeapStart, HeapEnd} \ {HeapEnd} /\ page <= HeapStart
      BY <1>2, <2>1, <2>2
    <3>2. page \in h.mapped
      BY <1>1, <3>1 DEF PlainHeap
    <3>3. QED
      BY <1>7, <1>17, <3>2
  <2>3. CASE page # HeapStart
    <3>1. HeapStart + PageSize <= page
      BY <2>1, <2>3, PagesApart, <1>2
    <3>2. HeapStart + PageSize \in HeapStart .. HeapTop - 1
      BY <1>2, <1>8, HeapConstants
    <3>3. PageOf(HeapStart + PageSize) <= HeapStart + PageSize /\ PageOf(HeapStart + PageSize) \in Nat
      BY <3>2, PageOfAddress
    <3>4. page <= new /\ PageOf(HeapStart + PageSize) <= page
      BY <1>2, <1>8, <1>23, <2>1, <3>1, <3>3
    <3>5. QED
      BY <1>7, <1>17, <3>4 DEF PagesThrough
  <2>4. QED
    BY <2>2, <2>3
<1>24. PlainHeap(g, S)
  BY <1>19, <1>21, <1>22, <1>23 DEF PlainHeap
<1>25. TestList(g.head, S, pt)
  BY <1>2, <1>8, <1>19 DEF TestList
<1>26. Fresh(g.head, S, pt)
  BY <1>19 DEF Fresh
<1>27. Room(g.head, S, room)
  BY <1>2, <1>8, <1>19 DEF Room, HeadSize
<1>28. \A x \in S : g.head[x].used <=> x = pt
  <2>1. pt # HeapStart /\ pt # HeapEnd /\ pt # new
    BY <1>2, <1>8
  <2>2. /\ g.head[pt].used /\ ~ g.head[new].used
        /\ ~ g.head[HeapStart].used /\ ~ g.head[HeapEnd].used
    BY <1>19
  <2>3. QED
    BY <2>1, <2>2
<1>29. r.ptr + size <= g.head[pt].next
  <2>1. r.ptr + size = new
    BY <1>7, <1>8
  <2>2. QED
    BY <1>8, <1>19, <2>1
<1> HIDE DEF S
<1>30. QED
  BY <1>7, <1>24, <1>25, <1>26, <1>27, <1>28, <1>29

(* The calls that give the variables their blocks.                         *)
GivenAt == [pagetest |-> 1, test |-> 2, test2 |-> 3, test3 |-> 4, big |-> 5, test4 |-> 6]

(* The heap of the self test, whose list is S, while the variables L hold  *)
(* blocks: these are the used areas, and those of a half were given out    *)
(* from the lowest to the highest.                                         *)
Tested(h, blocks, var, L, S) ==
  /\ PlainHeap(h, S) /\ TestList(h.head, S, var["pagetest"] - HeadSize)
  /\ "pagetest" \in L
  /\ \A x \in L : /\ var[x] \in Nat /\ var[x] - HeadSize \in S \ {HeapEnd}
                  /\ h.head[var[x] - HeadSize].used
                  /\ blocks[var[x]] \in Nat \ {0}
                  /\ var[x] + blocks[var[x]] <= h.head[var[x] - HeadSize].next
  /\ \A x, y \in L : var[x] = var[y] => x = y
  /\ \A u \in S : h.head[u].used => \E x \in L : u = var[x] - HeadSize
  /\ DOMAIN blocks = {var[x] : x \in L}
  /\ \A x, y \in L \ {"pagetest"} :
       /\ GivenAt[x] < GivenAt[y]
       /\ SameHalf(var[x] - HeadSize, var[y] - HeadSize, var["pagetest"] - HeadSize)
       => var[x] < var[y]

(* kmalloc() for another variable.                                         *)
AreasKept(h, g, var, L) ==
  \A y \in L : AreaSize(g.head, var[y] - HeadSize) = AreaSize(h.head, var[y] - HeadSize)

TestGiven(h, blocks, var, L, pt, room, size, ptr, g, new, v, T) ==
  /\ Tested(g, With(blocks, ptr, size), new, L \union {v}, T)
  /\ Fresh(g.head, T, pt) /\ Room(g.head, T, room - (size + 2 * HeadSize))
  /\ AreaSize(g.head, ptr - HeadSize) <= size + 31
  /\ AreasKept(h, g, var, L)

MayGive(h, blocks, var, L, S, pt, room, size, n, r, g, v, new) ==
  /\ Tested(h, blocks, var, L, S) /\ pt = var["pagetest"] - HeadSize
  /\ Fresh(h.head, S, pt) /\ Room(h.head, S, room)
  /\ room \in Nat /\ size \in Nat /\ size > 0 /\ size + 2 * HeadSize <= room
  /\ KmallocFits(h.head, size) # {} /\ n \in Nat /\ n <= size
  /\ r = AfterKmalloc(h, size)
  /\ g = [head |-> Overwritten(r.head, r.ptr, n), mapped |-> r.mapped]
  /\ v \notin L /\ \A y \in L : GivenAt[y] < GivenAt[v] /\ ~ GivenAt[v] < GivenAt[y]
  /\ ~ GivenAt[v] < GivenAt[v]
  /\ new[v] = r.ptr /\ \A y \in L : new[y] = var[y]

LEMMA TestGives ==
  ASSUME NEW h, NEW blocks, NEW var, NEW L, NEW S, NEW pt, NEW room, NEW size, NEW n,
         NEW r, NEW g, NEW v, NEW new,
         MayGive(h, blocks, var, L, S, pt, room, size, n, r, g, v, new)
  PROVE  /\ r.ptr \notin DOMAIN blocks
         /\ \E T : TestGiven(h, blocks, var, L, pt, room, size, r.ptr, g, new, v, T)
<1> USE DEF MayGive
<1> DEFINE fit  == r.ptr - HeadSize
           more == With(blocks, r.ptr, size)
           M    == L \union {v}
<1>1. /\ PlainHeap(h, S) /\ TestList(h.head, S, pt) /\ "pagetest" \in L
      /\ \A x \in L : /\ var[x] \in Nat /\ var[x] - HeadSize \in S \ {HeapEnd}
                      /\ h.head[var[x] - HeadSize].used
                      /\ blocks[var[x]] \in Nat \ {0}
                      /\ var[x] + blocks[var[x]] <= h.head[var[x] - HeadSize].next
      /\ \A x, y \in L : var[x] = var[y] => x = y
      /\ \A u \in S : h.head[u].used => \E x \in L : u = var[x] - HeadSize
      /\ DOMAIN blocks = {var[x] : x \in L}
      /\ \A x, y \in L \ {"pagetest"} :
           GivenAt[x] < GivenAt[y] /\ SameHalf(var[x] - HeadSize, var[y] - HeadSize, pt)
             => var[x] < var[y]
  BY DEF Tested
<1>2. PICK T :
        /\ PlainHeap(g, T) /\ TestList(g.head, T, pt)
        /\ Fresh(g.head, T, pt) /\ Room(g.head, T, room - (size + 2 * HeadSize))
        /\ fit \in S \ {HeapEnd, pt} /\ S \subseteq T /\ ~ h.head[fit].used
        /\ \A x \in T : g.head[x].used <=> x = fit \/ (x \in S /\ h.head[x].used)
        /\ \A x \in S : h.head[x].used => g.head[x].next = h.head[x].next
        /\ \A u \in S \ {pt} : h.head[u].used /\ SameHalf(u, fit, pt) => u < fit
        /\ fit + 8 + size <= g.head[fit].next
        /\ AreaSize(g.head, fit) <= size + 31
  <2>1. PlainHeap(h, S) /\ TestList(h.head, S, pt) /\ r.ptr - HeadSize = fit
    BY <1>1
  <2> HIDE DEF fit
  <2>2. \E T : TestTaken(h, S, pt, room, g, T, fit, size)
    BY <2>1, TestTakes
  <2>3. QED
    BY <2>2 DEF TestTaken
<1>3. \A x \in T : x \in Nat /\ HeapStart <= x
  BY <1>2, LinkedOrder DEF PlainHeap
<1>4. fit \in Nat /\ r.ptr = fit + 8 /\ r.ptr \in Nat
  <2>1. fit \in Nat
    BY <1>2, <1>3
  <2>2. r.ptr = BestFit(h.head, KmallocFits(h.head, size)) + HeadSize
    BY DEF AfterKmalloc
  <2>3. BestFit(h.head, KmallocFits(h.head, size)) \in Nat
    <3>1. FreeAreas(h.head) = {a \in S \ {HeapEnd} : ~ h.head[a].used}
          /\ \A a \in S \ {HeapEnd} : AreaSize(h.head, a) \in Nat
      BY <1>1, PlainHeapFacts
    <3>2. KmallocFits(h.head, size) \subseteq S \ {HeapEnd}
      BY <3>1 DEF KmallocFits
    <3>3. S \subseteq Nat
      BY <1>2, <1>3
    <3>4. BestFit(h.head, KmallocFits(h.head, size)) \in KmallocFits(h.head, size)
      BY <3>1, <3>2, <3>3, BestFitFits
    <3>5. QED
      BY <3>2, <3>3, <3>4
  <2>4. QED
    BY <2>2, <2>3 DEF HeadSize
<1> HIDE DEF fit
<1>5. \A x \in L : /\ var[x] - HeadSize \in S \ {HeapEnd} /\ var[x] \in Nat /\ var[x] - HeadSize # fit
                   /\ var[x] # r.ptr /\ var[x] - HeadSize = var[x] - 8
  BY <1>1, <1>2, <1>4 DEF HeadSize
<1>6. r.ptr \notin DOMAIN blocks
  BY <1>1, <1>5
<1>7. pt = new["pagetest"] - HeadSize /\ "pagetest" \in M /\ v # "pagetest"
  BY <1>1
<1>8. ASSUME NEW x \in M
      PROVE  /\ new[x] \in Nat /\ new[x] - HeadSize \in T \ {HeapEnd}
             /\ g.head[new[x] - HeadSize].used
             /\ more[new[x]] \in Nat \ {0}
             /\ new[x] + more[new[x]] <= g.head[new[x] - HeadSize].next
  <2>1. CASE x = v
    <3>1. new[x] = r.ptr /\ new[x] - HeadSize = fit /\ more[new[x]] = size
      BY <2>1 DEF With, fit
    <3>2. QED
      BY <1>2, <1>4, <3>1
  <2>2. CASE x \in L
    <3>1. new[x] = var[x] /\ more[var[x]] = blocks[var[x]]
      BY <1>1, <1>5, <2>2 DEF With
    <3>2. g.head[var[x] - HeadSize].used /\ g.head[var[x] - HeadSize].next = h.head[var[x] - HeadSize].next
      BY <1>1, <1>2, <2>2
    <3>3. QED
      BY <1>1, <1>2, <2>2, <3>1, <3>2
  <2>3. QED
    BY <2>1, <2>2
<1>9. \A x, y \in M : new[x] = new[y] => x = y
  BY <1>1, <1>5
<1>10. ASSUME NEW u \in T, g.head[u].used PROVE \E x \in M : u = new[x] - HeadSize
  <2>1. CASE u = fit
    BY <2>1 DEF fit
  <2>2. CASE u \in S /\ h.head[u].used
    BY <1>1, <2>2
  <2>3. QED
    BY <1>2, <1>10, <2>1, <2>2
<1>11. DOMAIN more = {new[x] : x \in M}
  <2>1. DOMAIN more = DOMAIN blocks \union {r.ptr}
    BY DEF With
  <2>2. {new[x] : x \in M} = {var[x] : x \in L} \union {r.ptr}
    OBVIOUS
  <2>3. QED
    BY <1>1, <2>1, <2>2
<1>12. ASSUME NEW x \in M \ {"pagetest"}, NEW y \in M \ {"pagetest"}, GivenAt[x] < GivenAt[y],
              SameHalf(new[x] - HeadSize, new[y] - HeadSize, pt)
       PROVE  new[x] < new[y]
  <2>1. CASE x \in L /\ y \in L
    BY <1>1, <1>12, <2>1
  <2>2. CASE x \in L /\ y = v
    <3>1. SameHalf(var[x] - HeadSize, fit, pt)
      BY <1>12, <2>2 DEF fit
    <3>2. var[x] - HeadSize # pt
      <4>1. var[x] # var["pagetest"] /\ var[x] \in Nat /\ var["pagetest"] \in Nat
        BY <1>1, <2>2
      <4>2. QED
        BY <4>1 DEF HeadSize
    <3>3. var[x] - HeadSize < fit
      BY <1>1, <1>2, <2>2, <3>1, <3>2
    <3>4. QED
      BY <1>4, <1>5, <2>2, <3>3
  <2>3. CASE x = v
    BY <1>12, <2>3
  <2>4. QED
    BY <2>1, <2>2, <2>3
<1>13. Tested(g, more, new, M, T)
  BY <1>2, <1>7, <1>8, <1>9, <1>10, <1>11, <1>12 DEF Tested
<1>14. ASSUME NEW y \in L
       PROVE  AreaSize(g.head, var[y] - HeadSize) = AreaSize(h.head, var[y] - HeadSize)
  <2> DEFINE a == var[y] - HeadSize
  <2>1. a \in S \ {HeapEnd} /\ a \in T \ {HeapEnd} /\ g.head[a].next = h.head[a].next
    BY <1>1, <1>2
  <2> HIDE DEF a
  <2>2. AreaSize(g.head, a) = g.head[a].next - a - 8 /\ AreaSize(h.head, a) = h.head[a].next - a - 8
    BY <1>1, <1>2, <2>1, PlainHeapFacts
  <2>3. QED
    BY <2>1, <2>2 DEF a
<1>15. QED
  BY <1>2, <1>6, <1>13, <1>14 DEF fit, TestGiven, AreasKept

(* kfree() of the oldest or the newest block but that of kpagealloc().     *)
LEMMA TestTakesBack ==
  ASSUME NEW h, NEW blocks, NEW var, NEW L, NEW S, Tested(h, blocks, var, L, S),
         NEW v \in L \ {"pagetest"},
         \/ \A y \in L \ {v, "pagetest"} : GivenAt[v] < GivenAt[y]
         \/ \A y \in L \ {v, "pagetest"} : GivenAt[y] < GivenAt[v],
         NEW a, a = var[v] - HeadSize,
         NEW g, g = [head |-> AfterKfree(h.head, a), mapped |-> h.mapped]
  PROVE  /\ KfreeDerefs(h.head, a) \subseteq DOMAIN h.head
         /\ \E T : Tested(g, Without(blocks, var[v]), var, L \ {v}, T)
<1> DEFINE pt   == var["pagetest"] - HeadSize
           less == Without(blocks, var[v])
           M    == L \ {v}
<1>1. /\ PlainHeap(h, S) /\ TestList(h.head, S, pt) /\ "pagetest" \in L
      /\ \A x \in L : /\ var[x] \in Nat /\ var[x] - HeadSize \in S \ {HeapEnd}
                      /\ h.head[var[x] - HeadSize].used
                      /\ blocks[var[x]] \in Nat \ {0}
                      /\ var[x] + blocks[var[x]] <= h.head[var[x] - HeadSize].next
      /\ \A x, y \in L : var[x] = var[y] => x = y
      /\ \A u \in S : h.head[u].used => \E x \in L : u = var[x] - HeadSize
      /\ DOMAIN blocks = {var[x] : x \in L}
      /\ \A x, y \in L \ {"pagetest"} :
           GivenAt[x] < GivenAt[y] /\ SameHalf(var[x] - HeadSize, var[y] - HeadSize, pt)
             => var[x] < var[y]
  BY DEF Tested
<1> HIDE DEF pt
<1>2. \A x \in L : var[x] - HeadSize = var[x] - 8 /\ var[x] \in Nat
  BY <1>1 DEF HeadSize
<1>3. \A x, y \in L : var[x] - HeadSize = var[y] - HeadSize => x = y
  <2> SUFFICES ASSUME NEW x \in L, NEW y \in L, var[x] - HeadSize = var[y] - HeadSize PROVE x = y
    OBVIOUS
  <2>1. var[x] - 8 = var[y] - 8 /\ var[x] \in Nat /\ var[y] \in Nat
    BY <1>2 DEF HeadSize
  <2>2. QED
    BY <1>1, <2>1
<1>4. a \in S /\ h.head[a].used /\ a # pt
  BY <1>1, <1>3 DEF pt
<1>5. ASSUME NEW u \in S \ {pt}, NEW w \in S \ {pt}, h.head[u].used, h.head[w].used,
             u < a, a < w, SameHalf(u, a, pt), SameHalf(a, w, pt)
      PROVE  FALSE
  <2>1. PICK x \in L : u = var[x] - HeadSize
    BY <1>1, <1>5
  <2>2. PICK y \in L : w = var[y] - HeadSize
    BY <1>1, <1>5
  <2>3. a = var[v] - 8 /\ u = var[x] - 8 /\ w = var[y] - 8
        /\ var[v] \in Nat /\ var[x] \in Nat /\ var[y] \in Nat
    BY <1>2, <2>1, <2>2
  <2>4. x # v /\ y # v /\ x # "pagetest" /\ y # "pagetest"
    BY <1>5, <2>1, <2>2, <2>3 DEF pt
  <2>5. CASE GivenAt[v] < GivenAt[x]
    <3>1. var[v] < var[x]
      BY <1>1, <1>5, <2>1, <2>4, <2>5 DEF SameHalf
    <3>2. QED
      BY <1>5, <2>3, <3>1
  <2>6. CASE GivenAt[y] < GivenAt[v]
    <3>1. var[y] < var[v]
      BY <1>1, <1>5, <2>2, <2>4, <2>6 DEF SameHalf
    <3>2. QED
      BY <1>5, <2>3, <3>1
  <2>7. QED
    BY <2>4, <2>5, <2>6
<1>6. /\ KfreeDerefs(h.head, a) \subseteq DOMAIN h.head
      /\ \E T : /\ PlainHeap(g, T) /\ TestList(g.head, T, pt)
                /\ \A x \in T : x \in S /\ (g.head[x].used <=> h.head[x].used /\ x # a)
                /\ \A x \in S \ {a} : h.head[x].used => x \in T /\ g.head[x].next = h.head[x].next
  BY SMTT(30), <1>1, <1>4, <1>5, TestFrees
<1>7. PICK T :
        /\ PlainHeap(g, T) /\ TestList(g.head, T, pt)
        /\ \A x \in T : x \in S /\ (g.head[x].used <=> h.head[x].used /\ x # a)
        /\ \A x \in S \ {a} : h.head[x].used => x \in T /\ g.head[x].next = h.head[x].next
  BY <1>6
<1>8. ASSUME NEW x \in M
      PROVE  /\ var[x] \in Nat /\ var[x] - HeadSize \in T \ {HeapEnd}
             /\ g.head[var[x] - HeadSize].used
             /\ less[var[x]] \in Nat \ {0}
             /\ var[x] + less[var[x]] <= g.head[var[x] - HeadSize].next
  <2>1. x \in L /\ var[x] - HeadSize # a /\ var[x] # var[v]
    BY <1>1, <1>3
  <2>2. less[var[x]] = blocks[var[x]]
    BY <1>1, <2>1 DEF Without
  <2>3. /\ var[x] - HeadSize \in T /\ g.head[var[x] - HeadSize].used
        /\ g.head[var[x] - HeadSize].next = h.head[var[x] - HeadSize].next
    BY <1>1, <1>7, <2>1
  <2>4. QED
    BY <1>1, <2>1, <2>2, <2>3
<1>9. ASSUME NEW u \in T, g.head[u].used PROVE \E x \in M : u = var[x] - HeadSize
  BY <1>1, <1>7, <1>9
<1>10. DOMAIN less = {var[x] : x \in M}
  <2>1. DOMAIN less = DOMAIN blocks \ {var[v]}
    BY DEF Without
  <2>2. QED
    BY <1>1, <2>1
<1>11. "pagetest" \in M
  BY <1>1
<1>12. Tested(g, less, var, M, T)
  BY <1>1, <1>7, <1>8, <1>9, <1>10, <1>11 DEF Tested, pt
<1>13. QED
  BY <1>6, <1>12

(* The last kfree(), of the block of kpagealloc(): what is before it and   *)
(* what is behind it are one free area each.                               *)
LEMMA TestEnds ==
  ASSUME NEW h, NEW blocks, NEW var, NEW S, Tested(h, blocks, var, {"pagetest"}, S),
         NEW a, a = var["pagetest"] - HeadSize,
         NEW g, g = [head |-> AfterKfree(h.head, a), mapped |-> h.mapped]
  PROVE  /\ KfreeDerefs(h.head, a) \subseteq DOMAIN h.head
         /\ Visited(g.head) = {HeapStart, HeapEnd} /\ HeapOK(g)
         /\ ~ g.head[HeapStart].used /\ ~ g.head[HeapEnd].used
         /\ DOMAIN blocks = {var["pagetest"]}
<1> DEFINE head == h.head
           c    == head[a].next
<1>1. /\ PlainHeap(h, S) /\ TestList(head, S, a)
      /\ \A u \in S : head[u].used => u = a
      /\ DOMAIN blocks = {var["pagetest"]}
  BY DEF Tested
<1>2. /\ \A x \in S : x \in Nat /\ HeapStart <= x
      /\ \A x \in S \ {HeapEnd} : x < head[x].next /\ head[x].next \in S
      /\ \A x \in S \ {HeapEnd}, y \in S : y <= x \/ head[x].next <= y
      /\ \A x, y \in S \ {HeapEnd} : head[x].next = head[y].next => x = y
      /\ HeapStart \in S /\ HeapEnd \in S /\ HeapStart # HeapEnd
  BY <1>1, LinkedOrder DEF PlainHeap, Linked
<1>3. /\ a \in S \ {HeapStart, HeapEnd} /\ head[a].used /\ head[a].prev = HeapStart
      /\ \A f \in S \ {HeapEnd} : ~ head[f].used => head[f].next \in {a, HeapEnd}
      /\ \A x \in S \ {HeapEnd} : head[x].next = HeapEnd => ~ head[x].used
  <2>1. /\ a \in S \ {HeapStart, HeapEnd} /\ head[a].used /\ head[a].prev = HeapStart
        /\ \A f \in S \ {HeapEnd} :
             ~ head[f].used /\ head[f].next \notin {a, HeapEnd} => head[head[f].next].used
        /\ \A x \in S \ {HeapEnd} : head[x].next = HeapEnd => ~ head[x].used
    BY <1>1 DEF TestList
  <2>2. QED
    BY <1>1, <1>2, <2>1
<1> HIDE DEF head
<1>4. \A u \in S : u # a => ~ head[u].used
  BY <1>1 DEF head
<1>5. c \in S \ {HeapEnd} /\ a < c /\ ~ head[c].used /\ head[c].next = HeapEnd
  <2>1. c \in S \ {HeapEnd} /\ a < c
    BY <1>2, <1>3
  <2> HIDE DEF c
  <2>2. ~ head[c].used
    <3>1. c # a
      BY <1>2, <2>1
    <3>2. QED
      BY <1>4, <2>1, <3>1
  <2>3. head[c].next # a
    BY <1>2, <1>3, <2>1
  <2>4. QED
    BY <1>3, <2>1, <2>2, <2>3
<1>6. ~ head[HeapStart].used /\ head[HeapStart].next = a
  <2>1. ~ head[HeapStart].used
    BY <1>2, <1>3, <1>4
  <2> HIDE DEF c
  <2>2. head[HeapStart].next # HeapEnd
    <3>1. c # HeapStart
      <4>1. a \in Nat /\ HeapStart <= a /\ a < c /\ HeapStart \in Nat
        BY <1>2, <1>3, <1>5
      <4>2. QED
        BY <4>1
    <3>2. QED
      BY <1>2, <1>5, <3>1
  <2>3. QED
    BY <1>2, <1>3, <2>1, <2>2
<1>7. BackLinked(head, S, a)
  BY <1>2, <1>3, <1>6 DEF BackLinked
<1>8. /\ KfreeDerefs(head, a) \subseteq DOMAIN head
      /\ \E T : PlainHeap(g, T) /\ Freed(head, S, g.head, T, a)
  BY <1>1, <1>3, <1>5, <1>7, KfreeFrees DEF head
<1>9. PICK T : PlainHeap(g, T) /\ Freed(head, S, g.head, T, a)
  BY <1>8
<1>10. FreeBefore(head, a) /\ FreeAfter(head, a)
  BY <1>3, <1>5, <1>6 DEF FreeBefore, FreeAfter
<1>11. T = S \ {a, c} /\ \A x \in T : g.head[x].used <=> head[x].used /\ x # a
  BY <1>9, <1>10 DEF Freed
<1>12. S \subseteq {HeapStart, a, c, HeapEnd}
  <2> SUFFICES ASSUME NEW x \in S \ {HeapStart, a, c, HeapEnd} PROVE FALSE
    OBVIOUS
  <2>1. ~ head[x].used
    BY <1>4
  <2>2. head[x].next \in {a, HeapEnd}
    BY <1>3, <2>1
  <2>3. head[x].next # a
    BY <1>2, <1>6
  <2> HIDE DEF c
  <2>4. head[x].next # HeapEnd
    BY <1>2, <1>5
  <2>5. QED
    BY <2>2, <2>3, <2>4
<1>13. T = {HeapStart, HeapEnd}
  <2> HIDE DEF c
  <2>1. c # HeapStart /\ c # HeapEnd /\ a # HeapStart /\ a # HeapEnd
    BY <1>2, <1>3, <1>5
  <2>2. QED
    BY <1>2, <1>11, <1>12, <2>1
<1>14. Visited(g.head) = T /\ HeapOK(g)
  BY <1>9, PlainHeapFacts DEF PlainHeap
<1>15. ~ g.head[HeapStart].used /\ ~ g.head[HeapEnd].used
  BY <1>1, <1>2, <1>3, <1>6, <1>11, <1>13
<1>16. QED
  BY <1>1, <1>8, <1>13, <1>14, <1>15 DEF head

-----------------------------------------------------------------------------
(* The calls that take the blocks back; krealloc() takes that of test.     *)
FreedAt == [pagetest |-> 11, test |-> 6, test2 |-> 7, test3 |-> 8, big |-> 10, test4 |-> 9]

Variables == {"pagetest", "test", "test2", "test3", "big", "test4"}

Live(k) == {x \in Variables : GivenAt[x] < k /\ k <= FreedAt[x]}

(* What the largest of the test's blocks needs.                            *)
Unit == (CHOOSE most \in Requests : \A size \in Requests : size <= most) + 2 * HeadSize

(* The self test before call k.  While it allocates, there is room for the *)
(* blocks that are still to come, and krealloc() will have to move test.   *)
TestOK(h, blocks, w, k, var) ==
  /\ w = FALSE /\ k \in Nat /\ k >= 1
  /\ h = [head |-> h.head, mapped |-> h.mapped]
  /\ var = [x \in Variables |-> var[x]]
  /\ k = 1 => h = InitialHeap /\ DOMAIN blocks = {}
  /\ k \in 2 .. LastCall =>
       \E S : /\ Tested(h, blocks, var, Live(k), S)
              /\ k <= 6 => /\ Fresh(h.head, S, var["pagetest"] - HeadSize)
                           /\ Room(h.head, S, (7 - k) * Unit)
  /\ k \in 3 .. 6 => \A size \in Grown : AreaSize(h.head, var["test"] - HeadSize) < size
  /\ k > LastCall => /\ blocks = << >>
                     /\ Visited(h.head) = {HeapStart, HeapEnd} /\ HeapOK(h)
                     /\ ~ h.head[HeapStart].used /\ ~ h.head[HeapEnd].used

TestInv == TestOK(heap, owned, wild, step, block)

-----------------------------------------------------------------------------
(* Unit is enough for each block, and the heap has five of them.           *)
LEMMA UnitFacts ==
  /\ Unit \in Nat /\ Unit >= 16 /\ \A size \in Requests : size \in Nat /\ size > 0 /\ size + 2 * HeadSize <= Unit
  /\ \A n \in PageCounts : HeapStart + (n + 1) * PageSize + 5 * Unit + 3 * HeadSize < HeapEnd
<1> DEFINE m == CHOOSE most \in Requests : \A size \in Requests : size <= most
<1>1. Requests \subseteq Nat \ {0}
  BY TestAssumption
<1>2. PICK most \in Requests :
        /\ \A size \in Requests : size <= most
        /\ \A n \in PageCounts :
             HeapStart + (n + 1) * PageSize + 5 * (most + 2 * HeadSize) + 3 * HeadSize < HeapEnd
  BY TestAssumption
<1>3. m \in Requests /\ \A size \in Requests : size <= m
  BY <1>2
<1> HIDE DEF m
<1>4. m = most /\ m \in Nat
  <2>1. m <= most /\ most <= m /\ m \in Nat /\ most \in Nat
    BY <1>1, <1>2, <1>3
  <2>2. QED
    BY <2>1
<1>5. Unit = m + 2 * HeadSize
  BY DEF Unit, m
<1>6. Unit = m + 16
  BY <1>4, <1>5 DEF HeadSize
<1>7. \A n \in PageCounts : HeapStart + (n + 1) * PageSize + 5 * Unit + 3 * HeadSize < HeapEnd
  BY <1>2, <1>4, <1>5
<1>8. QED
  BY <1>1, <1>3, <1>4, <1>6, <1>7 DEF HeadSize

(* Room for more is room for less.                                         *)
LEMMA RoomLess ==
  ASSUME NEW head, NEW S, S \subseteq Nat, NEW m \in Int, Room(head, S, m), NEW l \in Int, l <= m
  PROVE  Room(head, S, l)
  BY HeapConstants DEF Room, HeadSize

(* Each allocation may use one Unit of the room.                           *)
LEMMA RoomLeft ==
  ASSUME NEW k \in 2 .. 6
  PROVE  /\ (7 - k) * Unit \in Nat /\ Unit <= (7 - k) * Unit
         /\ (7 - (k + 1)) * Unit = (7 - k) * Unit - Unit
<1>1. Unit \in Nat
  BY UnitFacts
<1>2. k = 2 \/ k = 3 \/ k = 4 \/ k = 5 \/ k = 6
  OBVIOUS
<1>3. QED
  BY <1>1, <1>2

(* Which variables hold a block before call k.                             *)
LEMMA LiveGrows ==
  ASSUME NEW k \in 2 .. 6, NEW x \in Variables, GivenAt[x] = k
  PROVE  /\ x \notin Live(k) /\ x # "pagetest"
         /\ Live(k + 1) = IF k = 6 THEN (Live(k) \union {x}) \ {"test"} ELSE Live(k) \union {x}
         /\ \A y \in Live(k) : GivenAt[y] < GivenAt[x] /\ ~ GivenAt[x] < GivenAt[y]
         /\ ~ GivenAt[x] < GivenAt[x]
         /\ k > 2 => "test" \in Live(k)
<1>1. \A y \in Variables : GivenAt[y] \in Nat /\ FreedAt[y] \in Nat /\ FreedAt[y] >= 6
                           /\ (FreedAt[y] = 6 <=> y = "test")
  BY DEF GivenAt, FreedAt, Variables
<1>2. \A y \in Variables : GivenAt[y] = GivenAt[x] => y = x
  BY DEF GivenAt, Variables
<1>3. x # "pagetest" /\ "test" \in Variables /\ GivenAt["test"] = 2 /\ (x = "test" <=> k = 2)
  BY <1>2 DEF GivenAt, Variables
<1>4. ASSUME NEW y \in Variables
      PROVE  y \in Live(k + 1) <=> (y \in Live(k) \/ y = x) /\ (k = 6 => y # "test")
  BY <1>1, <1>2, <1>3 DEF Live
<1>5. \A y \in Live(k) \union Live(k + 1) : y \in Variables
  BY DEF Live
<1>6. QED
  BY <1>1, <1>3, <1>4, <1>5 DEF Live

(* The variables that hold a block at each kfree().                        *)
LEMMA LiveShrinks ==
  /\ Live(2) = {"pagetest"}
  /\ Live(7) = {"pagetest", "test2", "test3", "big", "test4"}
  /\ Live(8) = {"pagetest", "test3", "big", "test4"}
  /\ Live(9) = {"pagetest", "big", "test4"}
  /\ Live(10) = {"pagetest", "big"}
  /\ Live(11) = {"pagetest"}
  BY DEF Live, GivenAt, FreedAt, Variables

(* A call gave a block, since the test goes on.                            *)
LEMMA AllocationGave ==
  ASSUME NEW fits, NEW result, NEW size, NEW x, wild = FALSE, WalkIsSound,
         Allocates(fits, result, size), Assigned(x)
  PROVE  /\ fits # {}
         /\ heap' = [head |-> Overwritten(result.head, result.ptr, size), mapped |-> result.mapped]
         /\ owned' = With(owned, result.ptr, size) /\ wild' = FALSE
         /\ result.ptr \notin DOMAIN owned => block' = [block EXCEPT ![x] = result.ptr]
<1>1. ASSUME owned' = owned, wild' = FALSE PROVE FALSE
  BY <1>1 DEF Assigned
<1>2. ~ UNCHANGED vars
  BY <1>1 DEF vars
<1>3. /\ fits # {}
      /\ \E after \in {result} :
           /\ heap' = [head |-> Overwritten(after.head, after.ptr, size), mapped |-> after.mapped]
           /\ owned' = With(owned, after.ptr, size)
      /\ wild' = FALSE
  BY <1>2 DEF Allocates
<1>4. owned' = With(owned, result.ptr, size)
  BY <1>3
<1>5. ASSUME result.ptr \notin DOMAIN owned PROVE block' = [block EXCEPT ![x] = result.ptr]
  <2>1. DOMAIN owned' \ DOMAIN owned = {result.ptr}
    BY <1>4, <1>5 DEF With
  <2>2. QED
    BY <1>3, <2>1 DEF Assigned
<1>6. QED
  BY <1>3, <1>4, <1>5

(* The walk along the test's list reads headers only.                      *)
LEMMA TestedWalk ==
  ASSUME NEW h, NEW blocks, NEW var, NEW L, NEW S, Tested(h, blocks, var, L, S)
  PROVE  /\ WalkDerefs(h.head) \subseteq DOMAIN h.head /\ S \subseteq Nat
         /\ \A x \in L : var[x] - HeadSize \in DOMAIN h.head /\ var[x] \in Nat
<1>1. PlainHeap(h, S) /\ \A x \in L : var[x] \in Nat /\ var[x] - HeadSize \in S \ {HeapEnd}
  BY DEF Tested
<1>2. S \subseteq Nat /\ S \subseteq DOMAIN h.head
  BY <1>1, LinkedOrder DEF PlainHeap, Linked
<1>3. QED
  BY <1>1, <1>2, PlainHeapFacts

(* The invariant of this state and of the next one.                        *)
LEMMA TestParts ==
  /\ TestInv  <=> TestOK(heap, owned, wild, step, block)
  /\ TestInv' <=> TestOK(heap', owned', wild', step', block')
  BY DEF TestInv

(* kpagealloc(), the first call *)
LEMMA PagesStep ==
  ASSUME TestInv, step = 1, NEW n \in PageCounts, Allocation("pagetest", n)
  PROVE  TestInv'
<1> DEFINE size == n * PageSize
           r    == AfterKpagealloc(heap, size)
           g    == [head |-> Overwritten(r.head, r.ptr, size), mapped |-> r.mapped]
           pt   == r.ptr - HeadSize
           room == 5 * Unit
<1>1. heap = InitialHeap /\ DOMAIN owned = {} /\ wild = FALSE /\ block = [x \in Variables |-> block[x]]
  BY DEF TestInv, TestOK
<1>2. WalkIsSound
  BY <1>1, InitialIsPlain, PlainHeapFacts DEF WalkIsSound
<1>3. /\ size \in Nat /\ size % 8 = 0 /\ size > 0 /\ size % Modulus = size
      /\ room \in Nat /\ 16 <= room
      /\ HeapStart + PageSize + size + room + 3 * HeadSize < HeapEnd
  <2>1. n \in Nat /\ n > 0 /\ PageSize \in Nat /\ PageSize > 16
    BY RequestsAssumption, HeapConstants
  <2>2. size \in Nat /\ size > 0
    BY <2>1
  <2>3. (n + 1) * PageSize = PageSize + size
    BY <2>1
  <2>4. HeapStart + (n + 1) * PageSize + 5 * Unit + 3 * HeadSize < HeapEnd /\ Unit \in Nat /\ 16 <= Unit
    BY UnitFacts
  <2>5. (size % Modulus) % 8 = 0
    BY RequestTypes
  <2> HIDE DEF size
  <2>6. HeapStart + PageSize + size + room + 3 * HeadSize < HeapEnd
    BY <2>1, <2>2, <2>3, <2>4, HeapConstants DEF HeadSize
  <2>7. size < Modulus
    BY <2>1, <2>2, <2>4, <2>6, HeapConstants DEF HeadSize
  <2>8. size % Modulus = size
    BY <2>2, <2>7, HeapConstants
  <2>9. QED
    BY <2>2, <2>4, <2>5, <2>6, <2>8
<1>4. Allocates(KpageallocFits(heap.head, size), r, size) /\ Assigned("pagetest") /\ step' = 2
  BY <1>3 DEF Allocation, Kpagealloc
<1> HIDE DEF size, r, room
<1>5. /\ KpageallocFits(heap.head, size) # {} /\ heap' = g
      /\ owned' = With(owned, r.ptr, size) /\ wild' = FALSE
      /\ block' = [block EXCEPT !["pagetest"] = r.ptr]
  BY <1>1, <1>2, <1>4, AllocationGave
<1>6. PICK S :
        /\ PlainHeap(g, S) /\ TestList(g.head, S, pt)
        /\ Fresh(g.head, S, pt) /\ Room(g.head, S, room)
        /\ \A x \in S : g.head[x].used <=> x = pt
        /\ r.ptr = pt + 8 /\ r.ptr \in Nat /\ r.ptr + size <= g.head[pt].next
  BY <1>1, <1>3, <1>5, TestPages DEF r
<1>7. block'["pagetest"] = r.ptr /\ block' = [x \in Variables |-> block'[x]]
  BY <1>1, <1>5 DEF Variables
<1>8. DOMAIN owned' = {r.ptr} /\ owned'[r.ptr] = size
  BY <1>1, <1>5 DEF With
<1>9. Tested(heap', owned', block', {"pagetest"}, S)
  <2>1. pt \in S \ {HeapStart, HeapEnd} /\ block'["pagetest"] - HeadSize = pt
    BY <1>6, <1>7 DEF TestList
  <2> HIDE DEF pt, g
  <2>2. /\ block'["pagetest"] \in Nat /\ pt \in S \ {HeapEnd} /\ heap'.head[pt].used
        /\ owned'[block'["pagetest"]] \in Nat \ {0}
        /\ block'["pagetest"] + owned'[block'["pagetest"]] <= heap'.head[pt].next
        /\ \A u \in S : heap'.head[u].used => u = pt
    BY <1>3, <1>5, <1>6, <1>7, <1>8, <2>1
  <2>3. PlainHeap(heap', S) /\ TestList(heap'.head, S, pt)
    BY <1>5, <1>6
  <2>4. DOMAIN owned' = {block'[x] : x \in {"pagetest"}}
    BY <1>7, <1>8
  <2>5. QED
    BY <2>1, <2>2, <2>3, <2>4 DEF Tested
<1>10. Fresh(heap'.head, S, block'["pagetest"] - HeadSize) /\ Room(heap'.head, S, (7 - 2) * Unit)
  BY <1>5, <1>6, <1>7 DEF room
<1>11. heap' = [head |-> heap'.head, mapped |-> heap'.mapped]
  BY <1>5
<1>12. ASSUME NEW k \in Nat, k = 2 PROVE TestOK(heap', owned', wild', k, block')
  <2>1. /\ Tested(heap', owned', block', Live(k), S)
        /\ Fresh(heap'.head, S, block'["pagetest"] - HeadSize)
        /\ Room(heap'.head, S, (7 - k) * Unit)
    BY <1>9, <1>10, <1>12, LiveShrinks
  <2>2. wild' = FALSE
    BY <1>5
  <2>3. k # 1 /\ k \notin 3 .. 6 /\ ~ k > LastCall /\ k >= 1
    BY <1>12 DEF LastCall
  <2> HIDE DEF g, pt
  <2>4. QED
    BY <1>7, <1>11, <2>1, <2>2, <2>3 DEF TestOK
<1>13. QED
  BY <1>4, <1>12, TestParts

(* kmalloc(), calls 2 to 5 *)
LEMMA KmallocTestStep ==
  ASSUME TestInv, NEW k \in 2 .. 5, step = k, NEW x \in Variables, GivenAt[x] = k,
         NEW size \in Requests, x = "test" => size \in Small, Allocation(x, size)
  PROVE  TestInv'
<1> DEFINE r    == AfterKmalloc(heap, size)
           g    == [head |-> Overwritten(r.head, r.ptr, size), mapped |-> r.mapped]
           pt   == block["pagetest"] - HeadSize
           room == (7 - k) * Unit
           L    == Live(k)
<1>1. /\ wild = FALSE /\ block = [y \in Variables |-> block[y]]
      /\ k > 2 => \A s \in Grown : AreaSize(heap.head, block["test"] - HeadSize) < s
  BY DEF TestInv, TestOK
<1>2. PICK S : Tested(heap, owned, block, L, S) /\ Fresh(heap.head, S, pt) /\ Room(heap.head, S, room)
  BY DEF TestInv, TestOK, LastCall
<1>3. WalkIsSound
  BY <1>2, TestedWalk DEF WalkIsSound
<1>4. x \in Variables /\ x # "pagetest" /\ Allocates(KmallocFits(heap.head, size), r, size)
      /\ Assigned(x) /\ step' = k + 1
  BY LiveGrows DEF Allocation, Kmalloc
<1> HIDE DEF r
<1>5. /\ KmallocFits(heap.head, size) # {} /\ heap' = g
      /\ owned' = With(owned, r.ptr, size) /\ wild' = FALSE
      /\ r.ptr \notin DOMAIN owned => block' = [block EXCEPT ![x] = r.ptr]
  BY <1>1, <1>3, <1>4, AllocationGave
<1>6. /\ size \in Nat /\ size > 0 /\ size + 2 * HeadSize <= Unit /\ Unit \in Nat
      /\ room \in Nat /\ Unit <= room /\ (7 - (k + 1)) * Unit = room - Unit
  BY UnitFacts, RoomLeft
<1>7. /\ x \notin L /\ Live(k + 1) = L \union {x} /\ ~ GivenAt[x] < GivenAt[x]
      /\ \A y \in L : GivenAt[y] < GivenAt[x] /\ ~ GivenAt[x] < GivenAt[y]
      /\ k > 2 => "test" \in L
  BY LiveGrows
<1> HIDE DEF room, L
<1>8. size + 2 * HeadSize <= room
  BY <1>6 DEF HeadSize
<1> DEFINE var == [block EXCEPT ![x] = r.ptr]
<1>9. var[x] = r.ptr /\ (\A y \in L : var[y] = block[y]) /\ var = [y \in Variables |-> var[y]]
      /\ "pagetest" \in L
  BY <1>1, <1>2, <1>7 DEF L, Live, Tested
<1> HIDE DEF var
<1>10. /\ r.ptr \notin DOMAIN owned
       /\ \E T : TestGiven(heap, owned, block, L, pt, room, size, r.ptr, g, var, x, T)
  <2>1. MayGive(heap, owned, block, L, S, pt, room, size, size, r, g, x, var)
    <3>1. r = AfterKmalloc(heap, size)
      BY DEF r
    <3>2. size <= size
      BY <1>6
    <3>3. QED
      BY <1>2, <1>5, <1>6, <1>7, <1>8, <1>9, <3>1, <3>2 DEF MayGive
  <2>2. QED
    BY <2>1, TestGives
<1>11. PICK T :
         /\ Tested(g, With(owned, r.ptr, size), var, L \union {x}, T)
         /\ Fresh(g.head, T, pt) /\ Room(g.head, T, room - (size + 2 * HeadSize))
         /\ AreaSize(g.head, r.ptr - HeadSize) <= size + 31
         /\ \A y \in L : AreaSize(g.head, block[y] - HeadSize) = AreaSize(heap.head, block[y] - HeadSize)
  BY <1>10 DEF TestGiven, AreasKept
<1>12. block' = var
  BY <1>5, <1>10 DEF var
<1>13. Tested(heap', owned', block', Live(k + 1), T)
  BY <1>5, <1>7, <1>11, <1>12
<1>14. Fresh(heap'.head, T, block'["pagetest"] - HeadSize)
  BY <1>5, <1>9, <1>11, <1>12
<1>15. Room(heap'.head, T, (7 - (k + 1)) * Unit)
  <2>1. T \subseteq Nat
    BY <1>11, TestedWalk
  <2>2. room - (size + 2 * HeadSize) \in Int /\ room - Unit \in Int
        /\ room - Unit <= room - (size + 2 * HeadSize)
    BY <1>6 DEF HeadSize
  <2>3. Room(g.head, T, room - Unit)
    BY <1>11, <2>1, <2>2, RoomLess
  <2>4. QED
    BY <1>5, <1>6, <2>3
<1>16. \A s \in Grown : AreaSize(heap'.head, block'["test"] - HeadSize) < s
  <2> SUFFICES ASSUME NEW s \in Grown PROVE AreaSize(g.head, var["test"] - HeadSize) < s
    BY <1>5, <1>12
  <2>1. CASE x = "test"
    <3>1. var["test"] = r.ptr /\ size + 32 <= s /\ s \in Nat
      <4>1. s \in Requests
        BY DEF Requests
      <4>2. size + 4 * HeadSize <= s
        BY <2>1, TestAssumption
      <4>3. QED
        BY <1>9, <2>1, <4>1, <4>2, UnitFacts DEF HeadSize
    <3>2. AreaSize(g.head, r.ptr - HeadSize) \in Int
      <4>1. PlainHeap(g, T) /\ r.ptr - HeadSize \in T \ {HeapEnd}
        BY <1>9, <1>11 DEF Tested
      <4>2. QED
        BY <4>1, PlainHeapFacts
    <3>3. QED
      BY <1>6, <1>11, <3>1, <3>2
  <2>2. CASE x # "test"
    <3>1. k > 2
      BY <2>2 DEF GivenAt, Variables
    <3>2. "test" \in L /\ var["test"] = block["test"]
      BY <1>7, <1>9, <3>1
    <3>3. QED
      BY <1>1, <1>11, <3>1, <3>2
  <2>3. QED
    BY <2>1, <2>2
<1>17. heap' = [head |-> heap'.head, mapped |-> heap'.mapped]
  BY <1>5
<1>18. block' = [y \in Variables |-> block'[y]]
  BY <1>9, <1>12
<1>19. TestOK(heap', owned', wild', k + 1, block')
  BY <1>5, <1>13, <1>14, <1>15, <1>16, <1>17, <1>18 DEF TestOK, LastCall
<1>20. QED
  BY <1>4, <1>19, TestParts

(* A caller writes the block it got.                                       *)
LEMMA TestedWritten ==
  ASSUME NEW h, NEW blocks, NEW var, NEW L, NEW S, Tested(h, blocks, var, L, S),
         NEW v \in L, NEW n \in Nat, n <= blocks[var[v]],
         NEW g, g = [head |-> Overwritten(h.head, var[v], n), mapped |-> h.mapped]
  PROVE  Tested(g, blocks, var, L, S)
<1> DEFINE a == var[v] - HeadSize
<1>1. /\ PlainHeap(h, S) /\ TestList(h.head, S, var["pagetest"] - HeadSize)
      /\ var[v] \in Nat /\ a \in S \ {HeapEnd}
      /\ blocks[var[v]] \in Nat /\ var[v] + blocks[var[v]] <= h.head[a].next
      /\ \A x \in L : var[x] - HeadSize \in S
  BY DEF Tested
<1> HIDE DEF a
<1>2. var[v] = a + HeadSize
  BY <1>1 DEF a, HeadSize
<1>3. n <= AreaSize(h.head, a)
  <2>1. a \in Nat /\ h.head[a].next \in Nat
    BY <1>1, LinkedOrder DEF PlainHeap, Linked
  <2>2. AreaSize(h.head, a) = h.head[a].next - a - 8
    BY <1>1, PlainHeapFacts
  <2>3. QED
    BY <1>1, <1>2, <2>1, <2>2 DEF HeadSize
<1>4. PlainHeap(g, S) /\ \A x \in S : g.head[x] = h.head[x]
  BY <1>1, <1>2, <1>3, PlainAreaWritten
<1>5. \A x \in S \ {HeapEnd} : h.head[x].next \in S
  BY <1>1 DEF PlainHeap, Linked
<1>6. TestList(g.head, S, var["pagetest"] - HeadSize)
  <2> DEFINE pt == var["pagetest"] - HeadSize
  <2>1. pt \in S /\ HeapStart \in S /\ \A x \in S \ {HeapStart, HeapEnd, pt} : h.head[x].prev \in S
    BY <1>1 DEF TestList, PlainHeap, Linked
  <2>2. TestList(h.head, S, pt)
    BY <1>1
  <2> HIDE DEF pt
  <2>3. TestList(g.head, S, pt)
    BY <1>4, <1>5, <2>1, <2>2 DEF TestList, First
  <2>4. QED
    BY <2>3 DEF pt
<1>7. QED
  BY <1>1, <1>4, <1>6 DEF Tested

(* A block more and another one less, in either order.                     *)
LEMMA WithAndWithout ==
  ASSUME NEW blocks, NEW p, NEW q, NEW n, p # q
  PROVE  With(Without(blocks, p), q, n) = Without(With(blocks, q, n), p)
<1>1. DOMAIN With(Without(blocks, p), q, n) = DOMAIN Without(With(blocks, q, n), p)
  BY DEF With, Without
<1>2. \A x \in DOMAIN With(Without(blocks, p), q, n) :
        With(Without(blocks, p), q, n)[x] = Without(With(blocks, q, n), p)[x]
  BY DEF With, Without
<1>3. QED
  BY <1>1, <1>2 DEF With, Without

(* krealloc(), call 6 *)
LEMMA KreallocTestStep ==
  ASSUME TestInv, step = 6, NEW size \in Grown, Krealloc(block["test"], size),
         Assigned("test4"), step' = 7
  PROVE  TestInv'
<1> DEFINE p    == block["test"]
           a    == p - HeadSize
           area == AreaSize(heap.head, a)
           r    == AfterKmalloc(heap, size)
           g    == [head |-> Overwritten(r.head, r.ptr, area), mapped |-> r.mapped]
           back == [head |-> AfterKfree(g.head, a), mapped |-> g.mapped]
           last == [head |-> Overwritten(back.head, r.ptr, size), mapped |-> back.mapped]
           pt   == block["pagetest"] - HeadSize
           L    == Live(6)
           var  == [block EXCEPT !["test4"] = r.ptr]
           M    == L \union {"test4"}
           more == With(owned, r.ptr, size)
<1>1. /\ wild = FALSE /\ block = [y \in Variables |-> block[y]] /\ area < size
  BY DEF TestInv, TestOK
<1>2. PICK S : Tested(heap, owned, block, L, S) /\ Fresh(heap.head, S, pt) /\ Room(heap.head, S, (7 - 6) * Unit)
  <2>1. \E S : /\ Tested(heap, owned, block, L, S)
               /\ 6 <= 6 => Fresh(heap.head, S, pt) /\ Room(heap.head, S, (7 - 6) * Unit)
    BY DEF TestInv, TestOK, LastCall
  <2>2. QED
    BY <2>1
<1>3. /\ GivenAt["test4"] = 6 /\ "test4" \in Variables
      /\ "test4" \notin L /\ "test" \in L /\ "test" # "test4" /\ "pagetest" \in L
      /\ Live(7) = M \ {"test"}
      /\ \A y \in L : GivenAt[y] < GivenAt["test4"] /\ ~ GivenAt["test4"] < GivenAt[y]
      /\ ~ GivenAt["test4"] < GivenAt["test4"]
      /\ \A y \in M \ {"test", "pagetest"} : GivenAt["test"] < GivenAt[y]
  <2>1. GivenAt["test4"] = 6 /\ "test4" \in Variables
    BY DEF GivenAt, Variables
  <2>2. /\ \A y \in M \ {"test", "pagetest"} : GivenAt["test"] < GivenAt[y]
        /\ "pagetest" \in L
    BY DEF Live, GivenAt, FreedAt, Variables
  <2>3. QED
    BY <2>1, <2>2, LiveGrows
<1>4. WalkIsSound /\ a \in DOMAIN heap.head
  BY <1>2, <1>3, TestedWalk DEF WalkIsSound
<1>5. size \in Requests /\ size \in Nat /\ size > 0 /\ size + 2 * HeadSize <= Unit /\ Unit \in Nat
  BY UnitFacts DEF Requests
<1>6. area \in Nat
  <2>1. PlainHeap(heap, S) /\ a \in S \ {HeapEnd}
    BY <1>2, <1>3 DEF Tested
  <2>2. QED
    BY <2>1, PlainHeapFacts
<1>7. ~ UNCHANGED vars
  <2>1. ASSUME owned' = owned, wild' = FALSE PROVE FALSE
    BY <2>1 DEF Assigned
  <2>2. QED
    BY <1>1, <2>1 DEF vars
<1>8. Moves(p, size)
  <2>1. ~ Keeps(p, size)
    BY <1>1, <1>5, <1>6 DEF Keeps
  <2>2. QED
    BY <1>4, <2>1 DEF Krealloc
<1>9. /\ KmallocFits(heap.head, size) # {}
      /\ KfreeDerefs(g.head, a) \subseteq DOMAIN g.head =>
           /\ heap' = last
           /\ owned' = With(Without(owned, p), r.ptr, size)
           /\ wild' = FALSE
  BY <1>1, <1>4, <1>7, <1>8 DEF Moves
<1> HIDE DEF L, area, r, var
<1>10. /\ r.ptr \notin DOMAIN owned
       /\ \E T : TestGiven(heap, owned, block, L, pt, Unit, size, r.ptr, g, var, "test4", T)
  <2>1. Room(heap.head, S, Unit)
    BY <1>2, <1>5
  <2>2. var["test4"] = r.ptr /\ \A y \in L : var[y] = block[y]
    BY <1>1, <1>3 DEF var
  <2>3. r = AfterKmalloc(heap, size) /\ area <= size /\ area \in Nat
    BY <1>1, <1>5, <1>6 DEF r
  <2>4. MayGive(heap, owned, block, L, S, pt, Unit, size, area, r, g, "test4", var)
    BY <1>2, <1>3, <1>5, <1>9, <2>1, <2>2, <2>3 DEF MayGive
  <2>5. QED
    BY <2>4, TestGives
<1>11. PICK T : Tested(g, more, var, M, T)
  BY <1>10 DEF TestGiven
<1>12. var["test"] = p /\ var["test4"] = r.ptr /\ p # r.ptr
  <2>1. p \in DOMAIN owned
    BY <1>2, <1>3 DEF Tested
  <2>2. QED
    BY <1>1, <1>3, <1>10, <2>1 DEF var
<1> HIDE DEF g, M, more
<1>13. /\ KfreeDerefs(g.head, a) \subseteq DOMAIN g.head
       /\ \E U : Tested(back, Without(more, p), var, M \ {"test"}, U)
  <2>1. "test" \in M \ {"pagetest"}
    BY <1>3 DEF M
  <2>2. a = var["test"] - HeadSize
    BY <1>12
  <2>3. back = [head |-> AfterKfree(g.head, a), mapped |-> g.mapped]
    OBVIOUS
  <2> HIDE DEF back, a
  <2>4. \A y \in M \ {"test", "pagetest"} : GivenAt["test"] < GivenAt[y]
    BY <1>3
  <2>5. /\ KfreeDerefs(g.head, a) \subseteq DOMAIN g.head
        /\ \E U : Tested(back, Without(more, var["test"]), var, M \ {"test"}, U)
    BY <1>11, <2>1, <2>2, <2>3, <2>4, TestTakesBack
  <2>6. QED
    BY <1>12, <2>5
<1>14. PICK U : Tested(back, Without(more, p), var, M \ {"test"}, U)
  BY <1>13
<1>15. heap' = last /\ owned' = With(Without(owned, p), r.ptr, size) /\ wild' = FALSE
  BY <1>9, <1>13
<1> DEFINE less == Without(more, p)
<1>16. Tested(last, less, var, M \ {"test"}, U)
  <2>1. "test4" \in M \ {"test"} /\ less[var["test4"]] = size
    BY <1>3, <1>12 DEF M, more, With, Without
  <2>2. last = [head |-> Overwritten(back.head, var["test4"], size), mapped |-> back.mapped]
    BY <1>12
  <2>3. size \in Nat /\ size <= less[var["test4"]]
    BY <1>5, <2>1
  <2> HIDE DEF last, back, less
  <2>4. Tested(back, less, var, M \ {"test"}, U)
    BY <1>14 DEF less
  <2>5. QED
    BY <2>1, <2>2, <2>3, <2>4, TestedWritten
<1>17. owned' = less
  BY <1>12, <1>15, WithAndWithout DEF more
<1>18. block' = var
  <2>1. DOMAIN owned' \ DOMAIN owned = {r.ptr}
    BY <1>10, <1>15 DEF With, Without
  <2>2. QED
    BY <1>15, <2>1 DEF Assigned, var
<1>19. Tested(heap', owned', block', Live(7), U)
  BY <1>3, <1>15, <1>16, <1>17, <1>18
<1>20. heap' = [head |-> heap'.head, mapped |-> heap'.mapped]
  BY <1>15
<1>21. block' = [y \in Variables |-> block'[y]]
  BY <1>1, <1>3, <1>18 DEF var
<1>22. ASSUME NEW k \in Nat, k = 7 PROVE TestOK(heap', owned', wild', k, block')
  <2>1. k # 1 /\ k \notin 3 .. 6 /\ ~ k > LastCall /\ k >= 1 /\ ~ k <= 6
    BY <1>22 DEF LastCall
  <2>2. Tested(heap', owned', block', Live(k), U)
    BY <1>19, <1>22
  <2>3. wild' = FALSE
    BY <1>15
  <2> HIDE DEF last
  <2>4. QED
    BY <1>20, <1>21, <2>1, <2>2, <2>3 DEF TestOK
<1>23. QED
  BY <1>22, TestParts

(* Calls 7 to 10 take back the oldest or the newest block there is.        *)
LEMMA FreedInOrder ==
  ASSUME NEW k \in 7 .. 10, NEW v \in Variables, FreedAt[v] = k
  PROVE  /\ v \in Live(k) \ {"pagetest"} /\ Live(k + 1) = Live(k) \ {v}
         /\ \/ \A y \in Live(k) \ {v, "pagetest"} : GivenAt[v] < GivenAt[y]
            \/ \A y \in Live(k) \ {v, "pagetest"} : GivenAt[y] < GivenAt[v]
<1>1. \/ k = 7 /\ v = "test2"
      \/ k = 8 /\ v = "test3"
      \/ k = 9 /\ v = "test4"
      \/ k = 10 /\ v = "big"
  <2>1. /\ FreedAt["pagetest"] = 11 /\ FreedAt["test"] = 6 /\ FreedAt["test2"] = 7
        /\ FreedAt["test3"] = 8 /\ FreedAt["big"] = 10 /\ FreedAt["test4"] = 9
    BY DEF FreedAt
  <2>2. v # "pagetest" /\ v # "test"
    BY <2>1
  <2>3. QED
    BY <2>1, <2>2 DEF Variables
<1>2. CASE k = 7 /\ v = "test2"
  BY <1>2, LiveShrinks DEF GivenAt
<1>3. CASE k = 8 /\ v = "test3"
  BY <1>3, LiveShrinks DEF GivenAt
<1>4. CASE k = 9 /\ v = "test4"
  BY <1>4, LiveShrinks DEF GivenAt
<1>5. CASE k = 10 /\ v = "big"
  BY <1>5, LiveShrinks DEF GivenAt
<1>6. QED
  BY <1>1, <1>2, <1>3, <1>4, <1>5

(* What kfree() does when the headers it reads are headers.                *)
LEMMA ReleaseEffect ==
  ASSUME NEW v, heap = [head |-> heap.head, mapped |-> heap.mapped], wild = FALSE,
         KfreeDerefs(heap.head, block[v] - HeadSize) \subseteq DOMAIN heap.head, Release(v)
  PROVE  /\ heap' = [head |-> AfterKfree(heap.head, block[v] - HeadSize), mapped |-> heap.mapped]
         /\ owned' = Without(owned, block[v]) /\ wild' = FALSE /\ block' = block
         /\ step' = step + 1
<1>1. heap' = [heap EXCEPT !.head = AfterKfree(heap.head, block[v] - HeadSize)]
      /\ owned' = Without(owned, block[v]) /\ wild' = FALSE /\ block' = block /\ step' = step + 1
  BY DEF Release, Kfree
<1>2. [heap EXCEPT !.head = AfterKfree(heap.head, block[v] - HeadSize)]
        = [head |-> AfterKfree(heap.head, block[v] - HeadSize), mapped |-> heap.mapped]
  OBVIOUS
<1>3. QED
  BY <1>1, <1>2

(* kfree(), calls 7 to 10 *)
LEMMA ReleaseTestStep ==
  ASSUME TestInv, NEW k \in 7 .. 10, step = k, NEW v \in Variables, FreedAt[v] = k, Release(v)
  PROVE  TestInv'
<1> DEFINE p == block[v]
           a == p - HeadSize
           g == [head |-> AfterKfree(heap.head, a), mapped |-> heap.mapped]
           L == Live(k)
<1>1. /\ wild = FALSE /\ block = [y \in Variables |-> block[y]]
      /\ heap = [head |-> heap.head, mapped |-> heap.mapped]
  BY DEF TestInv, TestOK
<1>2. PICK S : Tested(heap, owned, block, L, S)
  <2>1. k \in 2 .. LastCall
    BY DEF LastCall
  <2>2. QED
    BY <2>1 DEF TestInv, TestOK
<1>3. /\ v \in L \ {"pagetest"} /\ Live(k + 1) = L \ {v}
      /\ \/ \A y \in L \ {v, "pagetest"} : GivenAt[v] < GivenAt[y]
         \/ \A y \in L \ {v, "pagetest"} : GivenAt[y] < GivenAt[v]
  BY FreedInOrder
<1> HIDE DEF L
<1>4. /\ KfreeDerefs(heap.head, a) \subseteq DOMAIN heap.head
      /\ \E T : Tested(g, Without(owned, p), block, L \ {v}, T)
  <2>1. g = [head |-> AfterKfree(heap.head, a), mapped |-> heap.mapped]
    OBVIOUS
  <2>2. a = block[v] - HeadSize
    OBVIOUS
  <2> HIDE DEF g, a
  <2>3. /\ KfreeDerefs(heap.head, a) \subseteq DOMAIN heap.head
        /\ \E T : Tested(g, Without(owned, block[v]), block, L \ {v}, T)
    BY <1>2, <1>3, <2>1, <2>2, TestTakesBack
  <2>4. QED
    BY <2>3
<1>5. PICK T : Tested(g, Without(owned, p), block, L \ {v}, T)
  BY <1>4
<1>6. heap' = g /\ owned' = Without(owned, p) /\ wild' = FALSE /\ block' = block /\ step' = k + 1
  BY <1>1, <1>4, ReleaseEffect
<1> HIDE DEF g, p
<1>7. Tested(heap', owned', block', Live(k + 1), T)
  BY <1>3, <1>5, <1>6
<1>8. heap' = [head |-> heap'.head, mapped |-> heap'.mapped]
  BY <1>6 DEF g
<1>9. k + 1 \in Nat /\ k + 1 # 1 /\ k + 1 >= 1 /\ k + 1 \notin 3 .. 6 /\ ~ k + 1 > LastCall /\ ~ k + 1 <= 6
  BY DEF LastCall
<1>10. TestOK(heap', owned', wild', k + 1, block')
  BY <1>1, <1>6, <1>7, <1>8, <1>9 DEF TestOK
<1>11. QED
  BY <1>6, <1>10, TestParts

(* kfree(), the last call *)
LEMMA LastTestStep ==
  ASSUME TestInv, step = LastCall, Release("pagetest")
  PROVE  TestInv'
<1> DEFINE p == block["pagetest"]
           a == p - HeadSize
           g == [head |-> AfterKfree(heap.head, a), mapped |-> heap.mapped]
<1>1. /\ wild = FALSE /\ block = [y \in Variables |-> block[y]]
      /\ heap = [head |-> heap.head, mapped |-> heap.mapped]
  BY DEF TestInv, TestOK
<1>2. PICK S : Tested(heap, owned, block, {"pagetest"}, S)
  <2>1. step \in 2 .. LastCall /\ step = 11
    BY DEF LastCall
  <2>2. \E S : Tested(heap, owned, block, Live(step), S)
    BY <2>1 DEF TestInv, TestOK
  <2>3. QED
    BY <2>1, <2>2, LiveShrinks
<1>3. /\ KfreeDerefs(heap.head, a) \subseteq DOMAIN heap.head
      /\ Visited(g.head) = {HeapStart, HeapEnd} /\ HeapOK(g)
      /\ ~ g.head[HeapStart].used /\ ~ g.head[HeapEnd].used
      /\ DOMAIN owned = {p}
  BY <1>2, TestEnds
<1>4. heap' = g /\ owned' = Without(owned, p) /\ wild' = FALSE /\ block' = block /\ step' = 12
  <2>1. KfreeDerefs(heap.head, block["pagetest"] - HeadSize) \subseteq DOMAIN heap.head
    BY <1>3
  <2>2. heap' = g /\ owned' = Without(owned, p) /\ wild' = FALSE /\ block' = block /\ step' = step + 1
    BY <1>1, <2>1, ReleaseEffect
  <2>3. QED
    BY <2>2 DEF LastCall
<1>5. owned' = << >>
  BY <1>3, <1>4 DEF Without
<1>6. heap' = [head |-> heap'.head, mapped |-> heap'.mapped]
  BY <1>4
<1> HIDE DEF g, p
<1>7. TestOK(heap', owned', wild', 12, block')
  BY <1>1, <1>3, <1>4, <1>5, <1>6 DEF TestOK, LastCall
<1>8. QED
  BY <1>4, <1>7, TestParts

(* The test starts with the heap of init_heap() and no block.              *)
LEMMA TestInit_Inv == TestInit => TestInv
<1> SUFFICES ASSUME TestInit PROVE TestInv
  OBVIOUS
<1>1. heap = InitialHeap /\ owned = << >> /\ wild = FALSE /\ step = 1
      /\ block = [x \in Variables |-> NULL]
  BY DEF TestInit, Init, Variables
<1>2. heap = [head |-> heap.head, mapped |-> heap.mapped]
  BY <1>1 DEF InitialHeap
<1>3. block = [x \in Variables |-> block[x]] /\ DOMAIN owned = {}
  BY <1>1
<1>4. 1 \notin 2 .. LastCall /\ 1 \notin 3 .. 6 /\ ~ 1 > LastCall /\ 1 \in Nat /\ 1 >= 1
  BY DEF LastCall
<1>5. TestOK(heap, owned, wild, 1, block)
  BY <1>1, <1>2, <1>3, <1>4 DEF TestOK
<1>6. QED
  BY <1>1, <1>5, TestParts

(* Each call of the test keeps the invariant.                              *)
LEMMA TestStep_Inv == TestInv /\ TestStep => TestInv'
<1> SUFFICES ASSUME TestInv, TestStep PROVE TestInv'
  OBVIOUS
<1>1. /\ GivenAt["test"] = 2 /\ GivenAt["test2"] = 3 /\ GivenAt["test3"] = 4 /\ GivenAt["big"] = 5
      /\ FreedAt["test2"] = 7 /\ FreedAt["test3"] = 8 /\ FreedAt["test4"] = 9 /\ FreedAt["big"] = 10
      /\ {"test", "test2", "test3", "test4", "big"} \subseteq Variables
  BY DEF GivenAt, FreedAt, Variables
<1>2. Small \subseteq Requests /\ Big \subseteq Requests
  BY DEF Requests
<1>3. CASE step = 1 /\ \E n \in PageCounts : Allocation("pagetest", n)
  BY <1>3, PagesStep
<1>4. CASE step = 2 /\ \E n \in Small : Allocation("test", n)
  BY <1>1, <1>2, <1>4, KmallocTestStep
<1>5. CASE step = 3 /\ \E n \in Small : Allocation("test2", n)
  BY <1>1, <1>2, <1>5, KmallocTestStep
<1>6. CASE step = 4 /\ \E n \in Small : Allocation("test3", n)
  BY <1>1, <1>2, <1>6, KmallocTestStep
<1>7. CASE step = 5 /\ \E n \in Big : Allocation("big", n)
  BY <1>1, <1>2, <1>7, KmallocTestStep
<1>8. CASE step = 6 /\ \E n \in Grown : Krealloc(block["test"], n) /\ Assigned("test4")
                       /\ step' = step + 1
  BY <1>8, KreallocTestStep
<1>9. CASE step = 7 /\ Release("test2")
  BY <1>1, <1>9, ReleaseTestStep
<1>10. CASE step = 8 /\ Release("test3")
  BY <1>1, <1>10, ReleaseTestStep
<1>11. CASE step = 9 /\ Release("test4")
  BY <1>1, <1>11, ReleaseTestStep
<1>12. CASE step = 10 /\ Release("big")
  BY <1>1, <1>12, ReleaseTestStep
<1>13. CASE step = 11 /\ Release("pagetest")
  BY <1>13, LastTestStep DEF LastCall
<1>14. QED
  BY <1>3, <1>4, <1>5, <1>6, <1>7, <1>8, <1>9, <1>10, <1>11, <1>12, <1>13 DEF TestStep

(* Behind the test nothing touches the heap: mapping pages, reading the    *)
(* device and halting leave it as it is.                                   *)
LEMMA MainNext_TestInv == TestInv /\ [MainNext]_mainVars => TestInv'
<1> SUFFICES ASSUME TestInv, [MainNext]_mainVars PROVE TestInv'
  OBVIOUS
<1>1. CASE MappedStep
  <2>1. CASE TestStep
    BY <2>1, TestStep_Inv
  <2>2. CASE UNCHANGED testVars
    BY <2>2 DEF testVars, TestInv, TestOK
  <2>3. QED
    BY <1>1, <2>1, <2>2 DEF MappedStep, MapNextPage
<1>2. CASE ReadPci
  <2>1. /\ heap' = heap /\ owned' = owned /\ wild' = wild /\ block' = block
        /\ step = 12 /\ step' = 13
    BY <1>2 DEF ReadPci, LastCall
  <2>2. TestOK(heap, owned, wild, 12, block)
    BY <2>1, TestParts
  <2>3. TestOK(heap, owned, wild, 13, block)
    BY <2>2 DEF TestOK, LastCall
  <2>4. QED
    BY <2>1, <2>3, TestParts
<1>3. CASE UNCHANGED mainVars
  BY <1>3 DEF mainVars, TestInv, TestOK
<1>4. QED
  BY <1>1, <1>2, <1>3 DEF MainNext, Loop

(* The self test of kernel_main() leaves the heap as init_heap() made it,  *)
(* one free area, although it gives the blocks back neither in the order   *)
(* of kmalloc() nor in the reverse of it.  The split of an area does not   *)
(* correct the prev pointer of the one behind it, so those of the block of *)
(* kpagealloc() and of the end of the heap go wrong, but the order of the  *)
(* calls lets no kfree() merge along a wrong one.                          *)
THEOREM TestRestores == MainSpec => []TestRestoresHeap
<1>1. MainInit => TestInv
  BY TestInit_Inv DEF MainInit, MappedInit
<1>2. TestInv /\ [MainNext]_mainVars => TestInv'
  BY MainNext_TestInv
<1>3. TestInv => TestRestoresHeap
  BY DEF TestInv, TestOK, TestRestoresHeap, NothingOwnedIsOneArea
<1>4. QED
  BY <1>1, <1>2, <1>3, PTL DEF MainSpec

(* The used areas of the list are the blocks of the variables, and each    *)
(* ends where the next area begins, below pages that are mapped.           *)
LEMMA TestedBlocks ==
  ASSUME NEW S, Tested(heap, owned, block, Live(step), S)
  PROVE  UsedAreasAreOwned /\ BlocksAreMapped
<1> DEFINE L == Live(step)
<1> HIDE DEF L
<1>1. /\ PlainHeap(heap, S) /\ TestList(heap.head, S, block["pagetest"] - HeadSize)
      /\ \A x \in L : /\ block[x] \in Nat /\ block[x] - HeadSize \in S \ {HeapEnd}
                      /\ heap.head[block[x] - HeadSize].used
                      /\ owned[block[x]] \in Nat \ {0}
                      /\ block[x] + owned[block[x]] <= heap.head[block[x] - HeadSize].next
      /\ \A u \in S : heap.head[u].used => \E x \in L : u = block[x] - HeadSize
      /\ DOMAIN owned = {block[x] : x \in L}
  BY DEF Tested, L
<1>2. Visited(heap.head) = S
  BY <1>1, PlainHeapFacts
<1>3. \A x \in L : (block[x] - HeadSize) + HeadSize = block[x]
  BY <1>1 DEF HeadSize
<1>4. UsedAreasAreOwned
  <2> DEFINE used == {b \in S : heap.head[b].used}
             back == {u + HeadSize : u \in used}
  <2>1. ASSUME NEW p \in back PROVE p \in DOMAIN owned
    BY <1>1, <1>3
  <2>2. ASSUME NEW p \in DOMAIN owned PROVE p \in back
    <3>1. PICK x \in L : p = block[x]
      BY <1>1
    <3>2. block[x] - HeadSize \in used /\ (block[x] - HeadSize) + HeadSize = p
      BY <1>1, <1>3, <3>1
    <3>3. QED
      BY <3>2
  <2>3. QED
    BY <1>2, <2>1, <2>2 DEF UsedAreasAreOwned
<1>5. BlocksAreMapped
  <2> SUFFICES ASSUME NEW p \in DOMAIN owned, NEW page \in Pages,
                      PageOf(p) <= page, page < p + owned[p]
               PROVE  page \in heap.mapped
    BY DEF BlocksAreMapped
  <2>1. PICK x \in L : p = block[x]
    BY <1>1
  <2> DEFINE next == heap.head[block[x] - HeadSize].next
  <2>2. next \in S \ {HeapEnd} /\ p + owned[p] <= next
    BY <1>1, <2>1 DEF TestList, PlainHeap, Linked
  <2>3. next \in Nat /\ page \in Nat /\ p \in Nat /\ owned[p] \in Nat
    <3>1. S \subseteq Nat
      BY <1>1, LinkedOrder DEF PlainHeap
    <3>2. page \in Nat
      BY HeapConstants DEF Pages
    <3>3. QED
      BY <1>1, <2>1, <2>2, <3>1, <3>2
  <2> HIDE DEF next
  <2>4. page <= next
    BY <2>2, <2>3
  <2>5. QED
    BY <1>1, <2>2, <2>4 DEF PlainHeap
<1>6. QED
  BY <1>4, <1>5

(* During the self test kfree() and krealloc() read no memory that holds   *)
(* no header, the used areas of the list are the blocks the test has, and  *)
(* their pages are mapped.                                                 *)
THEOREM TestUsesTheHeapRight ==
  MainSpec => [](HeadsAreHeads /\ UsedAreasAreOwned /\ BlocksAreMapped)
<1>1. MainInit => TestInv
  BY TestInit_Inv DEF MainInit, MappedInit
<1>2. TestInv /\ [MainNext]_mainVars => TestInv'
  BY MainNext_TestInv
<1>3. TestInv => HeadsAreHeads /\ UsedAreasAreOwned /\ BlocksAreMapped
  <2> SUFFICES ASSUME TestInv PROVE HeadsAreHeads /\ UsedAreasAreOwned /\ BlocksAreMapped
    OBVIOUS
  <2>1. HeadsAreHeads
    BY DEF TestInv, TestOK, HeadsAreHeads
  <2>2. ASSUME DOMAIN owned = {}, \A a \in Visited(heap.head) : ~ heap.head[a].used
        PROVE  UsedAreasAreOwned /\ BlocksAreMapped
    BY <2>2 DEF UsedAreasAreOwned, BlocksAreMapped
  <2>3. CASE step = 1
    <3>1. heap = InitialHeap /\ DOMAIN owned = {}
      BY <2>3 DEF TestInv, TestOK
    <3>2. PlainHeap(heap, {HeapStart, HeapEnd}) /\ ~ heap.head[HeapStart].used /\ ~ heap.head[HeapEnd].used
      BY <3>1, InitialIsPlain
    <3>3. Visited(heap.head) = {HeapStart, HeapEnd}
      BY <3>2, PlainHeapFacts
    <3>4. QED
      BY <2>1, <2>2, <3>1, <3>2, <3>3
  <2>4. CASE step \in 2 .. LastCall
    <3>1. \E S : Tested(heap, owned, block, Live(step), S)
      BY <2>4 DEF TestInv, TestOK
    <3>2. QED
      BY <2>1, <3>1, TestedBlocks
  <2>5. CASE step > LastCall
    <3>1. /\ owned = << >> /\ Visited(heap.head) = {HeapStart, HeapEnd}
          /\ ~ heap.head[HeapStart].used /\ ~ heap.head[HeapEnd].used
      BY <2>5 DEF TestInv, TestOK
    <3>2. DOMAIN owned = {}
      BY <3>1
    <3>3. QED
      BY <2>1, <2>2, <3>1, <3>2
  <2>6. QED
    BY <2>1, <2>3, <2>4, <2>5 DEF TestInv, TestOK, LastCall
<1>4. QED
  BY <1>1, <1>2, <1>3, PTL DEF MainSpec
=============================================================================
