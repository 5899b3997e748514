----------------------------- MODULE HeapProofs -----------------------------
(***************************************************************************)
(* Proofs about the kernel heap, for every size of the heap, of a page and *)
(* of a size_t, and every set of requests: first about module Heap, with   *)
(* callers of any habits, then about module HeapNested, with callers that  *)
(* use the heap like a stack.                                              *)
(***************************************************************************)
EXTENDS HeapNested, NumberLemmas, SequenceTheorems

(* Where headers can be.                                                   *)
Addresses == {a \in HeapStart .. HeapEnd : a % 8 = 0}

-----------------------------------------------------------------------------
LEMMA HeapConstants ==
  /\ PageSize \in Nat \ {0} /\ PageSize > 16
  /\ HeapStart \in Nat /\ HeapTop \in Nat /\ HeapEnd = HeapTop - 8 /\ HeapEnd \in Nat
  /\ PageSize <= HeapStart /\ HeapStart + PageSize <= HeapTop
  /\ HeapStart % 8 = 0 /\ HeapEnd % 8 = 0
  /\ Modulus \in Nat \ {0} /\ HeapTop < Modulus
<1>1. /\ PageSize \in Nat \ {0} /\ PageSize > 16
      /\ HeapStart \in Nat \ {0} /\ HeapTop \in Nat /\ HeapStart < HeapTop
      /\ HeapStart % PageSize = 0 /\ HeapTop % PageSize = 0
      /\ Modulus \in Nat \ {0} /\ HeapTop < Modulus
  BY PageSizeAssumption, HeapRangeAssumption, ModulusAssumption
<1> DEFINE i == HeapStart \div PageSize
           j == HeapTop \div PageSize
           k == PageSize \div 8
<1>2. i \in Nat /\ j \in Nat /\ HeapStart = PageSize * i /\ HeapTop = PageSize * j
  BY <1>1, DivisionRemainder
<1>3. k \in Nat /\ PageSize = 8 * k
  BY <1>1, PageSizeAssumption
<1> HIDE DEF i, j, k
<1>4. PageSize * 0 + PageSize <= PageSize * i
  BY <1>1, <1>2, MultiplesApart
<1>5. PageSize * i + PageSize <= PageSize * j
  BY <1>1, <1>2, MultiplesApart
<1>6. HeapStart % 8 = 0 /\ HeapTop % 8 = 0
  <2>1. HeapStart = 8 * (k * i) /\ HeapTop = 8 * (k * j)
    BY <1>2, <1>3
  <2>2. k * i \in Nat /\ k * j \in Nat
    BY <1>2, <1>3
  <2>3. QED
    BY <2>1, <2>2
<1>7. QED
  BY <1>1, <1>2, <1>4, <1>5, <1>6 DEF HeapEnd, HeadSize

(* The page of an address of the heap.                                     *)
LEMMA PageOfAddress ==
  ASSUME NEW a \in HeapStart .. HeapTop - 1
  PROVE  /\ PageOf(a) \in Pages /\ PageOf(a) \in Nat
         /\ PageOf(a) <= a /\ a < PageOf(a) + PageSize
         /\ HeapStart <= PageOf(a) /\ PageOf(a) + PageSize <= HeapTop
         /\ PageOf(a) % PageSize = 0 /\ PageOf(a) % 8 = 0
         /\ NextPage(a) % PageSize = 0 /\ NextPage(a) % 8 = 0
<1> DEFINE i == a \div PageSize
           s == HeapStart \div PageSize
           t == HeapTop \div PageSize
           k == PageSize \div 8
<1>1. PageSize \in Nat \ {0} /\ a \in Nat /\ HeapStart <= a /\ a < HeapTop
  BY HeapConstants
<1>2. i \in Nat /\ a % PageSize \in 0 .. PageSize - 1 /\ a = PageSize * i + (a % PageSize)
  BY <1>1, DivisionRemainder
<1>3. PageOf(a) = PageSize * i
  BY <1>1, <1>2 DEF PageOf
<1>4. /\ s \in Nat /\ HeapStart = PageSize * s
      /\ t \in Nat /\ HeapTop = PageSize * t
  BY HeapConstants, HeapRangeAssumption, DivisionRemainder
<1>5. k \in Nat /\ PageSize = 8 * k
  BY <1>1, PageSizeAssumption
<1>6. (HeapTop - 1) \div PageSize = t - 1
  <2>1. t >= 1
    BY <1>1, <1>4
  <2>2. HeapTop - 1 = PageSize * (t - 1) + (PageSize - 1)
    BY <1>1, <1>4
  <2>3. t - 1 \in Nat /\ PageSize - 1 \in 0 .. PageSize - 1
    BY <1>1, <1>4, <2>1
  <2> HIDE DEF t
  <2>4. QED
    BY <1>1, <2>2, <2>3, RemainderUnique
<1> HIDE DEF i, s, t, k
<1>7. PageSize * i <= a /\ a < PageSize * i + PageSize
  BY <1>1, <1>2
<1>8. PageSize * s <= PageSize * i
  <2>1. CASE i < s
    <3>1. PageSize * i < PageSize * s
      BY <1>1, <1>2, <1>4, <2>1
    <3>2. PageSize * i + PageSize <= PageSize * s
      BY <1>1, <1>2, <1>4, <3>1, MultiplesApart
    <3>3. QED
      BY <1>1, <1>2, <1>4, <1>7, <3>2
  <2>2. CASE s <= i
    BY <1>1, <1>2, <1>4, <2>2
  <2>3. QED
    BY <1>2, <1>4, <2>1, <2>2
<1>9. PageSize * i + PageSize <= PageSize * t
  BY <1>1, <1>2, <1>4, <1>7, MultiplesApart
<1>10. s <= i /\ i <= t - 1
  BY <1>1, <1>2, <1>4, <1>8, <1>9
<1>11. PageOf(a) \in Pages
  BY <1>2, <1>3, <1>4, <1>6, <1>10 DEF Pages, s
<1>12. /\ (PageSize * i) % PageSize = 0 /\ (PageSize * (i + 1)) % PageSize = 0
       /\ PageSize * (i + 1) = PageSize * i + PageSize
  <2>1. PageSize * (i + 1) = PageSize * i + PageSize
    BY <1>1, <1>2
  <2>2. PageSize * i = PageSize * i + 0 /\ PageSize * (i + 1) = PageSize * (i + 1) + 0
    BY <1>1, <1>2
  <2>3. 0 \in 0 .. PageSize - 1 /\ i + 1 \in Nat
    BY <1>1, <1>2
  <2>4. (PageSize * i + 0) % PageSize = 0 /\ (PageSize * (i + 1) + 0) % PageSize = 0
    BY <1>1, <1>2, <2>3, RemainderUnique
  <2>5. QED
    BY <2>1, <2>2, <2>4
<1>13. (PageSize * i) % 8 = 0 /\ (PageSize * i + PageSize) % 8 = 0
  <2>1. PageSize * i = 8 * (k * i) /\ PageSize * i + PageSize = 8 * (k * i + k)
    BY <1>2, <1>5
  <2>2. k * i \in Nat
    BY <1>2, <1>5
  <2>3. QED
    BY <1>5, <2>1, <2>2
<1>14. QED
  BY <1>1, <1>2, <1>3, <1>4, <1>7, <1>8, <1>9, <1>11, <1>12, <1>13 DEF NextPage

(* Pages do not overlap.                                                   *)
LEMMA PageUnique ==
  ASSUME NEW page \in Pages, NEW a \in HeapStart .. HeapTop - 1
  PROVE  page <= a => page <= PageOf(a)
<1>1. PICK i \in HeapStart \div PageSize .. (HeapTop - 1) \div PageSize : page = PageSize * i
  BY DEF Pages
<1> DEFINE j == a \div PageSize
<1>2. PageSize \in Nat \ {0} /\ a \in Nat /\ i \in Int
  BY HeapConstants
<1>3. j \in Nat /\ PageOf(a) = PageSize * j /\ a < PageSize * j + PageSize
  <2>1. j \in Nat /\ a % PageSize \in 0 .. PageSize - 1 /\ a = PageSize * j + (a % PageSize)
    BY <1>2, DivisionRemainder
  <2>2. PageSize * j \in Int
    BY <1>2, <2>1
  <2> HIDE DEF j
  <2>3. QED
    BY <1>2, <2>1, <2>2 DEF PageOf
<1> HIDE DEF j
<1>4. CASE j < i
  <2>1. PageSize * j < PageSize * i
    BY <1>2, <1>3, <1>4
  <2>2. PageSize * j + PageSize <= PageSize * i
    BY <1>2, <1>3, <2>1, MultiplesApart
  <2>3. QED
    BY <1>1, <1>2, <1>3, <2>2
<1>5. CASE i <= j
  BY <1>1, <1>2, <1>3, <1>5
<1>6. QED
  BY <1>2, <1>3, <1>4, <1>5

LEMMA PagesApart ==
  ASSUME NEW page \in Pages, NEW other \in Pages, page < other
  PROVE  page + PageSize <= other
<1>1. PICK i \in HeapStart \div PageSize .. (HeapTop - 1) \div PageSize : page = PageSize * i
  BY DEF Pages
<1>2. PICK j \in HeapStart \div PageSize .. (HeapTop - 1) \div PageSize : other = PageSize * j
  BY DEF Pages
<1>3. PageSize \in Nat \ {0} /\ i \in Int /\ j \in Int
  BY HeapConstants
<1>4. QED
  BY <1>1, <1>2, <1>3, MultiplesApart

LEMMA PageOfInside ==
  ASSUME NEW page \in Pages, page \in Int, NEW a \in HeapStart .. HeapTop - 1,
         page <= a, a < page + PageSize
  PROVE  PageOf(a) = page
<1>1. page <= PageOf(a) /\ PageOf(a) \in Pages /\ PageOf(a) <= a /\ PageOf(a) \in Nat
  BY PageUnique, PageOfAddress
<1>2. page < PageOf(a) => page + PageSize <= PageOf(a)
  BY <1>1, PagesApart
<1>3. QED
  BY <1>1, <1>2, HeapConstants

-----------------------------------------------------------------------------
(* The loops end with an area that fits when there is one.                 *)
LEMMA BestFitFits ==
  ASSUME NEW head, NEW fitting, fitting # {}, fitting \subseteq Nat,
         \A a \in fitting : AreaSize(head, a) \in Nat
  PROVE  BestFit(head, fitting) \in fitting
<1> DEFINE sizes == {AreaSize(head, a) : a \in fitting}
<1>1. PICK n \in sizes : \A m \in sizes : n <= m
  <2>1. sizes \in SUBSET Nat /\ sizes # {}
    OBVIOUS
  <2>2. QED
    BY <2>1, LeastNumber
<1> DEFINE best == {a \in fitting : AreaSize(head, a) = n}
<1>2. PICK a \in best : \A b \in best : a <= b
  <2>1. best \in SUBSET Nat /\ best # {}
    BY <1>1
  <2>2. QED
    BY <2>1, LeastNumber
<1>3. \A b \in fitting :
        \/ AreaSize(head, a) < AreaSize(head, b)
        \/ AreaSize(head, a) = AreaSize(head, b) /\ a <= b
  BY <1>1, <1>2
<1>4. a \in fitting
  BY <1>2
<1>5. \E x \in fitting : \A b \in fitting :
        \/ AreaSize(head, x) < AreaSize(head, b)
        \/ AreaSize(head, x) = AreaSize(head, b) /\ x <= b
  BY <1>3, <1>4
<1>6. QED
  BY <1>5 DEF BestFit

LEMMA PaddedSizeType ==
  ASSUME NEW size \in Nat
  PROVE  PaddedSize(size) \in Nat /\ PaddedSize(size) % 8 = 0
<1> DEFINE n == (((size + HeadSize) % Modulus) + 8 - 1) % Modulus
<1>1. Modulus \in Nat \ {0}
  BY HeapConstants
<1>2. (size + HeadSize) % Modulus \in Nat
  BY <1>1 DEF HeadSize
<1>3. n \in Nat
  BY <1>1, <1>2
<1>4. PaddedSize(size) = 8 * (n \div 8)
  BY DEF PaddedSize, DivCeil
<1> HIDE DEF n
<1>5. QED
  BY <1>3, <1>4

(* A heap: every header lies in the heap, in a mapped page.                *)
HeapOK(h) ==
  /\ h.mapped \subseteq Pages
  /\ \A a \in DOMAIN h.head : a \in Addresses /\ PageOf(a) \in h.mapped

(* A free area the walk over a sound list visits ends at a header.         *)
LEMMA FreeAreaFacts ==
  ASSUME NEW h, HeapOK(h), WalkDerefs(h.head) \subseteq DOMAIN h.head, NEW a \in FreeAreas(h.head)
  PROVE  /\ a \in DOMAIN h.head /\ a \in Addresses
         /\ h.head[a].next \in DOMAIN h.head /\ h.head[a].next \in Addresses
         /\ AreaSize(h.head, a) = h.head[a].next - a - 8
         /\ AreaSize(h.head, a) \in Int
<1>1. a \in Visited(h.head) /\ ~ h.head[a].epsilon /\ a \in DOMAIN h.head
  BY DEF FreeAreas, Visited
<1>2. h.head[a].next \in DOMAIN h.head
  BY <1>1 DEF WalkDerefs
<1>3. a \in Addresses /\ h.head[a].next \in Addresses
  BY <1>1, <1>2 DEF HeapOK
<1>4. h.head[a].next # NULL
  BY <1>3, HeapConstants DEF Addresses, NULL
<1>5. AreaSize(h.head, a) = h.head[a].next - a - 8
  BY <1>1, <1>4 DEF AreaSize, HeadSize
<1>6. QED
  BY <1>1, <1>2, <1>3, <1>5, HeapConstants DEF Addresses

LEMMA WithHeadDomain ==
  ASSUME NEW head, NEW a, NEW header
  PROVE  DOMAIN WithHead(head, a, header) = DOMAIN head \union {a}
  BY DEF WithHead

LEMMA AddressIsHeap ==
  ASSUME NEW a \in Addresses
  PROVE  a \in HeapStart .. HeapTop - 1 /\ a \in Nat /\ a % 8 = 0
  BY HeapConstants DEF Addresses

(* kmalloc() on such a heap: the block begins behind a header that was     *)
(* there, and the rest of the area, if it is split, is within the area.    *)
LEMMA KmallocEffect ==
  ASSUME NEW h, HeapOK(h), WalkDerefs(h.head) \subseteq DOMAIN h.head,
         NEW size \in Nat, KmallocFits(h.head, size) # {}
  PROVE  /\ HeapOK(AfterKmalloc(h, size))
         /\ AfterKmalloc(h, size).ptr - HeadSize \in DOMAIN h.head
         /\ AfterKmalloc(h, size).ptr % 8 = 0 /\ AfterKmalloc(h, size).ptr \in Nat
<1> DEFINE fit   == BestFit(h.head, KmallocFits(h.head, size))
           pad   == PaddedSize(size)
           new   == fit + pad
           split == AreaSize(h.head, fit) - pad > 2 * HeadSize
           r     == AfterKmalloc(h, size)
<1>1. pad \in Nat /\ pad % 8 = 0
  BY PaddedSizeType
<1>2. fit \in FreeAreas(h.head) /\ AreaSize(h.head, fit) > pad
  <2>1. \A a \in KmallocFits(h.head, size) :
          a \in FreeAreas(h.head) /\ AreaSize(h.head, a) > pad
    BY DEF KmallocFits
  <2>2. \A a \in KmallocFits(h.head, size) : a \in Nat /\ AreaSize(h.head, a) \in Nat
    BY <1>1, <2>1, FreeAreaFacts, AddressIsHeap
  <2>3. fit \in KmallocFits(h.head, size)
    BY <2>2, BestFitFits
  <2>4. QED
    BY <2>1, <2>3
<1> HIDE DEF pad, fit
<1>3. /\ fit \in DOMAIN h.head /\ fit \in Addresses
      /\ h.head[fit].next \in Addresses
      /\ AreaSize(h.head, fit) = h.head[fit].next - fit - 8
  BY <1>2, FreeAreaFacts
<1>4. split => new \in Addresses /\ fit <= new
  BY <1>1, <1>3, HeapConstants DEF Addresses, HeadSize
<1>5. /\ r.ptr = fit + HeadSize
      /\ DOMAIN r.head = IF split THEN DOMAIN h.head \union {new} ELSE DOMAIN h.head
      /\ r.mapped = IF split THEN h.mapped \union PagesThrough(fit, new) ELSE h.mapped
  BY WithHeadDomain DEF AfterKmalloc, SetUsed, SetNext, fit, pad
<1>6. split => PageOf(new) \in PagesThrough(fit, new)
  <2> SUFFICES ASSUME split PROVE PageOf(new) \in PagesThrough(fit, new)
    OBVIOUS
  <2>1. fit \in HeapStart .. HeapTop - 1 /\ new \in HeapStart .. HeapTop - 1 /\ fit <= new
    BY <1>3, <1>4, AddressIsHeap
  <2>2. PageOf(new) \in Pages /\ PageOf(new) <= new /\ PageOf(fit) \in Pages /\ PageOf(fit) <= fit
        /\ PageOf(fit) \in Nat
    BY <2>1, PageOfAddress
  <2>3. PageOf(fit) <= PageOf(new)
    BY <2>1, <2>2, PageUnique, HeapConstants
  <2>4. QED
    BY <2>2, <2>3 DEF PagesThrough
<1>7. HeapOK(r)
  <2>1. r.mapped \subseteq Pages /\ h.mapped \subseteq r.mapped
    BY <1>5 DEF HeapOK, PagesThrough
  <2>2. ASSUME NEW a \in DOMAIN r.head PROVE a \in Addresses /\ PageOf(a) \in r.mapped
    <3>1. CASE a \in DOMAIN h.head
      BY <2>1, <3>1 DEF HeapOK
    <3>2. CASE split /\ a = new
      BY <1>4, <1>5, <1>6, <3>2
    <3>3. QED
      BY <1>5, <2>2, <3>1, <3>2
  <2>3. QED
    BY <2>1, <2>2 DEF HeapOK
<1>8. r.ptr % 8 = 0 /\ r.ptr - HeadSize = fit /\ r.ptr \in Nat
  BY <1>3, <1>5, HeapConstants DEF Addresses, HeadSize
<1>9. QED
  BY <1>3, <1>7, <1>8

(* kpagealloc() on such a heap: the block begins the page after the fit,   *)
(* behind a header in the page of the fit.                                 *)
LEMMA KpageallocEffect ==
  ASSUME NEW h, HeapOK(h), WalkDerefs(h.head) \subseteq DOMAIN h.head,
         NEW size \in Nat, size % 8 = 0, KpageallocFits(h.head, size) # {}
  PROVE  /\ HeapOK(AfterKpagealloc(h, size))
         /\ AfterKpagealloc(h, size).ptr % 8 = 0 /\ AfterKpagealloc(h, size).ptr \in Nat
         /\ AfterKpagealloc(h, size).ptr % PageSize = 0
<1> DEFINE fit   == BestFit(h.head, KpageallocFits(h.head, size))
           ret   == NextPage(fit) - HeadSize
           after == h.head[fit].next
           new   == ret + size + HeadSize
           split == AreaSize(h.head, fit) - FullSize(fit, size) > 2 * HeadSize
           r     == AfterKpagealloc(h, size)
<1>1. /\ fit \in FreeAreas(h.head) /\ AreaSize(h.head, fit) > size
      /\ AreaSize(h.head, fit) > NeededSize(fit, size)
  <2>1. \A a \in KpageallocFits(h.head, size) :
          /\ a \in FreeAreas(h.head) /\ AreaSize(h.head, a) > size
          /\ AreaSize(h.head, a) > NeededSize(a, size)
    BY DEF KpageallocFits
  <2>2. \A a \in KpageallocFits(h.head, size) : a \in Nat /\ AreaSize(h.head, a) \in Nat
    BY <2>1, FreeAreaFacts, AddressIsHeap
  <2>3. fit \in KpageallocFits(h.head, size)
    BY <2>2, BestFitFits
  <2>4. QED
    BY <2>1, <2>3
<1> HIDE DEF fit
<1>2. /\ fit \in DOMAIN h.head /\ fit \in Addresses
      /\ after \in Addresses
      /\ AreaSize(h.head, fit) = after - fit - 8
  BY <1>1, FreeAreaFacts
<1>3. fit \in HeapStart .. HeapTop - 1
  BY <1>2, AddressIsHeap
<1>4. /\ PageOf(fit) \in Nat /\ PageOf(fit) \in Pages
      /\ PageOf(fit) <= fit /\ fit < PageOf(fit) + PageSize
      /\ HeapStart <= PageOf(fit) /\ PageOf(fit) + PageSize <= HeapTop
      /\ NextPage(fit) = PageOf(fit) + PageSize
      /\ NextPage(fit) % 8 = 0 /\ NextPage(fit) \in Nat
  BY <1>3, PageOfAddress, HeapConstants DEF NextPage
<1>4a. NextPage(fit) % PageSize = 0
  BY <1>3, PageOfAddress
<1>5. ret \in Addresses /\ ret + HeadSize = NextPage(fit) /\ PageOf(fit) <= ret
  BY <1>4, HeapConstants DEF HeadSize, Addresses
<1>6. PageOf(ret) = PageOf(fit)
  <2>1. ret \in HeapStart .. HeapTop - 1 /\ ret < PageOf(fit) + PageSize
    BY <1>4, <1>5, AddressIsHeap, HeapConstants DEF HeadSize
  <2>2. QED
    BY <1>4, <1>5, <2>1, PageOfInside
<1>7. split => new \in Addresses /\ NextPage(fit) <= new
  <2> SUFFICES ASSUME split PROVE new \in Addresses /\ NextPage(fit) <= new
    OBVIOUS
  <2>1. size + (NextPage(fit) - fit) + HeadSize \in 0 .. Modulus - 1
    BY <1>1, <1>2, <1>4, HeapConstants DEF Addresses, HeadSize
  <2>2. FullSize(fit, size) = size + (NextPage(fit) - fit) + HeadSize
    <3> DEFINE full == size + (NextPage(fit) - fit) + HeadSize
    <3>1. full \in 0 .. Modulus - 1 /\ Modulus \in Nat \ {0}
      BY <2>1, HeapConstants
    <3> HIDE DEF full
    <3>2. full % Modulus = full
      BY <3>1
    <3>3. QED
      BY <3>2 DEF FullSize, full
  <2>3. new = NextPage(fit) + size
    BY <1>4, HeapConstants DEF HeadSize
  <2>4. new < after
    BY <1>2, <1>4, <2>2, <2>3, HeapConstants DEF Addresses, HeadSize
  <2>5. new % 8 = 0
    BY <1>4, <2>3, HeapConstants
  <2> HIDE DEF new, after
  <2>6. QED
    BY <1>2, <1>4, <2>3, <2>4, <2>5, HeapConstants DEF Addresses
<1>8. /\ r.ptr = ret + HeadSize
      /\ DOMAIN r.head \subseteq DOMAIN h.head \union {ret} \union (IF split THEN {new} ELSE {})
      /\ r.mapped = IF split THEN h.mapped \union PagesThrough(NextPage(fit), new) ELSE h.mapped
  <2>1. r.ptr = ret + HeadSize
        /\ r.mapped = IF split THEN h.mapped \union PagesThrough(NextPage(fit), new) ELSE h.mapped
    BY DEF AfterKpagealloc, fit
  <2> DEFINE head1 == IF StartsAtPage(fit) THEN h.head
                      ELSE SetNext(SetPrev(WithHead(h.head, ret, Header(after, fit)), after, ret),
                                   fit, ret)
             head2 == IF split THEN SetNext(WithHead(head1, new, Header(after, ret)), ret, new)
                               ELSE head1
  <2>2. r.head = SetUsed(head2, ret, TRUE)
    BY DEF AfterKpagealloc, fit
  <2>3. DOMAIN head1 \subseteq DOMAIN h.head \union {ret}
    BY WithHeadDomain DEF SetNext, SetPrev
  <2> HIDE DEF head1
  <2>4. DOMAIN head2 \subseteq DOMAIN head1 \union (IF split THEN {new} ELSE {})
    <3>1. CASE split
      <4> DEFINE w == WithHead(head1, new, Header(after, ret))
      <4>1. DOMAIN w = DOMAIN head1 \union {new}
        BY WithHeadDomain
      <4>2. head2 = SetNext(w, ret, new)
        BY <3>1
      <4> HIDE DEF w, head2, new
      <4>3. QED
        BY <3>1, <4>1, <4>2 DEF SetNext
    <3>2. CASE ~ split
      BY <3>2
    <3>3. QED
      BY <3>1, <3>2
  <2> HIDE DEF head2
  <2>5. DOMAIN r.head = DOMAIN head2
    BY <2>2 DEF SetUsed
  <2>6. QED
    BY <2>1, <2>3, <2>4, <2>5
<1>9. split => PageOf(new) \in PagesThrough(NextPage(fit), new)
  <2> SUFFICES ASSUME split PROVE PageOf(new) \in PagesThrough(NextPage(fit), new)
    OBVIOUS
  <2>1. new \in HeapStart .. HeapTop - 1 /\ NextPage(fit) <= new
    BY <1>7, AddressIsHeap
  <2>2. PageOf(new) \in Pages /\ PageOf(new) <= new
    BY <2>1, PageOfAddress
  <2>3. NextPage(fit) \in HeapStart .. HeapTop - 1
    BY <1>4, <2>1, HeapConstants
  <2>4. PageOf(NextPage(fit)) = NextPage(fit) /\ NextPage(fit) \in Pages
    BY <1>4, <1>4a, <2>3, PageOfAddress DEF PageOf
  <2>5. NextPage(fit) <= PageOf(new)
    BY <2>1, <2>4, PageUnique
  <2>6. QED
    BY <2>2, <2>4, <2>5 DEF PagesThrough
<1>10. HeapOK(r)
  <2>1. r.mapped \subseteq Pages /\ h.mapped \subseteq r.mapped
    BY <1>8 DEF HeapOK, PagesThrough
  <2>2. ASSUME NEW a \in DOMAIN r.head PROVE a \in Addresses /\ PageOf(a) \in r.mapped
    <3>1. CASE a \in DOMAIN h.head
      BY <2>1, <3>1 DEF HeapOK
    <3>2. CASE a = ret
      BY <1>2, <1>5, <1>6, <2>1, <3>2 DEF HeapOK
    <3>3. CASE split /\ a = new
      BY <1>7, <1>8, <1>9, <3>3
    <3>4. QED
      BY <1>8, <2>2, <3>1, <3>2, <3>3
  <2>3. QED
    BY <2>1, <2>2 DEF HeapOK
<1>11. QED
  BY <1>4, <1>4a, <1>5, <1>8, <1>10

(* The other changes of the list write headers that are there or make some *)
(* of them a caller's data.                                                *)
LEMMA FewerHeads ==
  ASSUME NEW h, HeapOK(h), NEW head, DOMAIN head \subseteq DOMAIN h.head
  PROVE  HeapOK([h EXCEPT !.head = head]) /\ HeapOK([head |-> head, mapped |-> h.mapped])
<1>1. [h EXCEPT !.head = head].mapped = h.mapped
  BY DEF HeapOK
<1>2. QED
  BY <1>1 DEF HeapOK

LEMMA OverwrittenDomain ==
  ASSUME NEW head, NEW p, NEW n
  PROVE  DOMAIN Overwritten(head, p, n) \subseteq DOMAIN head
  BY DEF Overwritten

LEMMA AfterKfreeDomain ==
  ASSUME NEW head, NEW a
  PROVE  DOMAIN AfterKfree(head, a) = DOMAIN head
<1>1. \A b, v : /\ DOMAIN SetNext(head, b, v) = DOMAIN head
               /\ DOMAIN SetPrev(head, b, v) = DOMAIN head
               /\ DOMAIN SetUsed(head, b, v) = DOMAIN head
  BY DEF SetNext, SetPrev, SetUsed
<1>2. ASSUME NEW f PROVE DOMAIN Merged(f, a) = DOMAIN f
  BY DEF Merged, SetNext, SetPrev
<1>3. QED
  BY ZenonT(60), <1>1, <1>2 DEF AfterKfree

-----------------------------------------------------------------------------
(* The inductive invariant.  The property of the run speaks of the headers *)
(* the walk visits; a kfree() or a caller's data can bring any header in   *)
(* memory into the walk or out of it, so every header has to lie in a      *)
(* mapped page.                                                            *)
HeapInv == TypeOK /\ HeapOK(heap)

(* Owned blocks lie at multiples of 8 and have a size.                     *)
OwnedOK(blocks) == \A p \in DOMAIN blocks : p % 8 = 0 /\ blocks[p] \in Nat \ {0}

LEMMA OwnedChanges ==
  ASSUME NEW blocks, OwnedOK(blocks), NEW p, NEW n
  PROVE  /\ OwnedOK(Without(blocks, p))
         /\ p % 8 = 0 /\ n \in Nat \ {0} => OwnedOK(With(blocks, p, n))
  BY DEF OwnedOK, With, Without

LEMMA InvParts ==
  /\ HeapInv <=> HeapOK(heap) /\ OwnedOK(owned) /\ wild \in BOOLEAN
  /\ HeapInv' <=> HeapOK(heap') /\ OwnedOK(owned') /\ wild' \in BOOLEAN
  BY DEF HeapInv, TypeOK, HeapOK, OwnedOK, Addresses

LEMMA InitHeapInv == Init => HeapInv
<1> SUFFICES ASSUME Init PROVE HeapInv
  OBVIOUS
<1>1. /\ DOMAIN heap.head = {HeapStart, HeapEnd}
      /\ heap.mapped = {PageOf(HeapStart), PageOf(HeapEnd)}
      /\ DOMAIN owned = {} /\ wild = FALSE
  BY DEF Init, InitialHeap
<1>2. HeapStart \in Addresses /\ HeapEnd \in Addresses
  BY HeapConstants DEF Addresses
<1>3. PageOf(HeapStart) \in Pages /\ PageOf(HeapEnd) \in Pages
  BY <1>2, AddressIsHeap, PageOfAddress
<1>4. HeapOK(heap)
  BY <1>1, <1>2, <1>3 DEF HeapOK
<1>5. OwnedOK(owned) /\ wild \in BOOLEAN
  BY <1>1 DEF OwnedOK
<1>6. QED
  BY <1>4, <1>5, InvParts

LEMMA AllocatesStep ==
  ASSUME HeapInv, NEW fits, NEW result, NEW size \in Nat \ {0},
         Allocates(fits, result, size),
         WalkIsSound /\ fits # {} => HeapOK(result) /\ result.ptr % 8 = 0
  PROVE  HeapInv'
<1>1. CASE GoesWild
  BY <1>1, InvParts DEF GoesWild
<1>2. CASE UNCHANGED vars
  BY <1>2, InvParts DEF vars
<1>3. CASE /\ WalkIsSound /\ fits # {}
           /\ heap' = [head   |-> Overwritten(result.head, result.ptr, size),
                       mapped |-> result.mapped]
           /\ owned' = With(owned, result.ptr, size)
           /\ UNCHANGED wild
  <2>1. HeapOK(heap')
    BY <1>3, OverwrittenDomain, FewerHeads
  <2>2. OwnedOK(owned')
    BY <1>3, InvParts, OwnedChanges
  <2>3. QED
    BY <1>3, <2>1, <2>2, InvParts
<1>4. QED
  BY <1>1, <1>2, <1>3 DEF Allocates

(* The sizes of the requests.                                              *)
LEMMA RequestTypes ==
  /\ \A size \in Sizes : size \in Nat \ {0}
  /\ \A array \in Arrays : /\ array[1] * array[2] \in Nat \ {0}
                          /\ Total(array[1], array[2]) \in Nat
  /\ \A n \in PageCounts : /\ n * PageSize \in Nat \ {0}
                          /\ (n * PageSize) % Modulus \in Nat
                          /\ ((n * PageSize) % Modulus) % 8 = 0
<1>1. PageSize \in Nat \ {0} /\ Modulus \in Nat \ {0}
  BY HeapConstants
<1>2. \A size \in Sizes : size \in Nat \ {0}
  BY RequestsAssumption
<1>3. ASSUME NEW array \in Arrays
      PROVE  array[1] * array[2] \in Nat \ {0} /\ Total(array[1], array[2]) \in Nat
  <2>1. array[1] \in Nat \ {0} /\ array[2] \in Nat \ {0}
    BY RequestsAssumption
  <2>2. array[1] * array[2] \in Nat \ {0}
    BY <2>1
  <2>3. QED
    BY <1>1, <2>2 DEF Total
<1>4. ASSUME NEW n \in PageCounts
      PROVE  /\ n * PageSize \in Nat \ {0}
             /\ (n * PageSize) % Modulus \in Nat
             /\ ((n * PageSize) % Modulus) % 8 = 0
  <2> DEFINE k == PageSize \div 8
             m == Modulus \div 8
             x == n * PageSize
             q == x \div Modulus
  <2>1. n \in Nat \ {0}
    BY RequestsAssumption
  <2>2. x \in Nat \ {0}
    BY <1>1, <2>1
  <2>3. k \in Nat /\ PageSize = 8 * k /\ m \in Nat /\ Modulus = 8 * m
    <3>1. PageSize % 8 = 0 /\ Modulus % 8 = 0
      BY PageSizeAssumption, ModulusAssumption
    <3>2. k \in Nat /\ PageSize = 8 * k
      BY <1>1, <3>1, DivisionRemainder
    <3>3. m \in Nat /\ Modulus = 8 * m
      BY <1>1, <3>1, DivisionRemainder
    <3>4. QED
      BY <3>2, <3>3
  <2>4. q \in Nat /\ x % Modulus \in Nat /\ x = Modulus * q + (x % Modulus)
    <3> HIDE DEF x
    <3>1. /\ x \div Modulus \in Nat /\ x % Modulus \in 0 .. Modulus - 1
          /\ x = Modulus * (x \div Modulus) + (x % Modulus)
      BY <1>1, <2>2, DivisionRemainder
    <3> HIDE DEF q
    <3>2. QED
      BY <3>1 DEF q
  <2> HIDE DEF k, m, q
  <2>5. x = 8 * (n * k) /\ n * k \in Int
    BY <2>1, <2>3
  <2>6. Modulus * q = 8 * (m * q) /\ m * q \in Int
    BY <2>3, <2>4
  <2> HIDE DEF x
  <2>7. x % Modulus = 8 * (n * k - m * q)
    BY <2>4, <2>5, <2>6
  <2>8. n * k - m * q \in Int
    BY <2>5, <2>6
  <2>9. (x % Modulus) % 8 = 0
    BY <2>7, <2>8
  <2>10. QED
    BY <2>2, <2>4, <2>9 DEF x
<1>5. QED
  BY <1>2, <1>3, <1>4

LEMMA KreallocStep ==
  ASSUME HeapInv, NEW p \in DOMAIN owned, NEW size \in Sizes, Krealloc(p, size)
  PROVE  HeapInv'
<1>1. size \in Nat \ {0} /\ p % 8 = 0 /\ HeapOK(heap) /\ OwnedOK(owned) /\ wild \in BOOLEAN
  BY RequestTypes, InvParts DEF OwnedOK
<1>2. CASE GoesWild
  BY <1>2, InvParts DEF GoesWild
<1>3. CASE Keeps(p, size)
  <2>1. heap' = [heap EXCEPT !.head = Overwritten(heap.head, p, size)]
        /\ owned' = With(owned, p, size) /\ wild' = wild
    BY <1>3 DEF Keeps
  <2>2. HeapOK(heap')
    BY <1>1, <2>1, OverwrittenDomain, FewerHeads
  <2>3. OwnedOK(owned')
    BY <1>1, <2>1, OwnedChanges
  <2>4. QED
    BY <1>1, <2>1, <2>2, <2>3, InvParts
<1>4. CASE Moves(p, size)
  <2> DEFINE a      == p - HeadSize
             fresh  == AfterKmalloc(heap, size)
             copied == Overwritten(fresh.head, fresh.ptr, AreaSize(heap.head, a))
             last   == Overwritten(AfterKfree(copied, a), fresh.ptr, size)
  <2>1. CASE UNCHANGED vars
    BY <2>1, InvParts DEF vars
  <2>2. CASE GoesWild
    BY <2>2, InvParts DEF GoesWild
  <2>3. CASE /\ WalkIsSound /\ KmallocFits(heap.head, size) # {}
             /\ heap' = [head |-> last, mapped |-> fresh.mapped]
             /\ owned' = With(Without(owned, p), fresh.ptr, size)
             /\ wild' = wild
    <3>1. HeapOK(fresh) /\ fresh.ptr % 8 = 0
      BY <1>1, <2>3, KmallocEffect DEF WalkIsSound
    <3>2. DOMAIN last \subseteq DOMAIN fresh.head
      <4>1. DOMAIN copied \subseteq DOMAIN fresh.head
        BY OverwrittenDomain
      <4>2. DOMAIN AfterKfree(copied, a) = DOMAIN copied
        BY AfterKfreeDomain
      <4>3. DOMAIN last \subseteq DOMAIN AfterKfree(copied, a)
        BY OverwrittenDomain
      <4>4. QED
        BY <4>1, <4>2, <4>3
    <3> HIDE DEF fresh, last
    <3>3. HeapOK(heap')
      BY <2>3, <3>1, <3>2, FewerHeads
    <3>4. OwnedOK(owned')
      BY <1>1, <2>3, <3>1, OwnedChanges
    <3>5. QED
      BY <1>1, <2>3, <3>3, <3>4, InvParts
  <2>4. QED
    BY <1>4, <2>1, <2>2, <2>3 DEF Moves
<1>5. QED
  BY <1>2, <1>3, <1>4 DEF Krealloc

LEMMA NextHeapInv == HeapInv /\ [Next]_vars => HeapInv'
<1> SUFFICES ASSUME HeapInv, [Next]_vars PROVE HeapInv'
  OBVIOUS
<1>1. HeapOK(heap) /\ OwnedOK(owned) /\ wild \in BOOLEAN
  BY InvParts
<1>2. ASSUME NEW size \in Sizes, Kmalloc(size) PROVE HeapInv'
  <2>1. Allocates(KmallocFits(heap.head, size), AfterKmalloc(heap, size), size)
    BY <1>2 DEF Kmalloc
  <2>2. WalkIsSound /\ KmallocFits(heap.head, size) # {} =>
          HeapOK(AfterKmalloc(heap, size)) /\ AfterKmalloc(heap, size).ptr % 8 = 0
    BY <1>1, RequestTypes, KmallocEffect DEF WalkIsSound
  <2>3. QED
    BY <2>1, <2>2, RequestTypes, AllocatesStep
<1>3. ASSUME NEW array \in Arrays, Kcalloc(array[1], array[2]) PROVE HeapInv'
  <2> DEFINE total == Total(array[1], array[2])
  <2>1. Allocates(KmallocFits(heap.head, total), AfterKmalloc(heap, total), array[1] * array[2])
    BY <1>3 DEF Kcalloc
  <2>2. total \in Nat /\ array[1] * array[2] \in Nat \ {0}
    BY RequestTypes
  <2> HIDE DEF total
  <2>3. WalkIsSound /\ KmallocFits(heap.head, total) # {} =>
          HeapOK(AfterKmalloc(heap, total)) /\ AfterKmalloc(heap, total).ptr % 8 = 0
    BY <1>1, <2>2, KmallocEffect DEF WalkIsSound
  <2>4. QED
    BY <2>1, <2>2, <2>3, AllocatesStep
<1>4. ASSUME NEW n \in PageCounts, Kpagealloc(n) PROVE HeapInv'
  <2> DEFINE size == (n * PageSize) % Modulus
  <2>1. Allocates(KpageallocFits(heap.head, size), AfterKpagealloc(heap, size), n * PageSize)
    BY <1>4 DEF Kpagealloc
  <2>2. size \in Nat /\ size % 8 = 0 /\ n * PageSize \in Nat \ {0}
    BY RequestTypes
  <2> HIDE DEF size
  <2>3. WalkIsSound /\ KpageallocFits(heap.head, size) # {} =>
          HeapOK(AfterKpagealloc(heap, size)) /\ AfterKpagealloc(heap, size).ptr % 8 = 0
    BY <1>1, <2>2, KpageallocEffect DEF WalkIsSound
  <2>4. QED
    BY <2>1, <2>2, <2>3, AllocatesStep
<1>5. ASSUME NEW p \in DOMAIN owned, Kfree(p) PROVE HeapInv'
  <2>1. CASE GoesWild
    BY <2>1, InvParts DEF GoesWild
  <2>2. CASE /\ heap' = [heap EXCEPT !.head = AfterKfree(heap.head, p - HeadSize)]
             /\ owned' = Without(owned, p)
             /\ wild' = wild
    <3>1. HeapOK(heap')
      BY <1>1, <2>2, AfterKfreeDomain, FewerHeads
    <3>2. OwnedOK(owned')
      BY <1>1, <2>2, OwnedChanges
    <3>3. QED
      BY <1>1, <2>2, <3>1, <3>2, InvParts
  <2>3. QED
    BY <1>5, <2>1, <2>2 DEF Kfree
<1>6. ASSUME NEW p \in DOMAIN owned, NEW size \in Sizes, Krealloc(p, size) PROVE HeapInv'
  BY <1>6, KreallocStep
<1>7. CASE UNCHANGED vars
  BY <1>7, InvParts DEF vars
<1>8. QED
  BY <1>2, <1>3, <1>4, <1>5, <1>6, <1>7 DEF Next

-----------------------------------------------------------------------------
(* Whatever callers do, headers, blocks and page mappings stay inside the  *)
(* heap, at multiples of 8.                                                *)
THEOREM HeapTypeCorrect == Spec => []TypeOK
<1>1. HeapInv => TypeOK
  BY DEF HeapInv
<1>2. QED
  BY <1>1, InitHeapInv, NextHeapInv, PTL DEF Spec

(* The walk over the areas never faults on a page that is not present,     *)
(* although pages are mapped only when an area is split.                   *)
THEOREM WalkNeverFaults == Spec => []VisitedHeadsAreMapped
<1>1. HeapInv => VisitedHeadsAreMapped
  BY DEF HeapInv, HeapOK, VisitedHeadsAreMapped, Visited
<1>2. QED
  BY <1>1, InitHeapInv, NextHeapInv, PTL DEF Spec

(* Every block kpagealloc() returns begins a page.                         *)
THEOREM PageAlignment == Spec => PageBlocksAreAligned
<1>1. HeapInv /\ [Next]_vars =>
        [\A n \in PageCounts : Kpagealloc(n) =>
           \A p \in DOMAIN owned' \ DOMAIN owned : p % PageSize = 0]_vars
  <2> SUFFICES ASSUME HeapInv, NEW n \in PageCounts, Kpagealloc(n),
                      NEW p \in DOMAIN owned' \ DOMAIN owned
               PROVE  p % PageSize = 0
    OBVIOUS
  <2> DEFINE size   == (n * PageSize) % Modulus
             result == AfterKpagealloc(heap, size)
  <2>1. Allocates(KpageallocFits(heap.head, size), result, n * PageSize)
    BY DEF Kpagealloc
  <2>2. size \in Nat /\ size % 8 = 0
    BY RequestTypes
  <2> HIDE DEF size
  <2>3. WalkIsSound /\ KpageallocFits(heap.head, size) # {} => result.ptr % PageSize = 0
    BY <2>2, InvParts, KpageallocEffect DEF WalkIsSound
  <2> HIDE DEF result
  <2>4. /\ WalkIsSound /\ KpageallocFits(heap.head, size) # {}
        /\ owned' = With(owned, result.ptr, n * PageSize)
    BY <2>1 DEF Allocates, GoesWild, vars
  <2>5. p = result.ptr
    BY <2>4 DEF With
  <2>6. QED
    BY <2>3, <2>4, <2>5
<1>2. QED
  BY <1>1, InitHeapInv, NextHeapInv, PTL DEF Spec, PageBlocksAreAligned

-----------------------------------------------------------------------------
(* The areas the walk visits.  The list S starts at heap_start, follows    *)
(* the next pointers and has nothing else in it.                           *)
LEMMA VisitedIs ==
  ASSUME NEW head, DOMAIN head \subseteq Nat, NEW S, S \subseteq DOMAIN head, HeapStart \in S,
         \A a \in S : ~ head[a].epsilon => head[a].next \in S,
         \A a \in S : \/ a = HeapStart
                      \/ \E b \in S : b < a /\ ~ head[b].epsilon /\ head[b].next = a
  PROVE  Visited(head) = S
<1> DEFINE Below(f, a) == \/ a = HeapStart
                          \/ \E b \in DOMAIN head :
                               b < a /\ ~ head[b].epsilon /\ head[b].next = a /\ f[b]
           listed  == [a \in DOMAIN head |-> a \in S]
           visited == CHOOSE f : f = [a \in DOMAIN head |-> Below(f, a)]
<1>1. ASSUME NEW a \in DOMAIN head PROVE Below(listed, a) <=> a \in S
  <2>1. \A b \in DOMAIN head : listed[b] <=> b \in S
    OBVIOUS
  <2> HIDE DEF listed
  <2>2. a \in S => Below(listed, a)
    BY <2>1
  <2>3. Below(listed, a) => a \in S
    BY <2>1
  <2>4. QED
    BY <2>2, <2>3
<1>2. listed = [a \in DOMAIN head |-> Below(listed, a)]
  <2>1. /\ listed \in [DOMAIN head -> BOOLEAN]
        /\ \A a \in DOMAIN head : listed[a] <=> a \in S
    <3>1. \A a \in DOMAIN head : listed[a] <=> a \in S
      OBVIOUS
    <3>2. listed \in [DOMAIN head -> BOOLEAN]
      OBVIOUS
    <3>3. QED
      BY <3>1, <3>2
  <2> HIDE DEF listed
  <2> DEFINE next == [a \in DOMAIN head |-> Below(listed, a)]
  <2>2. next \in [DOMAIN head -> BOOLEAN]
    OBVIOUS
  <2>3. \A a \in DOMAIN head : next[a] <=> a \in S
    BY <1>1
  <2> HIDE DEF next
  <2>4. listed = next
    <3>1. \A a \in DOMAIN head : listed[a] = next[a]
      BY <2>1, <2>2, <2>3
    <3>2. QED
      BY <2>1, <2>2, <3>1
  <2>5. QED
    BY <2>4 DEF next
<1>3. visited = [a \in DOMAIN head |-> Below(visited, a)]
  BY <1>2
<1> HIDE DEF listed, visited
<1>4. \A a \in DOMAIN head : visited[a] <=> Below(visited, a)
  BY <1>3
<1>5. \A a \in DOMAIN head : visited[a] <=> a \in S
  <2> DEFINE wrong == {a \in DOMAIN head : ~ (visited[a] <=> a \in S)}
  <2> SUFFICES ASSUME wrong # {} PROVE FALSE
    OBVIOUS
  <2>1. PICK a \in wrong : \A b \in wrong : a <= b
    <3>1. wrong \in SUBSET Nat
      OBVIOUS
    <3>2. QED
      BY <3>1, LeastNumber
  <2>2. \A b \in DOMAIN head : b < a => (visited[b] <=> b \in S)
    BY <2>1
  <2>3. Below(visited, a) <=> a \in S
    BY <2>1, <2>2
  <2>4. QED
    BY <1>4, <2>1, <2>3
<1>6. Visited(head) = {a \in DOMAIN head : visited[a]}
  BY DEF Visited, visited
<1>7. QED
  BY <1>5, <1>6

-----------------------------------------------------------------------------
(* The list of areas S: the next pointers lead from each area to the next  *)
(* one, and the epsilon area is its end.                                   *)
Linked(head, S) ==
  /\ S \subseteq DOMAIN head /\ S \subseteq Addresses
  /\ HeapStart \in S /\ HeapEnd \in S /\ HeapStart # HeapEnd
  /\ \A a \in S : head[a].epsilon <=> a = HeapEnd
  /\ ~ head[HeapEnd].used
  /\ \A a \in S \ {HeapEnd} :
       /\ head[a].next \in S /\ a < head[a].next
       /\ \A b \in S : b <= a \/ head[a].next <= b
  /\ \A a \in S \ {HeapStart} : \E b \in S \ {HeapEnd} : head[b].next = a

(* What is left of an area after kmalloc() or kpagealloc() has taken the   *)
(* front of it: `prev' names the used area before it.  `older' orders the  *)
(* areas in use by when they were given out.                               *)
Rest(head, S, older, a) ==
  /\ head[a].prev \in S \ {HeapEnd}
  /\ head[head[a].prev].used /\ head[head[a].prev].next = a
  /\ head[a].used => <<head[a].prev, a>> \in older

(* The header kpagealloc() puts in front of a page: `prev' names the area  *)
(* it cut, which was free then and has been used only since.               *)
PageHead(head, S, older, a) ==
  /\ head[a].used
  /\ head[a].prev \in S /\ head[a].prev < a /\ a + HeadSize = NextPage(head[a].prev)
  /\ \/ head[a].prev = HeapStart
     \/ /\ Rest(head, S, older, head[a].prev)
        /\ <<head[head[a].prev].prev, a>> \in older
  /\ \A y \in S : head[a].prev <= y /\ y < a => ~ head[y].used \/ <<a, y>> \in older

(* Every area but the first came about in one of these ways.               *)
ListInv(head, S, older) ==
  /\ Linked(head, S)
  /\ head[HeapStart].prev = NULL
  /\ \A a \in S \ {HeapStart, HeapEnd} :
       Rest(head, S, older, a) \/ PageHead(head, S, older, a)

LEMMA LinkedVisited ==
  ASSUME NEW head, DOMAIN head \subseteq Nat, NEW S, Linked(head, S)
  PROVE  Visited(head) = S
<1>1. \A a \in S : ~ head[a].epsilon => head[a].next \in S
  BY DEF Linked
<1>2. ASSUME NEW a \in S, a # HeapStart
      PROVE  \E b \in S : b < a /\ ~ head[b].epsilon /\ head[b].next = a
  BY <1>2 DEF Linked
<1>3. QED
  BY <1>1, <1>2, VisitedIs DEF Linked

LEMMA LinkedOrder ==
  ASSUME NEW head, NEW S, Linked(head, S)
  PROVE  /\ \A a \in S : a \in Nat /\ HeapStart <= a /\ a <= HeapEnd /\ a % 8 = 0
         /\ \A a \in S \ {HeapEnd} : a < HeapEnd /\ a + 8 <= head[a].next
         /\ \A a, b \in S \ {HeapEnd} : head[a].next = head[b].next => a = b
<1>1. \A a \in S : a \in Nat /\ HeapStart <= a /\ a <= HeapEnd /\ a % 8 = 0
  BY AddressIsHeap DEF Linked, Addresses
<1>2. ASSUME NEW a \in S \ {HeapEnd} PROVE a < HeapEnd /\ a + 8 <= head[a].next
  <2>1. head[a].next \in S /\ a < head[a].next
    BY DEF Linked
  <2>2. QED
    BY <1>1, <2>1, HeapConstants
<1>3. ASSUME NEW a \in S \ {HeapEnd}, NEW b \in S \ {HeapEnd}, head[a].next = head[b].next
      PROVE  a = b
  <2>1. /\ head[a].next \in S /\ a < head[a].next
        /\ b < head[b].next
        /\ b <= a \/ head[a].next <= b
        /\ a <= b \/ head[b].next <= a
    BY DEF Linked
  <2>2. QED
    BY <1>1, <1>3, <2>1
<1>4. QED
  BY <1>1, <1>2, <1>3

(* Taking a whole free area.                                               *)
LEMMA WholeAreaTaken ==
  ASSUME NEW head, NEW S, NEW older, ListInv(head, S, older),
         NEW a \in S \ {HeapEnd}, ~ head[a].used,
         NEW g, S \subseteq DOMAIN g,
         \A x \in S : /\ g[x].next = head[x].next
                      /\ x # HeapEnd => g[x].prev = head[x].prev
                      /\ g[x].epsilon <=> head[x].epsilon
                      /\ g[x].used <=> head[x].used \/ x = a,
         NEW newer, older \subseteq newer,
         \A x \in S : head[x].used => <<x, a>> \in newer
  PROVE  ListInv(g, S, newer)
<1>1. Linked(head, S)
  BY DEF ListInv
<1>2. Linked(g, S)
  BY <1>1 DEF Linked
<1>3. g[HeapStart].prev = NULL
  BY <1>1 DEF ListInv, Linked
<1>4. ASSUME NEW x \in S \ {HeapStart, HeapEnd}, Rest(head, S, older, x)
      PROVE  Rest(g, S, newer, x)
  BY <1>4 DEF Rest
<1>5. ASSUME NEW x \in S \ {HeapStart, HeapEnd}, PageHead(head, S, older, x)
      PROVE  PageHead(g, S, newer, x)
  <2>1. /\ head[x].used /\ head[x].prev \in S /\ head[x].prev < x
        /\ x + HeadSize = NextPage(head[x].prev)
        /\ \/ head[x].prev = HeapStart
           \/ Rest(head, S, older, head[x].prev) /\ <<head[head[x].prev].prev, x>> \in older
        /\ \A y \in S : head[x].prev <= y /\ y < x => ~ head[y].used \/ <<x, y>> \in older
    BY <1>5 DEF PageHead
  <2>2. g[x].used /\ g[x].prev = head[x].prev
    BY <2>1
  <2>3. head[x].prev # HeapEnd
    BY <1>1, <2>1, LinkedOrder, HeapConstants
  <2>4. \/ g[x].prev = HeapStart
        \/ Rest(g, S, newer, g[x].prev) /\ <<g[g[x].prev].prev, x>> \in newer
    BY <1>4, <2>1, <2>2, <2>3
  <2>5. \A y \in S : g[x].prev <= y /\ y < x => ~ g[y].used \/ <<x, y>> \in newer
    BY <2>1, <2>2
  <2>6. QED
    BY <2>1, <2>2, <2>4, <2>5 DEF PageHead
<1>6. QED
  BY <1>2, <1>3, <1>4, <1>5 DEF ListInv

(* One more area in the list.                                              *)
LEMMA LinkedInsert ==
  ASSUME NEW head, NEW S, Linked(head, S),
         NEW a \in S \ {HeapEnd}, NEW new \in Addresses, a < new, new < head[a].next,
         NEW g, S \union {new} \subseteq DOMAIN g,
         \A x \in S : /\ g[x].next = IF x = a THEN new ELSE head[x].next
                      /\ g[x].epsilon <=> head[x].epsilon,
         g[new].next = head[a].next, ~ g[new].epsilon, ~ g[HeapEnd].used
  PROVE  Linked(g, S \union {new}) /\ new \notin S /\ new # HeapStart /\ new # HeapEnd
<1> DEFINE T == S \union {new}
<1>1. Linked(head, S)
  OBVIOUS
<1>2. /\ \A x \in S : x \in Nat
      /\ a \in Nat /\ new \in Nat /\ head[a].next \in S /\ head[a].next \in Nat
      /\ \A x \in S : x <= a \/ head[a].next <= x
      /\ HeapStart <= a /\ head[a].next <= HeapEnd
  BY <1>1, LinkedOrder, AddressIsHeap DEF Linked
<1>3. new \notin S /\ new # HeapStart /\ new # HeapEnd
  BY <1>1, <1>2, HeapConstants DEF Linked
<1>4. Linked(g, T)
  <2>1. /\ T \subseteq DOMAIN g /\ T \subseteq Addresses
        /\ HeapStart \in T /\ HeapEnd \in T /\ HeapStart # HeapEnd
        /\ \A x \in T : g[x].epsilon <=> x = HeapEnd
        /\ ~ g[HeapEnd].used
    BY <1>1, <1>3 DEF Linked
  <2>2. ASSUME NEW x \in T \ {HeapEnd}
        PROVE  /\ g[x].next \in T /\ x < g[x].next
               /\ \A b \in T : b <= x \/ g[x].next <= b
    <3>1. CASE x = new
      BY <1>2, <1>3, <3>1
    <3>2. CASE x = a
      BY <1>2, <1>3, <3>2
    <3>3. CASE x \in S \ {a}
      <4>1. /\ g[x].next = head[x].next /\ head[x].next \in S /\ x < head[x].next
            /\ \A b \in S : b <= x \/ head[x].next <= b
        BY <1>1, <3>3 DEF Linked
      <4>2. head[x].next \in Nat
        BY <1>2, <4>1
      <4>3. new <= x \/ head[x].next <= new
        BY <1>2, <3>3, <4>1, <4>2
      <4>4. QED
        BY <4>1, <4>3
    <3>4. QED
      BY <3>1, <3>2, <3>3
  <2>3. ASSUME NEW x \in T \ {HeapStart} PROVE \E b \in T \ {HeapEnd} : g[b].next = x
    <3>1. CASE x = new
      BY <3>1
    <3>2. CASE x \in S
      <4>1. PICK b \in S \ {HeapEnd} : head[b].next = x
        BY <1>1, <3>2 DEF Linked
      <4>2. CASE b = a
        BY <1>3, <4>1, <4>2
      <4>3. CASE b # a
        BY <4>1, <4>3
      <4>4. QED
        BY <4>2, <4>3
    <3>3. QED
      BY <3>1, <3>2
  <2>4. QED
    BY <2>1, <2>2, <2>3 DEF Linked
<1>5. QED
  BY <1>3, <1>4

(* Taking the front of a free area and leaving the rest of it free.        *)
LEMMA FrontTaken ==
  ASSUME NEW head, NEW S, NEW older, ListInv(head, S, older),
         NEW a \in S \ {HeapEnd}, ~ head[a].used,
         NEW new \in Addresses, a < new, new < head[a].next,
         NEW g, S \union {new} \subseteq DOMAIN g,
         \A x \in S : /\ g[x].next = IF x = a THEN new ELSE head[x].next
                      /\ x # HeapEnd => g[x].prev = head[x].prev
                      /\ g[x].epsilon <=> head[x].epsilon
                      /\ g[x].used <=> head[x].used \/ x = a,
         g[new].next = head[a].next, g[new].prev = a, ~ g[new].epsilon, ~ g[new].used,
         NEW newer, older \subseteq newer,
         \A x \in S : head[x].used => <<x, a>> \in newer
  PROVE  ListInv(g, S \union {new}, newer) /\ new \notin S
<1> DEFINE T == S \union {new}
<1>1. Linked(head, S)
  BY DEF ListInv
<1>2. /\ \A x \in S : x \in Nat
      /\ a \in Nat /\ new \in Nat /\ head[a].next \in S /\ head[a].next \in Nat
      /\ \A x \in S : x <= a \/ head[a].next <= x
      /\ HeapStart <= a /\ head[a].next <= HeapEnd
      /\ \A x, y \in S \ {HeapEnd} : head[x].next = head[y].next => x = y
  BY <1>1, LinkedOrder, AddressIsHeap DEF Linked
<1>3. new \notin S /\ new # HeapStart /\ new # HeapEnd
  BY <1>1, <1>2, HeapConstants DEF Linked
<1>4. Linked(g, T)
  <2>1. ~ g[HeapEnd].used
    BY <1>1 DEF Linked
  <2>2. QED
    BY <1>1, <2>1, LinkedInsert
<1>5. g[HeapStart].prev = NULL
  BY <1>1 DEF ListInv, Linked
<1>6. ASSUME NEW x \in S \ {HeapStart, HeapEnd}, Rest(head, S, older, x)
      PROVE  Rest(g, T, newer, x)
  BY <1>6 DEF Rest
<1>7. Rest(g, T, newer, new)
  BY DEF Rest
<1>8. ASSUME NEW x \in S \ {HeapStart, HeapEnd}, PageHead(head, S, older, x)
      PROVE  PageHead(g, T, newer, x)
  <2>1. /\ head[x].used /\ head[x].prev \in S /\ head[x].prev < x
        /\ x + HeadSize = NextPage(head[x].prev)
        /\ \/ head[x].prev = HeapStart
           \/ Rest(head, S, older, head[x].prev) /\ <<head[head[x].prev].prev, x>> \in older
        /\ \A y \in S : head[x].prev <= y /\ y < x => ~ head[y].used \/ <<x, y>> \in older
    BY <1>8 DEF PageHead
  <2>2. g[x].used /\ g[x].prev = head[x].prev
    BY <2>1
  <2>3. head[x].prev # HeapEnd
    BY <1>1, <2>1, LinkedOrder, HeapConstants
  <2>4. \/ g[x].prev = HeapStart
        \/ Rest(g, T, newer, g[x].prev) /\ <<g[g[x].prev].prev, x>> \in newer
    BY ZenonT(60), <1>6, <2>1, <2>2, <2>3
  <2>5. \A y \in T : g[x].prev <= y /\ y < x => ~ g[y].used \/ <<x, y>> \in newer
    BY <2>1, <2>2
  <2>6. QED
    BY <2>1, <2>2, <2>4, <2>5 DEF PageHead
<1>9. QED
  BY <1>3, <1>4, <1>5, <1>6, <1>7, <1>8 DEF ListInv

(* Taking the last area from the next page on: the front of it stays free, *)
(* and so does the rest.                                                   *)
LEMMA PageTaken ==
  ASSUME NEW head, NEW S, NEW older, ListInv(head, S, older),
         NEW a \in S \ {HeapEnd}, ~ head[a].used, head[a].next = HeapEnd,
         NEW ret \in Addresses, a < ret, ret + HeadSize = NextPage(a),
         NEW new \in Addresses, ret < new, new < HeapEnd,
         NEW g, S \union {ret, new} \subseteq DOMAIN g,
         \A x \in S : /\ g[x].next = IF x = a THEN ret ELSE head[x].next
                      /\ x # HeapEnd => g[x].prev = head[x].prev
                      /\ g[x].epsilon <=> head[x].epsilon
                      /\ g[x].used <=> head[x].used,
         g[ret].next = new, g[ret].prev = a, ~ g[ret].epsilon, g[ret].used,
         g[new].next = HeapEnd, g[new].prev = ret, ~ g[new].epsilon, ~ g[new].used,
         NEW newer, older \subseteq newer,
         \A x \in S : head[x].used => <<x, ret>> \in newer
  PROVE  ListInv(g, S \union {ret, new}, newer) /\ ret \notin S /\ new \notin S
<1> DEFINE T == S \union {ret, new}
<1>1. Linked(head, S)
  BY DEF ListInv
<1>2. /\ \A x \in S : x \in Nat
      /\ a \in Nat /\ ret \in Nat /\ new \in Nat /\ HeapEnd \in Nat
      /\ \A x \in S : x <= a \/ HeapEnd <= x
      /\ \A x \in S : x <= HeapEnd
      /\ HeapStart <= a
      /\ \A x, y \in S \ {HeapEnd} : head[x].next = head[y].next => x = y
  BY <1>1, LinkedOrder, AddressIsHeap, HeapConstants DEF Linked
<1>3. /\ ret \notin S /\ ret # HeapStart /\ ret # HeapEnd
      /\ new \notin S /\ new # HeapStart /\ new # HeapEnd /\ ret # new
  BY <1>1, <1>2, HeapConstants DEF Linked
<1>4. Linked(g, T)
  <2>1. /\ T \subseteq DOMAIN g /\ T \subseteq Addresses
        /\ HeapStart \in T /\ HeapEnd \in T /\ HeapStart # HeapEnd
        /\ \A x \in T : g[x].epsilon <=> x = HeapEnd
        /\ ~ g[HeapEnd].used
    BY <1>1, <1>3 DEF Linked
  <2>2. ASSUME NEW x \in T \ {HeapEnd}
        PROVE  /\ g[x].next \in T /\ x < g[x].next
               /\ \A b \in T : b <= x \/ g[x].next <= b
    <3>1. CASE x \in {new, ret}
      BY <1>1, <1>2, <1>3, <3>1 DEF Linked
    <3>2. CASE x = a
      BY <1>2, <1>3, <3>2
    <3>3. CASE x \in S \ {a}
      <4>1. /\ g[x].next = head[x].next /\ head[x].next \in S /\ x < head[x].next
            /\ \A b \in S : b <= x \/ head[x].next <= b
        BY <1>1, <3>3 DEF Linked
      <4>2. head[x].next \in Nat
        BY <1>2, <4>1
      <4>3. head[x].next <= a
        <5>1. /\ x \in Nat /\ a \in Nat /\ HeapEnd \in Nat /\ x # a /\ x # HeapEnd
              /\ x <= a \/ HeapEnd <= x
              /\ x <= HeapEnd
          BY <1>2, <3>3
        <5>2. a <= x \/ head[x].next <= a
          BY <4>1
        <5>3. QED
          BY <4>2, <5>1, <5>2
      <4>4. QED
        BY <1>2, <4>1, <4>2, <4>3
    <3>4. QED
      BY <3>1, <3>2, <3>3
  <2>3. ASSUME NEW x \in T \ {HeapStart} PROVE \E b \in T \ {HeapEnd} : g[b].next = x
    <3>1. CASE x = new \/ x = ret \/ x = HeapEnd
      BY <1>3, <3>1
    <3>2. CASE x \in S \ {HeapEnd}
      <4>1. PICK b \in S \ {HeapEnd} : head[b].next = x
        BY <1>1, <3>2 DEF Linked
      <4>2. QED
        BY <3>2, <4>1
    <3>3. QED
      BY <3>1, <3>2
  <2>4. QED
    BY <2>1, <2>2, <2>3 DEF Linked
<1>5. g[HeapStart].prev = NULL
  BY <1>1 DEF ListInv, Linked
<1>6. ASSUME NEW x \in S \ {HeapStart, HeapEnd}, Rest(head, S, older, x)
      PROVE  Rest(g, T, newer, x)
  BY <1>6 DEF Rest
<1>7. Rest(g, T, newer, new)
  BY <1>3 DEF Rest
<1>8. ASSUME NEW x \in S \ {HeapStart, HeapEnd}, PageHead(head, S, older, x)
      PROVE  PageHead(g, T, newer, x)
  <2>1. /\ head[x].used /\ head[x].prev \in S /\ head[x].prev < x
        /\ x + HeadSize = NextPage(head[x].prev)
        /\ \/ head[x].prev = HeapStart
           \/ Rest(head, S, older, head[x].prev) /\ <<head[head[x].prev].prev, x>> \in older
        /\ \A y \in S : head[x].prev <= y /\ y < x => ~ head[y].used \/ <<x, y>> \in older
    BY <1>8 DEF PageHead
  <2>2. g[x].used /\ g[x].prev = head[x].prev
    BY <2>1
  <2>3. head[x].prev # HeapEnd
    BY <1>1, <2>1, LinkedOrder, HeapConstants
  <2>4. \/ g[x].prev = HeapStart
        \/ Rest(g, T, newer, g[x].prev) /\ <<g[g[x].prev].prev, x>> \in newer
    BY ZenonT(60), <1>6, <2>1, <2>2, <2>3
  <2>5. ~ (ret < x)
    BY <1>2, InFront
  <2>6. \A y \in T : g[x].prev <= y /\ y < x => ~ g[y].used \/ <<x, y>> \in newer
    BY <2>1, <2>2, <2>5
  <2>7. QED
    BY <2>1, <2>2, <2>4, <2>6 DEF PageHead
<1>9. PageHead(g, T, newer, ret)
  <2>1. g[ret].prev = a /\ a # HeapEnd
    OBVIOUS
  <2>2. a = HeapStart \/ (Rest(g, T, newer, a) /\ <<g[a].prev, ret>> \in newer)
    <3>1. CASE a # HeapStart
      <4>1. Rest(head, S, older, a)
        BY <3>1 DEF ListInv, PageHead
      <4>2. head[a].prev \in S /\ head[head[a].prev].used
        BY <4>1 DEF Rest
      <4>3. Rest(g, T, newer, a)
        BY <1>6, <3>1, <4>1
      <4>4. <<head[a].prev, ret>> \in newer /\ g[a].prev = head[a].prev
        BY <4>2
      <4>5. QED
        BY <4>3, <4>4
    <3>2. QED
      BY <3>1
  <2>3. ASSUME NEW y \in T, a <= y, y < ret PROVE ~ g[y].used
    BY <1>2, <2>3
  <2>4. QED
    BY <2>1, <2>2, <2>3 DEF PageHead
<1>10. QED
  BY <1>3, <1>4, <1>5, <1>6, <1>7, <1>8, <1>9 DEF ListInv

-----------------------------------------------------------------------------
LEMMA NextPageMonotonic ==
  ASSUME NEW x \in Addresses, NEW y \in Addresses, x <= y
  PROVE  NextPage(x) <= NextPage(y)
<1>1. x \in HeapStart .. HeapTop - 1 /\ y \in HeapStart .. HeapTop - 1
  BY AddressIsHeap
<1>2. /\ PageOf(x) \in Pages /\ PageOf(x) \in Nat /\ PageOf(x) <= x
      /\ PageOf(y) \in Nat
  BY <1>1, PageOfAddress
<1>3. PageOf(x) <= y
  BY <1>1, <1>2, HeapConstants
<1>4. PageOf(x) <= PageOf(y)
  BY <1>1, <1>2, <1>3, PageUnique
<1>5. QED
  BY <1>2, <1>4, HeapConstants DEF NextPage

(* The area given out last, in front of a free end of the heap.  Its       *)
(* `prev' names a used area, or the free area in front of it.              *)
LEMMA NewestArea ==
  ASSUME NEW head, NEW S, NEW older, ListInv(head, S, older),
         NEW a \in S \ {HeapEnd}, head[a].used, \A y \in S : <<a, y>> \notin older,
         \A x \in S : head[x].next = HeapEnd => ~ head[x].used
  PROVE  /\ head[a].next \in S \ {HeapEnd}
         /\ \/ a = HeapStart
            \/ Rest(head, S, older, a)
            \/ /\ head[a].prev \in S /\ head[a].prev < a
               /\ ~ head[head[a].prev].used /\ head[head[a].prev].next = a
               /\ ~ head[head[a].next].used /\ head[head[a].next].next = HeapEnd
<1>1. Linked(head, S)
  BY DEF ListInv
<1>2. /\ \A x \in S : x \in Nat /\ x \in Addresses /\ HeapStart <= x
      /\ \A x, y \in S \ {HeapEnd} : head[x].next = head[y].next => x = y
      /\ \A x \in S \ {HeapEnd} : x < HeapEnd
  BY <1>1, LinkedOrder DEF Linked
<1>3. \A x \in S \ {HeapEnd} :
        /\ head[x].next \in S /\ x < head[x].next
        /\ \A y \in S : y <= x \/ head[x].next <= y
  BY <1>1 DEF Linked
<1>4. head[a].next \in S \ {HeapEnd}
  BY <1>3
<1>5. ASSUME a # HeapStart, ~ Rest(head, S, older, a)
      PROVE  /\ head[a].prev \in S /\ head[a].prev < a
             /\ ~ head[head[a].prev].used /\ head[head[a].prev].next = a
             /\ ~ head[head[a].next].used /\ head[head[a].next].next = HeapEnd
  <2> DEFINE b == head[a].prev
             c == head[a].next
             d == head[c].next
  <2>1. PageHead(head, S, older, a)
    BY <1>5 DEF ListInv
  <2>2. /\ b \in S \ {HeapEnd} /\ b < a /\ a + HeadSize = NextPage(b)
        /\ \A y \in S : b <= y /\ y < a => ~ head[y].used
    <3>1. /\ b \in S /\ b < a /\ a + HeadSize = NextPage(b)
          /\ \A y \in S : b <= y /\ y < a => ~ head[y].used
      BY <2>1 DEF PageHead
    <3>2. b # HeapEnd
      BY <1>2, <3>1, HeapConstants
    <3>3. QED
      BY <3>1, <3>2
  <2>3. ~ head[b].used
    BY <1>2, <2>2
  <2>4. head[b].next = a
    <3> SUFFICES ASSUME head[b].next # a PROVE FALSE
      OBVIOUS
    <3>1. /\ head[b].next \in S /\ b < head[b].next /\ head[b].next < a
          /\ head[b].next \in S \ {HeapStart, HeapEnd}
      BY <1>2, <1>3, <2>2
    <3>2. ~ head[head[b].next].used
      BY <1>2, <2>2, <3>1
    <3>3. Rest(head, S, older, head[b].next)
      BY <3>1, <3>2 DEF ListInv, PageHead
    <3>4. /\ head[head[b].next].prev \in S \ {HeapEnd}
          /\ head[head[head[b].next].prev].used
          /\ head[head[head[b].next].prev].next = head[b].next
      BY <3>3 DEF Rest
    <3>5. head[head[b].next].prev = b
      BY <1>2, <2>2, <3>4
    <3>6. QED
      BY <2>3, <3>4, <3>5
  <2>5. c \in S \ {HeapStart, HeapEnd} /\ a < c
    BY <1>2, <1>3, <1>4
  (* No other page's header can follow: it would lie in the same page. *)
  <2>6. ASSUME NEW y \in S, a < y, PageHead(head, S, older, y)
        PROVE  a < head[y].prev
    <3>1. /\ head[y].prev \in S /\ head[y].prev < y /\ y + HeadSize = NextPage(head[y].prev)
          /\ \/ head[y].prev = HeapStart
             \/ Rest(head, S, older, head[y].prev)
      BY <2>6 DEF PageHead
    <3>2. head[y].prev # a
      BY <1>5, <3>1
    <3>3. CASE head[y].prev < a
      <4>1. head[y].prev <= b
        BY <1>2, <1>3, <2>2, <2>4, <3>1, <3>3
      <4>2. NextPage(head[y].prev) <= NextPage(b)
        BY <1>2, <2>2, <3>1, <4>1, NextPageMonotonic
      <4>3. QED
        BY <1>2, <2>2, <2>6, <3>1, <4>2, HeapConstants DEF HeadSize
    <3>4. QED
      BY <1>2, <3>1, <3>2, <3>3
  <2>7. ~ PageHead(head, S, older, c)
    <3>1. ASSUME PageHead(head, S, older, c) PROVE FALSE
      <4>1. a < head[c].prev
        BY <2>5, <2>6, <3>1
      <4>2. head[c].prev \in S /\ head[c].prev < c
        BY <3>1 DEF PageHead
      <4>3. QED
        BY <1>2, <1>3, <2>5, <4>1, <4>2
    <3>2. QED
      BY <3>1
  <2>8. Rest(head, S, older, c)
    BY <2>5, <2>7 DEF ListInv
  <2>9. head[c].prev = a
    BY <1>2, <2>8 DEF Rest
  <2>10. ~ head[c].used
    BY <2>5, <2>8, <2>9 DEF Rest
  <2>11. d = HeapEnd
    <3> SUFFICES ASSUME d # HeapEnd PROVE FALSE
      OBVIOUS
    <3>1. d \in S \ {HeapStart, HeapEnd} /\ c < d /\ a < d
      BY <1>2, <1>3, <2>5
    <3>2. ~ Rest(head, S, older, d)
      <4>1. ASSUME Rest(head, S, older, d) PROVE FALSE
        <5>1. head[d].prev \in S \ {HeapEnd} /\ head[head[d].prev].used
              /\ head[head[d].prev].next = head[c].next
          BY <4>1 DEF Rest
        <5>2. head[d].prev = c
          BY <1>2, <2>5, <5>1
        <5>3. QED
          BY <2>10, <5>1, <5>2
      <4>2. QED
        BY <4>1
    <3>3. PageHead(head, S, older, d)
      BY <3>1, <3>2 DEF ListInv
    <3>4. a < head[d].prev /\ head[d].prev \in S /\ head[d].prev < d
          /\ head[d].prev # HeapStart
      <4>1. a < head[d].prev
        BY <2>6, <3>1, <3>3
      <4>2. head[d].prev \in S /\ head[d].prev < d
        BY <3>3 DEF PageHead
      <4>3. QED
        BY <1>2, <4>1, <4>2, HeapConstants
    <3>5. head[d].prev = c
      BY <1>2, <1>3, <2>5, <3>1, <3>4
    <3>6. <<head[c].prev, d>> \in older
      BY <3>3, <3>4, <3>5 DEF PageHead
    <3>7. QED
      BY <2>9, <3>1, <3>6
  <2>12. QED
    BY <2>2, <2>3, <2>4, <2>10, <2>11
<1>6. QED
  BY <1>4, <1>5

(* kfree() of the newest area, between used areas.                         *)
LEMMA AreaReleased ==
  ASSUME NEW head, NEW S, NEW older, ListInv(head, S, older),
         NEW a \in S \ {HeapEnd}, head[a].used, \A y \in S : <<a, y>> \notin older,
         a = HeapStart \/ Rest(head, S, older, a),
         head[head[a].next].used,
         NEW g, S \subseteq DOMAIN g,
         \A x \in S : /\ g[x].next = head[x].next
                      /\ x # HeapEnd => g[x].prev = head[x].prev
                      /\ g[x].epsilon <=> head[x].epsilon
                      /\ g[x].used <=> head[x].used /\ x # a,
         NEW newer, \A x, y \in S : <<x, y>> \in older /\ y # a => <<x, y>> \in newer
  PROVE  ListInv(g, S, newer)
<1>1. Linked(head, S)
  BY DEF ListInv
<1>2. Linked(g, S)
  BY <1>1 DEF Linked
<1>3. g[HeapStart].prev = NULL
  BY <1>1 DEF ListInv, Linked
<1>4. /\ \A x \in S : x \in Nat
      /\ \A x \in S \ {HeapEnd} : head[x].next \in S /\ x < head[x].next
  BY <1>1, LinkedOrder DEF Linked
<1>5. ASSUME NEW x \in S \ {HeapStart, HeapEnd}, Rest(head, S, older, x)
      PROVE  Rest(g, S, newer, x)
  <2>1. /\ head[x].prev \in S \ {HeapEnd} /\ head[head[x].prev].used
        /\ head[head[x].prev].next = x
        /\ head[x].used => <<head[x].prev, x>> \in older
    BY <1>5 DEF Rest
  <2>2. head[x].prev # a
    BY <1>4, <2>1
  <2>3. QED
    BY <2>1, <2>2 DEF Rest
<1>6. ASSUME NEW x \in S \ {HeapStart, HeapEnd}, x # a, PageHead(head, S, older, x)
      PROVE  PageHead(g, S, newer, x)
  <2>1. /\ head[x].used /\ head[x].prev \in S /\ head[x].prev < x
        /\ x + HeadSize = NextPage(head[x].prev)
        /\ \/ head[x].prev = HeapStart
           \/ Rest(head, S, older, head[x].prev) /\ <<head[head[x].prev].prev, x>> \in older
        /\ \A y \in S : head[x].prev <= y /\ y < x => ~ head[y].used \/ <<x, y>> \in older
    BY <1>6 DEF PageHead
  <2>2. g[x].used /\ g[x].prev = head[x].prev
    BY <1>6, <2>1
  <2>3. head[x].prev # HeapEnd
    BY <1>1, <2>1, LinkedOrder, HeapConstants
  <2>4. \/ g[x].prev = HeapStart
        \/ Rest(g, S, newer, g[x].prev) /\ <<g[g[x].prev].prev, x>> \in newer
    <3>1. CASE head[x].prev = HeapStart
      BY <2>2, <3>1
    <3>2. CASE head[x].prev # HeapStart
      <4>1. Rest(head, S, older, head[x].prev) /\ <<head[head[x].prev].prev, x>> \in older
        BY <2>1, <3>2
      <4>2. Rest(g, S, newer, g[x].prev)
        BY <1>5, <2>1, <2>2, <2>3, <3>2, <4>1
      <4>3. head[head[x].prev].prev \in S /\ g[g[x].prev].prev = head[head[x].prev].prev
        BY <2>1, <2>2, <2>3, <4>1 DEF Rest
      <4>4. QED
        BY <1>6, <4>1, <4>2, <4>3
    <3>3. QED
      BY <3>1, <3>2
  <2>5. \A y \in S : g[x].prev <= y /\ y < x => ~ g[y].used \/ <<x, y>> \in newer
    BY <1>6, <2>1, <2>2
  <2>6. QED
    BY <2>1, <2>2, <2>4, <2>5 DEF PageHead
<1>7. ASSUME NEW x \in S \ {HeapStart, HeapEnd}
      PROVE  Rest(g, S, newer, x) \/ PageHead(g, S, newer, x)
  BY <1>5, <1>6 DEF ListInv
<1>8. QED
  BY <1>2, <1>3, <1>7 DEF ListInv

(* kfree() of the newest area in front of a free one, behind a used one.   *)
LEMMA AreaMergedWithTail ==
  ASSUME NEW head, NEW S, NEW older, ListInv(head, S, older),
         NEW a \in S \ {HeapEnd}, head[a].used, \A y \in S : <<a, y>> \notin older,
         a = HeapStart \/ Rest(head, S, older, a),
         NEW c \in S \ {HeapEnd}, head[a].next = c, ~ head[c].used,
         NEW g, S \ {c} \subseteq DOMAIN g,
         \A x \in S \ {c} : /\ g[x].next = IF x = a THEN head[c].next ELSE head[x].next
                            /\ x # HeapEnd => g[x].prev = head[x].prev
                            /\ g[x].epsilon <=> head[x].epsilon
                            /\ g[x].used <=> head[x].used /\ x # a,
         NEW newer, \A x, y \in S : <<x, y>> \in older /\ y # a => <<x, y>> \in newer
  PROVE  ListInv(g, S \ {c}, newer)
<1> DEFINE T == S \ {c}
<1>1. Linked(head, S)
  BY DEF ListInv
<1>2. /\ \A x \in S : x \in Nat /\ HeapStart <= x
      /\ \A x \in S \ {HeapEnd} : head[x].next \in S /\ x < head[x].next
                                 /\ \A y \in S : y <= x \/ head[x].next <= y
      /\ HeapStart \in Nat /\ HeapEnd \in Nat
  BY <1>1, LinkedOrder, HeapConstants DEF Linked
<1>3. \A x \in S \ {HeapEnd} : head[x].next = c => x = a
  BY <1>1, LinkedOrder
<1>4. a < c /\ a # c /\ c # HeapStart /\ c < head[c].next /\ head[c].next \in T
  BY <1>2
<1>5. Linked(g, T)
  <2>1. /\ T \subseteq DOMAIN g /\ T \subseteq Addresses
        /\ HeapStart \in T /\ HeapEnd \in T /\ HeapStart # HeapEnd
        /\ \A x \in T : g[x].epsilon <=> x = HeapEnd
        /\ ~ g[HeapEnd].used
    BY <1>1, <1>4 DEF Linked
  <2>2. ASSUME NEW x \in T \ {HeapEnd}
        PROVE  /\ g[x].next \in T /\ x < g[x].next
               /\ \A b \in T : b <= x \/ g[x].next <= b
    <3>1. CASE x = a
      <4>1. g[x].next = head[c].next /\ head[c].next \in Nat /\ a \in Nat /\ c \in Nat
        BY <1>2, <3>1
      <4>2. ASSUME NEW b \in T PROVE b <= a \/ head[c].next <= b
        <5>1. /\ b \in Nat /\ b # c
              /\ b <= a \/ c <= b
              /\ b <= c \/ head[c].next <= b
          BY <1>2
        <5>2. QED
          BY <4>1, <5>1
      <4>3. a < head[c].next
        BY <1>4, <4>1
      <4>4. QED
        BY <1>4, <3>1, <4>1, <4>2, <4>3
    <3>2. CASE x # a
      BY <1>2, <1>3, <3>2
    <3>3. QED
      BY <3>1, <3>2
  <2>3. ASSUME NEW x \in T \ {HeapStart} PROVE \E b \in T \ {HeapEnd} : g[b].next = x
    <3>1. PICK b \in S \ {HeapEnd} : head[b].next = x
      BY <1>1 DEF Linked
    <3>2. CASE b = c
      BY <1>4, <3>1, <3>2
    <3>3. CASE b # c
      <4>1. b # a
        BY <3>1
      <4>2. QED
        BY <3>1, <3>3, <4>1
    <3>4. QED
      BY <3>2, <3>3
  <2>4. QED
    BY <2>1, <2>2, <2>3 DEF Linked
<1>6. g[HeapStart].prev = NULL
  BY <1>1, <1>4 DEF ListInv, Linked
<1>7. ASSUME NEW x \in T \ {HeapStart, HeapEnd}, Rest(head, S, older, x)
      PROVE  Rest(g, T, newer, x)
  <2>1. /\ head[x].prev \in S \ {HeapEnd} /\ head[head[x].prev].used
        /\ head[head[x].prev].next = x
        /\ head[x].used => <<head[x].prev, x>> \in older
    BY <1>7 DEF Rest
  <2>2. head[x].prev # a /\ head[x].prev # c
    BY <2>1
  <2>3. g[x].prev = head[x].prev /\ (g[x].used => head[x].used /\ x # a)
    OBVIOUS
  <2>4. g[head[x].prev].used /\ g[head[x].prev].next = x
    BY <2>1, <2>2
  <2>5. QED
    BY <2>1, <2>2, <2>3, <2>4 DEF Rest
<1>8. ASSUME NEW x \in T \ {HeapStart, HeapEnd}, x # a, PageHead(head, S, older, x)
      PROVE  PageHead(g, T, newer, x)
  <2>1. /\ head[x].used /\ head[x].prev \in S /\ head[x].prev < x
        /\ x + HeadSize = NextPage(head[x].prev)
        /\ \/ head[x].prev = HeapStart
           \/ Rest(head, S, older, head[x].prev) /\ <<head[head[x].prev].prev, x>> \in older
        /\ \A y \in S : head[x].prev <= y /\ y < x => ~ head[y].used \/ <<x, y>> \in older
    BY <1>8 DEF PageHead
  <2>2. g[x].used /\ g[x].prev = head[x].prev
    BY <1>8, <2>1
  <2>3. head[x].prev # HeapEnd
    BY <1>1, <2>1, LinkedOrder, HeapConstants
  <2>4. head[x].prev # c
    <3> SUFFICES ASSUME head[x].prev = c PROVE FALSE
      OBVIOUS
    <3>1. Rest(head, S, older, c) /\ <<head[c].prev, x>> \in older
      BY <1>4, <2>1
    <3>2. head[c].prev = a
      BY <1>3, <3>1 DEF Rest
    <3>3. QED
      BY <3>1, <3>2
  <2>5. \/ g[x].prev = HeapStart
        \/ Rest(g, T, newer, g[x].prev) /\ <<g[g[x].prev].prev, x>> \in newer
    <3>1. CASE head[x].prev = HeapStart
      BY <2>2, <3>1
    <3>2. CASE head[x].prev # HeapStart
      <4>1. Rest(head, S, older, head[x].prev) /\ <<head[head[x].prev].prev, x>> \in older
        BY <2>1, <3>2
      <4>2. Rest(g, T, newer, g[x].prev)
        BY <1>7, <2>1, <2>2, <2>3, <2>4, <3>2, <4>1
      <4>3. head[head[x].prev].prev \in S /\ g[g[x].prev].prev = head[head[x].prev].prev
        BY <2>1, <2>2, <2>3, <2>4, <4>1 DEF Rest
      <4>4. QED
        BY <1>8, <4>1, <4>2, <4>3
    <3>3. QED
      BY <3>1, <3>2
  <2>6. \A y \in T : g[x].prev <= y /\ y < x => ~ g[y].used \/ <<x, y>> \in newer
    BY <1>8, <2>1, <2>2
  <2>7. QED
    BY <2>1, <2>2, <2>4, <2>5, <2>6 DEF PageHead
<1>9. ASSUME NEW x \in T \ {HeapStart, HeapEnd}
      PROVE  Rest(g, T, newer, x) \/ PageHead(g, T, newer, x)
  BY <1>7, <1>8 DEF ListInv
<1>10. QED
  BY <1>5, <1>6, <1>9 DEF ListInv

(* kfree() of the newest area between two free ones, at the end of the     *)
(* heap.                                                                   *)
LEMMA AreaMergedWithBoth ==
  ASSUME NEW head, NEW S, NEW older, ListInv(head, S, older),
         NEW a \in S \ {HeapStart, HeapEnd}, head[a].used, \A y \in S : <<a, y>> \notin older,
         ~ Rest(head, S, older, a),
         NEW b \in S, b < a, ~ head[b].used, head[b].next = a,
         NEW c \in S \ {HeapEnd}, head[a].next = c, ~ head[c].used, head[c].next = HeapEnd,
         NEW g, S \ {a, c} \subseteq DOMAIN g,
         \A x \in S \ {a, c} : /\ g[x].next = IF x = b THEN HeapEnd ELSE head[x].next
                               /\ x # HeapEnd => g[x].prev = head[x].prev
                               /\ g[x].epsilon <=> head[x].epsilon
                               /\ g[x].used <=> head[x].used,
         NEW newer, \A x, y \in S : <<x, y>> \in older /\ y # a => <<x, y>> \in newer
  PROVE  ListInv(g, S \ {a, c}, newer)
<1> DEFINE T == S \ {a, c}
<1>1. Linked(head, S)
  BY DEF ListInv
<1>2. /\ \A x \in S : x \in Nat /\ HeapStart <= x /\ x <= HeapEnd
      /\ \A x \in S \ {HeapEnd} : head[x].next \in S /\ x < head[x].next
                                 /\ \A y \in S : y <= x \/ head[x].next <= y
      /\ HeapStart \in Nat /\ HeapEnd \in Nat
  BY <1>1, LinkedOrder, HeapConstants DEF Linked
<1>3. /\ \A x \in S \ {HeapEnd} : head[x].next = c => x = a
      /\ \A x \in S \ {HeapEnd} : head[x].next = a => x = b
  BY <1>1, <1>2, LinkedOrder
<1>4. /\ a < c /\ a # c /\ c # HeapStart /\ b # c /\ b # a /\ b # HeapEnd
      /\ HeapEnd \in T /\ HeapStart \in T /\ b \in T
  BY <1>1, <1>2 DEF Linked
<1>5. Linked(g, T)
  <2>1. /\ T \subseteq DOMAIN g /\ T \subseteq Addresses
        /\ HeapStart \in T /\ HeapEnd \in T /\ HeapStart # HeapEnd
        /\ \A x \in T : g[x].epsilon <=> x = HeapEnd
        /\ ~ g[HeapEnd].used
    BY <1>1, <1>4 DEF Linked
  <2>2. ASSUME NEW x \in T \ {HeapEnd}
        PROVE  /\ g[x].next \in T /\ x < g[x].next
               /\ \A y \in T : y <= x \/ g[x].next <= y
    <3>1. CASE x = b
      <4>1. g[x].next = HeapEnd /\ b \in Nat /\ a \in Nat /\ c \in Nat
        BY <1>2, <3>1
      <4>2. ASSUME NEW y \in T PROVE y <= b \/ HeapEnd <= y
        <5>1. /\ y \in Nat /\ y # a /\ y # c
              /\ y <= b \/ a <= y
              /\ y <= a \/ c <= y
              /\ y <= c \/ HeapEnd <= y
          BY <1>2, <1>4
        <5>2. QED
          BY <1>2, <4>1, <5>1
      <4>3. b < HeapEnd
        BY <1>2, <1>4
      <4>4. QED
        BY <1>4, <3>1, <4>1, <4>2, <4>3
    <3>2. CASE x # b
      <4>1. g[x].next = head[x].next /\ x \in S \ {HeapEnd}
        BY <3>2
      <4>2. head[x].next # a /\ head[x].next # c
        BY <1>3, <3>2, <4>1
      <4>3. QED
        BY <1>2, <4>1, <4>2
    <3>3. QED
      BY <3>1, <3>2
  <2>3. ASSUME NEW x \in T \ {HeapStart} PROVE \E y \in T \ {HeapEnd} : g[y].next = x
    <3>1. PICK y \in S \ {HeapEnd} : head[y].next = x
      BY <1>1 DEF Linked
    <3>2. CASE x = HeapEnd
      BY <1>4, <3>2
    <3>3. CASE x # HeapEnd
      <4>1. y # a /\ y # b /\ y # c
        BY <3>1, <3>3
      <4>2. QED
        BY <3>1, <4>1
    <3>4. QED
      BY <3>2, <3>3
  <2>4. QED
    BY <2>1, <2>2, <2>3 DEF Linked
<1>6. g[HeapStart].prev = NULL
  BY <1>1, <1>4 DEF ListInv, Linked
<1>7. ASSUME NEW x \in T \ {HeapStart, HeapEnd}, Rest(head, S, older, x)
      PROVE  Rest(g, T, newer, x)
  <2>1. /\ head[x].prev \in S \ {HeapEnd} /\ head[head[x].prev].used
        /\ head[head[x].prev].next = x
        /\ head[x].used => <<head[x].prev, x>> \in older
    BY <1>7 DEF Rest
  <2>2. head[x].prev # a /\ head[x].prev # b /\ head[x].prev # c
    BY <2>1
  <2>3. g[x].prev = head[x].prev /\ (g[x].used => head[x].used /\ x # a)
    OBVIOUS
  <2>4. g[head[x].prev].used /\ g[head[x].prev].next = x
    BY <2>1, <2>2
  <2>5. QED
    BY <2>1, <2>2, <2>3, <2>4 DEF Rest
<1>8. ASSUME NEW x \in T \ {HeapStart, HeapEnd}, PageHead(head, S, older, x)
      PROVE  PageHead(g, T, newer, x)
  <2>1. /\ head[x].used /\ head[x].prev \in S /\ head[x].prev < x
        /\ x + HeadSize = NextPage(head[x].prev)
        /\ \/ head[x].prev = HeapStart
           \/ Rest(head, S, older, head[x].prev) /\ <<head[head[x].prev].prev, x>> \in older
        /\ \A y \in S : head[x].prev <= y /\ y < x => ~ head[y].used \/ <<x, y>> \in older
    BY <1>8 DEF PageHead
  <2>2. g[x].used /\ g[x].prev = head[x].prev
    BY <2>1
  <2>3. head[x].prev # HeapEnd
    BY <1>1, <2>1, LinkedOrder, HeapConstants
  <2>4. head[x].prev # c
    <3> SUFFICES ASSUME head[x].prev = c PROVE FALSE
      OBVIOUS
    <3>1. Rest(head, S, older, c) /\ <<head[c].prev, x>> \in older
      BY <1>4, <2>1
    <3>2. head[c].prev = a
      BY <1>3, <3>1 DEF Rest
    <3>3. QED
      BY <3>1, <3>2
  <2>5. head[x].prev # a
    BY <2>1
  <2>6. \/ g[x].prev = HeapStart
        \/ Rest(g, T, newer, g[x].prev) /\ <<g[g[x].prev].prev, x>> \in newer
    <3>1. CASE head[x].prev = HeapStart
      BY <2>2, <3>1
    <3>2. CASE head[x].prev # HeapStart
      <4>1. Rest(head, S, older, head[x].prev) /\ <<head[head[x].prev].prev, x>> \in older
        BY <2>1, <3>2
      <4>2. Rest(g, T, newer, g[x].prev)
        BY <1>7, <2>1, <2>2, <2>3, <2>4, <2>5, <3>2, <4>1
      <4>3. head[head[x].prev].prev \in S /\ g[g[x].prev].prev = head[head[x].prev].prev
        BY <2>1, <2>2, <2>3, <2>4, <2>5, <4>1 DEF Rest
      <4>4. QED
        BY <4>1, <4>2, <4>3
    <3>3. QED
      BY <3>1, <3>2
  <2>7. \A y \in T : g[x].prev <= y /\ y < x => ~ g[y].used \/ <<x, y>> \in newer
    BY <2>1, <2>2
  <2>8. QED
    BY <2>1, <2>2, <2>4, <2>5, <2>6, <2>7 DEF PageHead
<1>9. ASSUME NEW x \in T \ {HeapStart, HeapEnd}
      PROVE  Rest(g, T, newer, x) \/ PageHead(g, T, newer, x)
  BY <1>7, <1>8 DEF ListInv
<1>10. QED
  BY <1>5, <1>6, <1>9 DEF ListInv

-----------------------------------------------------------------------------
(* The fields of a header.                                                *)
Headers == [next : Nat, prev : Nat, used : BOOLEAN, epsilon : BOOLEAN]

LEMMA OverwrittenFields ==
  ASSUME NEW head, NEW p, NEW n, NEW g, g = Overwritten(head, p, n)
  PROVE  \A x \in DOMAIN head :
           x + HeadSize <= p \/ p + n <= x => x \in DOMAIN g /\ g[x] = head[x]
  BY DEF Overwritten

-----------------------------------------------------------------------------
(* A heap whose list is S: sound, and mapped up to the last area.          *)
SoundHeap(h, S, older) ==
  /\ HeapOK(h) /\ ListInv(h.head, S, older)
  /\ \A x \in S : h.head[x] \in Headers
  /\ \A x \in S \ {HeapEnd}, page \in Pages : page <= x => page \in h.mapped

LEMMA SoundHeapFacts ==
  ASSUME NEW h, NEW S, NEW older, SoundHeap(h, S, older)
  PROVE  /\ Visited(h.head) = S
         /\ WalkDerefs(h.head) \subseteq DOMAIN h.head
         /\ FreeAreas(h.head) = {a \in S \ {HeapEnd} : ~ h.head[a].used}
         /\ \A a \in S \ {HeapEnd} : /\ AreaSize(h.head, a) = h.head[a].next - a - 8
                                     /\ AreaSize(h.head, a) \in Nat
                                     /\ h.head[a].next # NULL
<1>1. Linked(h.head, S)
  BY DEF SoundHeap, ListInv
<1>2. Visited(h.head) = S
  <2>1. DOMAIN h.head \subseteq Nat
    BY AddressIsHeap DEF SoundHeap, HeapOK
  <2>2. QED
    BY <1>1, <2>1, LinkedVisited
<1>3. \A a \in S : ~ h.head[a].epsilon <=> a # HeapEnd
  BY <1>1 DEF Linked
<1>4. ASSUME NEW a \in S \ {HeapEnd}
      PROVE  /\ AreaSize(h.head, a) = h.head[a].next - a - 8
             /\ AreaSize(h.head, a) \in Nat
             /\ h.head[a].next # NULL
  <2>1. /\ h.head[a].next \in S /\ a \in Nat /\ h.head[a].next \in Nat
        /\ a + 8 <= h.head[a].next
    BY <1>1, LinkedOrder DEF Linked
  <2>2. h.head[a].next # NULL
    BY <2>1 DEF NULL
  <2>3. AreaSize(h.head, a) = h.head[a].next - a - 8
    BY <1>3, <2>2 DEF AreaSize, HeadSize
  <2>4. QED
    BY <2>1, <2>2, <2>3
<1>5. WalkDerefs(h.head) \subseteq DOMAIN h.head
  BY <1>1, <1>2, <1>3 DEF WalkDerefs, Linked
<1>6. FreeAreas(h.head) = {a \in S \ {HeapEnd} : ~ h.head[a].used}
  BY <1>2, <1>3 DEF FreeAreas
<1>7. QED
  BY <1>2, <1>4, <1>5, <1>6

(* Every free area but the last is what kpagealloc() left in front of a    *)
(* page, or a part of it, and holds no page.                               *)
LEMMA FreeGapsAreSmall ==
  ASSUME NEW h, NEW S, NEW older, SoundHeap(h, S, older),
         NEW a \in S \ {HeapEnd}, ~ h.head[a].used, h.head[a].next # HeapEnd
  PROVE  AreaSize(h.head, a) < PageSize
<1> DEFINE head == h.head
           y    == head[a].next
           b    == head[y].prev
<1>1. Linked(head, S)
  BY DEF SoundHeap, ListInv
<1>2. /\ \A x \in S : x \in Nat /\ x \in Addresses /\ HeapStart <= x
      /\ \A x, z \in S \ {HeapEnd} : head[x].next = head[z].next => x = z
  BY <1>1, LinkedOrder DEF Linked
<1>3. y \in S \ {HeapStart, HeapEnd} /\ a < y /\ \A z \in S : z <= a \/ y <= z
  BY <1>1, <1>2 DEF Linked
<1>4. ~ Rest(head, S, older, y)
  <2>1. ASSUME Rest(head, S, older, y) PROVE FALSE
    <3>1. b \in S \ {HeapEnd} /\ head[b].used /\ head[b].next = y
      BY <2>1 DEF Rest
    <3>2. b = a
      BY <1>2, <3>1
    <3>3. QED
      BY <3>1, <3>2
  <2>2. QED
    BY <2>1
<1>5. PageHead(head, S, older, y)
  BY <1>3, <1>4 DEF SoundHeap, ListInv
<1>6. b \in S /\ b < y /\ y + HeadSize = NextPage(b)
  BY <1>5 DEF PageHead
<1>7. b \in Nat /\ y \in Nat /\ b <= a /\ b \in HeapStart .. HeapTop - 1
  BY <1>2, <1>3, <1>6, AddressIsHeap
<1>8. PageOf(b) <= b /\ PageOf(b) \in Nat
  BY <1>7, PageOfAddress
<1>9. y + 8 <= b + PageSize
  BY <1>6, <1>7, <1>8, HeapConstants DEF NextPage, HeadSize
<1>10. AreaSize(h.head, a) = y - a - 8
  BY SoundHeapFacts
<1>11. QED
  BY <1>2, <1>7, <1>9, <1>10, HeapConstants

(* The size kmalloc() looks for holds the request and a header.            *)
LEMMA PaddedSizeBounds ==
  ASSUME NEW size \in Nat, size + 2 * HeadSize <= Modulus
  PROVE  /\ PaddedSize(size) \in Nat /\ PaddedSize(size) % 8 = 0
         /\ size + 8 <= PaddedSize(size)
<1>1. Modulus \in Nat \ {0}
  BY HeapConstants
<1>2. (size + HeadSize) % Modulus = size + 8
  BY <1>1 DEF HeadSize
<1>3. (size + 8 + 8 - 1) % Modulus = size + 15
  BY <1>1 DEF HeadSize
<1>4. PaddedSize(size) = 8 * ((size + 15) \div 8)
  BY <1>2, <1>3 DEF PaddedSize, DivCeil
<1>5. QED
  BY <1>4

-----------------------------------------------------------------------------
(* What an allocation of `size' bytes does to the list: area a is in use   *)
(* and the areas in use before keep their extent.                          *)
Given(h, S, g, T, a, size) ==
  /\ a \in T \ {HeapEnd} /\ (a \in S => ~ h.head[a].used) /\ S \subseteq T
  /\ \A x \in T : g.head[x].used <=> x = a \/ (x \in S /\ h.head[x].used)
  /\ \A x \in S : h.head[x].used => g.head[x].next = h.head[x].next
  /\ a + 8 + size <= g.head[a].next

(* ... and the heap is sound with a as the newest area.                    *)
Gives(h, S, older, g, a, size) ==
  \E T :
    /\ Given(h, S, g, T, a, size)
    /\ \A newer :
         older \subseteq newer /\ (\A x \in S : h.head[x].used => <<x, a>> \in newer)
         => SoundHeap(g, T, newer)

(* An area is marked as in use: nothing else changes.                      *)
Marked(head, a, g) ==
  /\ DOMAIN g = DOMAIN head
  /\ g[a] \in Headers /\ g[a].next = head[a].next /\ g[a].prev = head[a].prev
  /\ g[a].used /\ (g[a].epsilon <=> head[a].epsilon)
  /\ \A x \in DOMAIN head : x # a => g[x] = head[x]

LEMMA MarkedUsed ==
  ASSUME NEW head, NEW a \in DOMAIN head, head[a] \in Headers
  PROVE  Marked(head, a, SetUsed(head, a, TRUE))
<1> DEFINE g   == SetUsed(head, a, TRUE)
           old == head[a]
           new == g[a]
<1>1. /\ DOMAIN g = DOMAIN head
      /\ g[a] = [head[a] EXCEPT !.used = TRUE]
      /\ \A x \in DOMAIN head : x # a => g[x] = head[x]
  BY DEF SetUsed
<1>2. old \in Headers /\ new = [old EXCEPT !.used = TRUE]
  BY <1>1
<1> HIDE DEF old, new, g
<1>3. /\ new \in Headers /\ new.next = old.next /\ new.prev = old.prev
      /\ new.used /\ (new.epsilon <=> old.epsilon)
  BY <1>2 DEF Headers
<1>4. Marked(head, a, g)
  BY <1>1, <1>3 DEF Marked, old, new
<1>5. QED
  BY <1>4 DEF g

LEMMA KmallocGives ==
  ASSUME NEW h, NEW S, NEW older, SoundHeap(h, S, older),
         NEW size \in Nat, size + 2 * HeadSize <= Modulus, KmallocFits(h.head, size) # {},
         NEW r, r = AfterKmalloc(h, size),
         NEW g, g = [head |-> Overwritten(r.head, r.ptr, size), mapped |-> r.mapped]
  PROVE  Gives(h, S, older, g, r.ptr - HeadSize, size)
<1> DEFINE head  == h.head
           fit   == BestFit(head, KmallocFits(head, size))
           pad   == PaddedSize(size)
           new   == fit + pad
           after == head[fit].next
           split == AreaSize(head, fit) - pad > 2 * HeadSize
<1>1. pad \in Nat /\ pad % 8 = 0 /\ size + 8 <= pad
  BY PaddedSizeBounds
<1>2. fit \in S \ {HeapEnd} /\ ~ head[fit].used /\ AreaSize(head, fit) > pad
  <2>1. \A a \in KmallocFits(head, size) :
          a \in S \ {HeapEnd} /\ ~ head[a].used /\ AreaSize(head, a) > pad
    BY SoundHeapFacts DEF KmallocFits
  <2>2. \A a \in S : a \in Nat
    BY LinkedOrder DEF SoundHeap, ListInv
  <2>3. \A a \in KmallocFits(head, size) : AreaSize(head, a) \in Nat /\ a \in Nat
    BY <2>1, <2>2, SoundHeapFacts
  <2>4. fit \in KmallocFits(head, size)
    BY <2>3, BestFitFits
  <2>5. QED
    BY <2>1, <2>4
<1>3. /\ r.ptr = fit + HeadSize
      /\ r.head = SetUsed(IF split THEN SetNext(WithHead(head, new, Header(after, fit)), fit, new)
                                   ELSE head, fit, TRUE)
      /\ r.mapped = IF split THEN h.mapped \union PagesThrough(fit, new) ELSE h.mapped
  BY DEF AfterKmalloc
<1> HIDE DEF fit, pad
<1>4. Linked(head, S) /\ ListInv(head, S, older) /\ \A x \in S : head[x] \in Headers
  BY DEF SoundHeap, ListInv
<1>5. /\ \A x \in S : x \in Nat /\ x \in DOMAIN head
      /\ after \in S /\ fit < after /\ fit \in Nat /\ after \in Nat
      /\ \A x \in S : x <= fit \/ after <= x
      /\ AreaSize(head, fit) = after - fit - 8
      /\ fit \in Addresses /\ after \in Addresses
  BY <1>2, <1>4, LinkedOrder, SoundHeapFacts DEF Linked
<1>6. r.ptr - HeadSize = fit
  BY <1>3, <1>5 DEF HeadSize
<1>7. HeapOK(g)
  <2>1. HeapOK(r)
    BY SoundHeapFacts, KmallocEffect DEF SoundHeap
  <2>2. DOMAIN Overwritten(r.head, r.ptr, size) \subseteq DOMAIN r.head
    BY OverwrittenDomain
  <2>3. QED
    BY <2>1, <2>2, FewerHeads
<1>8. g.mapped = r.mapped /\ g.head = Overwritten(r.head, fit + 8, size)
  BY <1>3 DEF HeadSize
<1>9. ASSUME NEW x \in DOMAIN r.head, x \in Nat,
             x <= fit \/ fit + 8 + size <= x
      PROVE  x \in DOMAIN g.head /\ g.head[x] = r.head[x]
  BY <1>5, <1>8, <1>9, OverwrittenFields DEF HeadSize
<1>10. CASE split
  <2> DEFINE h1 == WithHead(head, new, Header(after, fit))
             h2 == SetNext(h1, fit, new)
             T  == S \union {new}
  <2>1. /\ new \in Addresses /\ new \in Nat /\ fit < new /\ new < after /\ fit + 8 + size <= new
    <3>1. new \in Nat /\ fit < new /\ new < after /\ fit + 8 + size <= new
      BY <1>1, <1>5, <1>10 DEF HeadSize
    <3>2. new % 8 = 0
      BY <1>1, <1>5 DEF Addresses
    <3>3. QED
      BY <1>5, <3>1, <3>2, HeapConstants DEF Addresses
  <2> HIDE DEF new
  <2>2. /\ DOMAIN h1 = DOMAIN head \union {new}
        /\ h1[new] \in Headers /\ h1[new].next = after /\ h1[new].prev = fit
        /\ ~ h1[new].used /\ ~ h1[new].epsilon
        /\ \A x \in DOMAIN head : x # new => h1[x] = head[x]
    BY <1>5 DEF WithHead, Header, Headers
  <2> HIDE DEF h1
  <2>3. fit \in DOMAIN h1 /\ h1[fit] = head[fit] /\ h1[fit] \in Headers
    BY <1>2, <1>4, <1>5, <2>1, <2>2
  <2>4. /\ DOMAIN h2 = DOMAIN h1
        /\ h2[fit] \in Headers /\ h2[fit].next = new /\ h2[fit].prev = head[fit].prev
        /\ (h2[fit].used <=> head[fit].used) /\ (h2[fit].epsilon <=> head[fit].epsilon)
        /\ \A x \in DOMAIN h1 : x # fit => h2[x] = h1[x]
    BY <2>1, <2>3 DEF SetNext, Headers
  <2>5. r.head = SetUsed(h2, fit, TRUE)
    BY <1>3, <1>10 DEF h1
  <2> HIDE DEF h2
  <2>6. /\ DOMAIN r.head = DOMAIN head \union {new}
        /\ r.head[fit] \in Headers /\ r.head[fit].next = new /\ r.head[fit].prev = head[fit].prev
        /\ r.head[fit].used /\ (r.head[fit].epsilon <=> head[fit].epsilon)
        /\ \A x \in DOMAIN h2 : x # fit => r.head[x] = h2[x]
    <3>1. fit \in DOMAIN h2 /\ h2[fit] \in Headers
      BY <2>2, <2>3, <2>4
    <3>2. Marked(h2, fit, r.head)
      BY Zenon, <2>5, <3>1, MarkedUsed
    <3>3. QED
      BY <2>2, <2>3, <2>4, <3>2 DEF Marked
  <2>7. \A x \in S : x # fit => r.head[x] = head[x]
    BY <1>5, <2>1, <2>2, <2>4, <2>6
  <2>8. r.head[new] = h1[new]
    BY <2>1, <2>2, <2>4, <2>6, <1>5
  <2>9. \A x \in T : x \in DOMAIN g.head /\ g.head[x] = r.head[x]
    BY <1>5, <1>9, <2>1, <2>6
  <2>10. /\ \A x \in S : /\ g.head[x].next = IF x = fit THEN new ELSE head[x].next
                         /\ g.head[x].prev = head[x].prev
                         /\ g.head[x].epsilon <=> head[x].epsilon
                         /\ g.head[x].used <=> head[x].used \/ x = fit
                         /\ g.head[x] \in Headers
         /\ g.head[new].next = after /\ g.head[new].prev = fit
         /\ ~ g.head[new].epsilon /\ ~ g.head[new].used /\ g.head[new] \in Headers
    BY <1>4, <2>2, <2>6, <2>7, <2>8, <2>9
  <2>11. ASSUME NEW newer, older \subseteq newer,
                \A x \in S : head[x].used => <<x, fit>> \in newer
         PROVE  ListInv(g.head, T, newer)
    <3>1. T \subseteq DOMAIN g.head /\ after = head[fit].next
      BY <2>9
    <3> HIDE DEF after, head
    <3>2. QED
      BY <1>2, <1>4, <2>1, <2>10, <2>11, <3>1, FrontTaken
  <2>12. new \notin S
    BY <1>5, <2>1
  <2>13. Given(h, S, g, T, fit, size)
    BY <1>2, <2>1, <2>10, <2>12 DEF Given
  <2>14. ASSUME NEW x \in T \ {HeapEnd}, NEW page \in Pages, page <= x PROVE page \in g.mapped
    <3>1. g.mapped = h.mapped \union PagesThrough(fit, new)
      BY <1>3, <1>8, <1>10
    <3>2. page \in Nat
      BY HeapConstants DEF Pages
    <3>3. CASE page <= fit
      BY <1>2, <3>1, <3>3 DEF SoundHeap
    <3>4. CASE fit < page
      <4>1. CASE x = new
        <5>1. PageOf(fit) <= fit /\ PageOf(fit) \in Nat
          BY <1>5, AddressIsHeap, PageOfAddress
        <5>2. page \in PagesThrough(fit, new)
          BY <1>5, <2>14, <3>2, <3>4, <4>1, <5>1 DEF PagesThrough
        <5>3. QED
          BY <3>1, <5>2
      <4>2. CASE x \in S
        BY <2>14, <3>1, <4>2 DEF SoundHeap
      <4>3. QED
        BY <4>1, <4>2
    <3>5. QED
      BY <1>5, <3>2, <3>3, <3>4
  <2>15. QED
    BY <1>6, <1>7, <2>10, <2>11, <2>13, <2>14 DEF SoundHeap, Gives
<1>11. CASE ~ split
  <2>1. r.head = SetUsed(head, fit, TRUE) /\ r.mapped = h.mapped
    BY <1>3, <1>11
  <2>2. /\ DOMAIN r.head = DOMAIN head
        /\ r.head[fit] \in Headers /\ r.head[fit].next = after /\ r.head[fit].prev = head[fit].prev
        /\ r.head[fit].used /\ (r.head[fit].epsilon <=> head[fit].epsilon)
        /\ \A x \in DOMAIN head : x # fit => r.head[x] = head[x]
    <3>1. fit \in DOMAIN head /\ head[fit] \in Headers
      BY <1>2, <1>4, <1>5
    <3>2. Marked(head, fit, r.head)
      BY Zenon, <2>1, <3>1, MarkedUsed
    <3>3. QED
      BY <1>2, <1>4, <1>5, <3>2 DEF Marked
  <2>3. fit + 8 + size <= after
    BY <1>1, <1>2, <1>5
  <2>4. \A x \in S : x \in DOMAIN g.head /\ g.head[x] = r.head[x]
    BY <1>5, <1>9, <2>2, <2>3
  <2>5. \A x \in S : /\ g.head[x].next = head[x].next
                     /\ g.head[x].prev = head[x].prev
                     /\ g.head[x].epsilon <=> head[x].epsilon
                     /\ g.head[x].used <=> head[x].used \/ x = fit
                     /\ g.head[x] \in Headers
    BY <1>4, <1>5, <2>2, <2>4
  <2>6. \A newer : older \subseteq newer /\ (\A x \in S : head[x].used => <<x, fit>> \in newer)
                   => ListInv(g.head, S, newer)
    BY <1>2, <1>4, <2>4, <2>5, WholeAreaTaken
  <2>7. Given(h, S, g, S, fit, size)
    BY <1>2, <2>3, <2>5 DEF Given
  <2>8. g.mapped = h.mapped
    BY <1>8, <2>1
  <2>9. QED
    BY <1>6, <1>7, <2>5, <2>6, <2>7, <2>8 DEF SoundHeap, Gives
<1>12. QED
  BY <1>10, <1>11

LEMMA KpageallocGives ==
  ASSUME NEW h, NEW S, NEW older, SoundHeap(h, S, older),
         NEW size \in Nat, PageSize <= size, size % 8 = 0, KpageallocFits(h.head, size) # {},
         NEW r, r = AfterKpagealloc(h, size),
         NEW g, g = [head |-> Overwritten(r.head, r.ptr, size), mapped |-> r.mapped],
         TailIsFree(g.head)
  PROVE  Gives(h, S, older, g, r.ptr - HeadSize, size)
<1> DEFINE head  == h.head
           fit   == BestFit(head, KpageallocFits(head, size))
           page  == NextPage(fit)
           ret   == page - HeadSize
           after == head[fit].next
           new   == ret + size + HeadSize
           split == AreaSize(head, fit) - FullSize(fit, size) > 2 * HeadSize
           h1    == WithHead(head, ret, Header(after, fit))
           h2    == SetPrev(h1, after, ret)
           h3    == SetNext(h2, fit, ret)
           head1 == IF StartsAtPage(fit) THEN head ELSE h3
           h4    == WithHead(head1, new, Header(after, ret))
           head2 == IF split THEN SetNext(h4, ret, new) ELSE head1
<1>1. /\ fit \in S \ {HeapEnd} /\ ~ head[fit].used /\ AreaSize(head, fit) > size
      /\ AreaSize(head, fit) > NeededSize(fit, size)
  <2>1. \A a \in KpageallocFits(head, size) :
          /\ a \in S \ {HeapEnd} /\ ~ head[a].used /\ AreaSize(head, a) > size
          /\ AreaSize(head, a) > NeededSize(a, size)
    BY SoundHeapFacts DEF KpageallocFits
  <2>2. \A a \in S : a \in Nat
    BY LinkedOrder DEF SoundHeap, ListInv
  <2>3. \A a \in KpageallocFits(head, size) : AreaSize(head, a) \in Nat /\ a \in Nat
    BY <2>1, <2>2, SoundHeapFacts
  <2>4. fit \in KpageallocFits(head, size)
    BY <2>3, BestFitFits
  <2>5. QED
    BY <2>1, <2>4
<1>2. /\ r.ptr = ret + HeadSize
      /\ r.head = SetUsed(head2, ret, TRUE)
      /\ r.mapped = IF split THEN h.mapped \union PagesThrough(page, new) ELSE h.mapped
  BY DEF AfterKpagealloc
<1> HIDE DEF fit, head1, head2, h1, h2, h3, h4
<1>3. Linked(head, S) /\ ListInv(head, S, older) /\ \A x \in S : head[x] \in Headers
  BY DEF SoundHeap, ListInv
<1>4. after = HeapEnd
  <2>1. AreaSize(head, fit) \in Nat /\ ~ (AreaSize(head, fit) < PageSize)
    BY <1>1, SoundHeapFacts, HeapConstants
  <2>2. QED
    BY <1>1, <2>1, FreeGapsAreSmall
<1>5. /\ \A x \in S : x \in Nat /\ x \in DOMAIN head
      /\ fit < HeapEnd /\ fit \in Nat /\ HeapEnd \in Nat /\ HeapEnd \in S
      /\ \A x \in S : x <= fit \/ HeapEnd <= x
      /\ AreaSize(head, fit) = HeapEnd - fit - 8
      /\ fit \in Addresses /\ fit % 8 = 0 /\ HeapEnd % 8 = 0
  BY <1>1, <1>3, <1>4, LinkedOrder, SoundHeapFacts, HeapConstants DEF Linked
<1>6. /\ PageOf(fit) \in Pages /\ PageOf(fit) \in Nat /\ PageOf(fit) <= fit
      /\ page \in Nat /\ page % 8 = 0 /\ fit + 8 <= page /\ page = PageOf(fit) + PageSize
      /\ page <= HeapTop
  <2>1. /\ PageOf(fit) \in Pages /\ PageOf(fit) \in Nat
        /\ PageOf(fit) <= fit /\ fit < PageOf(fit) + PageSize
        /\ PageOf(fit) + PageSize <= HeapTop /\ page % 8 = 0
    BY <1>5, AddressIsHeap, PageOfAddress
  <2>2. page = PageOf(fit) + PageSize
    BY DEF NextPage
  <2>3. page \in Nat /\ fit < page
    BY <1>5, <2>1, <2>2, HeapConstants
  <2>4. fit + 8 <= page
    BY <1>5, <2>1, <2>3
  <2>5. QED
    BY <2>1, <2>2, <2>3, <2>4
<1>7. FullSize(fit, size) = size + (page - fit) + 8
  <2> DEFINE full == size + (page - fit) + 8
  <2>1. full \in 0 .. Modulus - 1 /\ Modulus \in Nat \ {0}
    <3>1. size < HeapEnd - fit - 8
      BY <1>1, <1>5
    <3>2. page - fit <= PageSize /\ PageSize <= fit /\ HeapEnd < Modulus
      <4>1. HeapStart <= fit
        BY <1>5, AddressIsHeap, HeapConstants
      <4>2. QED
        BY <1>5, <1>6, <4>1, HeapConstants
    <3>3. QED
      BY <1>5, <1>6, <3>1, <3>2, HeapConstants
  <2>2. FullSize(fit, size) = full % Modulus
    BY DEF FullSize, HeadSize
  <2> HIDE DEF full
  <2>3. full % Modulus = full
    BY <2>1
  <2>4. QED
    BY <2>2, <2>3 DEF full
<1>8. StartsAtPage(fit) <=> ret = fit
  BY DEF StartsAtPage
<1>9. /\ ret \in Nat /\ fit <= ret /\ ret + 8 = page /\ ret % 8 = 0
      /\ new \in Nat /\ new = page + size /\ new % 8 = 0
      /\ ret + 8 + size < HeapEnd
      /\ split => new < HeapEnd
  <2>1. ret \in Nat /\ fit <= ret /\ ret + 8 = page /\ ret % 8 = 0
    BY <1>6, <1>5 DEF HeadSize
  <2>2. new \in Nat /\ new = page + size /\ new % 8 = 0
    BY <1>6 DEF HeadSize
  <2>3. size + (page - fit) + 8 < HeapEnd - fit - 8
    BY <1>1, <1>5, <1>6, <1>7 DEF NeededSize, HeadSize
  <2>4. QED
    BY <1>5, <1>6, <2>1, <2>2, <2>3
<1>10. ret \in Addresses /\ (split => new \in Addresses) /\ ret < new /\ ret < HeapEnd
  BY <1>5, <1>6, <1>9, HeapConstants DEF Addresses
<1>11. r.ptr - HeadSize = ret
  BY <1>2, <1>9 DEF HeadSize
<1>12. HeapOK(g)
  <2>1. HeapOK(r)
    BY SoundHeapFacts, KpageallocEffect DEF SoundHeap
  <2>2. DOMAIN Overwritten(r.head, r.ptr, size) \subseteq DOMAIN r.head
    BY OverwrittenDomain
  <2>3. QED
    BY <2>1, <2>2, FewerHeads
<1>13. g.mapped = r.mapped /\ g.head = Overwritten(r.head, ret + 8, size)
  BY <1>2 DEF HeadSize
<1> HIDE DEF ret, page, new
<1>14. ASSUME NEW x \in DOMAIN r.head, x \in Nat,
              x <= ret \/ ret + 8 + size <= x
       PROVE  x \in DOMAIN g.head /\ g.head[x] = r.head[x]
  BY <1>9, <1>13, <1>14, OverwrittenFields DEF HeadSize
<1>15. \A x \in S : x <= ret \/ ret + 8 + size <= x
  BY <1>5, <1>9
<1>16. DOMAIN g.head \subseteq Nat
  BY <1>12, AddressIsHeap DEF HeapOK
<1>17. ASSUME split, NEW T, T = S \union {ret, new} \/ (T = S \union {new} /\ ret \in S),
              NEW x \in T \ {HeapEnd}, NEW p \in Pages, p <= x
       PROVE  p \in g.mapped
  <2>1. g.mapped = h.mapped \union PagesThrough(page, new)
    BY <1>2, <1>13, <1>17
  <2>2. p \in Nat
    BY HeapConstants DEF Pages
  <2>3. CASE p <= fit
    BY <1>1, <2>1, <2>3 DEF SoundHeap
  <2>4. CASE fit < p
    <3>1. CASE x \in S
      BY <1>17, <2>1, <3>1 DEF SoundHeap
    <3>2. CASE x \in {ret, new}
      <4>1. page <= p
        BY <1>5, <1>6, <2>2, <2>4, PagesApart
      <4>2. p <= new
        BY <1>9, <1>10, <1>17, <2>2, <3>2
      <4>3. PageOf(page) <= page
        <5>1. page \in HeapStart .. HeapTop - 1
          BY <1>5, <1>6, <1>9, <1>10, <1>17, HeapConstants DEF Addresses
        <5>2. QED
          BY <5>1, PageOfAddress
      <4>4. PageOf(page) \in Int
        BY <1>6, HeapConstants DEF PageOf
      <4>5. p \in PagesThrough(page, new)
        BY <1>6, <2>2, <4>1, <4>2, <4>3, <4>4 DEF PagesThrough
      <4>6. QED
        BY <2>1, <4>5
    <3>3. QED
      BY <1>17, <3>1, <3>2
  <2>5. QED
    BY <1>5, <2>2, <2>3, <2>4
<1>18. CASE ret = fit /\ split
  <2> DEFINE T == S \union {new}
  <2>1. head1 = head /\ head2 = SetNext(h4, fit, new) /\ h4 = WithHead(head, new, Header(HeapEnd, fit))
    BY <1>4, <1>8, <1>18 DEF head1, head2, h4
  <2>2. new \notin S /\ new # fit
    BY <1>5, <1>9, <1>10, <1>18
  <2>3. /\ DOMAIN h4 = DOMAIN head \union {new}
        /\ h4[new] \in Headers /\ h4[new].next = HeapEnd /\ h4[new].prev = fit
        /\ ~ h4[new].used /\ ~ h4[new].epsilon
        /\ \A x \in DOMAIN head : x # new => h4[x] = head[x]
    BY <1>5, <2>1 DEF WithHead, Header, Headers
  <2>4. fit \in DOMAIN h4 /\ h4[fit] = head[fit] /\ h4[fit] \in Headers
    BY <1>1, <1>3, <1>5, <2>2, <2>3
  <2>5. /\ DOMAIN head2 = DOMAIN h4
        /\ head2[fit] \in Headers /\ head2[fit].next = new /\ head2[fit].prev = head[fit].prev
        /\ (head2[fit].used <=> head[fit].used) /\ (head2[fit].epsilon <=> head[fit].epsilon)
        /\ \A x \in DOMAIN h4 : x # fit => head2[x] = h4[x]
    BY <1>9, <2>1, <2>4 DEF SetNext, Headers
  <2>6. /\ DOMAIN r.head = DOMAIN head2
        /\ r.head[fit] \in Headers /\ r.head[fit].next = new /\ r.head[fit].prev = head[fit].prev
        /\ r.head[fit].used /\ (r.head[fit].epsilon <=> head[fit].epsilon)
        /\ \A x \in DOMAIN head2 : x # fit => r.head[x] = head2[x]
    <3>1. fit \in DOMAIN head2 /\ head2[fit] \in Headers /\ fit = ret
      BY <1>18, <2>4, <2>5
    <3>2. Marked(head2, fit, r.head)
      BY Zenon, <1>2, <3>1, MarkedUsed
    <3>3. QED
      BY <2>5, <3>2 DEF Marked
  <2>7. \A x \in S : x # fit => r.head[x] = head[x]
    BY <1>5, <2>2, <2>3, <2>5, <2>6
  <2>8. r.head[new] = h4[new]
    BY <2>2, <2>3, <2>5, <2>6
  <2>9. \A x \in T : x \in DOMAIN g.head /\ g.head[x] = r.head[x]
    <3>1. new \in DOMAIN r.head /\ ret + 8 + size <= new /\ S \subseteq DOMAIN r.head
      BY <1>5, <1>9, <2>3, <2>5, <2>6
    <3>2. QED
      BY <1>5, <1>9, <1>14, <1>15, <3>1
  <2>10. /\ \A x \in S : /\ g.head[x].next = IF x = fit THEN new ELSE head[x].next
                         /\ g.head[x].prev = head[x].prev
                         /\ g.head[x].epsilon <=> head[x].epsilon
                         /\ g.head[x].used <=> head[x].used \/ x = fit
                         /\ g.head[x] \in Headers
         /\ g.head[new].next = HeapEnd /\ g.head[new].prev = fit
         /\ ~ g.head[new].epsilon /\ ~ g.head[new].used /\ g.head[new] \in Headers
    BY <1>3, <2>3, <2>6, <2>7, <2>8, <2>9
  <2>11. ASSUME NEW newer, older \subseteq newer,
                \A x \in S : head[x].used => <<x, ret>> \in newer
         PROVE  ListInv(g.head, T, newer)
    <3>1. T \subseteq DOMAIN g.head /\ fit < new /\ new < HeapEnd /\ new \in Addresses
      BY <1>9, <1>10, <1>18, <2>9
    <3>2. after = head[fit].next
      OBVIOUS
    <3> HIDE DEF after, head
    <3>3. QED
      BY <1>1, <1>3, <1>4, <1>18, <2>10, <2>11, <3>1, <3>2, FrontTaken
  <2>12. Given(h, S, g, T, ret, size)
    <3>1. g.head[fit].next = new /\ fit + 8 + size <= new /\ fit # HeapEnd
      BY <1>1, <1>9, <1>18, <2>10
    <3>2. QED
      BY <1>1, <1>18, <2>2, <2>10, <3>1 DEF Given
  <2>13. \A x \in T \ {HeapEnd}, p \in Pages : p <= x => p \in g.mapped
    BY <1>1, <1>17, <1>18
  <2>14. QED
    BY <1>11, <1>12, <2>10, <2>11, <2>12, <2>13 DEF SoundHeap, Gives
<1>19. CASE ret = fit /\ ~ split
  <2>1. r.head = SetUsed(head, fit, TRUE)
    BY <1>2, <1>8, <1>19 DEF head1, head2
  <2>2. /\ DOMAIN r.head = DOMAIN head
        /\ r.head[fit].next = HeapEnd
        /\ r.head[fit].used /\ (r.head[fit].epsilon <=> head[fit].epsilon)
        /\ \A x \in DOMAIN head : x # fit => r.head[x] = head[x]
    <3>1. fit \in DOMAIN head /\ head[fit] \in Headers
      BY <1>1, <1>3, <1>4, <1>5
    <3>2. Marked(head, fit, r.head)
      BY Zenon, <2>1, <3>1, MarkedUsed
    <3>3. QED
      BY <1>1, <1>3, <1>4, <1>5, <3>2 DEF Marked
  <2>3. \A x \in S : x \in DOMAIN g.head /\ g.head[x] = r.head[x]
    BY <1>5, <1>14, <1>15, <2>2
  <2>4. /\ \A x \in S : /\ g.head[x].next = head[x].next
                        /\ g.head[x].epsilon <=> head[x].epsilon
                        /\ g.head[x].used <=> head[x].used \/ x = fit
        /\ S \subseteq DOMAIN g.head
    <3>1. \A x \in S \ {fit} : g.head[x] = head[x]
      BY <1>5, <2>2, <2>3
    <3>2. g.head[fit] = r.head[fit]
      BY <1>1, <2>3
    <3>3. head[fit].next = HeapEnd /\ ~ head[fit].used
      BY <1>1, <1>4
    <3>4. QED
      BY <2>2, <2>3, <3>1, <3>2, <3>3
  <2>5. Linked(g.head, S)
    BY <1>1, <1>3, <2>4 DEF Linked
  <2>6. Visited(g.head) = S
    BY <1>16, <2>5, LinkedVisited
  <2>7. FALSE
    BY <1>1, <1>4, <2>4, <2>6 DEF TailIsFree
  <2>8. QED
    BY <2>7
<1>20. ASSUME ret # fit
       PROVE  /\ fit < ret /\ ret \notin S /\ HeapEnd # fit
              /\ head1 = h3
              /\ DOMAIN h3 = DOMAIN head \union {ret}
              /\ h3[ret] \in Headers /\ h3[ret].next = HeapEnd /\ h3[ret].prev = fit
              /\ ~ h3[ret].used /\ ~ h3[ret].epsilon
              /\ \A x \in S : /\ h3[x].next = IF x = fit THEN ret ELSE head[x].next
                              /\ x # HeapEnd => h3[x].prev = head[x].prev
                              /\ h3[x].epsilon <=> head[x].epsilon
                              /\ h3[x].used <=> head[x].used
                              /\ h3[x] \in Headers
  <2>1. fit < ret /\ ret \notin S /\ HeapEnd # fit /\ ret # HeapEnd
    BY <1>1, <1>5, <1>9, <1>10, <1>20
  <2>2. head1 = h3 /\ h1 = WithHead(head, ret, Header(HeapEnd, fit)) /\ h2 = SetPrev(h1, HeapEnd, ret)
    BY <1>4, <1>8, <1>20 DEF head1, h1, h2
  <2>3. /\ DOMAIN h1 = DOMAIN head \union {ret}
        /\ h1[ret] \in Headers /\ h1[ret].next = HeapEnd /\ h1[ret].prev = fit
        /\ ~ h1[ret].used /\ ~ h1[ret].epsilon
        /\ \A x \in DOMAIN head : x # ret => h1[x] = head[x]
    BY <1>5, <2>2 DEF WithHead, Header, Headers
  <2>4. HeapEnd \in DOMAIN h1 /\ h1[HeapEnd] = head[HeapEnd] /\ head[HeapEnd] \in Headers
    BY <1>3, <1>5, <2>1, <2>3
  <2>5. /\ DOMAIN h2 = DOMAIN h1
        /\ h2[HeapEnd] \in Headers /\ h2[HeapEnd].next = head[HeapEnd].next
        /\ (h2[HeapEnd].used <=> head[HeapEnd].used)
        /\ (h2[HeapEnd].epsilon <=> head[HeapEnd].epsilon)
        /\ \A x \in DOMAIN h1 : x # HeapEnd => h2[x] = h1[x]
    BY <1>9, <2>2, <2>4 DEF SetPrev, Headers
  <2>6. fit \in DOMAIN h2 /\ h2[fit] = head[fit] /\ head[fit] \in Headers
    BY <1>1, <1>3, <1>5, <2>1, <2>3, <2>5
  <2>7. /\ DOMAIN h3 = DOMAIN h2
        /\ h3[fit] \in Headers /\ h3[fit].next = ret /\ h3[fit].prev = head[fit].prev
        /\ (h3[fit].used <=> head[fit].used) /\ (h3[fit].epsilon <=> head[fit].epsilon)
        /\ \A x \in DOMAIN h2 : x # fit => h3[x] = h2[x]
    <3>1. h3 = SetNext(h2, fit, ret)
      BY DEF h3
    <3>2. ret \in Nat /\ h2[fit] \in Headers
      BY <1>9, <2>6
    <3>3. QED
      BY <2>6, <3>1, <3>2 DEF SetNext, Headers
  <2>8. h3[ret] = h1[ret]
    BY <1>20, <2>1, <2>3, <2>5, <2>7
  <2>9. h3[HeapEnd] = h2[HeapEnd]
    BY <2>1, <2>4, <2>5, <2>7
  <2>10. \A x \in S \ {fit, HeapEnd} : h3[x] = head[x]
    BY <1>5, <2>1, <2>3, <2>5, <2>7
  <2>11. ASSUME NEW x \in S
         PROVE  /\ h3[x].next = IF x = fit THEN ret ELSE head[x].next
                /\ x # HeapEnd => h3[x].prev = head[x].prev
                /\ h3[x].epsilon <=> head[x].epsilon
                /\ h3[x].used <=> head[x].used
                /\ h3[x] \in Headers
    <3>1. CASE x = fit
      BY <2>7, <3>1
    <3>2. CASE x = HeapEnd
      BY <2>1, <2>5, <2>9, <3>2
    <3>3. CASE x \in S \ {fit, HeapEnd}
      BY <1>3, <2>10, <3>3
    <3>4. QED
      BY <3>1, <3>2, <3>3
  <2>12. QED
    BY <2>1, <2>2, <2>3, <2>5, <2>7, <2>8, <2>11
<1>21. CASE ret # fit /\ split
  <2> DEFINE T == S \union {ret, new}
  <2>1. head2 = SetNext(h4, ret, new) /\ h4 = WithHead(h3, new, Header(HeapEnd, ret))
    BY <1>4, <1>20, <1>21 DEF head2, h4
  <2>2. new \notin S /\ new # fit /\ new # ret
    BY <1>5, <1>9, <1>10, <1>20, <1>21
  <2>3. /\ DOMAIN h4 = DOMAIN h3 \union {new}
        /\ h4[new] \in Headers /\ h4[new].next = HeapEnd /\ h4[new].prev = ret
        /\ ~ h4[new].used /\ ~ h4[new].epsilon
        /\ \A x \in DOMAIN h3 : x # new => h4[x] = h3[x]
    BY <1>5, <1>9, <2>1 DEF WithHead, Header, Headers
  <2>4. ret \in DOMAIN h4 /\ h4[ret] = h3[ret] /\ h4[ret] \in Headers
    BY <1>20, <1>21, <2>2, <2>3
  <2>5. /\ DOMAIN head2 = DOMAIN h4
        /\ head2[ret] \in Headers /\ head2[ret].next = new /\ head2[ret].prev = fit
        /\ ~ head2[ret].epsilon
        /\ \A x \in DOMAIN h4 : x # ret => head2[x] = h4[x]
    BY <1>9, <1>20, <1>21, <2>1, <2>4 DEF SetNext, Headers
  <2>6. /\ DOMAIN r.head = DOMAIN head2
        /\ r.head[ret] \in Headers /\ r.head[ret].next = new /\ r.head[ret].prev = fit
        /\ r.head[ret].used /\ ~ r.head[ret].epsilon
        /\ \A x \in DOMAIN head2 : x # ret => r.head[x] = head2[x]
    <3>1. ret \in DOMAIN head2 /\ head2[ret] \in Headers
      BY <2>4, <2>5
    <3>2. Marked(head2, ret, r.head)
      BY Zenon, <1>2, <3>1, MarkedUsed
    <3>3. QED
      BY <2>5, <3>2 DEF Marked
  <2>7. \A x \in S : r.head[x] = h3[x]
    BY <1>5, <1>20, <1>21, <2>2, <2>3, <2>5, <2>6
  <2>8. r.head[new] = h4[new]
    BY <2>2, <2>3, <2>5, <2>6
  <2>9. \A x \in T : x \in DOMAIN g.head /\ g.head[x] = r.head[x]
    <3>1. /\ {ret, new} \subseteq DOMAIN r.head /\ ret + 8 + size <= new /\ S \subseteq DOMAIN r.head
          /\ ret <= ret
      BY <1>5, <1>9, <1>20, <1>21, <2>3, <2>5, <2>6
    <3>2. QED
      BY <1>5, <1>9, <1>14, <1>15, <3>1
  <2>10. /\ \A x \in S : /\ g.head[x].next = IF x = fit THEN ret ELSE head[x].next
                         /\ x # HeapEnd => g.head[x].prev = head[x].prev
                         /\ g.head[x].epsilon <=> head[x].epsilon
                         /\ g.head[x].used <=> head[x].used
                         /\ g.head[x] \in Headers
         /\ g.head[ret].next = new /\ g.head[ret].prev = fit
         /\ ~ g.head[ret].epsilon /\ g.head[ret].used /\ g.head[ret] \in Headers
         /\ g.head[new].next = HeapEnd /\ g.head[new].prev = ret
         /\ ~ g.head[new].epsilon /\ ~ g.head[new].used /\ g.head[new] \in Headers
    BY <1>20, <1>21, <2>3, <2>6, <2>7, <2>8, <2>9
  <2>11. ASSUME NEW newer, older \subseteq newer,
                \A x \in S : head[x].used => <<x, ret>> \in newer
         PROVE  ListInv(g.head, T, newer)
    <3>1. /\ T \subseteq DOMAIN g.head /\ fit < ret /\ ret < new /\ new < HeapEnd
          /\ new \in Addresses /\ ret \in Addresses /\ ret + HeadSize = NextPage(fit)
      BY <1>9, <1>10, <1>20, <1>21, <2>9 DEF page, HeadSize
    <3>2. after = head[fit].next
      OBVIOUS
    <3> HIDE DEF after, head
    <3>3. QED
      BY <1>1, <1>3, <1>4, <2>10, <2>11, <3>1, <3>2, PageTaken
  <2>12. Given(h, S, g, T, ret, size)
    <3>1. g.head[ret].next = new /\ ret + 8 + size <= new /\ ret # HeapEnd /\ ret \notin S
      BY <1>5, <1>9, <1>10, <1>20, <1>21, <2>10
    <3>2. QED
      BY <1>1, <2>2, <2>10, <3>1 DEF Given
  <2>13. \A x \in T \ {HeapEnd}, p \in Pages : p <= x => p \in g.mapped
    BY <1>17, <1>21
  <2>14. QED
    BY <1>11, <1>12, <2>10, <2>11, <2>12, <2>13 DEF SoundHeap, Gives
<1>22. CASE ret # fit /\ ~ split
  <2> DEFINE T == S \union {ret}
  <2>1. r.head = SetUsed(h3, ret, TRUE)
    BY <1>2, <1>20, <1>22 DEF head2
  <2>2. /\ DOMAIN r.head = DOMAIN h3
        /\ r.head[ret].next = HeapEnd
        /\ r.head[ret].used /\ ~ r.head[ret].epsilon
        /\ \A x \in DOMAIN h3 : x # ret => r.head[x] = h3[x]
    <3>1. ret \in DOMAIN h3 /\ h3[ret] \in Headers
      BY <1>20, <1>22
    <3>2. Marked(h3, ret, r.head)
      BY Zenon, <2>1, <3>1, MarkedUsed
    <3>3. QED
      BY <1>20, <1>22, <3>2 DEF Marked
  <2>3. \A x \in T : x \in DOMAIN g.head /\ g.head[x] = r.head[x]
    <3>1. ret \in DOMAIN r.head /\ ret <= ret /\ S \subseteq DOMAIN r.head
      BY <1>5, <1>9, <1>20, <1>22, <2>2
    <3>2. QED
      BY <1>5, <1>9, <1>14, <1>15, <3>1
  <2>4. /\ \A x \in S : /\ g.head[x].next = IF x = fit THEN ret ELSE head[x].next
                        /\ g.head[x].epsilon <=> head[x].epsilon
                        /\ g.head[x].used <=> head[x].used
        /\ g.head[ret].next = HeapEnd /\ ~ g.head[ret].epsilon /\ g.head[ret].used
        /\ T \subseteq DOMAIN g.head
    <3>1. ASSUME NEW x \in S PROVE g.head[x] = h3[x]
      <4>1. x # ret /\ x \in DOMAIN h3
        BY <1>5, <1>20, <1>22
      <4>2. g.head[x] = r.head[x]
        BY <2>3
      <4>3. QED
        BY <2>2, <4>1, <4>2
    <3>2. g.head[ret] = r.head[ret]
      BY <2>3
    <3>3. QED
      BY <1>20, <1>22, <2>2, <2>3, <3>1, <3>2
  <2>5. Linked(g.head, T)
    <3>1. ~ g.head[HeapEnd].used /\ after = head[fit].next /\ fit < ret
      BY <1>3, <1>5, <1>20, <1>22, <2>4 DEF Linked
    <3> HIDE DEF after, head
    <3>2. QED
      BY <1>1, <1>3, <1>4, <1>10, <2>4, <3>1, LinkedInsert
  <2>6. Visited(g.head) = T
    BY <1>16, <2>5, LinkedVisited
  <2>7. FALSE
    BY <2>4, <2>6 DEF TailIsFree
  <2>8. QED
    BY <2>7
<1>23. QED
  BY <1>18, <1>19, <1>21, <1>22
-----------------------------------------------------------------------------
(* What kfree() of area a does to the list: a is not in use any more, and  *)
(* the other areas in use keep their extent.                               *)
Released(h, S, g, T, a) ==
  /\ T \subseteq S /\ HeapStart \in T
  /\ \A x \in T : g.head[x].used <=> h.head[x].used /\ x # a
  /\ \A x \in S \ {a} : h.head[x].used => x \in T /\ g.head[x].next = h.head[x].next
  /\ \A x \in T : g.head[x].next = HeapEnd => ~ g.head[x].used

LEMMA KfreeTakes ==
  ASSUME NEW h, NEW S, NEW older, SoundHeap(h, S, older), TailIsFree(h.head),
         NEW a \in S \ {HeapEnd}, h.head[a].used, \A y \in S : <<a, y>> \notin older,
         NEW g, g = [head |-> AfterKfree(h.head, a), mapped |-> h.mapped]
  PROVE  /\ KfreeDerefs(h.head, a) \subseteq DOMAIN h.head
         /\ \E T :
              /\ Released(h, S, g, T, a)
              /\ \A newer :
                   (\A x, y \in S : <<x, y>> \in older /\ y # a => <<x, y>> \in newer)
                   => SoundHeap(g, T, newer)
<1> DEFINE head == h.head
           h1   == SetUsed(head, a, FALSE)
           b    == head[a].prev
           c    == head[a].next
<1>1. /\ HeapOK(h) /\ ListInv(head, S, older) /\ Linked(head, S)
      /\ \A x \in S : head[x] \in Headers
  BY DEF SoundHeap, ListInv
<1>2. \A x \in S : head[x].next = HeapEnd => ~ head[x].used
  BY SoundHeapFacts DEF TailIsFree
<1>3. /\ c \in S \ {HeapEnd}
      /\ \/ a = HeapStart
         \/ Rest(head, S, older, a)
         \/ /\ b \in S /\ b < a /\ ~ head[b].used /\ head[b].next = a
            /\ ~ head[c].used /\ head[c].next = HeapEnd
  BY <1>1, <1>2, NewestArea
<1>4. /\ \A x \in S : x \in Nat /\ x \in DOMAIN head /\ x # NULL
      /\ a < c /\ c < head[c].next /\ head[c].next \in S
      /\ HeapStart \in S /\ HeapEnd \in S /\ HeapStart # HeapEnd
  <2>1. \A x \in S : x \in Nat /\ x \in DOMAIN head /\ x # NULL
    BY <1>1, LinkedOrder, HeapConstants DEF Linked, NULL
  <2>2. QED
    BY <1>1, <1>3, <2>1 DEF Linked
<1>5. /\ DOMAIN h1 = DOMAIN head
      /\ h1[a] \in Headers /\ h1[a].next = c /\ h1[a].prev = b
      /\ ~ h1[a].used /\ (h1[a].epsilon <=> head[a].epsilon)
      /\ \A x \in DOMAIN head : x # a => h1[x] = head[x]
  BY <1>1, <1>4 DEF SetUsed, Headers
<1>6. g.head = Merged(h1, a) /\ g.mapped = h.mapped
  BY DEF AfterKfree
<1>7. KfreeDerefs(head, a) = {a} \union MergeDerefs(h1, a)
  BY <1>4 DEF KfreeDerefs
<1> HIDE DEF h1
<1>8. DOMAIN g.head = DOMAIN head
  BY <1>5, <1>6 DEF Merged, SetNext, SetPrev
<1>9. HeapOK(g)
  BY <1>1, <1>6, <1>8 DEF HeapOK
<1>10. h1[c] = head[c] /\ c # NULL
  BY <1>3, <1>4, <1>5
<1>11. TowardsTail(h1, a) <=> ~ head[c].used
  BY <1>5, <1>10 DEF TowardsTail
<1>12. CASE a = HeapStart \/ Rest(head, S, older, a)
  <2>1. ~ TowardsRoot(h1, a) /\ (b = NULL \/ b \in S)
    <3>1. CASE a = HeapStart
      BY <1>1, <1>5, <3>1 DEF ListInv, TowardsRoot
    <3>2. CASE Rest(head, S, older, a)
      <4>1. b \in S /\ head[b].used /\ head[b].next = a
        BY <3>2 DEF Rest
      <4>2. b # a
        BY <1>4, <4>1
      <4>3. h1[b] = head[b]
        BY <1>4, <1>5, <4>1, <4>2
      <4>4. QED
        BY <1>5, <4>1, <4>3 DEF TowardsRoot
    <3>3. QED
      BY <1>12, <3>1, <3>2
  <2>2. MergeDerefs(h1, a) \subseteq DOMAIN head
    BY <1>3, <1>4, <1>5, <2>1 DEF MergeDerefs
  <2>3. KfreeDerefs(head, a) \subseteq DOMAIN head
    BY <1>4, <1>7, <2>2
  <2>4. CASE head[c].used
    <3>1. g.head = h1
      BY <1>6, <1>11, <2>1, <2>4 DEF Merged
    <3>2. \A x \in S : /\ g.head[x].next = head[x].next
                       /\ g.head[x].prev = head[x].prev
                       /\ g.head[x].epsilon <=> head[x].epsilon
                       /\ g.head[x].used <=> head[x].used /\ x # a
                       /\ g.head[x] \in Headers
      BY <1>1, <1>4, <1>5, <3>1
    <3>3. S \subseteq DOMAIN g.head
      BY <1>4, <1>8
    <3>4. ASSUME NEW newer,
                 \A x, y \in S : <<x, y>> \in older /\ y # a => <<x, y>> \in newer
          PROVE  ListInv(g.head, S, newer)
      <4> HIDE DEF head
      <4>1. head[head[a].next].used /\ head[a].used
        BY <2>4 DEF head
      <4>2. QED
        BY <1>1, <1>12, <3>2, <3>3, <3>4, <4>1, AreaReleased
    <3>5. Released(h, S, g, S, a)
      BY <1>2, <1>4, <3>2 DEF Released
    <3>6. \A x \in S \ {HeapEnd}, page \in Pages : page <= x => page \in g.mapped
      BY <1>6 DEF SoundHeap
    <3>7. QED
      BY <1>9, <2>3, <3>2, <3>4, <3>5, <3>6 DEF SoundHeap
  <2>5. CASE ~ head[c].used
    <3> DEFINE T  == S \ {c}
               d  == head[c].next
               h2 == SetNext(h1, a, d)
    <3>1. g.head = SetPrev(h2, c, a)
      BY <1>5, <1>6, <1>10, <1>11, <2>1, <2>5 DEF Merged
    <3>2. d \in Nat /\ a \in DOMAIN h1 /\ c \in DOMAIN h1
      BY <1>3, <1>4, <1>5
    <3>3. /\ DOMAIN h2 = DOMAIN head
          /\ h2[a] \in Headers /\ h2[a].next = d /\ h2[a].prev = b
          /\ ~ h2[a].used /\ (h2[a].epsilon <=> head[a].epsilon)
          /\ \A x \in DOMAIN head : x # a => h2[x] = h1[x]
      BY <1>5, <3>2 DEF SetNext, Headers
    <3> HIDE DEF h2
    <3>4. \A x \in DOMAIN head : x # c => g.head[x] = h2[x]
      BY <3>1, <3>3 DEF SetPrev
    <3>5. ASSUME NEW x \in T
          PROVE  /\ g.head[x].next = IF x = a THEN head[c].next ELSE head[x].next
                 /\ g.head[x].prev = head[x].prev
                 /\ g.head[x].epsilon <=> head[x].epsilon
                 /\ g.head[x].used <=> head[x].used /\ x # a
                 /\ g.head[x] \in Headers
      <4>1. x \in DOMAIN head /\ g.head[x] = h2[x]
        BY <1>4, <3>4
      <4>2. CASE x = a
        BY <3>3, <4>1, <4>2
      <4>3. CASE x # a
        BY <1>1, <1>5, <3>3, <4>1, <4>3
      <4>4. QED
        BY <4>2, <4>3
    <3>6. T \subseteq DOMAIN g.head
      BY <1>4, <1>8
    <3>7. ASSUME NEW newer,
                 \A x, y \in S : <<x, y>> \in older /\ y # a => <<x, y>> \in newer
          PROVE  ListInv(g.head, T, newer)
      <4> HIDE DEF head
      <4>1. head[a].next = c /\ head[a].used
        BY DEF head
      <4> HIDE DEF c
      <4>2. QED
        BY <1>1, <1>3, <1>12, <2>5, <3>5, <3>6, <3>7, <4>1, AreaMergedWithTail
    <3>8. Released(h, S, g, T, a)
      <4>1. c # HeapStart
        BY <1>4, <1>1, LinkedOrder
      <4>2. QED
        BY <1>2, <1>4, <2>5, <3>5, <4>1 DEF Released
    <3>9. \A x \in T \ {HeapEnd}, page \in Pages : page <= x => page \in g.mapped
      BY <1>6 DEF SoundHeap
    <3>10. QED
      BY <1>9, <2>3, <3>5, <3>7, <3>8, <3>9 DEF SoundHeap
  <2>6. QED
    BY <2>4, <2>5
<1>13. CASE /\ a # HeapStart /\ ~ Rest(head, S, older, a)
            /\ b \in S /\ b < a /\ ~ head[b].used /\ head[b].next = a
            /\ ~ head[c].used /\ head[c].next = HeapEnd
  <2> DEFINE T  == S \ {a, c}
             h2 == SetNext(h1, b, HeapEnd)
  <2>1. /\ b # a /\ b # c /\ b # HeapEnd /\ b # NULL /\ h1[b] = head[b] /\ b \in DOMAIN head
        /\ c # HeapStart /\ HeapEnd # a
    <3>1. b # a /\ b # c /\ b \in DOMAIN head /\ b # NULL
      BY <1>4, <1>13
    <3>2. h1[b] = head[b]
      BY <1>5, <3>1
    <3>3. b # HeapEnd
      BY <1>1, <1>13, LinkedOrder
    <3>4. c # HeapStart
      BY <1>1, <1>4, LinkedOrder
    <3>5. QED
      BY <3>1, <3>2, <3>3, <3>4
  <2>2. TowardsRoot(h1, a) /\ TowardsTail(h1, a)
    BY <1>5, <1>11, <1>13, <2>1 DEF TowardsRoot
  <2>3. MergeDerefs(h1, a) \subseteq DOMAIN head
    BY <1>3, <1>4, <1>5, <1>10, <1>13, <2>1, <2>2 DEF MergeDerefs
  <2>4. KfreeDerefs(head, a) \subseteq DOMAIN head
    BY <1>4, <1>7, <2>3
  <2>5. g.head = SetPrev(h2, HeapEnd, b)
    BY <1>5, <1>6, <1>10, <1>13, <2>2 DEF Merged
  <2>6. HeapEnd \in Nat /\ b \in DOMAIN h1 /\ h1[b] \in Headers
    BY <1>1, <1>4, <1>5, <1>13, <2>1
  <2>7. /\ DOMAIN h2 = DOMAIN head
        /\ h2[b] \in Headers /\ h2[b].next = HeapEnd /\ h2[b].prev = head[b].prev
        /\ (h2[b].used <=> head[b].used) /\ (h2[b].epsilon <=> head[b].epsilon)
        /\ \A x \in DOMAIN head : x # b => h2[x] = h1[x]
    BY <1>5, <2>1, <2>6 DEF SetNext, Headers
  <2> HIDE DEF h2
  <2>8. h2[HeapEnd] = head[HeapEnd] /\ HeapEnd \in DOMAIN h2 /\ h2[HeapEnd] \in Headers
    BY <1>1, <1>4, <1>5, <2>1, <2>7
  <2>9. b \in Nat
    BY <1>4, <1>13
  <2>10. /\ g.head[HeapEnd] \in Headers /\ g.head[HeapEnd].next = head[HeapEnd].next
         /\ (g.head[HeapEnd].used <=> head[HeapEnd].used)
         /\ (g.head[HeapEnd].epsilon <=> head[HeapEnd].epsilon)
         /\ \A x \in DOMAIN head : x # HeapEnd => g.head[x] = h2[x]
    <3>1. g.head = [h2 EXCEPT ![HeapEnd].prev = b]
      BY <2>5 DEF SetPrev
    <3> HIDE DEF b, head
    <3>2. g.head[HeapEnd] = [h2[HeapEnd] EXCEPT !.prev = b]
      BY <2>8, <3>1
    <3>3. \A x \in DOMAIN head : x # HeapEnd => g.head[x] = h2[x]
      BY <2>7, <3>1
    <3>4. QED
      BY <2>8, <2>9, <3>2, <3>3 DEF Headers
  <2>11. ASSUME NEW x \in T
         PROVE  /\ g.head[x].next = IF x = b THEN HeapEnd ELSE head[x].next
                /\ x # HeapEnd => g.head[x].prev = head[x].prev
                /\ g.head[x].epsilon <=> head[x].epsilon
                /\ g.head[x].used <=> head[x].used
                /\ g.head[x] \in Headers
    <3>1. x \in DOMAIN head /\ x # a
      BY <1>4
    <3>2. CASE x = HeapEnd
      BY <2>1, <2>10, <3>2
    <3>3. CASE x = b
      BY <2>1, <2>7, <2>10, <3>1, <3>3
    <3>4. CASE x # b /\ x # HeapEnd
      BY <1>1, <1>5, <2>7, <2>10, <3>1, <3>4
    <3>5. QED
      BY <3>2, <3>3, <3>4
  <2>12. T \subseteq DOMAIN g.head
    BY <1>4, <1>8
  <2>13. ASSUME NEW newer,
                \A x, y \in S : <<x, y>> \in older /\ y # a => <<x, y>> \in newer
         PROVE  ListInv(g.head, T, newer)
    <3> HIDE DEF head
    <3>1. head[a].next = c /\ head[a].used
      BY DEF head
    <3> HIDE DEF b, c
    <3>2. QED
      BY <1>1, <1>3, <1>13, <2>11, <2>12, <2>13, <3>1, AreaMergedWithBoth
  <2>14. Released(h, S, g, T, a)
    <3>1. ASSUME NEW x \in T, g.head[x].next = HeapEnd PROVE ~ g.head[x].used
      BY <1>2, <1>13, <2>11, <3>1
    <3>2. ASSUME NEW x \in S \ {a}, head[x].used
          PROVE  x \in T /\ g.head[x].next = head[x].next
      BY <1>13, <2>11, <3>2
    <3>3. QED
      BY <1>4, <1>13, <2>1, <2>11, <3>1, <3>2 DEF Released
  <2>15. \A x \in T \ {HeapEnd}, page \in Pages : page <= x => page \in g.mapped
    BY <1>6 DEF SoundHeap
  <2>16. QED
    BY <1>9, <2>4, <2>11, <2>13, <2>14, <2>15 DEF SoundHeap
<1>14. QED
  BY <1>3, <1>12, <1>13
-----------------------------------------------------------------------------
(* kmalloc(), kcalloc(), kpagealloc() and krealloc() let the caller write  *)
(* its area: no header of the list is in it.                               *)
LEMMA AreaWritten ==
  ASSUME NEW h, NEW S, NEW older, SoundHeap(h, S, older),
         NEW a \in S \ {HeapEnd}, NEW n \in Nat, n <= AreaSize(h.head, a),
         NEW g, g = [head |-> Overwritten(h.head, a + HeadSize, n), mapped |-> h.mapped]
  PROVE  SoundHeap(g, S, older) /\ \A x \in S : g.head[x] = h.head[x]
<1>1. Linked(h.head, S)
  BY DEF SoundHeap, ListInv
<1>2. /\ \A x \in S : x \in Nat /\ x \in DOMAIN h.head
      /\ \A x \in S : x <= a \/ h.head[a].next <= x
      /\ a + 8 + n <= h.head[a].next
      /\ h.head[a].next \in Nat /\ HeapStart \in S
  <2>1. /\ \A x \in S : x \in Nat /\ x \in DOMAIN h.head
        /\ \A x \in S : x <= a \/ h.head[a].next <= x
        /\ h.head[a].next \in S /\ HeapStart \in S
    BY <1>1, LinkedOrder DEF Linked
  <2>2. AreaSize(h.head, a) = h.head[a].next - a - 8
    BY SoundHeapFacts
  <2>3. QED
    BY <2>1, <2>2
<1>3. \A x \in S : x + HeadSize <= a + HeadSize \/ a + HeadSize + n <= x
  BY <1>2 DEF HeadSize
<1>4. g.head = Overwritten(h.head, a + HeadSize, n) /\ g.mapped = h.mapped
  OBVIOUS
<1>5. \A x \in S : x \in DOMAIN g.head /\ g.head[x] = h.head[x]
  BY <1>2, <1>3, <1>4, OverwrittenFields
<1>6. HeapOK(g)
  BY <1>4, OverwrittenDomain, FewerHeads DEF SoundHeap
<1>7. Linked(g.head, S)
  BY <1>1, <1>5 DEF Linked
<1>8. \A x \in S : Rest(h.head, S, older, x) => Rest(g.head, S, older, x)
  BY <1>5 DEF Rest
<1>9. \A x \in S : PageHead(h.head, S, older, x) => PageHead(g.head, S, older, x)
  BY <1>5, <1>8 DEF PageHead
<1>10. ListInv(g.head, S, older)
  BY <1>2, <1>5, <1>7, <1>8, <1>9 DEF SoundHeap, ListInv
<1>11. QED
  BY <1>4, <1>5, <1>6, <1>10 DEF SoundHeap

-----------------------------------------------------------------------------
(* The areas of the stack s, each with those given out after it.           *)
Order(s) ==
  {<<s[i[1]] - HeadSize, s[i[2]] - HeadSize>> :
     i \in {k \in (DOMAIN s) \X (DOMAIN s) : k[1] < k[2]}}

(* s holds every owned block once.                                         *)
StackOK(blocks, s) ==
  /\ s \in Seq(DOMAIN blocks)
  /\ \A p \in DOMAIN blocks : \E i \in DOMAIN s : s[i] = p
  /\ \A i, j \in DOMAIN s : s[i] = s[j] => i = j

LEMMA StackPushed ==
  ASSUME NEW blocks, NEW s, StackOK(blocks, s), NEW p \in Nat, p \notin DOMAIN blocks,
         NEW more, DOMAIN more = DOMAIN blocks \union {p}
  PROVE  /\ StackOK(more, Append(s, p))
         /\ Order(s) \subseteq Order(Append(s, p))
         /\ \A q \in DOMAIN blocks : <<q - HeadSize, p - HeadSize>> \in Order(Append(s, p))
<1> DEFINE t == Append(s, p)
<1>1. s \in Seq(DOMAIN blocks) /\ Len(s) \in Nat /\ DOMAIN s = 1 .. Len(s)
  BY DEF StackOK
<1>2. /\ t \in Seq(DOMAIN more) /\ Len(t) = Len(s) + 1
      /\ DOMAIN t = 1 .. Len(s) + 1
      /\ t[Len(s) + 1] = p
      /\ \A i \in DOMAIN s : t[i] = s[i] /\ i \in DOMAIN t /\ i < Len(s) + 1
  <2>1. s \in Seq(DOMAIN more)
    BY <1>1
  <2>2. QED
    BY <1>1, <2>1
<1>3. \A i \in DOMAIN s : s[i] \in DOMAIN blocks
  BY <1>1
<1> HIDE DEF t
<1>4. \A q \in DOMAIN more : \E i \in DOMAIN t : t[i] = q
  <2> SUFFICES ASSUME NEW q \in DOMAIN more PROVE \E i \in DOMAIN t : t[i] = q
    OBVIOUS
  <2>1. CASE q = p
    BY <1>1, <1>2, <2>1
  <2>2. CASE q \in DOMAIN blocks
    <3>1. PICK i \in DOMAIN s : s[i] = q
      BY <2>2 DEF StackOK
    <3>2. QED
      BY <1>2, <3>1
  <2>3. QED
    BY <2>1, <2>2
<1>5. \A i, j \in DOMAIN t : t[i] = t[j] => i = j
  <2>1. \A i \in DOMAIN t : i \in DOMAIN s \/ i = Len(s) + 1
    BY <1>1, <1>2
  <2>2. \A i, j \in DOMAIN s : s[i] = s[j] => i = j
    BY DEF StackOK
  <2>3. \A i \in DOMAIN s : t[i] # p
    BY <1>2, <1>3
  <2>4. QED
    BY <1>2, <2>1, <2>2, <2>3
<1>6. ASSUME NEW i \in DOMAIN t, NEW j \in DOMAIN t, i < j
      PROVE  <<t[i] - HeadSize, t[j] - HeadSize>> \in Order(t)
  <2>1. <<i, j>> \in {k \in (DOMAIN t) \X (DOMAIN t) : k[1] < k[2]}
    BY <1>6
  <2>2. QED
    BY <2>1 DEF Order
<1>7. Order(s) \subseteq Order(t)
  <2> SUFFICES ASSUME NEW pair \in Order(s) PROVE pair \in Order(t)
    OBVIOUS
  <2>1. PICK k \in (DOMAIN s) \X (DOMAIN s) :
          k[1] < k[2] /\ pair = <<s[k[1]] - HeadSize, s[k[2]] - HeadSize>>
    BY DEF Order
  <2>2. k[1] \in DOMAIN t /\ k[2] \in DOMAIN t /\ t[k[1]] = s[k[1]] /\ t[k[2]] = s[k[2]]
    BY <1>2, <2>1
  <2>3. QED
    BY <1>6, <2>1, <2>2
<1>8. ASSUME NEW q \in DOMAIN blocks PROVE <<q - HeadSize, p - HeadSize>> \in Order(t)
  <2>1. PICK i \in DOMAIN s : s[i] = q
    BY DEF StackOK
  <2>2. i \in DOMAIN t /\ Len(s) + 1 \in DOMAIN t /\ i < Len(s) + 1 /\ t[i] = q
    BY <1>1, <1>2, <2>1
  <2>3. QED
    BY <1>2, <1>6, <2>2
<1>9. QED
  BY <1>2, <1>4, <1>5, <1>7, <1>8 DEF StackOK, t

Popped(s) == SubSeq(s, 1, Len(s) - 1)

LEMMA StackPopped ==
  ASSUME NEW blocks, NEW s, StackOK(blocks, s), s # << >>, DOMAIN blocks \subseteq Nat,
         NEW p, p = s[Len(s)],
         NEW fewer, DOMAIN fewer = DOMAIN blocks \ {p}
  PROVE  /\ p \in DOMAIN blocks
         /\ StackOK(fewer, Popped(s))
         /\ \A y : <<p - HeadSize, y>> \notin Order(s)
         /\ \A x, y : <<x, y>> \in Order(s) /\ y # p - HeadSize => <<x, y>> \in Order(Popped(s))
<1> DEFINE t == Popped(s)
<1>1. s \in Seq(DOMAIN blocks) /\ Len(s) \in Nat \ {0} /\ DOMAIN s = 1 .. Len(s)
  BY DEF StackOK
<1>2. /\ p \in DOMAIN blocks
      /\ \A i \in DOMAIN s : s[i] \in DOMAIN blocks /\ s[i] \in Nat
      /\ \A i \in DOMAIN s : s[i] = p => i = Len(s)
  BY <1>1 DEF StackOK
<1>3. /\ DOMAIN t = 1 .. Len(s) - 1 /\ Len(t) = Len(s) - 1
      /\ \A i \in DOMAIN t : i \in DOMAIN s /\ t[i] = s[i] /\ i # Len(s)
      /\ \A i \in DOMAIN s : i # Len(s) => i \in DOMAIN t
      /\ t \in Seq(DOMAIN blocks)
  BY <1>1 DEF Popped
<1>10. t = SubSeq(s, 1, Len(s) - 1)
  BY DEF Popped
<1> HIDE DEF t
<1>4. t \in Seq(DOMAIN fewer)
  <2>1. \A i \in 1 .. Len(s) - 1 : s[i] \in DOMAIN fewer
    BY <1>1, <1>2
  <2>2. Len(s) - 1 \in Int
    BY <1>1
  <2>3. QED
    BY <1>10, <2>1, <2>2, SubSeqProperties
<1>5. \A q \in DOMAIN fewer : \E i \in DOMAIN t : t[i] = q
  <2> SUFFICES ASSUME NEW q \in DOMAIN fewer PROVE \E i \in DOMAIN t : t[i] = q
    OBVIOUS
  <2>1. PICK i \in DOMAIN s : s[i] = q
    BY DEF StackOK
  <2>2. i # Len(s)
    BY <2>1
  <2>3. QED
    BY <1>3, <2>1, <2>2
<1>6. \A i, j \in DOMAIN t : t[i] = t[j] => i = j
  BY <1>3 DEF StackOK
<1>7. \A y : <<p - HeadSize, y>> \notin Order(s)
  <2> SUFFICES ASSUME NEW y, <<p - HeadSize, y>> \in Order(s) PROVE FALSE
    OBVIOUS
  <2>1. PICK k \in (DOMAIN s) \X (DOMAIN s) :
          k[1] < k[2] /\ <<p - HeadSize, y>> = <<s[k[1]] - HeadSize, s[k[2]] - HeadSize>>
    BY DEF Order
  <2>2. p - HeadSize = s[k[1]] - HeadSize /\ k[1] \in DOMAIN s /\ k[2] \in DOMAIN s
    BY <2>1
  <2>3. p = s[k[1]]
    BY <1>2, <2>2 DEF HeadSize
  <2>4. k[1] = Len(s)
    BY <1>2, <2>2, <2>3
  <2>5. QED
    BY <1>1, <2>1, <2>2, <2>4
<1>8. ASSUME NEW x, NEW y, <<x, y>> \in Order(s), y # p - HeadSize
      PROVE  <<x, y>> \in Order(t)
  <2>1. PICK k \in (DOMAIN s) \X (DOMAIN s) :
          k[1] < k[2] /\ <<x, y>> = <<s[k[1]] - HeadSize, s[k[2]] - HeadSize>>
    BY <1>8 DEF Order
  <2>2. k[1] \in DOMAIN s /\ k[2] \in DOMAIN s /\ y = s[k[2]] - HeadSize
    BY <2>1
  <2>3. k[2] # Len(s)
    BY <1>8, <2>2
  <2>4. k[1] # Len(s)
    BY <1>1, <2>1, <2>2
  <2>5. /\ k \in {l \in (DOMAIN t) \X (DOMAIN t) : l[1] < l[2]}
        /\ t[k[1]] = s[k[1]] /\ t[k[2]] = s[k[2]]
    BY <1>3, <2>1, <2>2, <2>3, <2>4
  <2>6. QED
    BY <2>1, <2>5 DEF Order
<1>9. QED
  BY <1>2, <1>4, <1>5, <1>6, <1>7, <1>8 DEF StackOK, t

-----------------------------------------------------------------------------
(* The inductive invariant.                                                *)
NestedOK(h, blocks, s) ==
  /\ h = [head |-> h.head, mapped |-> h.mapped]
  /\ SoundHeap(h, Visited(h.head), Order(s)) /\ TailIsFree(h.head)
  /\ OwnedOK(blocks) /\ StackOK(blocks, s)
  /\ DOMAIN blocks = {a + HeadSize : a \in {b \in Visited(h.head) : h.head[b].used}}
  /\ \A p \in DOMAIN blocks : p + blocks[p] <= h.head[p - HeadSize].next

NestedInv == wild = FALSE /\ NestedOK(heap, owned, stack)

LEMMA NestedFacts ==
  ASSUME NEW h, NEW blocks, NEW s, NestedOK(h, blocks, s), NEW p \in DOMAIN blocks
  PROVE  LET a == p - HeadSize
         IN  /\ p \in Nat /\ p % 8 = 0 /\ blocks[p] \in Nat \ {0} /\ p = a + 8
             /\ a \in Visited(h.head) \ {HeapEnd} /\ h.head[a].used
             /\ h.head[a].next \in Visited(h.head) \ {HeapEnd}
             /\ h.head[a].next \in Nat /\ h.head[a].next < HeapEnd
             /\ p + blocks[p] <= h.head[a].next
             /\ \A b \in Visited(h.head) : b <= a \/ h.head[a].next <= b
<1> DEFINE S == Visited(h.head)
<1>1. Linked(h.head, S)
  BY DEF NestedOK, SoundHeap, ListInv
<1>2. PICK a \in S : h.head[a].used /\ p = a + HeadSize
  BY DEF NestedOK
<1>3. a \in Nat /\ p - HeadSize = a /\ p = a + 8
  BY <1>1, <1>2, LinkedOrder DEF HeadSize
<1>4. a # HeapEnd
  BY <1>1, <1>2 DEF Linked
<1>5. h.head[a].next \in S /\ \A b \in S : b <= a \/ h.head[a].next <= b
  BY <1>1, <1>2, <1>4 DEF Linked
<1>6. h.head[a].next # HeapEnd
  BY <1>2 DEF NestedOK, TailIsFree
<1>7. h.head[a].next \in Nat /\ h.head[a].next < HeapEnd
  BY <1>1, <1>5, <1>6, LinkedOrder
<1>8. p % 8 = 0 /\ blocks[p] \in Nat \ {0} /\ p + blocks[p] <= h.head[a].next
  BY <1>3 DEF NestedOK, OwnedOK
<1>9. QED
  BY <1>2, <1>3, <1>4, <1>5, <1>6, <1>7, <1>8

(* Owned blocks do not overlap.                                            *)
LEMMA BlocksApart ==
  ASSUME NEW h, NEW blocks, NEW s, NestedOK(h, blocks, s),
         NEW p \in DOMAIN blocks, NEW q \in DOMAIN blocks, p # q
  PROVE  p + blocks[p] <= q \/ q + blocks[q] <= p
<1>1. /\ p \in Nat /\ blocks[p] \in Nat /\ p = (p - HeadSize) + 8
      /\ p - HeadSize \in Visited(h.head)
      /\ h.head[p - HeadSize].next \in Nat
      /\ p + blocks[p] <= h.head[p - HeadSize].next
      /\ \A b \in Visited(h.head) : b <= p - HeadSize \/ h.head[p - HeadSize].next <= b
  BY NestedFacts
<1>2. /\ q \in Nat /\ blocks[q] \in Nat /\ q = (q - HeadSize) + 8
      /\ q - HeadSize \in Visited(h.head)
      /\ h.head[q - HeadSize].next \in Nat
      /\ q + blocks[q] <= h.head[q - HeadSize].next
      /\ \A b \in Visited(h.head) : b <= q - HeadSize \/ h.head[q - HeadSize].next <= b
  BY NestedFacts
<1>3. q - HeadSize <= p - HeadSize \/ h.head[p - HeadSize].next <= q - HeadSize
  BY <1>1, <1>2
<1>4. p - HeadSize <= q - HeadSize \/ h.head[q - HeadSize].next <= p - HeadSize
  BY <1>1, <1>2
<1>5. QED
  BY <1>1, <1>2, <1>3, <1>4 DEF HeadSize
-----------------------------------------------------------------------------
(* Each call keeps the invariant.                                          *)
LEMMA PagesInHeap ==
  ASSUME NEW page \in Pages
  PROVE  page \in Nat /\ HeapStart <= page
<1>1. PICK i \in HeapStart \div PageSize .. (HeapTop - 1) \div PageSize : page = PageSize * i
  BY DEF Pages
<1> DEFINE s == HeapStart \div PageSize
<1>2. PageSize \in Nat \ {0} /\ i \in Int /\ HeapStart \in Nat
  BY HeapConstants
<1>3. s \in Nat /\ HeapStart = PageSize * s
  <2>1. HeapStart % PageSize = 0
    BY HeapRangeAssumption
  <2>2. s \in Nat /\ HeapStart = PageSize * s + (HeapStart % PageSize)
    BY <1>2, DivisionRemainder
  <2> HIDE DEF s
  <2>3. PageSize * s \in Nat
    BY <1>2, <2>2
  <2>4. QED
    BY <2>1, <2>2, <2>3
<1>4. s <= i
  BY <1>2, <1>3
<1> HIDE DEF s
<1>5. i \in Nat
  BY <1>2, <1>3, <1>4
<1>6. PageSize * s <= PageSize * i /\ PageSize * i \in Nat
  BY <1>2, <1>3, <1>4, <1>5
<1>7. QED
  BY <1>1, <1>3, <1>6

LEMMA NestedInit_Inv == NestedInit => NestedInv
<1> SUFFICES ASSUME NestedInit PROVE NestedInv
  OBVIOUS
<1> DEFINE head == heap.head
           S    == {HeapStart, HeapEnd}
<1>1. /\ heap = InitialHeap /\ DOMAIN owned = {} /\ wild = FALSE /\ stack = << >>
  BY DEF NestedInit, Init
<1>2. /\ DOMAIN head = S /\ HeapStart # HeapEnd
      /\ head[HeapStart] \in Headers /\ head[HeapEnd] \in Headers
      /\ head[HeapStart].next = HeapEnd /\ head[HeapStart].prev = NULL
      /\ ~ head[HeapStart].used /\ ~ head[HeapEnd].used
      /\ ~ head[HeapStart].epsilon /\ head[HeapEnd].epsilon
      /\ heap.mapped = {PageOf(HeapStart), PageOf(HeapEnd)}
  <2>1. HeapStart # HeapEnd /\ HeapStart \in Nat /\ HeapEnd \in Nat
    BY HeapConstants
  <2>2. /\ DOMAIN head = S
        /\ head[HeapStart] = Header(HeapEnd, NULL)
        /\ head[HeapEnd] = [Header(NULL, HeapStart) EXCEPT !.epsilon = TRUE]
        /\ heap.mapped = {PageOf(HeapStart), PageOf(HeapEnd)}
    BY <1>1, <2>1 DEF InitialHeap
  <2> HIDE DEF head
  <2>3. NULL \in Nat
    BY DEF NULL
  <2>4. /\ head[HeapStart] \in Headers /\ head[HeapStart].next = HeapEnd
        /\ head[HeapStart].prev = NULL
        /\ ~ head[HeapStart].used /\ ~ head[HeapStart].epsilon
    BY <2>1, <2>2, <2>3 DEF Header, Headers
  <2>5. head[HeapEnd] = [next |-> NULL, prev |-> HeapStart, used |-> FALSE, epsilon |-> TRUE]
    BY <2>2 DEF Header
  <2>6. head[HeapEnd] \in Headers /\ ~ head[HeapEnd].used /\ head[HeapEnd].epsilon
    BY <2>1, <2>3, <2>5 DEF Headers
  <2>7. QED
    BY <2>1, <2>2, <2>4, <2>6
<1>3. HeapStart \in Addresses /\ HeapEnd \in Addresses /\ HeapStart < HeapEnd
  BY HeapConstants DEF Addresses
<1>4. Linked(head, S)
  BY <1>2, <1>3, HeapConstants DEF Linked
<1>5. HeapOK(heap)
  <2>1. PageOf(HeapStart) \in Pages /\ PageOf(HeapEnd) \in Pages
    BY <1>3, AddressIsHeap, PageOfAddress
  <2>2. QED
    BY <1>2, <1>3, <2>1 DEF HeapOK
<1>6. ListInv(head, S, Order(stack))
  BY <1>2, <1>4 DEF ListInv
<1>7. ASSUME NEW page \in Pages, page <= HeapStart PROVE page \in heap.mapped
  <2>1. page <= PageOf(HeapStart) /\ PageOf(HeapStart) \in Pages
    BY <1>3, <1>7, AddressIsHeap, PageOfAddress, PageUnique
  <2>2. /\ HeapStart <= PageOf(HeapStart) /\ PageOf(HeapStart) <= HeapStart
        /\ PageOf(HeapStart) \in Nat
    BY <1>3, AddressIsHeap, PageOfAddress
  <2>3. HeapStart <= page
    BY PagesInHeap
  <2>4. page = PageOf(HeapStart)
    BY <2>1, <2>2, <2>3, HeapConstants DEF Pages
  <2>5. QED
    BY <1>2, <2>4
<1>8. SoundHeap(heap, S, Order(stack))
  BY <1>2, <1>5, <1>6, <1>7 DEF SoundHeap
<1>9. Visited(head) = S
  BY <1>8, SoundHeapFacts
<1>10. OwnedOK(owned) /\ StackOK(owned, stack)
  BY <1>1 DEF OwnedOK, StackOK
<1>11. TailIsFree(head)
  BY <1>2, <1>9 DEF TailIsFree
<1>12. DOMAIN owned = {a + HeadSize : a \in {b \in Visited(head) : head[b].used}}
  BY <1>1, <1>2, <1>9
<1>13. heap = [head |-> heap.head, mapped |-> heap.mapped]
  BY <1>1 DEF InitialHeap
<1>14. QED
  BY <1>1, <1>8, <1>9, <1>10, <1>11, <1>12, <1>13 DEF NestedInv, NestedOK

(* A new block on top of the stack.                                        *)
LEMMA BlockGiven ==
  ASSUME NEW h, NEW blocks, NEW s, NestedOK(h, blocks, s),
         NEW g, NEW a, NEW size \in Nat \ {0},
         Gives(h, Visited(h.head), Order(s), g, a, size), TailIsFree(g.head),
         g = [head |-> g.head, mapped |-> g.mapped]
  PROVE  /\ a + HeadSize \notin DOMAIN blocks
         /\ NestedOK(g, With(blocks, a + HeadSize, size), Append(s, a + HeadSize))
<1> DEFINE S    == Visited(h.head)
           p    == a + HeadSize
           more == With(blocks, p, size)
           t    == Append(s, p)
<1>1. PICK T :
        /\ Given(h, S, g, T, a, size)
        /\ \A newer :
             Order(s) \subseteq newer /\ (\A x \in S : h.head[x].used => <<x, a>> \in newer)
             => SoundHeap(g, T, newer)
  BY DEF Gives
<1>2. /\ a \in T \ {HeapEnd} /\ (a \in S => ~ h.head[a].used) /\ S \subseteq T
      /\ \A x \in T : g.head[x].used <=> x = a \/ (x \in S /\ h.head[x].used)
      /\ \A x \in S : h.head[x].used => g.head[x].next = h.head[x].next
      /\ a + 8 + size <= g.head[a].next
  BY <1>1 DEF Given
<1>3. /\ DOMAIN blocks = {x + HeadSize : x \in {b \in S : h.head[b].used}}
      /\ OwnedOK(blocks) /\ StackOK(blocks, s)
      /\ \A q \in DOMAIN blocks : q + blocks[q] <= h.head[q - HeadSize].next
  BY DEF NestedOK
<1>4. \A x \in S : x \in Nat
  BY LinkedOrder DEF NestedOK, SoundHeap, ListInv
<1>5. T = Visited(g.head) /\ \A x \in T : x \in Nat /\ x % 8 = 0
  <2>1. SoundHeap(g, T, Order(s) \union {<<x, a>> : x \in S})
    BY <1>1
  <2>2. QED
    BY <2>1, SoundHeapFacts, LinkedOrder DEF SoundHeap, ListInv
<1>6. /\ a \in Nat /\ p \in Nat /\ p = a + 8 /\ p - HeadSize = a /\ p % 8 = 0
  BY <1>2, <1>5 DEF HeadSize
<1>7. \A x \in S : x + HeadSize = p => x = a
  BY <1>4, <1>6 DEF HeadSize
<1>8. p \notin DOMAIN blocks
  BY <1>2, <1>3, <1>7
<1>9. /\ DOMAIN more = DOMAIN blocks \union {p}
      /\ more[p] = size
      /\ \A q \in DOMAIN blocks : more[q] = blocks[q]
  BY <1>8 DEF With
<1> HIDE DEF more, p
<1>10. /\ StackOK(more, t)
       /\ Order(s) \subseteq Order(t)
       /\ \A q \in DOMAIN blocks : <<q - HeadSize, a>> \in Order(t)
  BY <1>3, <1>6, <1>8, <1>9, StackPushed
<1>11. ASSUME NEW x \in S, h.head[x].used PROVE <<x, a>> \in Order(t)
  <2>1. x + HeadSize \in DOMAIN blocks /\ (x + HeadSize) - HeadSize = x
    BY <1>3, <1>4, <1>11 DEF HeadSize
  <2>2. QED
    BY <1>10, <2>1
<1>12. SoundHeap(g, T, Order(t))
  BY <1>1, <1>10, <1>11
<1>13. OwnedOK(more)
  BY <1>3, <1>6, <1>9 DEF OwnedOK
<1>14. DOMAIN more = {x + HeadSize : x \in {b \in T : g.head[b].used}}
  <2>1. {b \in T : g.head[b].used} = {b \in S : h.head[b].used} \union {a}
    BY <1>2
  <2>2. QED
    BY <1>3, <1>9, <2>1 DEF p
<1>15. ASSUME NEW q \in DOMAIN more PROVE q + more[q] <= g.head[q - HeadSize].next
  <2>1. CASE q = p
    BY <1>2, <1>6, <1>9, <2>1
  <2>2. CASE q # p
    <3>1. q \in DOMAIN blocks
      BY <1>9, <2>2
    <3>2. PICK x \in S : h.head[x].used /\ q = x + HeadSize
      BY <1>3, <3>1
    <3>3. q - HeadSize = x
      BY <1>4, <3>2 DEF HeadSize
    <3>4. g.head[x].next = h.head[x].next
      BY <1>2, <3>2
    <3>5. QED
      BY <1>3, <1>9, <3>1, <3>3, <3>4
  <2>3. QED
    BY <2>1, <2>2
<1>16. NestedOK(g, more, t)
  BY <1>5, <1>10, <1>12, <1>13, <1>14, <1>15 DEF NestedOK
<1>17. QED
  BY <1>8, <1>16 DEF more, p

(* kfree() of the top of the stack.                                        *)
LEMMA BlockTakenBack ==
  ASSUME NEW h, NEW blocks, NEW s, NestedOK(h, blocks, s), s # << >>,
         NEW p, p = s[Len(s)], NEW a, a = p - HeadSize,
         NEW g, g = [head |-> AfterKfree(h.head, a), mapped |-> h.mapped]
  PROVE  /\ p \in DOMAIN blocks
         /\ KfreeDerefs(h.head, a) \subseteq DOMAIN h.head
         /\ NestedOK(g, Without(blocks, p), Popped(s))
<1> DEFINE S     == Visited(h.head)
           fewer == Without(blocks, p)
           t     == Popped(s)
<1>1. /\ DOMAIN blocks = {x + HeadSize : x \in {b \in S : h.head[b].used}}
      /\ OwnedOK(blocks) /\ StackOK(blocks, s) /\ TailIsFree(h.head)
      /\ SoundHeap(h, S, Order(s))
      /\ \A q \in DOMAIN blocks : q + blocks[q] <= h.head[q - HeadSize].next
  BY DEF NestedOK
<1>2. \A q \in DOMAIN blocks :
        /\ q \in Nat /\ q = (q - HeadSize) + 8
        /\ q - HeadSize \in S \ {HeapEnd} /\ h.head[q - HeadSize].used
  BY NestedFacts
<1>3. /\ DOMAIN fewer = DOMAIN blocks \ {p}
      /\ \A q \in DOMAIN fewer : fewer[q] = blocks[q]
  BY DEF Without
<1> HIDE DEF fewer
<1>4. /\ p \in DOMAIN blocks
      /\ StackOK(fewer, t)
      /\ \A y : <<a, y>> \notin Order(s)
      /\ \A x, y : <<x, y>> \in Order(s) /\ y # a => <<x, y>> \in Order(t)
  <2>1. DOMAIN blocks \subseteq Nat
    BY <1>2
  <2>2. /\ p \in DOMAIN blocks
        /\ StackOK(fewer, t)
        /\ \A y : <<p - HeadSize, y>> \notin Order(s)
        /\ \A x, y : <<x, y>> \in Order(s) /\ y # p - HeadSize => <<x, y>> \in Order(t)
    BY <1>1, <1>3, <2>1, StackPopped
  <2>3. QED
    BY <2>2
<1>5. a \in S \ {HeapEnd} /\ h.head[a].used
  BY <1>2, <1>4
<1>6. /\ KfreeDerefs(h.head, a) \subseteq DOMAIN h.head
      /\ \E T :
           /\ Released(h, S, g, T, a)
           /\ \A newer :
                (\A x, y \in S : <<x, y>> \in Order(s) /\ y # a => <<x, y>> \in newer)
                => SoundHeap(g, T, newer)
  BY ZenonT(60), <1>1, <1>4, <1>5, KfreeTakes
<1>7. PICK T :
        /\ Released(h, S, g, T, a)
        /\ \A newer :
             (\A x, y \in S : <<x, y>> \in Order(s) /\ y # a => <<x, y>> \in newer)
             => SoundHeap(g, T, newer)
  BY <1>6
<1>8. SoundHeap(g, T, Order(t))
  BY <1>4, <1>7
<1>9. T = Visited(g.head)
  BY <1>8, SoundHeapFacts
<1>10. /\ T \subseteq S
       /\ \A x \in T : g.head[x].used <=> h.head[x].used /\ x # a
       /\ \A x \in S \ {a} : h.head[x].used => x \in T /\ g.head[x].next = h.head[x].next
       /\ \A x \in T : g.head[x].next = HeapEnd => ~ g.head[x].used
  BY <1>7 DEF Released
<1>11. TailIsFree(g.head)
  BY <1>9, <1>10 DEF TailIsFree
<1>12. OwnedOK(fewer)
  BY <1>1, <1>3 DEF OwnedOK
<1>13. \A q \in DOMAIN fewer : /\ q \in DOMAIN blocks /\ q - HeadSize \in S \ {a}
                              /\ h.head[q - HeadSize].used
  BY <1>2, <1>3, <1>4
<1>14. DOMAIN fewer = {x + HeadSize : x \in {b \in T : g.head[b].used}}
  <2>1. {b \in T : g.head[b].used} = {b \in S : h.head[b].used} \ {a}
    BY <1>10
  <2>2. \A x \in S : x \in Nat
    BY <1>1, LinkedOrder DEF SoundHeap, ListInv
  <2>3. \A x \in S : x + HeadSize = p <=> x = a
    BY <1>2, <1>4, <2>2 DEF HeadSize
  <2>4. QED
    BY <1>1, <1>3, <2>1, <2>3
<1>15. \A q \in DOMAIN fewer : q + fewer[q] <= g.head[q - HeadSize].next
  BY <1>1, <1>3, <1>10, <1>13
<1>16. NestedOK(g, fewer, t)
  BY <1>4, <1>8, <1>9, <1>11, <1>12, <1>14, <1>15 DEF NestedOK
<1>17. QED
  BY <1>4, <1>6, <1>16 DEF fewer

(* krealloc() of a block within its area.                                  *)
LEMMA BlockKept ==
  ASSUME NEW h, NEW blocks, NEW s, NestedOK(h, blocks, s),
         NEW p \in DOMAIN blocks, NEW size \in Nat \ {0}, size <= AreaSize(h.head, p - HeadSize),
         NEW g, g = [head |-> Overwritten(h.head, p, size), mapped |-> h.mapped]
  PROVE  NestedOK(g, With(blocks, p, size), s)
<1> DEFINE S    == Visited(h.head)
           a    == p - HeadSize
           more == With(blocks, p, size)
<1>1. /\ DOMAIN blocks = {x + HeadSize : x \in {b \in S : h.head[b].used}}
      /\ OwnedOK(blocks) /\ StackOK(blocks, s) /\ TailIsFree(h.head)
      /\ SoundHeap(h, S, Order(s))
      /\ \A q \in DOMAIN blocks : q + blocks[q] <= h.head[q - HeadSize].next
  BY DEF NestedOK
<1>2. \A q \in DOMAIN blocks :
        /\ q \in Nat /\ q = (q - HeadSize) + 8 /\ q % 8 = 0
        /\ q - HeadSize \in S \ {HeapEnd} /\ h.head[q - HeadSize].next \in Nat
  BY NestedFacts
<1>3. a \in S \ {HeapEnd} /\ p = a + HeadSize /\ p \in Nat /\ p = a + 8
  BY <1>2 DEF HeadSize
<1>4. /\ DOMAIN more = DOMAIN blocks /\ more[p] = size
      /\ \A q \in DOMAIN blocks : q # p => more[q] = blocks[q]
  BY DEF With
<1> HIDE DEF more, a
<1>5. SoundHeap(g, S, Order(s)) /\ \A x \in S : g.head[x] = h.head[x]
  <2>1. g = [head |-> Overwritten(h.head, a + HeadSize, size), mapped |-> h.mapped]
    BY <1>3
  <2>2. size \in Nat /\ size <= AreaSize(h.head, a)
    BY DEF a
  <2>3. QED
    BY <1>1, <1>3, <2>1, <2>2, AreaWritten
<1>6. Visited(g.head) = S
  BY <1>5, SoundHeapFacts
<1>7. TailIsFree(g.head)
  BY <1>1, <1>5, <1>6 DEF TailIsFree
<1>8. OwnedOK(more)
  BY <1>1, <1>2, <1>4 DEF OwnedOK
<1>9. StackOK(more, s)
  BY <1>1, <1>4 DEF StackOK
<1>10. DOMAIN more = {x + HeadSize : x \in {b \in S : g.head[b].used}}
  BY <1>1, <1>4, <1>5
<1>11. ASSUME NEW q \in DOMAIN more PROVE q + more[q] <= g.head[q - HeadSize].next
  <2>1. CASE q = p
    <3>1. AreaSize(h.head, a) = h.head[a].next - a - 8 /\ h.head[a].next \in Nat
      BY <1>1, <1>2, <1>3, SoundHeapFacts DEF a
    <3>2. size <= AreaSize(h.head, a)
      BY DEF a
    <3>3. a \in Int
      BY <1>3 DEF a, HeadSize
    <3>4. more[q] = size /\ q = a + 8
      BY <1>3, <1>4, <2>1
    <3>5. q + more[q] <= h.head[a].next
      BY <3>1, <3>2, <3>3, <3>4
    <3>6. QED
      BY <1>3, <1>5, <2>1, <3>5 DEF a
  <2>2. CASE q # p
    BY <1>1, <1>2, <1>4, <1>5, <2>2
  <2>3. QED
    BY <2>1, <2>2
<1>12. QED
  BY <1>5, <1>6, <1>7, <1>8, <1>9, <1>10, <1>11 DEF NestedOK, more
-----------------------------------------------------------------------------
(* The calls as steps of the model.  A successful allocation writes `size' *)
(* bytes of the area it returns.                                           *)
LEMMA PushStep ==
  ASSUME NestedInv, NEW fits, NEW result, NEW size \in Nat \ {0},
         Allocates(fits, result, size),
         fits # {} /\ TailIsFree(heap'.head) =>
           /\ result.ptr = (result.ptr - HeadSize) + HeadSize
           /\ Gives(heap, Visited(heap.head), Order(stack),
                    [head |-> Overwritten(result.head, result.ptr, size), mapped |-> result.mapped],
                    result.ptr - HeadSize, size),
         \/ DOMAIN owned' = DOMAIN owned /\ UNCHANGED stack
         \/ \E p \in DOMAIN owned' \ DOMAIN owned : stack' = Append(stack, p),
         TailIsFree(heap'.head)
  PROVE  /\ NestedInv'
         /\ \/ UNCHANGED <<heap, owned, wild, stack>>
            \/ \E p : p \notin DOMAIN owned /\ owned' = With(owned, p, size)
<1>1. NestedOK(heap, owned, stack) /\ wild = FALSE
  BY DEF NestedInv
<1>2. WalkIsSound
  BY <1>1, SoundHeapFacts DEF NestedOK, WalkIsSound
<1>3. CASE fits = {}
  <2>1. UNCHANGED vars
    BY <1>2, <1>3 DEF Allocates
  <2>2. heap' = heap /\ owned' = owned /\ wild' = wild /\ stack' = stack
    BY <2>1 DEF vars
  <2>3. QED
    BY <1>1, <2>2 DEF NestedInv
<1>4. CASE fits # {}
  <2> DEFINE p == result.ptr
             a == result.ptr - HeadSize
  <2>1. /\ heap' = [head |-> Overwritten(result.head, p, size), mapped |-> result.mapped]
        /\ owned' = With(owned, p, size) /\ wild' = wild
    BY <1>2, <1>4 DEF Allocates
  <2>2. /\ p = a + HeadSize /\ Gives(heap, Visited(heap.head), Order(stack), heap', a, size)
        /\ heap' = [head |-> heap'.head, mapped |-> heap'.mapped]
    BY <1>4, <2>1
  <2> HIDE DEF a, p
  <2>3. p \notin DOMAIN owned /\ NestedOK(heap', With(owned, p, size), Append(stack, p))
    BY <1>1, <2>2, BlockGiven
  <2>4. DOMAIN owned' = DOMAIN owned \union {p}
    BY <2>1 DEF With
  <2>5. stack' = Append(stack, p)
    BY <2>3, <2>4
  <2>6. NestedInv'
    BY <1>1, <2>1, <2>3, <2>5 DEF NestedInv
  <2>7. QED
    BY <2>1, <2>3, <2>6
<1>5. QED
  BY <1>3, <1>4

StoreSizes ==
  Sizes \union {array[1] * array[2] : array \in Arrays} \union {n * PageSize : n \in PageCounts}

LEMMA PushBlockStep ==
  ASSUME NestedInv, PushBlock
  PROVE  /\ NestedInv'
         /\ \/ UNCHANGED <<heap, owned, wild, stack>>
            \/ \E size \in StoreSizes : \E p : p \notin DOMAIN owned /\ owned' = With(owned, p, size)
<1>1. /\ \/ DOMAIN owned' = DOMAIN owned /\ UNCHANGED stack
         \/ \E p \in DOMAIN owned' \ DOMAIN owned : stack' = Append(stack, p)
      /\ TailIsFree(heap'.head)
  BY DEF PushBlock
<1>2. SoundHeap(heap, Visited(heap.head), Order(stack)) /\ HeapOK(heap)
  BY DEF NestedInv, NestedOK, SoundHeap
<1>3. WalkDerefs(heap.head) \subseteq DOMAIN heap.head
  BY <1>2, SoundHeapFacts
(* kmalloc() and kcalloc() *)
<1>4. ASSUME NEW size \in Nat \ {0}, size + 2 * HeadSize <= Modulus, size \in StoreSizes,
             Allocates(KmallocFits(heap.head, size), AfterKmalloc(heap, size), size)
      PROVE  /\ NestedInv'
             /\ \/ UNCHANGED <<heap, owned, wild, stack>>
                \/ \E n \in StoreSizes : \E p : p \notin DOMAIN owned /\ owned' = With(owned, p, n)
  <2> DEFINE fits == KmallocFits(heap.head, size)
             r    == AfterKmalloc(heap, size)
             g    == [head |-> Overwritten(r.head, r.ptr, size), mapped |-> r.mapped]
  <2>1. ASSUME fits # {}
        PROVE  /\ r.ptr = (r.ptr - HeadSize) + HeadSize
               /\ Gives(heap, Visited(heap.head), Order(stack), g, r.ptr - HeadSize, size)
    <3>1. r.ptr \in Nat
      BY <1>2, <1>3, <2>1, KmallocEffect
    <3>2. Gives(heap, Visited(heap.head), Order(stack), g, r.ptr - HeadSize, size)
      <4> HIDE DEF r
      <4>1. r = AfterKmalloc(heap, size)
        BY DEF r
      <4>2. QED
        BY <1>2, <1>4, <2>1, <4>1, KmallocGives
    <3>3. QED
      BY <3>1, <3>2 DEF HeadSize
  <2> HIDE DEF fits, r
  <2>2. Allocates(fits, r, size)
    BY <1>4 DEF fits, r
  <2>3. QED
    BY <1>1, <1>4, <2>1, <2>2, PushStep
<1>5. ASSUME NEW size \in Sizes, Kmalloc(size)
      PROVE  /\ NestedInv'
             /\ \/ UNCHANGED <<heap, owned, wild, stack>>
                \/ \E n \in StoreSizes : \E p : p \notin DOMAIN owned /\ owned' = With(owned, p, n)
  <2>1. size \in Nat \ {0} /\ size + 2 * HeadSize <= Modulus /\ size \in StoreSizes
    BY RequestsAssumption, CallersAssumption DEF StoreSizes
  <2>2. Allocates(KmallocFits(heap.head, size), AfterKmalloc(heap, size), size)
    BY <1>5 DEF Kmalloc
  <2>3. QED
    BY <1>4, <2>1, <2>2
<1>6. ASSUME NEW array \in Arrays, Kcalloc(array[1], array[2])
      PROVE  /\ NestedInv'
             /\ \/ UNCHANGED <<heap, owned, wild, stack>>
                \/ \E n \in StoreSizes : \E p : p \notin DOMAIN owned /\ owned' = With(owned, p, n)
  <2> DEFINE total == Total(array[1], array[2])
             bytes == array[1] * array[2]
  <2>1. total = bytes
    <3>1. array[2] = total \div array[1]
      BY <1>6 DEF Kcalloc
    <3>2. array[1] \in Nat \ {0} /\ bytes \in Nat /\ total \in Nat
      BY RequestTypes, RequestsAssumption
    <3>3. total = bytes % Modulus /\ Modulus \in Nat \ {0}
      BY HeapConstants DEF Total
    <3> HIDE DEF total, bytes
    <3>4. total <= bytes
      BY <3>2, <3>3
    <3>5. /\ total = array[1] * (total \div array[1]) + (total % array[1])
          /\ total % array[1] \in Nat
      <4>1. /\ total = array[1] * (total \div array[1]) + (total % array[1])
            /\ total % array[1] \in 0 .. array[1] - 1
        BY ONLY <3>2, DivisionRemainder
      <4>2. QED
        BY <3>2, <4>1
    <3>6. total = bytes + (total % array[1])
      BY <3>1, <3>5 DEF bytes
    <3>7. QED
      BY <3>2, <3>4, <3>5, <3>6
  <2>2. total \in Nat \ {0} /\ total + 2 * HeadSize <= Modulus /\ total \in StoreSizes
    BY <2>1, RequestTypes, CallersAssumption DEF StoreSizes
  <2>3. Allocates(KmallocFits(heap.head, total), AfterKmalloc(heap, total), total)
    BY <1>6, <2>1 DEF Kcalloc
  <2> HIDE DEF total, bytes
  <2>4. QED
    BY <1>4, <2>2, <2>3
<1>7. ASSUME NEW count \in PageCounts, Kpagealloc(count)
      PROVE  /\ NestedInv'
             /\ \/ UNCHANGED <<heap, owned, wild, stack>>
                \/ \E n \in StoreSizes : \E p : p \notin DOMAIN owned /\ owned' = With(owned, p, n)
  <2> DEFINE bytes == count * PageSize
             fits  == KpageallocFits(heap.head, bytes)
             r     == AfterKpagealloc(heap, bytes)
             g     == [head |-> Overwritten(r.head, r.ptr, bytes), mapped |-> r.mapped]
  <2>1. /\ bytes \in Nat \ {0} /\ bytes % Modulus = bytes /\ bytes % 8 = 0
        /\ PageSize <= bytes /\ bytes \in StoreSizes
    <3>1. /\ bytes \in Nat \ {0} /\ (bytes % Modulus) % 8 = 0 /\ bytes < Modulus
          /\ bytes \in StoreSizes
      BY RequestTypes, CallersAssumption DEF StoreSizes
    <3>2. PageSize <= bytes
      <4>1. count \in Nat \ {0} /\ PageSize \in Nat
        BY RequestsAssumption, HeapConstants
      <4>2. QED
        BY <4>1
    <3> HIDE DEF bytes
    <3>3. bytes % Modulus = bytes
      BY <3>1, HeapConstants
    <3>4. QED
      BY <3>1, <3>2, <3>3
  <2>2. Allocates(KpageallocFits(heap.head, bytes), AfterKpagealloc(heap, bytes), bytes)
    BY <1>7, <2>1 DEF Kpagealloc
  <2> HIDE DEF bytes
  <2>3. ASSUME fits # {}, TailIsFree(heap'.head)
        PROVE  /\ r.ptr = (r.ptr - HeadSize) + HeadSize
               /\ Gives(heap, Visited(heap.head), Order(stack), g, r.ptr - HeadSize, bytes)
    <3>1. r.ptr \in Nat
      BY <1>2, <1>3, <2>1, <2>3, KpageallocEffect
    <3>2. TailIsFree(g.head)
      <4>1. heap' = g
        BY <1>3, <2>2, <2>3 DEF Allocates, WalkIsSound
      <4>2. QED
        BY <2>3, <4>1
    <3>3. Gives(heap, Visited(heap.head), Order(stack), g, r.ptr - HeadSize, bytes)
      <4> HIDE DEF r
      <4>1. r = AfterKpagealloc(heap, bytes)
        BY DEF r
      <4>2. QED
        BY <1>2, <2>1, <2>3, <3>2, <4>1, KpageallocGives
    <3>4. QED
      BY <3>1, <3>3 DEF HeadSize
  <2> HIDE DEF fits, r
  <2>4. Allocates(fits, r, bytes)
    BY <2>2 DEF fits, r
  <2>5. QED
    BY <1>1, <2>1, <2>3, <2>4, PushStep
<1>8. QED
  BY <1>5, <1>6, <1>7 DEF PushBlock

LEMMA TopIsOwned ==
  ASSUME NestedInv, stack # << >>
  PROVE  Top \in DOMAIN owned
<1>1. stack \in Seq(DOMAIN owned)
  BY DEF NestedInv, NestedOK, StackOK
<1>2. QED
  BY <1>1 DEF Top

LEMMA ResizeTopStep ==
  ASSUME NestedInv, NEW size \in Sizes, ResizeTop(size)
  PROVE  /\ NestedInv' /\ UNCHANGED stack
         /\ Top \in DOMAIN owned /\ owned' = With(owned, Top, size)
<1>1. /\ NestedOK(heap, owned, stack) /\ wild = FALSE
      /\ Top \in DOMAIN owned /\ size \in Nat \ {0} /\ stack' = stack
  BY TopIsOwned, RequestsAssumption DEF NestedInv, ResizeTop
<1>2. /\ Top - HeadSize \in Visited(heap.head) \ {HeapEnd}
      /\ Top - HeadSize \in DOMAIN heap.head
  BY <1>1, NestedFacts DEF Visited
<1>3. AreaSize(heap.head, Top - HeadSize) \in Nat
  BY <1>1, <1>2, SoundHeapFacts DEF NestedOK
<1>4. AreaSize(heap.head, Top - HeadSize) >= size /\ Krealloc(Top, size)
  BY DEF ResizeTop
<1>5. Keeps(Top, size)
  BY <1>1, <1>2, <1>3, <1>4 DEF Krealloc, Moves
<1>6. /\ heap' = [heap EXCEPT !.head = Overwritten(heap.head, Top, size)]
      /\ owned' = With(owned, Top, size) /\ wild' = wild
  BY <1>5 DEF Keeps
<1> DEFINE g == [head |-> Overwritten(heap.head, Top, size), mapped |-> heap.mapped]
<1>7. size <= AreaSize(heap.head, Top - HeadSize)
  BY <1>1, <1>3, <1>4
<1>8. NestedOK(g, owned', stack)
  <2> HIDE DEF Top
  <2>1. g = [head |-> Overwritten(heap.head, Top, size), mapped |-> heap.mapped]
    OBVIOUS
  <2> HIDE DEF g
  <2>2. QED
    BY <1>1, <1>6, <1>7, <2>1, BlockKept
<1>9. heap' = g
  BY <1>6, <1>1 DEF NestedOK
<1>10. QED
  BY <1>1, <1>6, <1>8, <1>9 DEF NestedInv

LEMMA PopBlockStep ==
  ASSUME NestedInv, PopBlock
  PROVE  NestedInv' /\ Top \in DOMAIN owned /\ owned' = Without(owned, Top)
<1>1. /\ NestedOK(heap, owned, stack) /\ wild = FALSE /\ stack # << >>
      /\ Kfree(Top) /\ stack' = Popped(stack)
  BY DEF NestedInv, PopBlock, Popped
<1> DEFINE a == Top - HeadSize
           g == [head |-> AfterKfree(heap.head, a), mapped |-> heap.mapped]
<1>2. /\ Top \in DOMAIN owned
      /\ KfreeDerefs(heap.head, a) \subseteq DOMAIN heap.head
      /\ NestedOK(g, Without(owned, Top), Popped(stack))
  <2>1. Top = stack[Len(stack)] /\ a = Top - HeadSize
        /\ g = [head |-> AfterKfree(heap.head, a), mapped |-> heap.mapped]
    BY DEF Top
  <2> HIDE DEF a, g
  <2>2. QED
    BY <1>1, <2>1, BlockTakenBack
<1>3. /\ heap' = [heap EXCEPT !.head = AfterKfree(heap.head, a)]
      /\ owned' = Without(owned, Top) /\ wild' = wild
  BY <1>1, <1>2 DEF Kfree
<1>4. heap' = g
  BY <1>1, <1>3 DEF NestedOK
<1>5. QED
  BY <1>1, <1>2, <1>3, <1>4 DEF NestedInv
LEMMA NestedNext_Inv == NestedInv /\ [NestedNext]_nestedVars => NestedInv'
<1> SUFFICES ASSUME NestedInv, [NestedNext]_nestedVars PROVE NestedInv'
  OBVIOUS
<1>1. CASE PushBlock
  BY <1>1, PushBlockStep
<1>2. CASE PopBlock
  BY <1>2, PopBlockStep
<1>3. ASSUME NEW size \in Sizes, ResizeTop(size) PROVE NestedInv'
  BY <1>3, ResizeTopStep
<1>4. CASE UNCHANGED nestedVars
  <2>1. heap' = heap /\ owned' = owned /\ wild' = wild /\ stack' = stack
    BY <1>4 DEF nestedVars
  <2>2. QED
    BY <2>1 DEF NestedInv
<1>5. QED
  BY <1>1, <1>2, <1>3, <1>4 DEF NestedNext

LEMMA NestedInvHolds == NestedSpec => []NestedInv
  BY NestedInit_Inv, NestedNext_Inv, PTL DEF NestedSpec

-----------------------------------------------------------------------------
(* The headers, blocks and mappings are where they can be.                 *)
THEOREM NestedTypeCorrect == NestedSpec => []TypeOK
<1>1. NestedInv => TypeOK
  <2>1. NestedInv => HeapInv
    BY InvParts DEF NestedInv, NestedOK, SoundHeap
  <2>2. QED
    BY <2>1 DEF HeapInv
<1>2. QED
  BY <1>1, NestedInvHolds, PTL

(* For callers that use the heap like a stack no call ever takes anything  *)
(* but a header for one, wherever the pointers lead it.                    *)
THEOREM HeadersAreSound == NestedSpec => []HeadsAreHeads
<1>1. NestedInv => HeadsAreHeads
  BY DEF NestedInv, HeadsAreHeads
<1>2. QED
  BY <1>1, NestedInvHolds, PTL

(* The used areas of the list are the blocks the callers own.              *)
THEOREM UsedBitsAreRight == NestedSpec => []UsedAreasAreOwned
<1>1. NestedInv => UsedAreasAreOwned
  BY DEF NestedInv, NestedOK, UsedAreasAreOwned
<1>2. QED
  BY <1>1, NestedInvHolds, PTL

(* Every block is as long as was asked for: the sizes kmalloc() and        *)
(* kpagealloc() compute hold the request and the headers.                  *)
THEOREM BlocksAreLongEnough == NestedSpec => []BlockHoldsRequest
<1>1. NestedInv => BlockHoldsRequest
  <2> SUFFICES ASSUME NestedInv, NEW p \in DOMAIN owned
               PROVE  /\ p - HeadSize \in DOMAIN heap.head
                      /\ owned[p] <= AreaSize(heap.head, p - HeadSize)
    BY DEF BlockHoldsRequest
  <2> DEFINE a == p - HeadSize
  <2>1. NestedOK(heap, owned, stack)
    BY DEF NestedInv
  <2>2. /\ a \in Visited(heap.head) \ {HeapEnd} /\ p \in Nat /\ p = a + 8
        /\ owned[p] \in Nat /\ heap.head[a].next \in Nat
        /\ p + owned[p] <= heap.head[a].next
    BY <2>1, NestedFacts
  <2>3. AreaSize(heap.head, a) = heap.head[a].next - a - 8
    BY <2>1, <2>2, SoundHeapFacts DEF NestedOK
  <2>4. a \in DOMAIN heap.head
    BY <2>2 DEF Visited
  <2>5. a \in Int
    BY <2>2 DEF HeadSize
  <2> HIDE DEF a
  <2>6. owned[p] <= AreaSize(heap.head, a)
    BY <2>2, <2>3, <2>5
  <2>7. QED
    BY <2>4, <2>6 DEF a
<1>2. QED
  BY <1>1, NestedInvHolds, PTL

(* Every page of a block is mapped, though the loops that map pages run    *)
(* only when an area is split.                                             *)
THEOREM BlocksCanBeWritten == NestedSpec => []BlocksAreMapped
<1>1. NestedInv => BlocksAreMapped
  <2> SUFFICES ASSUME NestedInv, NEW p \in DOMAIN owned, NEW page \in Pages,
                      page < p + owned[p]
               PROVE  page \in heap.mapped
    BY DEF BlocksAreMapped
  <2>1. NestedOK(heap, owned, stack)
    BY DEF NestedInv
  <2>2. /\ heap.head[p - HeadSize].next \in Visited(heap.head) \ {HeapEnd}
        /\ heap.head[p - HeadSize].next \in Nat
        /\ p + owned[p] <= heap.head[p - HeadSize].next
        /\ p \in Nat /\ owned[p] \in Nat
    BY <2>1, NestedFacts
  <2>3. page <= heap.head[p - HeadSize].next
    BY <2>2, PagesInHeap
  <2>4. QED
    BY <2>1, <2>2, <2>3 DEF NestedOK, SoundHeap
<1>2. QED
  BY <1>1, NestedInvHolds, PTL

(* merge_free_areas() puts the heap together again: when everything is     *)
(* given back, one free area is left.                                      *)
THEOREM HeapIsWholeAgain == NestedSpec => []NothingOwnedIsOneArea
<1>1. NestedInv => NothingOwnedIsOneArea
  <2> SUFFICES ASSUME NestedInv, DOMAIN owned = {}
               PROVE  Visited(heap.head) = {HeapStart, HeapEnd}
    BY DEF NothingOwnedIsOneArea
  <2> DEFINE S == Visited(heap.head)
  <2>1. /\ ListInv(heap.head, S, Order(stack))
        /\ DOMAIN owned = {a + HeadSize : a \in {b \in S : heap.head[b].used}}
    BY DEF NestedInv, NestedOK, SoundHeap
  <2>2. \A a \in S : ~ heap.head[a].used
    BY <2>1
  <2>3. \A a \in S \ {HeapStart, HeapEnd} : FALSE
    BY <2>1, <2>2 DEF ListInv, Rest, PageHead
  <2>4. HeapStart \in S /\ HeapEnd \in S
    BY <2>1 DEF ListInv, Linked
  <2>5. QED
    BY <2>3, <2>4
<1>2. QED
  BY <1>1, NestedInvHolds, PTL

-----------------------------------------------------------------------------
(* The calls implement the abstract store: blocks of the heap's memory, as *)
(* long as was asked for and apart from each other, until they are given   *)
(* back.                                                                   *)
LEMMA GivenBeside ==
  ASSUME NEW h, NEW blocks, NEW s, NestedOK(h, blocks, s), NEW p \in DOMAIN blocks,
         NEW others, p \notin DOMAIN others, blocks = With(others, p, blocks[p])
  PROVE  /\ p \in Store!Addresses
         /\ blocks \in Store!Beside(others, p, blocks[p])
<1>1. DOMAIN blocks = DOMAIN others \union {p} /\ \A q \in DOMAIN others : blocks[q] = others[q]
  BY DEF With
<1>2. /\ p \in Nat /\ p % 8 = 0 /\ blocks[p] \in Nat \ {0}
      /\ p - HeadSize \in Visited(h.head) /\ p = (p - HeadSize) + 8
      /\ p + blocks[p] <= h.head[p - HeadSize].next
      /\ h.head[p - HeadSize].next \in Nat /\ h.head[p - HeadSize].next < HeapEnd
  BY NestedFacts
<1>3. HeapStart <= p - HeadSize /\ HeapStart \in Nat /\ HeapEnd \in Nat
  BY <1>2, LinkedOrder, HeapConstants DEF NestedOK, SoundHeap, ListInv
<1>4. p \in Store!Addresses
  BY <1>2, <1>3 DEF Store!Addresses, HeadSize
<1>5. p + blocks[p] <= HeapEnd
  BY <1>2, <1>3
<1>6. ASSUME NEW q \in DOMAIN others PROVE Store!Apart(p, blocks[p], q, others[q])
  BY <1>1, <1>6, BlocksApart DEF Store!Apart
<1>7. blocks = [q \in DOMAIN others \union {p} |-> IF q = p THEN blocks[p] ELSE others[q]]
  BY DEF With
<1>8. QED
  BY <1>4, <1>5, <1>6, <1>7 DEF Store!Beside

THEOREM NestedImplementsStore == NestedSpec => ImplementsBlockStore
<1>1. NestedInit => Store!StoreInit
  BY DEF NestedInit, Init, Store!StoreInit
<1>2. NestedInv /\ NestedInv' /\ [NestedNext]_nestedVars => [Store!StoreNext]_owned
  <2> SUFFICES ASSUME NestedInv, NestedInv', [NestedNext]_nestedVars, owned' # owned
               PROVE  Store!StoreNext
    OBVIOUS
  <2>1. NestedOK(heap', owned', stack') /\ NestedOK(heap, owned, stack)
    BY DEF NestedInv
  <2>2. CASE PushBlock
    <3>1. PICK size \in StoreSizes : \E p : p \notin DOMAIN owned /\ owned' = With(owned, p, size)
      BY <2>2, PushBlockStep
    <3>2. PICK p : p \notin DOMAIN owned /\ owned' = With(owned, p, size)
      BY <3>1
    <3>3. p \in DOMAIN owned' /\ owned'[p] = size
      BY <3>2 DEF With
    <3>4. p \in Store!Addresses /\ owned' \in Store!Beside(owned, p, size)
      BY <2>1, <3>2, <3>3, GivenBeside
    <3>5. Store!Give(p, size)
      BY <3>2, <3>4 DEF Store!Give
    <3>6. QED
      BY <3>4, <3>5 DEF Store!StoreNext, StoreSizes
  <2>3. CASE PopBlock
    <3>1. Top \in DOMAIN owned /\ owned' = Without(owned, Top)
      BY <2>3, PopBlockStep
    <3>2. Store!TakeBack(Top)
      BY <3>1 DEF Without, Store!TakeBack, Store!Without
    <3>3. QED
      BY <3>1, <3>2 DEF Store!StoreNext
  <2>4. ASSUME NEW size \in Sizes, ResizeTop(size) PROVE Store!StoreNext
    <3> DEFINE others == Without(owned, Top)
    <3>1. Top \in DOMAIN owned /\ owned' = With(owned, Top, size)
      BY <2>4, ResizeTopStep
    <3>2. /\ Top \notin DOMAIN others /\ owned' = With(others, Top, size)
          /\ Top \in DOMAIN owned' /\ owned'[Top] = size
      BY <3>1 DEF With, Without
    <3>3. others = Store!Without(Top)
      BY DEF Without, Store!Without
    <3> HIDE DEF others
    <3>4. Top \in Store!Addresses /\ owned' \in Store!Beside(others, Top, size)
      BY <2>1, <3>2, GivenBeside
    <3>5. Store!Resize(Top, Top, size)
      BY <3>3, <3>4 DEF Store!Resize
    <3>6. QED
      BY <3>1, <3>4, <3>5 DEF Store!StoreNext
  <2>5. CASE UNCHANGED nestedVars
    BY <2>5 DEF nestedVars
  <2>6. QED
    BY <2>2, <2>3, <2>4, <2>5 DEF NestedNext
<1>3. QED
  BY <1>1, <1>2, NestedInvHolds, PTL DEF NestedSpec, ImplementsBlockStore, Store!StoreSpec

-----------------------------------------------------------------------------
(* The heap as the self test of kernel_main() uses it: it does not give    *)
(* the blocks back in the reverse order, and then prev pointers go wrong.  *)

(* A heap whose list is S, whatever its prev pointers say.                 *)
PlainHeap(h, S) ==
  /\ HeapOK(h) /\ Linked(h.head, S)
  /\ \A x \in S : h.head[x] \in Headers
  /\ \A x \in S \ {HeapEnd}, page \in Pages : page <= x => page \in h.mapped

LEMMA PlainHeapFacts ==
  ASSUME NEW h, NEW S, PlainHeap(h, S)
  PROVE  /\ Visited(h.head) = S
         /\ WalkDerefs(h.head) \subseteq DOMAIN h.head
         /\ FreeAreas(h.head) = {a \in S \ {HeapEnd} : ~ h.head[a].used}
         /\ \A a \in S \ {HeapEnd} : /\ AreaSize(h.head, a) = h.head[a].next - a - 8
                                     /\ AreaSize(h.head, a) \in Nat
                                     /\ h.head[a].next # NULL
<1>1. Linked(h.head, S)
  BY DEF PlainHeap
<1>2. Visited(h.head) = S
  <2>1. DOMAIN h.head \subseteq Nat
    BY AddressIsHeap DEF PlainHeap, HeapOK
  <2>2. QED
    BY <1>1, <2>1, LinkedVisited
<1>3. \A a \in S : ~ h.head[a].epsilon <=> a # HeapEnd
  BY <1>1 DEF Linked
<1>4. ASSUME NEW a \in S \ {HeapEnd}
      PROVE  /\ AreaSize(h.head, a) = h.head[a].next - a - 8
             /\ AreaSize(h.head, a) \in Nat
             /\ h.head[a].next # NULL
  <2>1. /\ h.head[a].next \in S /\ a \in Nat /\ h.head[a].next \in Nat
        /\ a + 8 <= h.head[a].next
    BY <1>1, LinkedOrder DEF Linked
  <2>2. h.head[a].next # NULL
    BY <2>1 DEF NULL
  <2>3. AreaSize(h.head, a) = h.head[a].next - a - 8
    BY <1>3, <2>2 DEF AreaSize, HeadSize
  <2>4. QED
    BY <2>1, <2>2, <2>3
<1>5. WalkDerefs(h.head) \subseteq DOMAIN h.head
  BY <1>1, <1>2, <1>3 DEF WalkDerefs, Linked
<1>6. FreeAreas(h.head) = {a \in S \ {HeapEnd} : ~ h.head[a].used}
  BY <1>2, <1>3 DEF FreeAreas
<1>7. QED
  BY <1>2, <1>4, <1>5, <1>6

(* What kmalloc() does to the list: area fit is in use now, and what it    *)
(* does not need of a large one is the new area right behind it.           *)
Taken(h, S, g, T, fit, new, size) ==
  /\ fit \in S \ {HeapEnd} /\ ~ h.head[fit].used
  /\ \/ T = S /\ new = h.head[fit].next
     \/ /\ T = S \union {new} /\ new \notin S
        /\ g.head[new].next = h.head[fit].next /\ g.head[new].prev = fit
        /\ ~ g.head[new].used
  /\ \A x \in S : /\ g.head[x].next = IF x = fit THEN new ELSE h.head[x].next
                  /\ g.head[x].prev = h.head[x].prev
                  /\ g.head[x].used <=> h.head[x].used \/ x = fit
  /\ fit + 8 + size <= new

(* The best fit is taken in whole, or its front with the rest as a new     *)
(* area; what the caller writes there is in it.                            *)
LEMMA KmallocTakes ==
  ASSUME NEW h, NEW S, PlainHeap(h, S),
         NEW size \in Nat, size + 2 * HeadSize <= Modulus, KmallocFits(h.head, size) # {},
         NEW n \in Nat, n <= size,
         NEW r, r = AfterKmalloc(h, size),
         NEW g, g = [head |-> Overwritten(r.head, r.ptr, n), mapped |-> r.mapped]
  PROVE  LET fit == r.ptr - HeadSize
             pad == PaddedSize(size)
         IN  \E T, new :
               /\ PlainHeap(g, T) /\ Taken(h, S, g, T, fit, new, size)
               /\ pad < AreaSize(h.head, fit)
               /\ IF AreaSize(h.head, fit) - pad > 16 THEN new = fit + pad /\ new \notin S
                                                      ELSE new = h.head[fit].next
<1> DEFINE head  == h.head
           fit   == BestFit(head, KmallocFits(head, size))
           pad   == PaddedSize(size)
           new   == fit + pad
           after == head[fit].next
           split == AreaSize(head, fit) - pad > 2 * HeadSize
<1>1. pad \in Nat /\ pad % 8 = 0 /\ size + 8 <= pad
  BY PaddedSizeBounds
<1>2. fit \in S \ {HeapEnd} /\ ~ head[fit].used /\ AreaSize(head, fit) > pad
  <2>1. \A a \in KmallocFits(head, size) :
          a \in S \ {HeapEnd} /\ ~ head[a].used /\ AreaSize(head, a) > pad
    BY PlainHeapFacts DEF KmallocFits
  <2>2. \A a \in S : a \in Nat
    BY LinkedOrder DEF PlainHeap
  <2>3. \A a \in KmallocFits(head, size) : AreaSize(head, a) \in Nat /\ a \in Nat
    BY <2>1, <2>2, PlainHeapFacts
  <2>4. fit \in KmallocFits(head, size)
    BY <2>3, BestFitFits
  <2>5. QED
    BY <2>1, <2>4
<1>3. /\ r.ptr = fit + HeadSize
      /\ r.head = SetUsed(IF split THEN SetNext(WithHead(head, new, Header(after, fit)), fit, new)
                                   ELSE head, fit, TRUE)
      /\ r.mapped = IF split THEN h.mapped \union PagesThrough(fit, new) ELSE h.mapped
  BY DEF AfterKmalloc
<1> HIDE DEF fit, pad
<1>4. Linked(head, S) /\ \A x \in S : head[x] \in Headers
  BY DEF PlainHeap
<1>5. /\ \A x \in S : x \in Nat /\ x \in DOMAIN head
      /\ after \in S /\ fit < after /\ fit \in Nat /\ after \in Nat
      /\ \A x \in S : x <= fit \/ after <= x
      /\ AreaSize(head, fit) = after - fit - 8
      /\ fit \in Addresses /\ after \in Addresses
  BY <1>2, <1>4, LinkedOrder, PlainHeapFacts DEF Linked
<1>6. r.ptr - HeadSize = fit
  BY <1>3, <1>5 DEF HeadSize
<1>7. HeapOK(g)
  <2>1. HeapOK(r)
    BY PlainHeapFacts, KmallocEffect DEF PlainHeap
  <2>2. DOMAIN Overwritten(r.head, r.ptr, n) \subseteq DOMAIN r.head
    BY OverwrittenDomain
  <2>3. QED
    BY <2>1, <2>2, FewerHeads
<1>8. g.mapped = r.mapped /\ g.head = Overwritten(r.head, fit + 8, n)
  BY <1>3 DEF HeadSize
<1>9. ASSUME NEW x \in DOMAIN r.head, x \in Nat,
             x <= fit \/ fit + 8 + size <= x
      PROVE  x \in DOMAIN g.head /\ g.head[x] = r.head[x]
  <2>1. x + HeadSize <= fit + 8 \/ fit + 8 + n <= x
    BY <1>5, <1>9 DEF HeadSize
  <2>2. QED
    BY <1>8, <2>1, OverwrittenFields
<1>10. CASE split
  <2> DEFINE h1 == WithHead(head, new, Header(after, fit))
             h2 == SetNext(h1, fit, new)
             T  == S \union {new}
  <2>1. /\ new \in Addresses /\ new \in Nat /\ fit < new /\ new < after /\ fit + 8 + size <= new
    <3>1. new \in Nat /\ fit < new /\ new < after /\ fit + 8 + size <= new
      BY <1>1, <1>5, <1>10 DEF HeadSize
    <3>2. new % 8 = 0
      BY <1>1, <1>5 DEF Addresses
    <3>3. QED
      BY <1>5, <3>1, <3>2, HeapConstants DEF Addresses
  <2>2. AreaSize(head, fit) - pad > 16 /\ new = fit + pad
    BY <1>10 DEF HeadSize
  <2> HIDE DEF new
  <2>3. /\ DOMAIN h1 = DOMAIN head \union {new}
        /\ h1[new] \in Headers /\ h1[new].next = after /\ h1[new].prev = fit
        /\ ~ h1[new].used /\ ~ h1[new].epsilon
        /\ \A x \in DOMAIN head : x # new => h1[x] = head[x]
    BY <1>5 DEF WithHead, Header, Headers
  <2> HIDE DEF h1
  <2>4. fit \in DOMAIN h1 /\ h1[fit] = head[fit] /\ h1[fit] \in Headers
    BY <1>2, <1>4, <1>5, <2>1, <2>3
  <2>5. /\ DOMAIN h2 = DOMAIN h1
        /\ h2[fit] \in Headers /\ h2[fit].next = new /\ h2[fit].prev = head[fit].prev
        /\ (h2[fit].used <=> head[fit].used) /\ (h2[fit].epsilon <=> head[fit].epsilon)
        /\ \A x \in DOMAIN h1 : x # fit => h2[x] = h1[x]
    BY <2>1, <2>4 DEF SetNext, Headers
  <2>6. r.head = SetUsed(h2, fit, TRUE)
    BY <1>3, <1>10 DEF h1
  <2> HIDE DEF h2
  <2>7. /\ DOMAIN r.head = DOMAIN head \union {new}
        /\ r.head[fit] \in Headers /\ r.head[fit].next = new /\ r.head[fit].prev = head[fit].prev
        /\ r.head[fit].used /\ (r.head[fit].epsilon <=> head[fit].epsilon)
        /\ \A x \in DOMAIN h2 : x # fit => r.head[x] = h2[x]
    <3>1. fit \in DOMAIN h2 /\ h2[fit] \in Headers
      BY <2>3, <2>4, <2>5
    <3>2. Marked(h2, fit, r.head)
      BY Zenon, <2>6, <3>1, MarkedUsed
    <3>3. QED
      BY <2>3, <2>4, <2>5, <3>2 DEF Marked
  <2>8. \A x \in S : x # fit => r.head[x] = head[x]
    BY <1>5, <2>1, <2>3, <2>5, <2>7
  <2>9. r.head[new] = h1[new]
    BY <2>1, <2>3, <2>5, <2>7, <1>5
  <2>10. \A x \in T : x \in DOMAIN g.head /\ g.head[x] = r.head[x]
    BY <1>5, <1>9, <2>1, <2>7
  <2>11. /\ \A x \in S : /\ g.head[x].next = IF x = fit THEN new ELSE head[x].next
                         /\ g.head[x].prev = head[x].prev
                         /\ g.head[x].epsilon <=> head[x].epsilon
                         /\ g.head[x].used <=> head[x].used \/ x = fit
                         /\ g.head[x] \in Headers
         /\ g.head[new].next = after /\ g.head[new].prev = fit
         /\ ~ g.head[new].epsilon /\ ~ g.head[new].used /\ g.head[new] \in Headers
    BY <1>4, <2>3, <2>7, <2>8, <2>9, <2>10
  <2>12. Linked(g.head, T) /\ new \notin S
    <3>1. T \subseteq DOMAIN g.head /\ after = head[fit].next
      BY <2>10
    <3>2. ~ g.head[HeapEnd].used
      BY <1>2, <1>4, <2>11 DEF Linked
    <3> HIDE DEF after, head
    <3>3. QED
      BY <1>2, <1>4, <2>1, <2>11, <3>1, <3>2, LinkedInsert
  <2>13. Taken(h, S, g, T, fit, new, size)
    BY <1>2, <2>1, <2>11, <2>12 DEF Taken
  <2>14. ASSUME NEW x \in T \ {HeapEnd}, NEW page \in Pages, page <= x PROVE page \in g.mapped
    <3>1. g.mapped = h.mapped \union PagesThrough(fit, new)
      BY <1>3, <1>8, <1>10
    <3>2. page \in Nat
      BY HeapConstants DEF Pages
    <3>3. CASE page <= fit
      BY <1>2, <3>1, <3>3 DEF PlainHeap
    <3>4. CASE fit < page
      <4>1. CASE x = new
        <5>1. PageOf(fit) <= fit /\ PageOf(fit) \in Nat
          BY <1>5, AddressIsHeap, PageOfAddress
        <5>2. page \in PagesThrough(fit, new)
          BY <1>5, <2>14, <3>2, <3>4, <4>1, <5>1 DEF PagesThrough
        <5>3. QED
          BY <3>1, <5>2
      <4>2. CASE x \in S
        BY <2>14, <3>1, <4>2 DEF PlainHeap
      <4>3. QED
        BY <4>1, <4>2
    <3>5. QED
      BY <1>5, <3>2, <3>3, <3>4
  <2>15. PlainHeap(g, T)
    BY <1>7, <2>11, <2>12, <2>14 DEF PlainHeap
  <2>16. QED
    BY <1>2, <1>6, <2>2, <2>12, <2>13, <2>15 DEF pad
<1>11. CASE ~ split
  <2>1. r.head = SetUsed(head, fit, TRUE) /\ r.mapped = h.mapped
    BY <1>3, <1>11
  <2>2. /\ DOMAIN r.head = DOMAIN head
        /\ r.head[fit] \in Headers /\ r.head[fit].next = after /\ r.head[fit].prev = head[fit].prev
        /\ r.head[fit].used /\ (r.head[fit].epsilon <=> head[fit].epsilon)
        /\ \A x \in DOMAIN head : x # fit => r.head[x] = head[x]
    <3>1. fit \in DOMAIN head /\ head[fit] \in Headers
      BY <1>2, <1>4, <1>5
    <3>2. Marked(head, fit, r.head)
      BY Zenon, <2>1, <3>1, MarkedUsed
    <3>3. QED
      BY <1>2, <1>4, <1>5, <3>2 DEF Marked
  <2>3. fit + 8 + size <= after
    BY <1>1, <1>2, <1>5
  <2>4. \A x \in S : x \in DOMAIN g.head /\ g.head[x] = r.head[x]
    BY <1>5, <1>9, <2>2, <2>3
  <2>5. \A x \in S : /\ g.head[x].next = head[x].next
                     /\ g.head[x].prev = head[x].prev
                     /\ g.head[x].epsilon <=> head[x].epsilon
                     /\ g.head[x].used <=> head[x].used \/ x = fit
                     /\ g.head[x] \in Headers
    BY <1>4, <1>5, <2>2, <2>4
  <2>6. Linked(g.head, S)
    BY <1>2, <1>4, <2>4, <2>5 DEF Linked
  <2>7. Taken(h, S, g, S, fit, after, size)
    BY <1>2, <2>3, <2>5 DEF Taken
  <2>8. g.mapped = h.mapped
    BY <1>8, <2>1
  <2>9. PlainHeap(g, S)
    BY <1>7, <2>5, <2>6, <2>8 DEF PlainHeap
  <2>10. ~ AreaSize(head, fit) - pad > 16
    BY <1>11 DEF HeadSize
  <2>11. QED
    BY <1>2, <1>6, <2>7, <2>9, <2>10 DEF pad
<1>12. QED
  BY <1>10, <1>11

(* A caller writes its area: no header of the list is in it.               *)
LEMMA PlainAreaWritten ==
  ASSUME NEW h, NEW S, PlainHeap(h, S),
         NEW a \in S \ {HeapEnd}, NEW n \in Nat, n <= AreaSize(h.head, a),
         NEW g, g = [head |-> Overwritten(h.head, a + HeadSize, n), mapped |-> h.mapped]
  PROVE  PlainHeap(g, S) /\ \A x \in S : g.head[x] = h.head[x]
<1>1. Linked(h.head, S)
  BY DEF PlainHeap
<1>2. /\ \A x \in S : x \in Nat /\ x \in DOMAIN h.head
      /\ \A x \in S : x <= a \/ h.head[a].next <= x
      /\ a + 8 + n <= h.head[a].next
      /\ h.head[a].next \in Nat /\ HeapStart \in S
  <2>1. /\ \A x \in S : x \in Nat /\ x \in DOMAIN h.head
        /\ \A x \in S : x <= a \/ h.head[a].next <= x
        /\ h.head[a].next \in S /\ HeapStart \in S
    BY <1>1, LinkedOrder DEF Linked
  <2>2. AreaSize(h.head, a) = h.head[a].next - a - 8
    BY PlainHeapFacts
  <2>3. QED
    BY <2>1, <2>2
<1>3. \A x \in S : x + HeadSize <= a + HeadSize \/ a + HeadSize + n <= x
  BY <1>2 DEF HeadSize
<1>4. g.head = Overwritten(h.head, a + HeadSize, n) /\ g.mapped = h.mapped
  OBVIOUS
<1>5. \A x \in S : x \in DOMAIN g.head /\ g.head[x] = h.head[x]
  BY <1>2, <1>3, <1>4, OverwrittenFields
<1>6. HeapOK(g)
  BY <1>4, OverwrittenDomain, FewerHeads DEF PlainHeap
<1>7. Linked(g.head, S)
  BY <1>1, <1>5 DEF Linked
<1>8. QED
  BY <1>4, <1>5, <1>6, <1>7 DEF PlainHeap

(* One area less in the list.                                              *)
LEMMA LinkedRemove ==
  ASSUME NEW head, NEW S, Linked(head, S),
         NEW a \in S \ {HeapEnd}, NEW c \in S \ {HeapEnd}, head[a].next = c,
         NEW g, S \ {c} \subseteq DOMAIN g,
         \A x \in S \ {c} : /\ g[x].next = IF x = a THEN head[c].next ELSE head[x].next
                            /\ g[x].epsilon <=> head[x].epsilon,
         ~ g[HeapEnd].used
  PROVE  Linked(g, S \ {c})
<1> DEFINE T == S \ {c}
<1>1. /\ \A x \in S : x \in Nat /\ HeapStart <= x
      /\ \A x \in S \ {HeapEnd} : head[x].next \in S /\ x < head[x].next
                                 /\ \A y \in S : y <= x \/ head[x].next <= y
      /\ HeapStart \in Nat /\ HeapEnd \in Nat
  BY LinkedOrder, HeapConstants DEF Linked
<1>2. \A x \in S \ {HeapEnd} : head[x].next = c => x = a
  BY LinkedOrder
<1>3. a < c /\ a # c /\ c # HeapStart /\ c < head[c].next /\ head[c].next \in T
  BY <1>1
<1>4. /\ T \subseteq DOMAIN g /\ T \subseteq Addresses
      /\ HeapStart \in T /\ HeapEnd \in T /\ HeapStart # HeapEnd
      /\ \A x \in T : g[x].epsilon <=> x = HeapEnd
      /\ ~ g[HeapEnd].used
  BY <1>3 DEF Linked
<1>5. ASSUME NEW x \in T \ {HeapEnd}
      PROVE  /\ g[x].next \in T /\ x < g[x].next
             /\ \A b \in T : b <= x \/ g[x].next <= b
  <2>1. CASE x = a
    <3>1. g[x].next = head[c].next
      BY <2>1, <1>3
    <3>2. \A b \in T : b <= c => b <= a
      BY <1>1, <1>3
    <3>3. \A b \in T : b <= c \/ head[c].next <= b
      BY <1>1
    <3>4. head[c].next \in Nat /\ a < head[c].next
      BY <1>1, <1>3
    <3>5. QED
      BY <1>3, <2>1, <3>1, <3>2, <3>3, <3>4
  <2>2. CASE x # a
    BY <1>1, <1>2, <2>2
  <2>3. QED
    BY <2>1, <2>2
<1>6. ASSUME NEW x \in T \ {HeapStart} PROVE \E b \in T \ {HeapEnd} : g[b].next = x
  <2>1. PICK b \in S \ {HeapEnd} : head[b].next = x
    BY DEF Linked
  <2>2. CASE b = c
    BY <1>3, <2>1, <2>2
  <2>3. CASE b # c
    <3>1. b # a
      BY <2>1
    <3>2. QED
      BY <2>1, <2>3, <3>1
  <2>4. QED
    BY <2>2, <2>3
<1>7. QED
  BY <1>4, <1>5, <1>6 DEF Linked

(* What kfree() of area a does to the list when the prev pointer of a is   *)
(* right: b is the area before a, c the one after it, and a is merged with *)
(* the free ones of them.  The area after the result names it in `prev'    *)
(* only if b is free.                                                      *)
BackLinked(head, S, a) ==
  \/ a = HeapStart /\ head[a].prev = NULL
  \/ /\ head[a].prev \in S \ {HeapEnd}
     /\ head[head[a].prev].next = a

FreeBefore(head, a) == a # HeapStart /\ ~ head[head[a].prev].used
FreeAfter(head, a)  == ~ head[head[a].next].used

Result(head, a) == IF FreeBefore(head, a) THEN head[a].prev ELSE a
Behind(head, a) == IF FreeAfter(head, a) THEN head[head[a].next].next ELSE head[a].next

Freed(head, S, new, T, a) ==
  /\ T = S \ ((IF FreeBefore(head, a) THEN {a} ELSE {})
                \union (IF FreeAfter(head, a) THEN {head[a].next} ELSE {}))
  /\ \A x \in T :
       /\ new[x].next = IF x = Result(head, a) THEN Behind(head, a) ELSE head[x].next
       /\ new[x].prev = IF FreeBefore(head, a) /\ x = Behind(head, a) THEN Result(head, a)
                        ELSE head[x].prev
       /\ new[x].used <=> head[x].used /\ x # a
       /\ new[x].epsilon <=> head[x].epsilon

(* kfree() with the area's own prev pointer right: it reads headers only,  *)
(* and the list is the one it was without the areas that were merged away. *)
LEMMA KfreeFrees ==
  ASSUME NEW h, NEW S, PlainHeap(h, S),
         NEW a \in S \ {HeapEnd}, h.head[a].used, BackLinked(h.head, S, a),
         h.head[a].next # HeapEnd,
         NEW g, g = [head |-> AfterKfree(h.head, a), mapped |-> h.mapped]
  PROVE  /\ KfreeDerefs(h.head, a) \subseteq DOMAIN h.head
         /\ \E T : PlainHeap(g, T) /\ Freed(h.head, S, g.head, T, a)
<1> DEFINE head == h.head
           h1   == SetUsed(head, a, FALSE)
           b    == head[a].prev
           c    == head[a].next
           d    == head[c].next
<1>1. /\ HeapOK(h) /\ Linked(head, S)
      /\ \A x \in S : head[x] \in Headers
  BY DEF PlainHeap
<1>2. /\ c \in S \ {HeapEnd} /\ a \in Nat /\ c \in Nat /\ d \in Nat
      /\ a < c /\ c < d /\ d \in S
      /\ \A x \in S : x \in Nat /\ x \in DOMAIN head /\ x # NULL
      /\ \A x \in S \ {HeapEnd} : x < head[x].next /\ head[x].next \in S
      /\ HeapStart \in S /\ HeapEnd \in S /\ HeapStart # HeapEnd
      /\ ~ head[HeapEnd].used
  <2>1. \A x \in S : x \in Nat /\ HeapStart <= x
    BY <1>1, LinkedOrder
  <2>2. HeapStart \in Nat /\ HeapStart > 0
    BY HeapConstants
  <2>3. \A x \in S : x # NULL
    BY <2>1, <2>2 DEF NULL
  <2>4. S \subseteq DOMAIN head
    BY <1>1 DEF Linked
  <2>5. /\ \A x \in S \ {HeapEnd} : x < head[x].next /\ head[x].next \in S
        /\ HeapStart \in S /\ HeapEnd \in S /\ HeapStart # HeapEnd /\ ~ head[HeapEnd].used
    BY <1>1 DEF Linked
  <2>6. c \in S \ {HeapEnd} /\ a < c
    BY <2>5
  <2>7. c < d /\ d \in S
    BY <2>5, <2>6
  <2> HIDE DEF c, d
  <2>8. QED
    BY <2>1, <2>3, <2>4, <2>5, <2>6, <2>7
<1>3. a = HeapStart => b = NULL
  <2>1. ASSUME a = HeapStart, b \in S \ {HeapEnd}, head[b].next = a PROVE FALSE
    <3>1. \A x \in S : HeapStart <= x
      BY <1>1, LinkedOrder
    <3>2. b < HeapStart /\ HeapStart <= b /\ b \in Nat /\ HeapStart \in Nat
      BY <1>2, <2>1, <3>1
    <3>3. QED
      BY <3>2
  <2>2. QED
    BY <2>1 DEF BackLinked
<1>4. a # HeapStart => /\ b \in S \ {HeapEnd} /\ head[b].next = a /\ b < a
                       /\ b # a /\ b # c /\ b # d /\ b # NULL
  <2>1. a # HeapStart => b \in S \ {HeapEnd} /\ head[b].next = a
    BY DEF BackLinked
  <2>2. a # HeapStart => b < a /\ b \in Nat /\ b # NULL
    BY <1>2, <2>1
  <2> HIDE DEF b, c, d
  <2>3. QED
    BY <1>2, <2>1, <2>2
<1>5. /\ DOMAIN h1 = DOMAIN head
      /\ h1[a] \in Headers /\ h1[a].next = c /\ h1[a].prev = b
      /\ ~ h1[a].used /\ (h1[a].epsilon <=> head[a].epsilon)
      /\ \A x \in DOMAIN head : x # a => h1[x] = head[x]
  BY <1>1, <1>2 DEF SetUsed, Headers
<1>6. g.head = Merged(h1, a) /\ g.mapped = h.mapped
  BY DEF AfterKfree
<1>7. KfreeDerefs(head, a) = {a} \union MergeDerefs(h1, a)
  BY <1>2 DEF KfreeDerefs
<1>8. /\ h1[c] = head[c] /\ h1[d] = head[d] /\ c # NULL /\ c # a /\ d # a
      /\ a # HeapStart => h1[b] = head[b]
  <2>1. \A x \in DOMAIN head : x # a => h1[x] = head[x]
    BY <1>5
  <2> HIDE DEF h1, b, c, d
  <2>2. c \in DOMAIN head /\ d \in DOMAIN head /\ c # a /\ d # a /\ c # NULL
    BY <1>2
  <2>3. a # HeapStart => b \in DOMAIN head /\ b # a
    BY <1>2, <1>4
  <2>4. QED
    BY <2>1, <2>2, <2>3
<1>9. TowardsTail(h1, a) <=> FreeAfter(head, a)
  BY <1>5, <1>8 DEF TowardsTail, FreeAfter
<1>10. TowardsRoot(h1, a) <=> FreeBefore(head, a)
  BY <1>3, <1>4, <1>5, <1>8 DEF TowardsRoot, FreeBefore
<1> DEFINE root == FreeBefore(head, a)
           tail == FreeAfter(head, a)
           m    == Result(head, a)
           f    == Behind(head, a)
           T    == S \ ((IF root THEN {a} ELSE {}) \union (IF tail THEN {c} ELSE {}))
<1>11. KfreeDerefs(head, a) \subseteq DOMAIN head
  <2>1. {b, c} \ {NULL} \subseteq DOMAIN head
    BY <1>2, <1>3, <1>4
  <2>2. MergeDerefs(h1, a) \subseteq {b, c, d} \ {NULL}
    <3>1. {h1[a].prev, h1[a].next} \ {NULL} \subseteq {b, c} \ {NULL}
      BY <1>5
    <3>2. TowardsRoot(h1, a) => b # NULL
      BY <1>5 DEF TowardsRoot
    <3>3. h1[h1[a].next].next = d /\ d # NULL
      BY <1>2, <1>5, <1>8
    <3> HIDE DEF h1, b, c, d
    <3>4. QED
      BY <1>5, <1>8, <3>1, <3>2, <3>3 DEF MergeDerefs
  <2>3. QED
    BY <1>2, <1>7, <2>1, <2>2
<1>12. ASSUME NEW x \in T
       PROVE  /\ g.head[x] \in Headers
              /\ g.head[x].next = IF x = m THEN f ELSE head[x].next
              /\ g.head[x].prev = IF root /\ x = f THEN m ELSE head[x].prev
              /\ g.head[x].used <=> head[x].used /\ x # a
              /\ g.head[x].epsilon <=> head[x].epsilon
  <2>1. h1[x] \in Headers /\ x \in DOMAIN h1 /\ x \in S
    BY <1>1, <1>2, <1>5
  <2>2. CASE root /\ tail
    <3>1. g.head = SetPrev(SetNext(h1, b, d), d, b) /\ m = b /\ f = d
      BY <1>5, <1>6, <1>8, <1>9, <1>10, <2>2 DEF Merged, Result, Behind
    <3>2. b \in DOMAIN h1 /\ d \in DOMAIN h1 /\ b # d /\ x # a
      BY <1>2, <1>4, <1>5, <2>2 DEF FreeBefore
    <3>3. h1[x] = head[x]
      BY <1>2, <1>5, <3>2
    <3> HIDE DEF h1, b, d, m, f, root, tail
    <3>4. /\ x # b /\ x # d => g.head[x] = h1[x]
          /\ x = b => g.head[x] = [h1[x] EXCEPT !.next = d]
          /\ x = d => g.head[x] = [h1[x] EXCEPT !.prev = b]
      BY <2>1, <3>1, <3>2 DEF SetNext, SetPrev
    <3>5. b \in Nat /\ d \in Nat
      BY <1>2, <1>4, <2>2 DEF root, FreeBefore
    <3>6. QED
      BY <2>1, <2>2, <3>1, <3>2, <3>3, <3>4, <3>5 DEF Headers
  <2>3. CASE ~ root /\ tail
    <3>1. g.head = SetPrev(SetNext(h1, a, d), c, a) /\ m = a /\ f = d /\ x # c
      BY <1>5, <1>6, <1>8, <1>9, <1>10, <2>3 DEF Merged, Result, Behind
    <3>2. a \in DOMAIN h1 /\ c \in DOMAIN h1
      BY <1>2, <1>5
    <3>3. x # a => h1[x] = head[x]
      BY <1>2, <1>5
    <3> HIDE DEF h1, c, d, m, f, root, tail
    <3>4. /\ x # a => g.head[x] = h1[x]
          /\ x = a => g.head[x] = [h1[x] EXCEPT !.next = d]
      BY <2>1, <3>1, <3>2 DEF SetNext, SetPrev
    <3>5. x = a => (h1[x].epsilon <=> head[x].epsilon) /\ h1[x].prev = head[x].prev /\ ~ h1[x].used
      BY <1>5 DEF b
    <3>6. QED
      BY <1>2, <2>1, <2>3, <3>1, <3>3, <3>4, <3>5 DEF Headers
  <2>4. CASE root /\ ~ tail
    <3>1. g.head = SetNext(SetPrev(h1, c, b), b, c) /\ m = b /\ f = c
      BY <1>5, <1>6, <1>8, <1>9, <1>10, <2>4 DEF Merged, Result, Behind
    <3>2. b \in DOMAIN h1 /\ c \in DOMAIN h1 /\ b # c /\ x # a
      BY <1>2, <1>4, <1>5, <2>4 DEF FreeBefore
    <3>3. h1[x] = head[x]
      BY <1>2, <1>5, <3>2
    <3> HIDE DEF h1, b, c, d, m, f, root, tail
    <3>4. /\ x # b /\ x # c => g.head[x] = h1[x]
          /\ x = b => g.head[x] = [h1[x] EXCEPT !.next = c]
          /\ x = c => g.head[x] = [h1[x] EXCEPT !.prev = b]
      BY <2>1, <3>1, <3>2 DEF SetNext, SetPrev
    <3>5. b \in Nat /\ c \in Nat
      BY <1>2, <1>4, <2>4 DEF root, FreeBefore
    <3>6. QED
      BY <2>1, <2>4, <3>1, <3>2, <3>3, <3>4, <3>5 DEF Headers
  <2>5. CASE ~ root /\ ~ tail
    <3>1. g.head = h1 /\ m = a /\ f = c
      BY <1>5, <1>6, <1>8, <1>9, <1>10, <2>5 DEF Merged, Result, Behind
    <3>2. x # a => h1[x] = head[x]
      BY <1>2, <1>5
    <3> HIDE DEF h1, b, c, d, m, f, root, tail
    <3>3. x = a => /\ (h1[x].epsilon <=> head[x].epsilon) /\ h1[x].prev = head[x].prev
                   /\ ~ h1[x].used /\ h1[x].next = c /\ head[x].next = c
      BY <1>5 DEF b, c
    <3>4. QED
      BY <2>1, <2>5, <3>1, <3>2, <3>3
  <2>6. QED
    BY <2>2, <2>3, <2>4, <2>5
<1>13. Freed(head, S, g.head, T, a)
  BY <1>12 DEF Freed
<1>14. DOMAIN g.head = DOMAIN head /\ HeapOK(g)
  <2>1. DOMAIN g.head = DOMAIN head
    BY <1>5, <1>6 DEF Merged, SetNext, SetPrev
  <2>2. QED
    BY <1>1, <1>6, <2>1 DEF HeapOK
<1>15. HeapEnd \in T /\ ~ g.head[HeapEnd].used
  BY <1>2, <1>12
<1>16. Linked(g.head, T)
  <2> DEFINE k == IF tail THEN [head EXCEPT ![a].next = d] ELSE head
             R == IF tail THEN S \ {c} ELSE S
  <2>1. /\ DOMAIN k = DOMAIN head
        /\ \A x \in S : /\ k[x].next = IF tail /\ x = a THEN d ELSE head[x].next
                        /\ k[x].epsilon <=> head[x].epsilon
                        /\ k[x].used <=> head[x].used
    BY <1>1, <1>2 DEF Headers
  <2> HIDE DEF k, root, tail, c, d, b
  <2>2. Linked(k, R)
    <3>1. CASE tail
      <4>1. S \ {c} \subseteq DOMAIN k /\ ~ k[HeapEnd].used
        BY <1>2, <2>1
      <4>2. \A x \in S \ {c} : /\ k[x].next = IF x = a THEN head[c].next ELSE head[x].next
                               /\ k[x].epsilon <=> head[x].epsilon
        BY <2>1, <3>1 DEF d
      <4>3. Linked(k, S \ {c})
        BY <1>1, <1>2, <4>1, <4>2, LinkedRemove DEF c
      <4>4. QED
        BY <3>1, <4>3
    <3>2. CASE ~ tail
      BY <1>1, <3>2 DEF k
    <3>3. QED
      BY <3>1, <3>2
  <2>3. a \in R \ {HeapEnd} /\ k[a].next = f
    BY <1>2, <1>8, <2>1 DEF Behind, c, d, tail
  <2>4. T \subseteq DOMAIN g.head
    BY <1>2, <1>14
  <2>5. CASE root
    <3>1. b \in R \ {HeapEnd} /\ k[b].next = a /\ m = b /\ a # HeapStart
      BY <1>4, <2>1, <2>5 DEF root, FreeBefore, Result, b
    <3>2. T = R \ {a}
      BY <2>5
    <3>3. \A x \in T : /\ g.head[x].next = IF x = b THEN k[a].next ELSE k[x].next
                       /\ g.head[x].epsilon <=> k[x].epsilon
      BY <1>12, <2>1, <2>3, <3>1, <3>2
    <3> HIDE DEF T, R, f, m
    <3>4. QED
      BY <1>15, <2>2, <2>3, <2>4, <3>1, <3>2, <3>3, LinkedRemove
  <2>6. CASE ~ root
    <3>1. T = R /\ m = a
      BY <2>6 DEF root, Result
    <3>2. \A x \in T : /\ g.head[x].next = k[x].next
                       /\ g.head[x].epsilon <=> k[x].epsilon
      BY <1>12, <2>1, <2>3, <3>1
    <3> HIDE DEF T, R, f, m
    <3>3. QED
      BY <1>15, <2>2, <2>4, <3>1, <3>2 DEF Linked
  <2>7. QED
    BY <2>5, <2>6
<1>17. PlainHeap(g, T)
  BY <1>6, <1>12, <1>14, <1>16 DEF PlainHeap
<1>18. QED
  BY <1>11, <1>13, <1>17
=============================================================================
