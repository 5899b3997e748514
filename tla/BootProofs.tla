----------------------------- MODULE BootProofs -----------------------------
(***************************************************************************)
(* Proofs about start-up, modules EarlyPmm and Boot, for every page size,  *)
(* every place and size of the kernel and every set of memory maps.  The   *)
(* types and UsablePagesAreFree hold for any maps, the other properties    *)
(* for usual ones; what boot.S, late_pmm_init() and kernel_main() do with  *)
(* the result of init_frame_allocator() leaves it as it is.                *)
(***************************************************************************)
EXTENDS Boot, FiniteSetTheorems, NumberLemmas

-----------------------------------------------------------------------------
(* Arithmetic of pages.                                                    *)
LEMMA EarlyConstants ==
  /\ PageSize \in Nat \ {0} /\ PageSize > 1 /\ Word \in Nat \ {0} /\ LongWord \in Nat \ {0}
  /\ KernelStart \in Nat /\ KernelStart < Word /\ KernelSize \in Nat \ {0}
  /\ Word = PageSize * (Word \div PageSize) /\ Word \div PageSize \in Nat
  /\ PageSize >= 8 /\ PageSize <= Word /\ Word >= 16
  /\ KernelStart + PageSize < Word /\ 2 * Word <= LongWord
  /\ KernelStart = PageSize * (KernelStart \div PageSize) /\ KernelStart \div PageSize \in Nat
<1>1. /\ PageSize \in Nat \ {0} /\ PageSize >= 8 /\ Word \in Nat \ {0} /\ LongWord \in Nat \ {0}
      /\ KernelStart \in Nat /\ KernelStart < Word /\ KernelSize \in Nat \ {0}
      /\ KernelStart + PageSize < Word /\ PageSize < Word
      /\ Word % PageSize = 0 /\ KernelStart % PageSize = 0
      /\ LongWord > Word /\ LongWord % Word = 0
  BY PageAssumption, WordAssumption, KernelAssumption
<1>2. Word = PageSize * (Word \div PageSize) /\ Word \div PageSize \in Nat
  BY <1>1, DivisionRemainder
<1>3. KernelStart = PageSize * (KernelStart \div PageSize) /\ KernelStart \div PageSize \in Nat
  BY <1>1, DivisionRemainder
<1>4. Word >= 16
  <2> DEFINE w == Word \div PageSize
  <2>1. w \in Nat /\ Word = PageSize * w
    BY <1>2
  <2> HIDE DEF w
  <2>2. w # 0 /\ w # 1
    BY <1>1, <2>1
  <2>3. PageSize * 2 <= PageSize * w
    BY <1>1, <2>1, <2>2
  <2>4. QED
    BY <1>1, <2>1, <2>3
<1>5. 2 * Word <= LongWord
  <2> DEFINE l == LongWord \div Word
  <2>1. l \in Nat /\ LongWord = Word * l
    BY <1>1, DivisionRemainder
  <2> HIDE DEF l
  <2>2. l # 0 /\ l # 1
    BY <1>1, <2>1
  <2>3. Word * 2 <= Word * l
    BY <1>1, <2>1, <2>2
  <2>4. QED
    BY <1>1, <2>1, <2>3
<1>6. QED
  BY <1>1, <1>2, <1>3, <1>4, <1>5

LEMMA DivCeilCovers ==
  ASSUME NEW a \in Nat, NEW b \in Nat \ {0}
  PROVE  DivCeil(a, b) \in Nat /\ a <= b * DivCeil(a, b)
<1>1. a + b - 1 \in Nat
  OBVIOUS
<1>2. /\ (a + b - 1) \div b \in Nat /\ (a + b - 1) % b \in 0 .. b - 1
      /\ a + b - 1 = b * ((a + b - 1) \div b) + ((a + b - 1) % b)
  BY <1>1, DivisionRemainder
<1>3. QED
  BY <1>2 DEF DivCeil

(* A multiple of a page is divided exactly.                                *)
LEMMA ExactPage ==
  ASSUME NEW q \in Nat
  PROVE  (PageSize * q) \div PageSize = q /\ (PageSize * q) % PageSize = 0
<1>1. 0 \in 0 .. PageSize - 1
  BY EarlyConstants
<1>2. (PageSize * q + 0) \div PageSize = q /\ (PageSize * q + 0) % PageSize = 0
  BY <1>1, EarlyConstants, RemainderUnique
<1>3. PageSize * q + 0 = PageSize * q
  BY EarlyConstants
<1>4. QED
  BY <1>2, <1>3

(* What fits into a word is not cut.                                       *)
LEMMA InWord ==
  ASSUME NEW n \in 0 .. Word - 1
  PROVE  n % Word = n
<1>1. (Word * 0 + n) % Word = n
  BY EarlyConstants, RemainderUnique
<1>2. Word * 0 + n = n
  BY EarlyConstants
<1>3. QED
  BY <1>1, <1>2

LEMMA LeastOf ==
  ASSUME NEW S \in SUBSET Nat, S # {}
  PROVE  Min(S) \in S /\ \A y \in S : Min(S) <= y
  BY LeastNumber DEF Min

-----------------------------------------------------------------------------
(* sanitize_available().                                                   *)
LEMMA MapTypes ==
  ASSUME NEW m \in Seq(Areas), NEW i \in DOMAIN m
  PROVE  m[i] \in Areas /\ m[i].addr \in Nat /\ m[i].length \in Nat /\ m[i].available \in BOOLEAN
<1>1. m[i] \in Areas
  OBVIOUS
<1>2. QED
  BY <1>1 DEF Areas

(* What is left of an area in front of the reserved ones ends where it     *)
(* ended or where one of them begins, and no later than any.               *)
LEMMA Trimmed ==
  ASSUME NEW m \in Seq(Areas), NEW e \in Areas
  PROVE  LET u == UpToReserved(m, e)
         IN  /\ u \in Areas /\ u.addr = e.addr /\ u.available = e.available
             /\ u.length <= e.length
             /\ \A j \in DOMAIN m : ~ m[j].available /\ e.addr < m[j].addr =>
                  u.addr + u.length <= m[j].addr
             /\ \/ u.length = e.length
                \/ \E j \in DOMAIN m : /\ ~ m[j].available /\ e.addr < m[j].addr
                                       /\ u.addr + u.length = m[j].addr
<1> DEFINE S == StartsInside(m, e)
           u == UpToReserved(m, e)
<1>1. e.addr \in Nat /\ e.length \in Nat /\ e.available \in BOOLEAN
  BY DEF Areas
<1>2. \A j \in DOMAIN m : m[j].addr \in Nat
  BY MapTypes
<1>3. S \in SUBSET Nat
  BY <1>2 DEF StartsInside
<1>6. \A j \in DOMAIN m : /\ ~ m[j].available /\ e.addr < m[j].addr
                         /\ m[j].addr < e.addr + e.length => m[j].addr \in S
  BY DEF StartsInside
<1> HIDE DEF S
<1>4. CASE S = {}
  <2>1. u = e
    BY <1>4 DEF UpToReserved, S
  <2>2. ASSUME NEW j \in DOMAIN m, ~ m[j].available, e.addr < m[j].addr
        PROVE  e.addr + e.length <= m[j].addr
    <3>1. ~ (m[j].addr < e.addr + e.length)
      BY <1>4, <1>6, <2>2
    <3>2. QED
      BY <1>1, <1>2, <3>1
  <2>3. QED
    BY <1>1, <2>1, <2>2
<1>5. CASE S # {}
  <2>1. u = [e EXCEPT !.length = Min(S) - e.addr]
    BY <1>5 DEF UpToReserved, S
  <2>2. Min(S) \in S /\ \A y \in S : Min(S) <= y
    BY <1>3, <1>5, LeastOf
  <2>3. PICK k \in DOMAIN m : /\ ~ m[k].available /\ e.addr < m[k].addr
                              /\ m[k].addr < e.addr + e.length /\ Min(S) = m[k].addr
    BY <2>2 DEF StartsInside, S
  <2>4. Min(S) \in Nat
    BY <1>2, <2>3
  <2>5. Min(S) - e.addr \in Nat /\ Min(S) - e.addr <= e.length
    BY <1>1, <1>2, <2>3, <2>4
  <2>6. /\ u.addr = e.addr /\ u.available = e.available /\ u.length = Min(S) - e.addr
        /\ u \in Areas
    BY <1>1, <2>1, <2>5 DEF Areas
  <2>7. ASSUME NEW j \in DOMAIN m, ~ m[j].available, e.addr < m[j].addr
        PROVE  u.addr + u.length <= m[j].addr
    <3>1. CASE m[j].addr < e.addr + e.length
      <4>1. Min(S) <= m[j].addr
        BY <1>6, <2>2, <2>7, <3>1
      <4>2. QED
        BY <1>1, <1>2, <2>4, <2>6, <4>1
    <3>2. CASE ~ (m[j].addr < e.addr + e.length)
      BY <1>1, <1>2, <2>4, <2>5, <2>6, <3>2
    <3>3. QED
      BY <3>1, <3>2
  <2>8. u.addr + u.length = m[k].addr
    BY <1>1, <1>2, <2>3, <2>6
  <2>9. QED
    BY <2>3, <2>5, <2>6, <2>7, <2>8
<1>7. QED
  BY <1>4, <1>5

LEMMA RoundedType ==
  ASSUME NEW e \in Areas
  PROVE  /\ Rounded(e) \in Areas /\ Rounded(e).available = e.available
         /\ e.addr <= Rounded(e).addr
         /\ e.addr % PageSize = 0 => Rounded(e) = e
<1> DEFINE d == PageSize - (e.addr % PageSize)
           start == e.addr + d
           length == (e.length - (PageSize - ((start + e.length) % PageSize))) % LongWord
<1>1. e.addr \in Nat /\ e.length \in Nat /\ e.available \in BOOLEAN
  BY DEF Areas
<1>2. e.addr % PageSize \in 0 .. PageSize - 1
  BY <1>1, EarlyConstants, DivisionRemainder
<1>3. start \in Nat /\ e.addr <= start
  BY <1>1, <1>2, EarlyConstants
<1>4. (start + e.length) % PageSize \in 0 .. PageSize - 1
  <2> HIDE DEF start
  <2> start + e.length \in Nat
    BY <1>1, <1>3
  <2> QED
    BY EarlyConstants, DivisionRemainder
<1>5. length \in Nat
  <2> DEFINE x == e.length - (PageSize - ((start + e.length) % PageSize))
  <2>1. x \in Int
    <3> HIDE DEF start
    <3> QED BY <1>1, <1>4, EarlyConstants
  <2> HIDE DEF x
  <2>2. x % LongWord \in Nat
    BY <2>1, EarlyConstants
  <2>3. QED
    BY <2>2 DEF x
<1>6. Rounded(e) = IF e.addr % PageSize = 0 THEN e
                   ELSE [e EXCEPT !.addr = start, !.length = length]
  BY DEF Rounded
<1> HIDE DEF start, length
<1>7. CASE e.addr % PageSize = 0
  BY <1>1, <1>6, <1>7
<1>8. CASE e.addr % PageSize # 0
  <2>1. Rounded(e) = [e EXCEPT !.addr = start, !.length = length]
    BY <1>6, <1>8
  <2>2. Rounded(e) = [addr |-> start, length |-> length, available |-> e.available]
    BY <2>1 DEF Areas
  <2>3. QED
    BY <1>1, <1>3, <1>5, <1>8, <2>2 DEF Areas
<1>9. QED
  BY <1>7, <1>8

(* The whole pages of a rounded area are pages of the area, if it starts   *)
(* with a page, or ends with one and is no shorter.                        *)
LEMMA RoundedPages ==
  ASSUME NEW u \in Areas, HasWholePages(u)
  PROVE  LET s == Rounded(u)
         IN  /\ s.addr % PageSize = 0
             /\ s.addr + PageSize * (s.length \div PageSize) <= u.addr + u.length
             /\ s.addr + s.length <= u.addr + u.length + PageSize
<1> DEFINE s == Rounded(u)
<1>1. u.addr \in Nat /\ u.length \in Nat
  BY DEF Areas
<1>2. s.addr \in Nat /\ s.length \in Nat
  BY RoundedType DEF Areas
<1>3. /\ s.length \div PageSize \in Nat /\ s.length % PageSize \in 0 .. PageSize - 1
      /\ s.length = PageSize * (s.length \div PageSize) + (s.length % PageSize)
  BY <1>2, EarlyConstants, DivisionRemainder
<1>4. CASE u.addr % PageSize = 0
  <2>1. s = u
    BY <1>4, RoundedType
  <2>2. PageSize * (s.length \div PageSize) <= s.length
    <3> DEFINE q == PageSize * (s.length \div PageSize)
               r == s.length % PageSize
    <3>1. q \in Int /\ r \in Nat /\ s.length = q + r
      BY <1>3, EarlyConstants
    <3> HIDE DEF q, r
    <3>2. q <= s.length
      BY <1>2, <3>1
    <3>3. QED
      BY <3>2 DEF q
  <2>3. PageSize * (s.length \div PageSize) \in Int
    BY <1>3, EarlyConstants
  <2> DEFINE p == PageSize * (s.length \div PageSize)
  <2>4. s.addr + p <= u.addr + u.length
    <3> HIDE DEF p, s
    <3>1. p \in Int /\ p <= u.length /\ s.addr = u.addr
      BY <2>1, <2>2, <2>3 DEF p
    <3>2. QED
      BY <1>1, <3>1
  <2>5. s.addr + s.length <= u.addr + u.length + PageSize
    BY <1>1, <2>1, EarlyConstants
  <2>6. s.addr % PageSize = 0
    BY <1>4, <2>1
  <2>7. QED
    BY <2>4, <2>5, <2>6
<1>5. CASE u.addr % PageSize # 0
  <2> DEFINE r == u.addr % PageSize
             q == u.addr \div PageSize
             end == u.addr + u.length
             w == end \div PageSize
             start == u.addr + (PageSize - r)
             l == u.length - (PageSize - ((start + u.length) % PageSize))
  <2>1. r \in 1 .. PageSize - 1 /\ q \in Nat /\ u.addr = PageSize * q + r
    <3>1. q \in Nat /\ r \in 0 .. PageSize - 1 /\ u.addr = PageSize * q + r
      BY <1>1, EarlyConstants, DivisionRemainder
    <3>2. r # 0
      BY <1>5
    <3> HIDE DEF r, q
    <3>3. QED
      BY <3>1, <3>2, EarlyConstants
  <2>2. end % PageSize = 0 /\ u.length >= PageSize
    BY <1>5 DEF HasWholePages
  <2>3. end \in Nat /\ w \in Nat /\ end = PageSize * w
    <3>1. end \in Nat
      BY <1>1
    <3> HIDE DEF end
    <3>2. w \in Nat /\ end = PageSize * w + (end % PageSize)
      BY <3>1, EarlyConstants, DivisionRemainder
    <3>3. PageSize * w \in Int
      BY <3>2, EarlyConstants
    <3> HIDE DEF w
    <3>4. QED
      BY <2>2, <3>1, <3>2, <3>3
  <2>4. s.addr = start /\ s.length = l % LongWord
    <3>1. s = [u EXCEPT !.addr = start, !.length = l % LongWord]
      BY <1>5 DEF Rounded
    <3> HIDE DEF start, l, s
    <3>2. QED
      BY <3>1 DEF Areas
  <2> HIDE DEF s, q, w
  <2>5. start = PageSize * (q + 1) /\ start \in Nat
    <3>1. PageSize * (q + 1) = PageSize * q + PageSize
      BY <2>1, EarlyConstants
    <3>2. PageSize * q \in Int
      BY <2>1, EarlyConstants
    <3> HIDE DEF r
    <3>3. QED
      BY <1>1, <2>1, <3>1, <3>2, EarlyConstants
  <2>6. (start + u.length) % PageSize = PageSize - r
    <3>1. start + u.length = PageSize * w + (PageSize - r)
      <4>1. start + u.length = end + (PageSize - r)
        BY <1>1, <2>1, EarlyConstants
      <4>2. QED
        BY <2>3, <4>1
    <3>2. PageSize - r \in 0 .. PageSize - 1
      BY <2>1, EarlyConstants
    <3>3. (PageSize * w + (PageSize - r)) % PageSize = PageSize - r
      BY <2>3, <3>2, EarlyConstants, RemainderUnique
    <3>4. QED
      BY <3>1, <3>3
  <2>7. l = u.length - r /\ l \in Nat
    <3>1. l = u.length - (PageSize - (PageSize - r))
      BY <2>6
    <3> HIDE DEF l, r
    <3>2. QED
      BY <1>1, <2>1, <2>2, <3>1, EarlyConstants
  <2>8. s.length <= l
    <3> HIDE DEF l
    <3> DEFINE y == LongWord * (l \div LongWord)
               z == l % LongWord
    <3>1. l \in Nat
      BY <2>7
    <3>4. l \div LongWord \in Nat /\ z \in 0 .. LongWord - 1 /\ l = y + z
      BY <3>1, EarlyConstants, DivisionRemainder
    <3>2. y \in Nat /\ z \in Nat
      BY <3>4, EarlyConstants
    <3> HIDE DEF y, z
    <3>3. z <= l
      BY <3>1, <3>2, <3>4
    <3>5. QED
      BY <2>4, <3>3 DEF z
  <2> HIDE DEF l, r
  <2> DEFINE n == s.length \div PageSize
  <2>9. s.length \in Nat /\ n \in Nat /\ PageSize * n <= s.length
    <3>1. PageSize * n \in Int
      BY <1>3, EarlyConstants
    <3> DEFINE x == s.length % PageSize
               y == PageSize * n
    <3>2. s.length = y + x /\ x \in Nat /\ n \in Nat
      BY <1>3, EarlyConstants
    <3> HIDE DEF x, y, n
    <3>3. y <= s.length
      BY <1>2, <3>1, <3>2 DEF y
    <3>4. QED
      BY <1>2, <3>2, <3>3 DEF y
  <2>10. PageSize * n < PageSize * (w - q)
    <3>1. PageSize * (w - q) = PageSize * w - PageSize * q
      BY <2>1, <2>3, EarlyConstants
    <3>2. PageSize * n \in Int /\ PageSize * w \in Int /\ PageSize * q \in Int
      BY <2>1, <2>3, <2>9, EarlyConstants
    <3>3. PageSize * w = PageSize * q + r + u.length
      BY <1>1, <2>1, <2>3, <3>2
    <3> HIDE DEF n, end, start
    <3>4. PageSize * n <= u.length - r
      BY <1>1, <1>2, <2>1, <2>7, <2>8, <2>9, <3>2
    <3>5. QED
      BY <1>1, <2>1, <3>1, <3>2, <3>3, <3>4
  <2>11. PageSize * n + PageSize <= PageSize * (w - q)
    <3>1. w - q \in Int /\ n \in Int
      BY <2>1, <2>3, <2>9
    <3> HIDE DEF n
    <3>2. QED
      BY <2>10, <3>1, EarlyConstants, MultiplesApart
  <2>12. start + PageSize * n <= end
    <3>1. PageSize * (w - q) = PageSize * w - PageSize * q
      BY <2>1, <2>3, EarlyConstants
    <3>2. PageSize * n \in Int /\ PageSize * w \in Int /\ PageSize * q \in Int
      BY <2>1, <2>3, <2>9, EarlyConstants
    <3>3. start = PageSize * q + PageSize
      BY <2>1, <2>5, EarlyConstants
    <3> HIDE DEF n, end, start
    <3>4. QED
      BY <2>3, <2>11, <3>1, <3>2, <3>3, EarlyConstants
  <2>13. start % PageSize = 0
    <3>1. q + 1 \in Nat
      BY <2>1
    <3>2. QED
      BY <2>5, <3>1, ExactPage
  <2>14. start + s.length <= end + PageSize
    BY <1>1, <1>2, <2>1, <2>7, <2>8, EarlyConstants
  <2>15. QED
    BY <2>4, <2>12, <2>13, <2>14 DEF s
<1>6. QED
  BY <1>4, <1>5

(* Both halves of sanitize_available().                                    *)
LEMMA SanitizedType ==
  ASSUME NEW m \in Seq(Areas), NEW e \in Areas
  PROVE  /\ Sanitized(m, e) \in Areas /\ Sanitized(m, e).available = e.available
         /\ e.addr <= Sanitized(m, e).addr
<1>1. UpToReserved(m, e) \in Areas /\ UpToReserved(m, e).addr = e.addr
      /\ UpToReserved(m, e).available = e.available
  BY Trimmed
<1>2. /\ Rounded(UpToReserved(m, e)) \in Areas
      /\ Rounded(UpToReserved(m, e)).available = e.available
      /\ e.addr <= Rounded(UpToReserved(m, e)).addr
  BY <1>1, RoundedType
<1>3. e.addr \in Nat
  BY DEF Areas
<1>4. QED
  BY <1>2, <1>3 DEF Sanitized

(* The whole pages of a usual map's trimmed area: aligned, inside the area *)
(* and in front of every reserved one.                                     *)
PagesEnd(s) == s.addr + PageSize * (s.length \div PageSize)

LEMMA SanitizedPages ==
  ASSUME NEW m \in Seq(Areas), IsUsual(m), NEW i \in DOMAIN m, m[i].available
  PROVE  LET s == Sanitized(m, m[i])
         IN  /\ s.addr % PageSize = 0 /\ m[i].addr <= s.addr
             /\ PagesEnd(s) <= m[i].addr + m[i].length
             /\ s.addr + s.length <= m[i].addr + m[i].length + PageSize
             /\ \A j \in DOMAIN m : ~ m[j].available /\ m[i].addr < m[j].addr =>
                  PagesEnd(s) <= m[j].addr
<1> DEFINE u == UpToReserved(m, m[i])
           s == Sanitized(m, m[i])
<1>1. m[i] \in Areas /\ m[i].addr \in Nat /\ m[i].length \in Nat
  BY MapTypes
<1>2. /\ u \in Areas /\ u.addr = m[i].addr /\ u.length <= m[i].length
      /\ \A j \in DOMAIN m : ~ m[j].available /\ m[i].addr < m[j].addr =>
           u.addr + u.length <= m[j].addr
  BY <1>1, Trimmed
<1>3. HasWholePages(u)
  BY DEF IsUsual
<1>4. s = Rounded(u)
  BY DEF Sanitized
<1>5. s \in Areas /\ m[i].addr <= s.addr
  BY <1>1, SanitizedType
<1>6. s.addr \in Nat /\ s.length \in Nat /\ u.addr \in Nat /\ u.length \in Nat
  BY <1>2, <1>5 DEF Areas
<1> HIDE DEF u, s
<1>7. /\ s.addr % PageSize = 0
      /\ PagesEnd(s) <= u.addr + u.length
      /\ s.addr + s.length <= u.addr + u.length + PageSize
  BY <1>2, <1>3, <1>4, RoundedPages DEF PagesEnd
<1>8. PagesEnd(s) \in Int
  <2>1. s.length \div PageSize \in Int
    BY <1>6, EarlyConstants
  <2>2. PageSize * (s.length \div PageSize) \in Int
    BY <2>1, EarlyConstants
  <2>3. QED
    BY <1>6, <2>2 DEF PagesEnd
<1>9. PagesEnd(s) <= m[i].addr + m[i].length
  BY <1>1, <1>2, <1>6, <1>7, <1>8
<1>10. s.addr + s.length <= m[i].addr + m[i].length + PageSize
  BY SMTT(30), <1>1, <1>2, <1>6, <1>7, EarlyConstants
<1>11. ASSUME NEW j \in DOMAIN m, ~ m[j].available, m[i].addr < m[j].addr
       PROVE  PagesEnd(s) <= m[j].addr
  <2>1. u.addr + u.length <= m[j].addr /\ m[j].addr \in Nat
    BY <1>2, <1>11, MapTypes
  <2>2. QED
    BY <1>6, <1>7, <1>8, <2>1
<1>12. QED
  BY <1>5, <1>7, <1>9, <1>10, <1>11 DEF s

(* The pages whose bits the second loop clears for an entry of the map.    *)
FramesOf(e) == {PageAddress(e, i) \div PageSize : i \in Cleared(e)}

(* They can be named, whatever the entry.                                  *)
LEMMA FramesType ==
  ASSUME NEW e \in Areas
  PROVE  FramesOf(e) \subseteq 0 .. Word \div PageSize - 1
<1> DEFINE w == Word \div PageSize
<1> SUFFICES ASSUME NEW i \in Cleared(e)
             PROVE  PageAddress(e, i) \div PageSize \in 0 .. w - 1
  BY DEF FramesOf
<1> DEFINE x == PageAddress(e, i)
           y == PageSize * (x \div PageSize)
<1>1. e.addr \in Nat /\ e.length \in Nat
  BY DEF Areas
<1>2. i \in Nat
  BY DEF Cleared
<1>3. e.addr + i * PageSize \in Nat
  BY <1>1, <1>2, EarlyConstants
<1>4. x \in 0 .. Word - 1
  BY <1>3, EarlyConstants, DivisionRemainder DEF PageAddress
<1> HIDE DEF x
<1>5. /\ x \div PageSize \in Nat /\ x % PageSize \in 0 .. PageSize - 1
      /\ x = y + (x % PageSize)
  <2>1. x \in Nat /\ PageSize \in Nat \ {0}
    BY <1>4, EarlyConstants
  <2>2. QED
    BY <2>1, DivisionRemainder
<1>6. w \in Nat /\ Word = PageSize * w
  BY EarlyConstants
<1>7. y \in Int
  BY <1>5, EarlyConstants
<1>8. y < PageSize * w
  <2> HIDE DEF y, w
  <2>1. QED
    BY <1>4, <1>5, <1>6, <1>7, EarlyConstants
<1>9. x \div PageSize < w
  <2> DEFINE z == x \div PageSize
  <2>1. z \in Nat /\ PageSize * z < PageSize * w
    BY <1>5, <1>8
  <2> HIDE DEF z, w
  <2>2. z < w
    BY <1>6, <2>1, EarlyConstants
  <2>3. QED
    BY <2>2 DEF z
<1>10. QED
  BY <1>5, <1>6, <1>9 DEF x

(* The addresses of the pages cleared, in a usual map: they are not cut.   *)
LEMMA FramesArePages ==
  ASSUME NEW m \in Seq(Areas), IsUsual(m), NEW i \in DOMAIN m, m[i].available,
         total_size \in Nat, NEW k \in Cleared(Sanitized(m, m[i]))
  PROVE  LET s == Sanitized(m, m[i])
             f == PageAddress(s, k) \div PageSize
         IN  /\ f \in Nat /\ PageSize * f = s.addr + PageSize * k
             /\ PageSize * f + PageSize <= PagesEnd(s)
             /\ PageSize * f = PageAddress(s, k)
             /\ KernelStart <= PageSize * f /\ ~ IsKernelOrBitmap(PageSize * f)
<1> DEFINE s == Sanitized(m, m[i])
           n == s.length \div PageSize
           x == s.addr + PageSize * k
           q == s.addr \div PageSize
<1>1. m[i] \in Areas /\ m[i].addr \in Nat /\ m[i].length \in Nat
  BY MapTypes
<1>2. s \in Areas
  BY <1>1, SanitizedType
<1>3. s.addr \in Nat /\ s.length \in Nat
  BY <1>2 DEF Areas
<1>4. s.addr % PageSize = 0 /\ PagesEnd(s) <= m[i].addr + m[i].length
  BY SanitizedPages
<1>5. m[i].addr + m[i].length <= Word + KernelStart
  BY DEF IsUsual
<1>6. /\ k \in 0 .. NumPages(s) - 1
      /\ ~ IsKernelOrBitmap(PageAddress(s, k)) /\ PageAddress(s, k) >= KernelStart
  BY DEF Cleared
<1> HIDE DEF s
<1>7. n \in Nat
  BY <1>3, EarlyConstants, DivisionRemainder
<1>8. k \in Nat /\ k + 1 <= n
  <2> HIDE DEF n
  <2> DEFINE y == Word * (n \div Word)
             z == n % Word
  <2>1. n \div Word \in Nat /\ z \in 0 .. Word - 1 /\ n = y + z
    <3>1. n \in Nat /\ Word \in Nat \ {0}
      BY <1>7, EarlyConstants
    <3>2. QED
      BY <3>1, DivisionRemainder
  <2>2. y \in Nat
    <3> DEFINE v == n \div Word
    <3>1. v \in Nat
      BY <2>1
    <3> HIDE DEF v
    <3>2. Word * v \in Nat
      BY <3>1, EarlyConstants
    <3>3. QED
      BY <3>2 DEF v
  <2>3. NumPages(s) = z
    BY DEF NumPages, n
  <2> HIDE DEF y, z
  <2>4. k \in 0 .. z - 1
    BY <1>6, <2>3
  <2>5. z \in Nat
    BY <2>1, EarlyConstants
  <2>6. QED
    BY <1>7, <2>1, <2>2, <2>4, <2>5
<1> HIDE DEF n
<1>9. q \in Nat /\ s.addr = PageSize * q
  <2>1. q \in Nat /\ s.addr = PageSize * q + (s.addr % PageSize)
    BY <1>3, EarlyConstants, DivisionRemainder
  <2>2. PageSize * q \in Int
    BY <2>1, EarlyConstants
  <2> HIDE DEF q
  <2>3. QED
    BY <1>4, <2>1, <2>2
<1> HIDE DEF q
<1>10. x = PageSize * (q + k) /\ q + k \in Nat /\ x \in Nat
  <2>1. PageSize * (q + k) = PageSize * q + PageSize * k
    BY <1>8, <1>9, EarlyConstants
  <2>2. q + k \in Nat /\ PageSize * k \in Nat
    BY <1>8, <1>9, EarlyConstants
  <2>3. QED
    BY <1>3, <1>9, <2>1, <2>2
<1>11. x + PageSize <= PagesEnd(s)
  <2>1. PageSize * (k + 1) <= PageSize * n
    BY <1>7, <1>8, EarlyConstants
  <2>2. PageSize * (k + 1) = PageSize * k + PageSize
    BY <1>8, EarlyConstants
  <2>3. PageSize * k \in Int /\ PageSize * n \in Int
    BY <1>7, <1>8, EarlyConstants
  <2>4. PagesEnd(s) = s.addr + PageSize * n
    BY DEF PagesEnd, n
  <2>5. QED
    BY <1>3, <2>1, <2>2, <2>3, <2>4, EarlyConstants
<1>12. PagesEnd(s) \in Int
  <2>1. PageSize * n \in Int
    BY <1>7, EarlyConstants
  <2>2. QED
    BY <1>3, <2>1 DEF PagesEnd, n
<1>13. PageAddress(s, k) = x % Word
  <2>1. k * PageSize = PageSize * k
    BY <1>8, EarlyConstants
  <2>2. QED
    BY <2>1 DEF PageAddress
<1> HIDE DEF x
<1>14. x < Word + KernelStart
  BY <1>1, <1>4, <1>5, <1>10, <1>11, <1>12, EarlyConstants
<1>15. x < Word
  <2> SUFFICES ASSUME x >= Word PROVE FALSE
    BY <1>10, EarlyConstants
  <2>1. x - Word \in 0 .. Word - 1 /\ x - Word < KernelStart
    BY <1>10, <1>14, EarlyConstants
  <2>2. x = Word * 1 + (x - Word)
    BY <1>10, EarlyConstants
  <2>3. x % Word = x - Word
    <3> DEFINE y == x - Word
    <3>1. y \in 0 .. Word - 1 /\ x = Word * 1 + y
      BY <2>1, <2>2
    <3> HIDE DEF y
    <3>2. (Word * 1 + y) % Word = y
      BY <3>1, EarlyConstants, RemainderUnique
    <3>3. QED
      BY <3>1, <3>2 DEF y
  <2>4. QED
    BY <1>6, <1>13, <2>1, <2>3, <1>10, EarlyConstants
<1>16. PageAddress(s, k) = x
  <2>1. x \in 0 .. Word - 1
    BY <1>10, <1>15, EarlyConstants
  <2>2. QED
    BY <1>13, <2>1, InWord
<1>17. x \div PageSize = q + k
  BY <1>10, ExactPage
<1>18. QED
  BY <1>6, <1>10, <1>11, <1>16, <1>17 DEF s, x

-----------------------------------------------------------------------------
(* The inductive invariant, for any maps.  The map is trimmed up to the    *)
(* entry the first loop is at, each entry as the untrimmed map would have  *)
(* it; kernel_entry is the last one so far that could be the kernel's; and *)
(* the clear bits are those of the entries the second loop has been at.    *)
Scanned(i)  == step[1] = "scan" => i < step[2]
LoopedAt(i) == step[1] = "clear" => i < step[2]

MapInv ==
  /\ given \in MemoryMaps /\ mmap \in Seq(Areas) /\ DOMAIN mmap = DOMAIN given
  /\ \A i \in DOMAIN given :
       mmap[i] = IF Scanned(i) THEN Sanitized(given, given[i]) ELSE given[i]

KernelInv ==
  /\ kernel_entry # 0 => kernel_entry \in DOMAIN given /\ HoldsKernel(given[kernel_entry])
  /\ \A i \in DOMAIN given : Scanned(i) /\ HoldsKernel(given[i]) => i <= kernel_entry

HasBitmap ==
  /\ kernel_entry # 0
  /\ mmap[kernel_entry].length \div PageSize >= CombinedPages(total_size)
  /\ early_pmm.bitmap = KernelStart + KernelPages * PageSize
  /\ early_pmm.size = BitmapSize(total_size)
  /\ early_pmm.clear =
       UNION {FramesOf(mmap[i]) : i \in {j \in DOMAIN mmap : mmap[j].available /\ LoopedAt(j)}}

MemoryInv ==
  /\ early_pmm \in [bitmap : Nat, size : Nat, clear : SUBSET Nat, next : Nat, free_pages : Nat]
  /\ \/ step[1] # "clear" /\ early_pmm = NoMemory
     \/ step[1] # "scan" /\ HasBitmap

EarlyInv == TypeOK /\ MapInv /\ KernelInv /\ MemoryInv

LEMMA PageNumbers ==
  ASSUME NEW t \in Nat
  PROVE  /\ KernelPages \in Nat /\ BitmapSize(t) \in Nat /\ BitmapPages(t) \in Nat
         /\ CombinedPages(t) \in Nat
         /\ KernelPages * PageSize + BitmapSize(t) <= PageSize * CombinedPages(t)
<1>1. KernelPages \in Nat
  BY EarlyConstants, DivCeilCovers DEF KernelPages
<1>2. t \div PageSize \in Nat
  BY EarlyConstants, DivisionRemainder
<1>3. (t \div PageSize) % Word \in 0 .. Word - 1
  BY <1>2, EarlyConstants, DivisionRemainder
<1>4. BitmapSize(t) \in Nat
  <2> DEFINE n == (t \div PageSize) % Word
             a == n + 8 - 1
             b == a % Word
  <2>1. n \in Nat
    BY <1>3
  <2> HIDE DEF n
  <2>2. a \in Nat
    BY <2>1
  <2> HIDE DEF a
  <2>3. b \in 0 .. Word - 1
    BY <2>2, EarlyConstants, DivisionRemainder
  <2>4. b \in Nat /\ BitmapSize(t) = b \div 8
    BY <2>3, EarlyConstants DEF BitmapSize, a, n
  <2> HIDE DEF b
  <2>5. QED
    BY <2>4, DivisionRemainder
<1>5. BitmapPages(t) \in Nat /\ BitmapSize(t) <= PageSize * BitmapPages(t)
  BY <1>4, EarlyConstants, DivCeilCovers DEF BitmapPages
<1>6. PageSize * CombinedPages(t) = PageSize * KernelPages + PageSize * BitmapPages(t)
  BY <1>1, <1>5, EarlyConstants DEF CombinedPages
<1>7. /\ KernelPages * PageSize = PageSize * KernelPages /\ PageSize * KernelPages \in Nat
      /\ PageSize * BitmapPages(t) \in Nat
  BY <1>1, <1>5, EarlyConstants
<1>8. QED
  BY <1>1, <1>4, <1>5, <1>6, <1>7 DEF CombinedPages

LEMMA InitEarlyInv == Init => EarlyInv
<1> SUFFICES ASSUME Init PROVE EarlyInv
  OBVIOUS
<1> USE DEF Init
<1>1. given \in Seq(Areas)
  BY MapsAssumption
<1>2. Len(given) \in Nat /\ DOMAIN given = 1 .. Len(given)
  BY <1>1
<1>3. \A i \in DOMAIN given : ~ Scanned(i)
  BY <1>2 DEF Scanned
<1>4. Word \div PageSize \in Nat
  BY EarlyConstants
<1>5. TypeOK
  <2>1. step \in {"scan"} \X (1 .. Len(mmap) + 1)
    BY <1>2
  <2>2. \A i \in DOMAIN mmap : mmap[i] \in Areas
    BY <1>1
  <2>3. kernel_entry \in 0 .. Len(mmap) /\ total_size \in Nat
    BY <1>2
  <2>4. early_pmm.clear \subseteq 0 .. Word \div PageSize - 1
    BY DEF NoMemory
  <2>5. QED
    BY <2>1, <2>2, <2>3, <2>4 DEF TypeOK
<1>6. MapInv
  BY <1>1, <1>3 DEF MapInv
<1>7. KernelInv
  BY <1>3 DEF KernelInv
<1>8. MemoryInv
  BY DEF MemoryInv, NoMemory
<1>9. QED
  BY <1>5, <1>6, <1>7, <1>8 DEF EarlyInv

(* Trimming changes no reserved area, so it does not matter how far the    *)
(* map is trimmed.                                                         *)
LEMMA SanitizedAnytime ==
  ASSUME EarlyInv, NEW e
  PROVE  Sanitized(mmap, e) = Sanitized(given, e)
<1>1. given \in Seq(Areas)
  BY MapsAssumption DEF EarlyInv, MapInv
<1>2. ASSUME NEW j \in DOMAIN given
      PROVE  /\ mmap[j].available = given[j].available
             /\ ~ given[j].available => mmap[j] = given[j]
  <2>1. given[j] \in Areas
    BY <1>1
  <2>2. Sanitized(given, given[j]).available = given[j].available
    BY <1>1, <2>1, SanitizedType
  <2>3. ~ given[j].available => Sanitized(given, given[j]) = given[j]
    BY DEF Sanitized
  <2>4. mmap[j] = given[j] \/ mmap[j] = Sanitized(given, given[j])
    BY DEF EarlyInv, MapInv
  <2>5. QED
    BY <2>2, <2>3, <2>4
<1>3. DOMAIN mmap = DOMAIN given
  BY DEF EarlyInv, MapInv
<1>4. StartsInside(mmap, e) = StartsInside(given, e)
  <2>1. {j \in DOMAIN mmap : ~ mmap[j].available /\ e.addr < mmap[j].addr
                            /\ mmap[j].addr < e.addr + e.length}
        = {j \in DOMAIN given : ~ given[j].available /\ e.addr < given[j].addr
                               /\ given[j].addr < e.addr + e.length}
    BY <1>2, <1>3
  <2>2. QED
    BY <1>2, <1>3, <2>1 DEF StartsInside
<1>5. UpToReserved(mmap, e) = UpToReserved(given, e)
  BY <1>4 DEF UpToReserved
<1>6. QED
  BY <1>5 DEF Sanitized

LEMMA EarlyTypes ==
  ASSUME EarlyInv
  PROVE  /\ given \in Seq(Areas) /\ mmap \in Seq(Areas) /\ DOMAIN mmap = DOMAIN given
         /\ Len(mmap) \in Nat /\ DOMAIN mmap = 1 .. Len(mmap)
         /\ total_size \in Nat /\ kernel_entry \in 0 .. Len(mmap)
         /\ step \in ({"scan"} \X (1 .. Len(mmap) + 1)) \union ({"clear"} \X DOMAIN mmap)
                     \union {<<"done", 0>>}
<1>1. given \in Seq(Areas) /\ mmap \in Seq(Areas) /\ DOMAIN mmap = DOMAIN given
  BY MapsAssumption DEF EarlyInv, MapInv
<1>2. QED
  BY <1>1 DEF EarlyInv, TypeOK

(* The first loop.                                                         *)
LEMMA ScanEarlyInv ==
  ASSUME EarlyInv, NEW i \in DOMAIN mmap, Scan(i)
  PROVE  EarlyInv'
<1> DEFINE e == mmap[i]
           s == Sanitized(mmap, e)
<1>1. /\ given \in Seq(Areas) /\ mmap \in Seq(Areas) /\ DOMAIN mmap = DOMAIN given
      /\ Len(mmap) \in Nat /\ DOMAIN mmap = 1 .. Len(mmap)
      /\ total_size \in Nat /\ kernel_entry \in 0 .. Len(mmap)
  BY EarlyTypes
<1>2. /\ step = <<"scan", i>> /\ step' = <<"scan", i + 1>>
      /\ mmap' = [mmap EXCEPT ![i] = s]
      /\ kernel_entry' = IF HoldsKernel(e) THEN i ELSE kernel_entry
      /\ total_size' = IF e.available THEN (s.addr + s.length) % LongWord ELSE total_size
      /\ given' = given /\ early_pmm' = early_pmm
  BY DEF Scan
<1>3. i \in Nat /\ i <= Len(mmap)
  BY <1>1
<1>4. e = given[i] /\ e \in Areas
  BY <1>1, <1>2, <1>3 DEF EarlyInv, MapInv, Scanned
<1>5. s = Sanitized(given, given[i])
  BY <1>4, SanitizedAnytime
<1>6. s \in Areas /\ s.addr \in Nat /\ s.length \in Nat
  <2>1. s \in Areas
    BY <1>1, <1>4, SanitizedType
  <2>2. QED
    BY <2>1 DEF Areas
<1> HIDE DEF s
<1>7. mmap' \in Seq(Areas) /\ DOMAIN mmap' = DOMAIN mmap /\ Len(mmap') = Len(mmap)
  BY <1>1, <1>2, <1>6
<1>8. \A j \in DOMAIN mmap : mmap'[j] = IF j = i THEN s ELSE mmap[j]
  BY <1>2
<1>9. \A j \in DOMAIN given : Scanned(j)' <=> (Scanned(j) \/ j = i)
  BY <1>1, <1>2, <1>3 DEF Scanned
<1>10. TypeOK'
  <2>1. step' \in {"scan"} \X (1 .. Len(mmap') + 1)
    BY <1>1, <1>2, <1>3, <1>7
  <2>2. \A j \in DOMAIN mmap' : mmap'[j] \in Areas
    BY <1>7
  <2>3. kernel_entry' \in 0 .. Len(mmap') /\ total_size' \in Nat
    <3>1. s.addr + s.length \in Nat
      BY <1>6
    <3>2. (s.addr + s.length) % LongWord \in Nat
      BY <3>1, EarlyConstants, DivisionRemainder
    <3>3. QED
      BY <1>1, <1>2, <1>3, <1>7, <3>2
  <2>4. early_pmm'.clear \subseteq 0 .. Word \div PageSize - 1
    BY <1>2 DEF EarlyInv, TypeOK
  <2>5. QED
    BY <2>1, <2>2, <2>3, <2>4 DEF TypeOK
<1>11. MapInv'
  <2>1. ASSUME NEW j \in DOMAIN given
        PROVE  mmap'[j] = IF Scanned(j)' THEN Sanitized(given, given[j]) ELSE given[j]
    <3>1. CASE j = i
      BY <1>1, <1>5, <1>8, <1>9, <3>1
    <3>2. CASE j # i
      <4>1. mmap[j] = IF Scanned(j) THEN Sanitized(given, given[j]) ELSE given[j]
        BY DEF EarlyInv, MapInv
      <4>2. QED
        BY <1>1, <1>8, <1>9, <3>2, <4>1
    <3>3. QED
      BY <3>1, <3>2
  <2>2. given \in MemoryMaps
    BY DEF EarlyInv, MapInv
  <2>3. QED
    BY <1>1, <1>2, <1>7, <2>1, <2>2 DEF MapInv
<1>12. KernelInv'
  <2>1. kernel_entry' # 0 => kernel_entry' \in DOMAIN given /\ HoldsKernel(given[kernel_entry'])
    BY <1>1, <1>2, <1>4 DEF EarlyInv, KernelInv
  <2>2. ASSUME NEW j \in DOMAIN given, Scanned(j)', HoldsKernel(given[j])
        PROVE  j <= kernel_entry'
    <3>1. j \in Nat /\ j <= i
      BY <1>1, <1>2, <1>3, <2>2 DEF Scanned
    <3>2. CASE HoldsKernel(e)
      BY <1>2, <3>1, <3>2
    <3>3. CASE ~ HoldsKernel(e)
      <4>1. Scanned(j)
        BY <1>4, <1>9, <2>2, <3>3
      <4>2. QED
        BY <1>2, <2>2, <3>3, <4>1 DEF EarlyInv, KernelInv
    <3>4. QED
      BY <3>2, <3>3
  <2>3. QED
    BY <1>2, <2>1, <2>2 DEF KernelInv, HoldsKernel
<1>13. MemoryInv'
  <2>1. early_pmm = NoMemory
    BY <1>2 DEF EarlyInv, MemoryInv
  <2>2. QED
    BY <1>2, <2>1 DEF EarlyInv, MemoryInv
<1>14. QED
  BY <1>10, <1>11, <1>12, <1>13 DEF EarlyInv

(* The code between the loops.                                             *)
LEMMA SetUpEarlyInv ==
  ASSUME EarlyInv, SetUp
  PROVE  EarlyInv'
<1>1. /\ given \in Seq(Areas) /\ mmap \in Seq(Areas) /\ DOMAIN mmap = DOMAIN given
      /\ Len(mmap) \in Nat /\ DOMAIN mmap = 1 .. Len(mmap)
      /\ total_size \in Nat /\ kernel_entry \in 0 .. Len(mmap)
  BY EarlyTypes
<1>2. /\ step = <<"scan", Len(mmap) + 1>>
      /\ given' = given /\ mmap' = mmap /\ kernel_entry' = kernel_entry /\ total_size' = total_size
  BY DEF SetUp
<1>3. early_pmm = NoMemory
  BY <1>2 DEF EarlyInv, MemoryInv
<1>4. \/ /\ kernel_entry # 0
         /\ mmap[kernel_entry].length \div PageSize >= CombinedPages(total_size)
         /\ early_pmm' = [NoMemory EXCEPT !.bitmap = KernelStart + KernelPages * PageSize,
                                          !.size = BitmapSize(total_size)]
         /\ step' = <<"clear", 1>>
      \/ step' = <<"done", 0>> /\ early_pmm' = NoMemory
  BY <1>2, <1>3 DEF SetUp
<1>5. step'[1] # "scan"
  BY <1>4
<1>6. \A j \in DOMAIN given : Scanned(j) /\ Scanned(j)'
  <2>1. \A j \in DOMAIN given : j < step[2]
    BY <1>1, <1>2
  <2>2. QED
    BY <1>5, <2>1 DEF Scanned
<1>7. early_pmm'.clear = {}
  <2>1. NoMemory.clear = {} /\ [NoMemory EXCEPT !.bitmap = KernelStart + KernelPages * PageSize,
                                                !.size = BitmapSize(total_size)].clear = {}
    BY DEF NoMemory
  <2>2. QED
    BY <1>4, <2>1
<1>8. TypeOK'
  <2>1. step' \in ({"clear"} \X DOMAIN mmap) \union {<<"done", 0>>}
    <3>1. kernel_entry # 0 => 1 \in DOMAIN mmap
      BY <1>1
    <3>2. QED
      BY <1>4, <3>1
  <2>2. \A j \in DOMAIN mmap : mmap[j] \in Areas
    BY <1>1
  <2>3. QED
    BY <1>1, <1>2, <1>7, <2>1, <2>2 DEF TypeOK
<1>9. MapInv'
  BY <1>1, <1>2, <1>6 DEF EarlyInv, MapInv
<1>10. KernelInv'
  BY <1>1, <1>2, <1>6 DEF EarlyInv, KernelInv, HoldsKernel
<1>11. MemoryInv'
  <2>1. CASE step' = <<"done", 0>> /\ early_pmm' = NoMemory
    BY <2>1 DEF MemoryInv, NoMemory
  <2>2. CASE /\ kernel_entry # 0
             /\ mmap[kernel_entry].length \div PageSize >= CombinedPages(total_size)
             /\ early_pmm' = [NoMemory EXCEPT !.bitmap = KernelStart + KernelPages * PageSize,
                                              !.size = BitmapSize(total_size)]
             /\ step' = <<"clear", 1>>
    <3>1. early_pmm' = [bitmap |-> KernelStart + KernelPages * PageSize,
                        size |-> BitmapSize(total_size), clear |-> {}, next |-> 0, free_pages |-> 0]
      BY <2>2 DEF NoMemory
    <3>2. KernelStart + KernelPages * PageSize \in Nat /\ BitmapSize(total_size) \in Nat
      <4>1. KernelPages \in Nat /\ BitmapSize(total_size) \in Nat
        BY <1>1, PageNumbers
      <4>2. KernelPages * PageSize \in Nat
        BY <4>1, EarlyConstants
      <4>3. QED
        BY <4>1, <4>2, EarlyConstants
    <3>3. \A j \in DOMAIN mmap : ~ LoopedAt(j)'
      BY <1>1, <2>2 DEF LoopedAt
    <3>4. {j \in DOMAIN mmap' : mmap'[j].available /\ LoopedAt(j)'} = {}
      BY <1>2, <3>3
    <3>5. early_pmm'.clear =
            UNION {FramesOf(mmap[j])' : j \in {l \in DOMAIN mmap' : mmap'[l].available /\ LoopedAt(l)'}}
      BY <1>7, <3>4
    <3>6. HasBitmap'
      BY <1>2, <2>2, <3>1, <3>5 DEF HasBitmap
    <3>7. QED
      BY <1>5, <3>1, <3>2, <3>6 DEF MemoryInv
  <2>3. QED
    BY <1>4, <2>1, <2>2
<1>12. QED
  BY <1>8, <1>9, <1>10, <1>11 DEF EarlyInv

(* The second loop.                                                        *)
LEMMA ClearEarlyInv ==
  ASSUME EarlyInv, NEW i \in DOMAIN mmap, Clear(i)
  PROVE  EarlyInv'
<1> DEFINE e == mmap[i]
<1>1. /\ given \in Seq(Areas) /\ mmap \in Seq(Areas) /\ DOMAIN mmap = DOMAIN given
      /\ Len(mmap) \in Nat /\ DOMAIN mmap = 1 .. Len(mmap)
      /\ total_size \in Nat /\ kernel_entry \in 0 .. Len(mmap)
  BY EarlyTypes
<1>2. /\ step = <<"clear", i>>
      /\ early_pmm' = IF e.available THEN AfterClear(early_pmm, e) ELSE early_pmm
      /\ step' = IF i = Len(mmap) THEN <<"done", 0>> ELSE <<"clear", i + 1>>
      /\ given' = given /\ mmap' = mmap /\ kernel_entry' = kernel_entry /\ total_size' = total_size
  BY DEF Clear
<1>3. i \in Nat /\ i <= Len(mmap) /\ e \in Areas /\ e.available \in BOOLEAN
  <2>1. i \in Nat /\ i <= Len(mmap) /\ e \in Areas
    BY <1>1
  <2>2. QED
    BY <2>1 DEF Areas
<1>4. step'[1] # "scan"
  BY <1>2
<1>5. \A j \in DOMAIN given : Scanned(j) /\ Scanned(j)'
  BY <1>2, <1>4 DEF Scanned
<1>6. \A j \in DOMAIN mmap : LoopedAt(j)' <=> (LoopedAt(j) \/ j = i)
  BY <1>1, <1>2, <1>3 DEF LoopedAt
<1>7. /\ HasBitmap
      /\ early_pmm \in [bitmap : Nat, size : Nat, clear : SUBSET Nat, next : Nat, free_pages : Nat]
  BY <1>2 DEF EarlyInv, MemoryInv
<1>8. \A a : FramesOf(a)' = FramesOf(a)
  BY <1>2 DEF FramesOf, Cleared, IsKernelOrBitmap
<1>9. FramesOf(e) \subseteq 0 .. Word \div PageSize - 1
  BY <1>3, FramesType
<1>10. /\ early_pmm' \in [bitmap : Nat, size : Nat, clear : SUBSET Nat, next : Nat, free_pages : Nat]
       /\ early_pmm'.bitmap = early_pmm.bitmap /\ early_pmm'.size = early_pmm.size
       /\ early_pmm'.clear = early_pmm.clear \union (IF e.available THEN FramesOf(e) ELSE {})
  <2>1. CASE e.available
    <3> DEFINE n == IF early_pmm.free_pages = 0 /\ Cleared(e) # {}
                    THEN PageAddress(e, Min(Cleared(e))) \div PageSize ELSE early_pmm.next
    <3>1. early_pmm' = [early_pmm EXCEPT !.clear = @ \union FramesOf(e),
                                         !.free_pages = @ + Cardinality(Cleared(e)), !.next = n]
      BY <1>2, <2>1 DEF AfterClear, FramesOf
    <3>2. n \in Nat
      <4>1. CASE early_pmm.free_pages = 0 /\ Cleared(e) # {}
        <5>1. Cleared(e) \in SUBSET Nat
          BY DEF Cleared
        <5>2. Min(Cleared(e)) \in Cleared(e)
          BY <4>1, <5>1, LeastOf
        <5>3. PageAddress(e, Min(Cleared(e))) \div PageSize \in FramesOf(e)
          BY <5>2 DEF FramesOf
        <5>4. n \in FramesOf(e)
          BY <4>1, <5>3
        <5>5. QED
          BY <1>9, <5>4
      <4>2. CASE ~ (early_pmm.free_pages = 0 /\ Cleared(e) # {})
        BY <1>7, <4>2
      <4>3. QED
        BY <4>1, <4>2
    <3>3. Cardinality(Cleared(e)) \in Nat
      <4>1. NumPages(e) \in Int
        <5>1. e.length \in Nat
          BY <1>3 DEF Areas
        <5> DEFINE q == e.length \div PageSize
        <5>2. q \in Nat
          BY <5>1, EarlyConstants, DivisionRemainder
        <5> HIDE DEF q
        <5>3. q % Word \in Int
          BY <5>2, EarlyConstants
        <5>4. QED
          BY <5>3 DEF NumPages, q
      <4>2. IsFiniteSet(0 .. NumPages(e) - 1) /\ Cleared(e) \in SUBSET (0 .. NumPages(e) - 1)
        BY <4>1, FS_Interval DEF Cleared
      <4>3. IsFiniteSet(Cleared(e))
        BY <4>2, FS_Subset
      <4>4. QED
        BY <4>3, FS_CardinalityType
    <3>4. FramesOf(e) \in SUBSET Nat
      BY <1>9
    <3> DEFINE c == Cardinality(Cleared(e))
               F == FramesOf(e)
    <3> HIDE DEF n, c, F
    <3>5. early_pmm' = [early_pmm EXCEPT !.clear = @ \union F, !.free_pages = @ + c, !.next = n]
      BY <3>1 DEF c, F
    <3>6. n \in Nat /\ c \in Nat /\ F \in SUBSET Nat
      BY <3>2, <3>3, <3>4 DEF c, F
    <3>7. early_pmm' = [bitmap |-> early_pmm.bitmap, size |-> early_pmm.size,
                        clear |-> early_pmm.clear \union F, next |-> n,
                        free_pages |-> early_pmm.free_pages + c]
      BY <1>7, <3>5
    <3>8. early_pmm.clear \union F \in SUBSET Nat /\ early_pmm.free_pages + c \in Nat
      <4>1. early_pmm.clear \in SUBSET Nat /\ early_pmm.free_pages \in Nat
        BY <1>7
      <4>2. early_pmm.clear \union F \in SUBSET Nat
        BY <3>6, <4>1
      <4>3. QED
        BY <3>6, <4>1, <4>2
    <3>9. QED
      BY <1>7, <2>1, <3>6, <3>7, <3>8 DEF F
  <2>2. CASE ~ e.available
    BY <1>2, <1>7, <2>2
  <2>3. QED
    BY <2>1, <2>2
<1>11. TypeOK'
  <2>1. step' \in ({"clear"} \X DOMAIN mmap) \union {<<"done", 0>>}
    BY <1>1, <1>2, <1>3
  <2>2. \A j \in DOMAIN mmap : mmap[j] \in Areas
    BY <1>1
  <2>3. early_pmm'.clear \subseteq 0 .. Word \div PageSize - 1
    BY <1>9, <1>10 DEF EarlyInv, TypeOK
  <2>4. QED
    BY <1>1, <1>2, <2>1, <2>2, <2>3 DEF TypeOK
<1>12. MapInv'
  BY <1>1, <1>2, <1>5 DEF EarlyInv, MapInv
<1>13. KernelInv'
  BY <1>1, <1>2, <1>5 DEF EarlyInv, KernelInv, HoldsKernel
<1>14. MemoryInv'
  <2>1. early_pmm'.clear =
          UNION {FramesOf(mmap[j])' : j \in {l \in DOMAIN mmap' : mmap'[l].available /\ LoopedAt(l)'}}
    <3>1. ~ LoopedAt(i)
      BY <1>2, <1>3 DEF LoopedAt
    <3>2. early_pmm.clear =
            UNION {FramesOf(mmap[j]) : j \in {l \in DOMAIN mmap : mmap[l].available /\ LoopedAt(l)}}
      BY <1>7 DEF HasBitmap
    <3>3. ASSUME NEW f
          PROVE  f \in early_pmm'.clear <=>
                   \E j \in DOMAIN mmap : /\ mmap[j].available /\ (LoopedAt(j) \/ j = i)
                                          /\ f \in FramesOf(mmap[j])
      <4>1. f \in early_pmm.clear <=>
              \E j \in DOMAIN mmap : mmap[j].available /\ LoopedAt(j) /\ f \in FramesOf(mmap[j])
        BY <3>2
      <4>2. QED
        BY <1>10, <4>1
    <3>4. ASSUME NEW f
          PROVE  f \in early_pmm'.clear <=>
                   \E j \in DOMAIN mmap' : /\ mmap'[j].available /\ LoopedAt(j)'
                                           /\ f \in FramesOf(mmap[j])'
      BY <1>2, <1>6, <1>8, <3>3
    <3>5. QED
      BY <3>4
  <2>2. HasBitmap'
    BY <1>2, <1>7, <1>10, <2>1 DEF HasBitmap
  <2>3. QED
    BY <1>4, <1>10, <2>2 DEF MemoryInv
<1>15. QED
  BY <1>11, <1>12, <1>13, <1>14 DEF EarlyInv

LEMMA NextEarlyInv == EarlyInv /\ [Next]_vars => EarlyInv'
<1> SUFFICES ASSUME EarlyInv, [Next]_vars PROVE EarlyInv'
  OBVIOUS
<1>1. CASE SetUp
  BY <1>1, SetUpEarlyInv
<1>2. CASE \E i \in DOMAIN mmap : Scan(i)
  BY <1>2, ScanEarlyInv
<1>3. CASE \E i \in DOMAIN mmap : Clear(i)
  BY <1>3, ClearEarlyInv
<1>4. CASE UNCHANGED vars
  <2>1. /\ given' = given /\ mmap' = mmap /\ step' = step /\ kernel_entry' = kernel_entry
        /\ total_size' = total_size /\ early_pmm' = early_pmm
    BY <1>4 DEF vars
  <2>2. TypeOK'
    BY <2>1 DEF EarlyInv, TypeOK
  <2>3. MapInv' /\ KernelInv'
    BY <2>1 DEF EarlyInv, MapInv, KernelInv, Scanned, HoldsKernel
  <2>4. \A a : FramesOf(a)' = FramesOf(a)
    BY <2>1 DEF FramesOf, Cleared, IsKernelOrBitmap
  <2>5. HasBitmap' <=> HasBitmap
    BY <2>1, <2>4 DEF HasBitmap, LoopedAt
  <2>6. MemoryInv'
    BY <2>1, <2>5 DEF EarlyInv, MemoryInv
  <2>7. QED
    BY <2>2, <2>3, <2>6 DEF EarlyInv
<1>5. QED
  BY <1>1, <1>2, <1>3, <1>4 DEF Next, InitFrameAllocator, Return

LEMMA EarlyInvariant == Spec => []EarlyInv
BY InitEarlyInv, NextEarlyInv, PTL DEF Spec

(* The map stays a map of areas, and only pages a pointer can name are     *)
(* ever marked as free.                                                    *)
THEOREM EarlyTypeCorrect == Spec => []TypeOK
<1>1. EarlyInv => TypeOK
  BY DEF EarlyInv
<1>2. QED
  BY <1>1, EarlyInvariant, PTL

-----------------------------------------------------------------------------
(* What an area that begins with a page offers in front of its first       *)
(* reserved part is marked, whatever else is in the map.                   *)
LEMMA OfferedPage ==
  ASSUME EarlyInv, Done, early_pmm.size > 0,
         NEW i \in DOMAIN given, given[i].available, given[i].addr % PageSize = 0,
         given[i].addr + given[i].length <= Word,
         NEW f \in given[i].addr \div PageSize .. (given[i].addr + given[i].length) \div PageSize - 1,
         ~ (PageSize * f < KernelStart + PageSize * CombinedPages(total_size)),
         \A r \in ReservedAreas :
           ~ (given[i].addr < r.addr /\ r.addr < PageSize * (f + 1))
  PROVE  f \in early_pmm.clear
<1> DEFINE e == given[i]
           u == UpToReserved(given, e)
           end == e.addr + e.length
           a == e.addr \div PageSize
           b == end \div PageSize
           k == f - a
           n == u.length \div PageSize
<1>1. /\ given \in Seq(Areas) /\ mmap \in Seq(Areas) /\ DOMAIN mmap = DOMAIN given
      /\ total_size \in Nat
  BY EarlyTypes
<1>2. e \in Areas /\ e.addr \in Nat /\ e.length \in Nat
  BY <1>1, MapTypes
<1>3. HasBitmap /\ mmap[i] = Sanitized(given, e)
  BY DEF EarlyInv, MemoryInv, MapInv, Scanned, Done, NoMemory
<1>4. /\ u \in Areas /\ u.addr = e.addr /\ u.available = e.available /\ u.length <= e.length
      /\ \/ u.length = e.length
         \/ \E j \in DOMAIN given : /\ ~ given[j].available /\ e.addr < given[j].addr
                                   /\ u.addr + u.length = given[j].addr
  <2> HIDE DEF e
  <2>1. QED
    BY <1>1, <1>2, Trimmed
<1>5. mmap[i] = u /\ u.length \in Nat
  <2>1. Rounded(u) = u
    BY <1>4, RoundedType
  <2>2. QED
    BY <1>3, <1>4, <2>1 DEF Sanitized, Areas
<1>6. a \in Nat /\ e.addr = PageSize * a
  <2>1. a \in Nat /\ e.addr = PageSize * a + (e.addr % PageSize)
    BY <1>2, EarlyConstants, DivisionRemainder
  <2>2. PageSize * a \in Int
    BY <2>1, EarlyConstants
  <2> HIDE DEF a
  <2>3. QED
    BY <2>1, <2>2
<1>7. end \in Nat /\ b \in Nat /\ PageSize * b <= end /\ PageSize * b \in Int
  <2>1. end \in Nat
    BY <1>2
  <2> HIDE DEF end
  <2>2. b \in Nat /\ end % PageSize \in 0 .. PageSize - 1 /\ end = PageSize * b + (end % PageSize)
    BY <2>1, EarlyConstants, DivisionRemainder
  <2>3. PageSize * b \in Int
    BY <2>2, EarlyConstants
  <2> DEFINE y == end % PageSize
  <2>4. y \in Nat /\ end = PageSize * b + y
    BY <2>2, EarlyConstants
  <2> HIDE DEF b, y
  <2>5. QED
    BY <2>1, <2>2, <2>3, <2>4
<1>8. f \in a .. b - 1
  OBVIOUS
<1> HIDE DEF a, b
<1>9. f \in Nat /\ f + 1 <= b /\ k \in Nat
  BY <1>6, <1>7, <1>8
<1>10. /\ PageSize * f \in Nat /\ PageSize * (f + 1) = PageSize * f + PageSize
       /\ PageSize * k = PageSize * f - PageSize * a /\ PageSize * k \in Nat
       /\ PageSize * a \in Nat
  <2>1. PageSize * k = PageSize * f - PageSize * a
    BY <1>6, <1>9, EarlyConstants
  <2>2. QED
    BY <1>6, <1>9, <2>1, EarlyConstants
<1>11. PageSize * f + PageSize <= end
  <2>1. PageSize * (f + 1) <= PageSize * b
    BY <1>7, <1>9, EarlyConstants
  <2>2. QED
    BY <1>7, <1>10, <2>1, EarlyConstants
<1>12. PageSize * f + PageSize <= u.addr + u.length
  <2>1. CASE u.length = e.length
    BY <1>4, <1>11, <2>1
  <2>2. CASE \E j \in DOMAIN given : /\ ~ given[j].available /\ e.addr < given[j].addr
                                   /\ u.addr + u.length = given[j].addr
    <3>1. PICK j \in DOMAIN given : /\ ~ given[j].available /\ e.addr < given[j].addr
                                   /\ u.addr + u.length = given[j].addr
      BY <2>2
    <3>2. given[j] \in ReservedAreas /\ given[j].addr \in Nat
      BY <1>1, <3>1, MapTypes DEF ReservedAreas
    <3>3. ~ (given[j].addr < PageSize * (f + 1))
      BY <3>1, <3>2
    <3>4. QED
      BY <1>10, <3>1, <3>2, <3>3, EarlyConstants
  <2>3. QED
    BY <1>4, <2>1, <2>2
<1>13. PageSize * (k + 1) <= u.length
  <2>1. PageSize * (k + 1) = PageSize * k + PageSize
    BY <1>9, EarlyConstants
  <2>2. u.addr = PageSize * a
    BY <1>4, <1>6
  <2> HIDE DEF k, u
  <2>3. QED
    BY <1>5, <1>10, <1>12, <2>1, <2>2, EarlyConstants
<1>14. n \in Nat /\ k + 1 <= n /\ n < Word
  <2>1. /\ n \in Nat /\ u.length % PageSize \in 0 .. PageSize - 1
        /\ u.length = PageSize * n + (u.length % PageSize)
    BY <1>5, EarlyConstants, DivisionRemainder
  <2> DEFINE y == u.length % PageSize
  <2>2. y \in Nat /\ y < PageSize /\ u.length = PageSize * n + y
    BY <2>1, EarlyConstants
  <2> HIDE DEF n, y, k
  <2>3. PageSize * n \in Int /\ PageSize * (n + 1) = PageSize * n + PageSize
    BY <2>1, EarlyConstants
  <2>4. PageSize * (k + 1) < PageSize * (n + 1)
    <3>1. PageSize * (k + 1) \in Int
      BY <1>9, EarlyConstants
    <3>2. QED
      BY <1>5, <1>13, <2>2, <2>3, <3>1, EarlyConstants
  <2>5. k + 1 < n + 1
    <3> DEFINE x == k + 1
               z == n + 1
    <3>1. x \in Nat /\ z \in Nat /\ PageSize * x < PageSize * z
      BY <1>9, <2>1, <2>4
    <3> HIDE DEF x, z
    <3>2. x < z
      BY <3>1, EarlyConstants
    <3>3. QED
      BY <3>2 DEF x, z
  <2>6. PageSize * n <= Word
    BY <1>2, <1>4, <1>5, <2>2, <2>3, EarlyConstants
  <2>7. 2 * n <= PageSize * n
    BY <2>1, EarlyConstants
  <2>8. n < Word
    BY <2>1, <2>3, <2>6, <2>7, EarlyConstants
  <2>9. QED
    BY <1>9, <2>1, <2>5, <2>8
<1>15. NumPages(u) = n
  <2> HIDE DEF n
  <2>1. n % Word = n
    BY <1>14, EarlyConstants, InWord
  <2>2. QED
    BY <2>1 DEF NumPages, n
<1>16. PageAddress(u, k) = PageSize * f
  <2> DEFINE x == PageSize * f
  <2>1. u.addr + k * PageSize = x
    <3>1. k * PageSize = PageSize * k
      BY <1>9, EarlyConstants
    <3> HIDE DEF u, k
    <3>2. QED
      BY <1>4, <1>6, <1>10, <3>1
  <2>2. x \in 0 .. Word - 1
    <3>1. PageSize * f < Word
      BY <1>2, <1>10, <1>11, EarlyConstants
    <3>2. QED
      BY <1>10, <3>1, EarlyConstants
  <2> HIDE DEF x, u, k
  <2>3. x % Word = x
    BY <2>2, InWord
  <2>4. QED
    BY <2>1, <2>3 DEF PageAddress, x
<1>17. ~ IsKernelOrBitmap(PageSize * f) /\ PageSize * f >= KernelStart
  <2>1. CombinedPages(total_size) \in Nat
    BY <1>1, PageNumbers
  <2>2. PageSize * CombinedPages(total_size) \in Nat
    BY <2>1, EarlyConstants
  <2>3. QED
    BY <1>10, <2>2, EarlyConstants DEF IsKernelOrBitmap
<1>18. k \in Cleared(u)
  BY <1>9, <1>14, <1>15, <1>16, <1>17 DEF Cleared
<1>19. f \in FramesOf(u)
  BY <1>9, <1>16, <1>18, ExactPage DEF FramesOf
<1>20. LoopedAt(i)
  BY DEF LoopedAt, Done
<1>21. mmap[i].available
  BY <1>4, <1>5
<1>22. QED
  BY <1>1, <1>3, <1>5, <1>19, <1>20, <1>21 DEF HasBitmap

THEOREM NoPageIsLost == Spec => []UsablePagesAreFree
<1>1. EarlyInv => UsablePagesAreFree
  <2> SUFFICES ASSUME EarlyInv, Done, early_pmm.size > 0,
                      NEW i \in DOMAIN given, given[i].available, given[i].addr % PageSize = 0,
                      given[i].addr + given[i].length <= Word,
                      NEW f \in given[i].addr \div PageSize
                               .. (given[i].addr + given[i].length) \div PageSize - 1,
                      ~ (PageSize * f < KernelStart + PageSize * CombinedPages(total_size)),
                      ~ \E r \in ReservedAreas :
                          given[i].addr < r.addr /\ r.addr < PageSize * (f + 1)
               PROVE  f \in early_pmm.clear
    BY DEF UsablePagesAreFree, AvailableAreas
  <2>1. QED
    BY OfferedPage
<1>2. QED
  BY <1>1, EarlyInvariant, PTL

-----------------------------------------------------------------------------
(* Usual maps.                                                             *)
UsualMaps == \A m \in MemoryMaps : IsUsual(m)

LEMMA FrameInArea ==
  ASSUME EarlyInv, UsualMaps, NEW i \in DOMAIN given, given[i].available,
         NEW f \in FramesOf(Sanitized(given, given[i]))
  PROVE  /\ f \in Nat /\ PageSize * f \in Nat /\ given[i].addr <= PageSize * f
         /\ PageSize * f + PageSize <= PagesEnd(Sanitized(given, given[i]))
         /\ PageSize * f + PageSize <= given[i].addr + given[i].length
         /\ KernelStart <= PageSize * f /\ ~ IsKernelOrBitmap(PageSize * f)
         /\ PageBytes(f) \subseteq AreaBytes(given[i])
<1> DEFINE s == Sanitized(given, given[i])
<1>1. given \in Seq(Areas) /\ total_size \in Nat /\ IsUsual(given)
  BY EarlyTypes DEF EarlyInv, MapInv, UsualMaps
<1>2. given[i] \in Areas /\ given[i].addr \in Nat /\ given[i].length \in Nat
  BY <1>1, MapTypes
<1>3. s \in Areas /\ given[i].addr <= s.addr
  BY <1>1, <1>2, SanitizedType
<1>4. s.addr \in Nat /\ s.length \in Nat
  BY <1>3 DEF Areas
<1>5. PagesEnd(s) <= given[i].addr + given[i].length
  BY <1>1, SanitizedPages
<1>6. PICK k \in Cleared(s) : f = PageAddress(s, k) \div PageSize
  BY DEF FramesOf
<1>7. /\ f \in Nat /\ PageSize * f = s.addr + PageSize * k
      /\ PageSize * f + PageSize <= PagesEnd(s)
      /\ KernelStart <= PageSize * f
  BY <1>1, <1>6, FramesArePages
<1>8. ~ IsKernelOrBitmap(PageSize * f)
  BY <1>1, <1>6, FramesArePages
<1>9. k \in Nat
  BY DEF Cleared
<1>10. PageSize * f \in Nat /\ PageSize * k \in Nat
  BY <1>7, <1>9, EarlyConstants
<1>11. PagesEnd(s) \in Int
  <2> DEFINE n == s.length \div PageSize
  <2>1. n \in Nat
    BY <1>4, EarlyConstants, DivisionRemainder
  <2> HIDE DEF n
  <2>2. PageSize * n \in Int
    BY <2>1, EarlyConstants
  <2>3. QED
    BY <1>4, <2>2 DEF PagesEnd, n
<1> HIDE DEF s
<1>12. given[i].addr <= PageSize * f /\ PageSize * f + PageSize <= given[i].addr + given[i].length
  BY <1>2, <1>3, <1>4, <1>5, <1>7, <1>10, <1>11, EarlyConstants
<1>13. PageBytes(f) \subseteq AreaBytes(given[i])
  BY <1>2, <1>10, <1>12, EarlyConstants DEF PageBytes, AreaBytes
<1>14. QED
  BY <1>7, <1>8, <1>10, <1>12, <1>13 DEF s

(* Where a page marked as free comes from.                                 *)
LEMMA FreePageOrigin ==
  ASSUME EarlyInv, NEW f \in early_pmm.clear
  PROVE  /\ HasBitmap /\ step[1] # "scan"
         /\ \E i \in DOMAIN given : /\ given[i].available /\ LoopedAt(i)
                                   /\ mmap[i] = Sanitized(given, given[i])
                                   /\ f \in FramesOf(Sanitized(given, given[i]))
<1>1. HasBitmap /\ step[1] # "scan"
  BY DEF EarlyInv, MemoryInv, NoMemory
<1>2. PICK i \in DOMAIN mmap : mmap[i].available /\ LoopedAt(i) /\ f \in FramesOf(mmap[i])
  BY <1>1 DEF HasBitmap
<1>3. i \in DOMAIN given /\ mmap[i] = Sanitized(given, given[i])
  BY <1>1, EarlyTypes DEF EarlyInv, MapInv, Scanned
<1>4. given[i] \in Areas /\ given \in Seq(Areas)
  BY <1>3, EarlyTypes, MapTypes
<1>5. given[i].available
  BY <1>2, <1>3, <1>4, SanitizedType
<1>6. QED
  BY <1>1, <1>2, <1>3, <1>5

LEMMA UsableFrames ==
  ASSUME EarlyInv, UsualMaps
  PROVE  FreePagesAreUsable
<1> SUFFICES ASSUME NEW f \in early_pmm.clear
             PROVE  /\ \E e \in AvailableAreas : PageBytes(f) \subseteq AreaBytes(e)
                    /\ \A e \in ReservedAreas : PageBytes(f) \intersect AreaBytes(e) = {}
                    /\ \A b \in PageBytes(f) :
                         ~ (KernelStart <= b /\ b < early_pmm.bitmap + early_pmm.size)
  BY DEF FreePagesAreUsable
<1>1. HasBitmap
  BY FreePageOrigin
<1>2. PICK i \in DOMAIN given : given[i].available /\ f \in FramesOf(Sanitized(given, given[i]))
  BY FreePageOrigin
<1> DEFINE s == Sanitized(given, given[i])
<1>3. given \in Seq(Areas) /\ total_size \in Nat /\ IsUsual(given)
  BY EarlyTypes DEF EarlyInv, MapInv, UsualMaps
<1>4. given[i] \in Areas /\ given[i].addr \in Nat /\ given[i].length \in Nat
  BY <1>3, MapTypes
<1>5. /\ PageSize * f \in Nat /\ given[i].addr <= PageSize * f
      /\ PageSize * f + PageSize <= PagesEnd(s)
      /\ KernelStart <= PageSize * f /\ ~ IsKernelOrBitmap(PageSize * f)
      /\ PageBytes(f) \subseteq AreaBytes(given[i])
  BY <1>2, FrameInArea
<1>6. \E e \in AvailableAreas : PageBytes(f) \subseteq AreaBytes(e)
  BY <1>2, <1>5 DEF AvailableAreas
<1>7. ASSUME NEW e \in ReservedAreas
      PROVE  PageBytes(f) \intersect AreaBytes(e) = {}
  <2>1. PICK j \in DOMAIN given : ~ given[j].available /\ e = given[j]
    BY DEF ReservedAreas
  <2>2. e.addr \in Nat /\ e.length \in Nat
    BY <1>3, <2>1, MapTypes
  <2>3. given[i].addr < e.addr \/ e.addr + e.length <= given[i].addr
    BY <1>2, <1>3, <2>1 DEF IsUsual, NothingReachesInto
  <2>4. CASE given[i].addr < e.addr
    <3>1. PagesEnd(s) <= e.addr
      BY <1>2, <1>3, <2>1, <2>4, SanitizedPages
    <3>2. PagesEnd(s) \in Int
      <4>1. s \in Areas
        BY <1>3, <1>4, SanitizedType
      <4>2. s.addr \in Nat /\ s.length \in Nat
        BY <4>1 DEF Areas
      <4> DEFINE n == s.length \div PageSize
      <4>3. n \in Nat
        BY <4>2, EarlyConstants, DivisionRemainder
      <4> HIDE DEF n
      <4>4. PageSize * n \in Int
        BY <4>3, EarlyConstants
      <4>5. QED
        BY <4>2, <4>4 DEF PagesEnd, n
    <3> HIDE DEF s
    <3>3. PageSize * f + PageSize <= e.addr
      BY <1>5, <2>2, <3>1, <3>2, EarlyConstants
    <3>4. QED
      BY <1>5, <2>2, <3>3, EarlyConstants DEF PageBytes, AreaBytes
  <2>5. CASE e.addr + e.length <= given[i].addr
    BY <1>4, <1>5, <2>2, <2>5, EarlyConstants DEF PageBytes, AreaBytes
  <2>6. QED
    BY <2>3, <2>4, <2>5
<1>8. ASSUME NEW b \in PageBytes(f)
      PROVE  ~ (KernelStart <= b /\ b < early_pmm.bitmap + early_pmm.size)
  <2> DEFINE c == PageSize * CombinedPages(total_size)
             p == KernelPages * PageSize
  <2>1. /\ early_pmm.bitmap = KernelStart + p /\ early_pmm.size = BitmapSize(total_size)
    BY <1>1 DEF HasBitmap
  <2>2. /\ BitmapSize(total_size) \in Nat /\ KernelPages \in Nat
        /\ CombinedPages(total_size) \in Nat /\ p + BitmapSize(total_size) <= c
    BY <1>3, PageNumbers
  <2>3. p \in Nat /\ c \in Nat
    BY <2>2, EarlyConstants
  <2>4. ~ (PageSize * f < KernelStart + c)
    BY <1>5 DEF IsKernelOrBitmap
  <2>5. b \in Int /\ PageSize * f <= b
    BY <1>5, EarlyConstants DEF PageBytes
  <2> HIDE DEF c, p
  <2>6. QED
    BY <1>5, <2>1, <2>2, <2>3, <2>4, <2>5, EarlyConstants
<1>9. QED
  BY <1>6, <1>7, <1>8

(* For usual maps, a page is marked as free only if all of it lies in one  *)
(* available area, touches no reserved one, and belongs neither to the     *)
(* kernel nor to the bitmap.                                               *)
THEOREM FreePagesRight == UsualMaps => (Spec => []FreePagesAreUsable)
<1> SUFFICES ASSUME UsualMaps PROVE Spec => []FreePagesAreUsable
  OBVIOUS
<1>1. EarlyInv => FreePagesAreUsable
  BY UsableFrames
<1>2. QED
  BY <1>1, EarlyInvariant, PTL

-----------------------------------------------------------------------------
(* The size of the bitmap comes from the last available entry: no area so  *)
(* far has pages behind it.                                                *)
SizeInv ==
  /\ total_size <= Word + KernelStart + PageSize
  /\ \A i \in DOMAIN given :
       given[i].available /\ Scanned(i) => PagesEnd(mmap[i]) <= total_size

LEMMA PagesEndType ==
  ASSUME NEW e \in Areas
  PROVE  PagesEnd(e) \in Nat /\ PagesEnd(e) <= e.addr + e.length
<1> DEFINE n == e.length \div PageSize
           y == e.length % PageSize
<1>1. e.addr \in Nat /\ e.length \in Nat
  BY DEF Areas
<1>2. n \in Nat /\ y \in 0 .. PageSize - 1 /\ e.length = PageSize * n + y
  BY <1>1, EarlyConstants, DivisionRemainder
<1>3. y \in Nat
  BY <1>2, EarlyConstants
<1> HIDE DEF n, y
<1>4. PageSize * n \in Nat
  BY <1>2, EarlyConstants
<1>5. PageSize * n <= e.length
  BY <1>2, <1>3, <1>4
<1>6. PagesEnd(e) = e.addr + PageSize * n
  BY DEF PagesEnd, n
<1>7. QED
  BY <1>1, <1>4, <1>5, <1>6

(* What a usual map adds up to is not cut.                                 *)
LEMMA EndNotCut ==
  ASSUME NEW m \in Seq(Areas), IsUsual(m), NEW i \in DOMAIN m, m[i].available
  PROVE  LET s == Sanitized(m, m[i])
         IN  (s.addr + s.length) % LongWord = s.addr + s.length
<1> DEFINE e == m[i]
           s == Sanitized(m, e)
           t == s.addr + s.length
<1>1. e \in Areas /\ e.addr \in Nat /\ e.length \in Nat
  BY MapTypes
<1>2. s \in Areas
  BY <1>1, SanitizedType
<1>3. s.addr \in Nat /\ s.length \in Nat
  BY <1>2 DEF Areas
<1>4. s.addr + s.length <= e.addr + e.length + PageSize
  BY SanitizedPages
<1>5. e.addr + e.length <= Word + KernelStart
  BY DEF IsUsual
<1> HIDE DEF s
<1>6. t \in 0 .. LongWord - 1
  BY <1>1, <1>3, <1>4, <1>5, EarlyConstants
<1> HIDE DEF t
<1>7. (LongWord * 0 + t) % LongWord = t
  BY <1>6, EarlyConstants, RemainderUnique
<1>8. LongWord * 0 + t = t
  BY <1>6, EarlyConstants
<1>9. QED
  BY <1>7, <1>8 DEF s, t

LEMMA InitSizeInv == Init => SizeInv
<1> SUFFICES ASSUME Init PROVE SizeInv
  OBVIOUS
<1>1. \A i \in DOMAIN given : ~ Scanned(i)
  BY MapsAssumption DEF Init, Scanned
<1>2. QED
  BY <1>1, EarlyConstants DEF Init, SizeInv

LEMMA NextSizeInv ==
  ASSUME UsualMaps, EarlyInv, EarlyInv', SizeInv, [Next]_vars
  PROVE  SizeInv'
<1>1. /\ given \in Seq(Areas) /\ mmap \in Seq(Areas) /\ DOMAIN mmap = DOMAIN given
      /\ DOMAIN mmap = 1 .. Len(mmap) /\ total_size \in Nat /\ IsUsual(given)
      /\ Len(mmap) \in Nat
  BY EarlyTypes DEF EarlyInv, MapInv, UsualMaps
<1>2. ASSUME given' = given, mmap' = mmap, total_size' = total_size,
             \A i \in DOMAIN given : Scanned(i)' => Scanned(i)
      PROVE  SizeInv'
  BY <1>2 DEF SizeInv, PagesEnd
<1>3. CASE SetUp
  <2>1. /\ given' = given /\ mmap' = mmap /\ total_size' = total_size
        /\ step = <<"scan", Len(mmap) + 1>>
    BY <1>3 DEF SetUp
  <2>2. \A i \in DOMAIN given : Scanned(i)
    BY <1>1, <2>1 DEF Scanned
  <2>3. QED
    BY <1>2, <2>1, <2>2
<1>4. CASE \E i \in DOMAIN mmap : Clear(i)
  <2>1. /\ given' = given /\ mmap' = mmap /\ total_size' = total_size /\ step[1] = "clear"
    BY <1>4 DEF Clear
  <2>2. \A i \in DOMAIN given : Scanned(i)
    BY <2>1 DEF Scanned
  <2>3. QED
    BY <1>2, <2>1, <2>2
<1>5. CASE UNCHANGED vars
  <2>1. given' = given /\ mmap' = mmap /\ total_size' = total_size /\ step' = step
    BY <1>5 DEF vars
  <2>2. \A i \in DOMAIN given : Scanned(i)' => Scanned(i)
    BY <2>1 DEF Scanned
  <2>3. QED
    BY <1>2, <2>1, <2>2
<1>6. ASSUME NEW i \in DOMAIN mmap, Scan(i)
      PROVE  SizeInv'
  <2> DEFINE e == given[i]
             s == Sanitized(given, e)
  <2>1. /\ step = <<"scan", i>> /\ step' = <<"scan", i + 1>> /\ given' = given
        /\ mmap' = [mmap EXCEPT ![i] = Sanitized(mmap, mmap[i])]
        /\ total_size' = IF mmap[i].available
                         THEN (Sanitized(mmap, mmap[i]).addr
                               + Sanitized(mmap, mmap[i]).length) % LongWord
                         ELSE total_size
    BY <1>6 DEF Scan
  <2>2. i \in Nat /\ i <= Len(mmap)
    BY <1>1
  <2>3. mmap[i] = e
    BY <1>1, <2>1, <2>2 DEF EarlyInv, MapInv, Scanned
  <2>4. Sanitized(mmap, mmap[i]) = s
    BY <2>3, SanitizedAnytime
  <2>5. /\ mmap' = [mmap EXCEPT ![i] = s]
        /\ total_size' = IF e.available THEN (s.addr + s.length) % LongWord ELSE total_size
    BY <2>1, <2>3, <2>4
  <2>6. e \in Areas /\ e.addr \in Nat /\ e.length \in Nat
    BY <1>1, MapTypes
  <2>7. s \in Areas /\ e.addr <= s.addr
    BY <1>1, <2>6, SanitizedType
  <2>8. s.addr \in Nat /\ s.length \in Nat
    BY <2>7 DEF Areas
  <2>9. PagesEnd(s) \in Nat /\ PagesEnd(s) <= s.addr + s.length
    BY <2>7, PagesEndType
  <2>10. \A j \in DOMAIN given : Scanned(j)' => (Scanned(j) /\ j < i) \/ j = i
    BY <1>1, <2>1, <2>2 DEF Scanned
  <2> HIDE DEF s
  <2>11. CASE ~ e.available
    <3>1. \A j \in DOMAIN given : given[j].available /\ Scanned(j)' => Scanned(j) /\ j # i
      BY <2>10, <2>11
    <3>2. \A j \in DOMAIN given : j # i => mmap'[j] = mmap[j]
      BY <1>1, <2>5
    <3>3. ASSUME NEW j \in DOMAIN given, given[j].available, Scanned(j)'
          PROVE  PagesEnd(mmap'[j]) <= total_size'
      BY <2>5, <2>11, <3>1, <3>2, <3>3 DEF SizeInv
    <3>4. total_size' <= Word + KernelStart + PageSize
      BY <2>5, <2>11 DEF SizeInv
    <3>5. QED
      BY <2>1, <3>3, <3>4 DEF SizeInv, PagesEnd
  <2>12. CASE e.available
    <3>1. total_size' = s.addr + s.length
      <4>1. total_size' = (s.addr + s.length) % LongWord
        BY <2>5, <2>12
      <4>2. (s.addr + s.length) % LongWord = s.addr + s.length
        BY <1>1, <2>12, EndNotCut DEF s
      <4>3. QED
        BY <4>1, <4>2
    <3>2. s.addr + s.length <= e.addr + e.length + PageSize
      BY <1>1, <2>12, SanitizedPages DEF s
    <3>3. /\ e.addr + e.length <= Word + KernelStart
          /\ \A j \in DOMAIN given : j < i /\ given[j].available =>
               given[j].addr + given[j].length <= e.addr
      BY <1>1, <2>12 DEF IsUsual
    <3>4. total_size' <= Word + KernelStart + PageSize
      BY <2>6, <2>8, <3>1, <3>2, <3>3, EarlyConstants
    <3>5. ASSUME NEW j \in DOMAIN given, given[j].available, Scanned(j)'
          PROVE  PagesEnd(mmap'[j]) <= total_size'
      <4>1. CASE j = i
        BY <1>1, <2>5, <2>9, <3>1, <4>1
      <4>2. CASE j # i
        <5>1. Scanned(j) /\ j < i /\ mmap'[j] = mmap[j]
          BY <1>1, <2>5, <2>10, <3>5, <4>2
        <5>2. mmap[j] = Sanitized(given, given[j])
          BY <5>1 DEF EarlyInv, MapInv
        <5>3. PagesEnd(mmap[j]) <= given[j].addr + given[j].length
          BY <1>1, <3>5, <5>2, SanitizedPages
        <5>4. given[j].addr + given[j].length <= e.addr
          BY <3>3, <3>5, <5>1
        <5>5. given[j].addr \in Nat /\ given[j].length \in Nat
          BY <1>1, MapTypes
        <5>6. PagesEnd(mmap[j]) \in Nat
          BY <1>1, PagesEndType
        <5>7. QED
          BY <2>6, <2>7, <2>8, <3>1, <5>1, <5>3, <5>4, <5>5, <5>6
      <4>3. QED
        BY <4>1, <4>2
    <3>6. QED
      BY <2>1, <3>4, <3>5 DEF SizeInv, PagesEnd
  <2>13. QED
    BY <2>11, <2>12
<1>7. QED
  BY <1>3, <1>4, <1>5, <1>6 DEF Next, InitFrameAllocator, Return

(* Rounding up to whole bytes is not cut, and leaves a bit for every page. *)
LEMMA BitmapSizeIs ==
  ASSUME NEW t \in Nat, t <= Word + KernelStart + PageSize
  PROVE  BitmapSize(t) = DivCeil(t \div PageSize, 8) /\ BitmapSize(t) \in Nat
<1> DEFINE n == t \div PageSize
           y == t % PageSize
           c == DivCeil(n, 8)
<1>1. n \in Nat /\ y \in 0 .. PageSize - 1 /\ t = PageSize * n + y
  BY EarlyConstants, DivisionRemainder
<1>2. y \in Nat /\ y < PageSize
  BY <1>1, EarlyConstants
<1> HIDE DEF n, y
<1>3. PageSize * n \in Nat
  BY <1>1, EarlyConstants
<1>4. c \in Nat /\ n <= 8 * c
  BY <1>1, DivCeilCovers
<1>5. n + 7 < Word
  <2>1. 8 * n <= PageSize * n
    BY <1>1, EarlyConstants
  <2>2. 8 * n < 2 * Word
    BY <1>1, <1>2, <1>3, <2>1, EarlyConstants
  <2>3. QED
    BY <1>1, <2>2, EarlyConstants
<1>6. n % Word = n
  <2>1. n \in 0 .. Word - 1
    BY <1>1, <1>5, EarlyConstants
  <2>2. QED
    BY <2>1, InWord
<1>7. (n + 8 - 1) % Word = n + 8 - 1
  <2> DEFINE a == n + 8 - 1
  <2>1. a \in 0 .. Word - 1
    BY <1>1, <1>5, EarlyConstants
  <2> HIDE DEF a
  <2>2. a % Word = a
    BY <2>1, InWord
  <2>3. QED
    BY <2>2 DEF a
<1>8. BitmapSize(t) = c
  BY <1>6, <1>7 DEF BitmapSize, DivCeil, n
<1>9. QED
  BY <1>4, <1>8 DEF n

LEMMA BitmapSizeCovers ==
  ASSUME NEW t \in Nat, t <= Word + KernelStart + PageSize,
         NEW f \in Nat, PageSize * f + PageSize <= t
  PROVE  f < 8 * BitmapSize(t)
<1> DEFINE n == t \div PageSize
           y == t % PageSize
           c == DivCeil(n, 8)
<1>1. n \in Nat /\ y \in 0 .. PageSize - 1 /\ t = PageSize * n + y
  BY EarlyConstants, DivisionRemainder
<1>2. y \in Nat /\ y < PageSize
  BY <1>1, EarlyConstants
<1> HIDE DEF n, y
<1>3. PageSize * n \in Nat /\ PageSize * (n + 1) = PageSize * n + PageSize
      /\ PageSize * (f + 1) = PageSize * f + PageSize /\ PageSize * f \in Nat
  BY <1>1, EarlyConstants
<1>4. PageSize * (f + 1) < PageSize * (n + 1)
  BY <1>1, <1>2, <1>3, EarlyConstants
<1>5. f + 1 < n + 1
  <2> DEFINE p == f + 1
             q == n + 1
  <2>1. p \in Nat /\ q \in Nat /\ PageSize * p < PageSize * q
    BY <1>1, <1>4
  <2> HIDE DEF p, q
  <2>2. p < q
    BY <2>1, EarlyConstants
  <2>3. QED
    BY <2>2 DEF p, q
<1>6. c \in Nat /\ n <= 8 * c
  BY <1>1, DivCeilCovers
<1>7. BitmapSize(t) = c
  BY BitmapSizeIs DEF c, n
<1> HIDE DEF c
<1>8. QED
  BY <1>1, <1>5, <1>6, <1>7

(* The entry that is taken for the kernel's is, starts with it, and is     *)
(* long enough for the kernel and the bitmap.                              *)
LEMMA KernelArea ==
  ASSUME EarlyInv, UsualMaps, HasBitmap, step[1] # "scan"
  PROVE  LET e == given[kernel_entry]
             u == mmap[kernel_entry]
         IN  /\ kernel_entry \in DOMAIN given /\ e.available /\ e.addr = KernelStart
             /\ u.addr = KernelStart /\ u.length \in Nat /\ e.length \in Nat
             /\ u.length <= e.length
             /\ CombinedPages(total_size) <= u.length \div PageSize
<1> DEFINE k == kernel_entry
           e == given[k]
           u == UpToReserved(given, e)
           n == u.length \div PageSize
           c == CombinedPages(total_size)
<1>1. given \in Seq(Areas) /\ total_size \in Nat /\ IsUsual(given)
  BY EarlyTypes DEF EarlyInv, MapInv, UsualMaps
<1>2. k \in DOMAIN given /\ HoldsKernel(e)
  BY DEF EarlyInv, KernelInv, HasBitmap
<1>3. \A j \in DOMAIN given : Scanned(j)
  BY DEF Scanned
<1>4. \A j \in DOMAIN given : HoldsKernel(given[j]) => j <= k
  BY <1>3 DEF EarlyInv, KernelInv
<1>5. \A j \in DOMAIN given : j \in Nat
  BY <1>1
<1>6. e.available /\ e.addr = KernelStart
  BY <1>1, <1>2, <1>4, <1>5 DEF IsUsual
<1>7. e \in Areas /\ e.length \in Nat
  BY <1>1, <1>2, MapTypes
<1>8. u \in Areas /\ u.addr = e.addr /\ u.available = e.available /\ u.length <= e.length
  BY <1>1, <1>7, Trimmed
<1>9. u.length \in Nat
  BY <1>8 DEF Areas
<1>10. Rounded(u) = u
  BY <1>6, <1>8, RoundedType, KernelAssumption
<1>11. mmap[k] = u
  BY <1>2, <1>3, <1>6, <1>10 DEF EarlyInv, MapInv, Sanitized
<1>12. c <= n
  <2>1. c \in Nat
    BY <1>1, PageNumbers
  <2>2. n \in Int
    BY <1>9, EarlyConstants
  <2> HIDE DEF c, n
  <2>3. n >= c
    BY <1>11 DEF HasBitmap, c, n
  <2>4. QED
    BY <2>1, <2>2, <2>3
<1> HIDE DEF e, u
<1>13. u.addr = KernelStart
  BY <1>6, <1>8
<1>14. QED
  BY <1>2, <1>6, <1>7, <1>8, <1>9, <1>11, <1>12, <1>13 DEF e

LEMMA BitmapInArea ==
  ASSUME EarlyInv, UsualMaps, HasBitmap, step[1] # "scan"
  PROVE  \E e \in AvailableAreas :
           early_pmm.bitmap .. early_pmm.bitmap + early_pmm.size - 1 \subseteq AreaBytes(e)
<1> DEFINE e == given[kernel_entry]
           u == mmap[kernel_entry]
           n == u.length \div PageSize
           y == u.length % PageSize
           p == KernelPages * PageSize
           b == BitmapSize(total_size)
           c == CombinedPages(total_size)
<1>1. /\ kernel_entry \in DOMAIN given /\ e.available /\ e.addr = KernelStart
      /\ u.length \in Nat /\ e.length \in Nat /\ u.length <= e.length /\ c <= n
  BY KernelArea
<1>2. n \in Nat /\ y \in 0 .. PageSize - 1 /\ u.length = PageSize * n + y
  BY <1>1, EarlyConstants, DivisionRemainder
<1>3. /\ b \in Nat /\ KernelPages \in Nat /\ c \in Nat /\ p + b <= PageSize * c
  BY EarlyTypes, PageNumbers
<1>4. early_pmm.bitmap = KernelStart + p /\ early_pmm.size = b
  BY DEF HasBitmap
<1>5. e \in AvailableAreas
  BY <1>1 DEF AvailableAreas
<1> HIDE DEF e, u, n, y, b, c
<1>6. PageSize * c <= PageSize * n /\ PageSize * c \in Nat /\ PageSize * n \in Nat /\ y \in Nat
      /\ p \in Nat
  BY <1>1, <1>2, <1>3, EarlyConstants
<1> HIDE DEF p
<1>7. p + b <= e.length
  BY <1>1, <1>2, <1>3, <1>6
<1>8. KernelStart + p .. KernelStart + p + b - 1 \subseteq AreaBytes(e)
  BY <1>1, <1>3, <1>6, <1>7, EarlyConstants DEF AreaBytes
<1>9. QED
  BY <1>4, <1>5, <1>8

LEMMA EarlyAndSizeInvariant == UsualMaps => (Spec => [](EarlyInv /\ SizeInv))
<1> SUFFICES ASSUME UsualMaps PROVE Spec => [](EarlyInv /\ SizeInv)
  OBVIOUS
<1>1. EarlyInv /\ SizeInv /\ [Next]_vars => (EarlyInv /\ SizeInv)'
  BY NextEarlyInv, NextSizeInv
<1>2. QED
  BY <1>1, InitEarlyInv, InitSizeInv, PTL DEF Spec

(* For usual maps no bit is cleared behind the bitmap, whose size comes    *)
(* from one entry, and the bitmap is in an available area.                 *)
THEOREM BitmapRight == UsualMaps => (Spec => []BitmapHoldsAllPages)
<1> SUFFICES ASSUME UsualMaps PROVE Spec => []BitmapHoldsAllPages
  OBVIOUS
<1>1. EarlyInv /\ SizeInv => BitmapHoldsAllPages
  <2> SUFFICES ASSUME EarlyInv, SizeInv, early_pmm.size > 0
               PROVE  /\ \A f \in early_pmm.clear : f < 8 * early_pmm.size
                      /\ \E e \in AvailableAreas :
                           early_pmm.bitmap .. early_pmm.bitmap + early_pmm.size - 1
                             \subseteq AreaBytes(e)
    BY DEF BitmapHoldsAllPages
  <2>1. HasBitmap /\ step[1] # "scan"
    BY DEF EarlyInv, MemoryInv, NoMemory
  <2>2. ASSUME NEW f \in early_pmm.clear
        PROVE  f < 8 * early_pmm.size
    <3>1. PICK i \in DOMAIN given : /\ given[i].available
                                   /\ mmap[i] = Sanitized(given, given[i])
                                   /\ f \in FramesOf(Sanitized(given, given[i]))
      BY FreePageOrigin
    <3>2. /\ f \in Nat /\ PageSize * f \in Nat
          /\ PageSize * f + PageSize <= PagesEnd(mmap[i])
      BY <3>1, FrameInArea
    <3>3. PagesEnd(mmap[i]) <= total_size
      BY <2>1, <3>1 DEF SizeInv, Scanned
    <3>4. mmap[i] \in Areas /\ total_size \in Nat
      BY EarlyTypes, MapTypes
    <3>5. PagesEnd(mmap[i]) \in Nat
      BY <3>4, PagesEndType
    <3>6. PageSize * f + PageSize <= total_size
      BY <3>2, <3>3, <3>4, <3>5, EarlyConstants
    <3>7. f < 8 * BitmapSize(total_size)
      BY <3>2, <3>4, <3>6, BitmapSizeCovers DEF SizeInv
    <3>8. QED
      BY <2>1, <3>7 DEF HasBitmap
  <2>3. QED
    BY <2>1, <2>2, BitmapInArea
<1>2. QED
  BY <1>1, EarlyAndSizeInvariant, PTL

-----------------------------------------------------------------------------
(* The areas of a usual map share no page, so every page is counted once.  *)
LEMMA FramesCounted ==
  ASSUME EarlyInv, UsualMaps, NEW i \in DOMAIN given, given[i].available,
         step = <<"clear", i>>
  PROVE  LET s == Sanitized(given, given[i])
         IN  /\ mmap[i] = s
             /\ IsFiniteSet(Cleared(s)) /\ IsFiniteSet(FramesOf(s))
             /\ Cardinality(FramesOf(s)) = Cardinality(Cleared(s))
             /\ FramesOf(s) \intersect early_pmm.clear = {}
<1> DEFINE s == Sanitized(given, given[i])
           C == Cleared(s)
           F == FramesOf(s)
           g == [k \in C |-> PageAddress(s, k) \div PageSize]
<1>1. /\ given \in Seq(Areas) /\ DOMAIN mmap = DOMAIN given /\ total_size \in Nat
      /\ IsUsual(given)
  BY EarlyTypes DEF EarlyInv, MapInv, UsualMaps
<1>2. given[i] \in Areas
  BY <1>1, MapTypes
<1>3. s \in Areas
  BY <1>1, <1>2, SanitizedType
<1>4. s.addr \in Nat /\ s.length \in Nat
  BY <1>3 DEF Areas
<1>5. mmap[i] = s
  BY DEF EarlyInv, MapInv, Scanned
<1>6. IsFiniteSet(C)
  <2> HIDE DEF s
  <2> DEFINE q == s.length \div PageSize
  <2>1. q \in Nat
    BY <1>4, EarlyConstants, DivisionRemainder
  <2> HIDE DEF q
  <2>2. q % Word \in Int
    BY <2>1, EarlyConstants
  <2>3. NumPages(s) - 1 \in Int
    BY <2>2 DEF NumPages, q
  <2>4. IsFiniteSet(0 .. NumPages(s) - 1)
    BY <2>3, FS_Interval
  <2>5. C \in SUBSET (0 .. NumPages(s) - 1)
    BY DEF Cleared
  <2>6. QED
    BY <2>4, <2>5, FS_Subset
<1>7. \A k \in C : /\ k \in Nat /\ g[k] \in Nat
                   /\ PageSize * g[k] = s.addr + PageSize * k
  <2>1. \A k \in C : k \in Nat
    BY DEF Cleared
  <2>2. QED
    BY <1>1, <2>1, FramesArePages
<1>8. g \in [C -> F] /\ \A f \in F : \E k \in C : g[k] = f
  BY DEF FramesOf
<1> HIDE DEF g, C, F, s
<1>9. ASSUME NEW k \in C, NEW l \in C, g[k] = g[l]
      PROVE  k = l
  <2>1. s.addr + PageSize * k = s.addr + PageSize * l /\ k \in Nat /\ l \in Nat
    BY <1>7, <1>9
  <2>2. PageSize * k \in Nat /\ PageSize * l \in Nat
    BY <2>1, EarlyConstants
  <2>3. PageSize * k = PageSize * l
    BY <1>4, <2>1, <2>2
  <2>4. QED
    BY <2>1, <2>3, EarlyConstants
<1>10. g \in Bijection(C, F)
  BY <1>8, <1>9 DEF Bijection, Injection, Surjection, IsInjective
<1>11. IsFiniteSet(F) /\ Cardinality(F) = Cardinality(C)
  BY <1>6, <1>10, FS_Bijection DEF ExistsBijection
<1>12. ASSUME NEW f \in F, f \in early_pmm.clear
       PROVE  FALSE
  <2>1. PICK j \in DOMAIN given : /\ given[j].available /\ LoopedAt(j)
                                 /\ f \in FramesOf(Sanitized(given, given[j]))
    BY <1>12, FreePageOrigin
  <2>2. j < i /\ j \in Nat /\ i \in Nat
    BY <1>1, <2>1 DEF LoopedAt
  <2>3. given[j].addr + given[j].length <= given[i].addr
    BY <1>1, <2>1, <2>2 DEF IsUsual
  <2>4. PageSize * f \in Nat /\ PageSize * f + PageSize <= given[j].addr + given[j].length
    BY <2>1, FrameInArea
  <2>5. given[i].addr <= PageSize * f
    BY FrameInArea DEF F, s
  <2>6. /\ given[i].addr \in Nat /\ given[j].addr \in Nat /\ given[j].length \in Nat
    BY <1>1, MapTypes
  <2>7. QED
    BY <2>3, <2>4, <2>5, <2>6, EarlyConstants
<1>13. F \intersect early_pmm.clear = {}
  BY <1>12
<1>14. QED
  BY <1>5, <1>6, <1>11, <1>13 DEF s, C, F

LEMMA InitHint == Init => HandsOverFreeHint
<1> SUFFICES ASSUME Init PROVE HandsOverFreeHint
  OBVIOUS
<1>1. early_pmm.clear = {} /\ early_pmm.free_pages = 0
  BY DEF Init, NoMemory
<1>2. QED
  BY <1>1, FS_EmptySet DEF HandsOverFreeHint

LEMMA NextHint ==
  ASSUME UsualMaps, EarlyInv, HandsOverFreeHint, [Next]_vars
  PROVE  HandsOverFreeHint'
<1>1. IsFiniteSet(early_pmm.clear)
  <2>1. Word \div PageSize - 1 \in Int
    BY EarlyConstants
  <2>2. IsFiniteSet(0 .. Word \div PageSize - 1)
    BY <2>1, FS_Interval
  <2>3. early_pmm.clear \in SUBSET (0 .. Word \div PageSize - 1)
    BY DEF EarlyInv, TypeOK
  <2>4. QED
    BY <2>2, <2>3, FS_Subset
<1>2. CASE UNCHANGED early_pmm
  BY <1>2 DEF HandsOverFreeHint
<1>3. CASE SetUp
  <2>1. early_pmm = NoMemory
    BY <1>3 DEF SetUp, EarlyInv, MemoryInv
  <2>2. early_pmm'.clear = {} /\ early_pmm'.free_pages = 0
    <3>1. CASE early_pmm' = [NoMemory EXCEPT !.bitmap = KernelStart + KernelPages * PageSize,
                                             !.size = BitmapSize(total_size)]
      <4> DEFINE a == KernelStart + KernelPages * PageSize
                 b == BitmapSize(total_size)
      <4>1. early_pmm' = [NoMemory EXCEPT !.bitmap = a, !.size = b]
        BY <3>1
      <4> HIDE DEF a, b
      <4>2. QED
        BY <4>1 DEF NoMemory
    <3>2. CASE early_pmm' = NoMemory
      BY <3>2 DEF NoMemory
    <3>3. QED
      BY <1>3, <2>1, <3>1, <3>2 DEF SetUp
  <2>3. Cardinality({}) = 0
    BY FS_EmptySet
  <2>4. QED
    BY <2>2, <2>3 DEF HandsOverFreeHint
<1>4. ASSUME NEW i \in DOMAIN mmap, Clear(i), mmap[i].available
      PROVE  HandsOverFreeHint'
  <2> DEFINE e == mmap[i]
             C == Cleared(e)
             F == FramesOf(e)
             n == IF early_pmm.free_pages = 0 /\ C # {}
                  THEN PageAddress(e, Min(C)) \div PageSize ELSE early_pmm.next
  <2>1. step = <<"clear", i>> /\ early_pmm' = AfterClear(early_pmm, e)
    BY <1>4 DEF Clear
  <2>2. i \in DOMAIN given /\ e = Sanitized(given, given[i])
    BY <2>1, EarlyTypes DEF EarlyInv, MapInv, Scanned
  <2>3. given[i].available
    <3>1. given \in Seq(Areas) /\ given[i] \in Areas
      BY <2>2, EarlyTypes, MapTypes
    <3>2. QED
      BY <1>4, <2>2, <3>1, SanitizedType
  <2>4. /\ IsFiniteSet(C) /\ IsFiniteSet(F) /\ Cardinality(F) = Cardinality(C)
        /\ F \intersect early_pmm.clear = {}
    BY <2>1, <2>2, <2>3, FramesCounted
  <2>5. early_pmm \in [bitmap : Nat, size : Nat, clear : SUBSET Nat, next : Nat, free_pages : Nat]
    BY DEF EarlyInv, MemoryInv
  <2>6. early_pmm' = [early_pmm EXCEPT !.clear = @ \union F,
                                       !.free_pages = @ + Cardinality(C), !.next = n]
    BY <2>1 DEF AfterClear, FramesOf
  <2>7. C \in SUBSET Nat
    BY DEF Cleared
  <2>8. C # {} => PageAddress(e, Min(C)) \div PageSize \in F
    <3>1. C # {} => Min(C) \in C
      BY <2>7, LeastOf
    <3>2. QED
      BY <3>1 DEF FramesOf
  <2>9. F # {} => C # {}
    BY DEF FramesOf
  <2> HIDE DEF C, F, e
  <2>10. /\ early_pmm'.clear = early_pmm.clear \union F
         /\ early_pmm'.free_pages = early_pmm.free_pages + Cardinality(C)
         /\ early_pmm'.next = n
    BY <2>5, <2>6
  <2>11. Cardinality(early_pmm.clear \union F) = Cardinality(early_pmm.clear) + Cardinality(C)
    <3>1. Cardinality(early_pmm.clear \union F) =
            Cardinality(early_pmm.clear) + Cardinality(F) - Cardinality(early_pmm.clear \intersect F)
      BY <1>1, <2>4, FS_Union
    <3>2. Cardinality(early_pmm.clear \intersect F) = 0
      BY <2>4, FS_EmptySet
    <3>3. Cardinality(early_pmm.clear) \in Nat /\ Cardinality(F) \in Nat
      BY <1>1, <2>4, FS_CardinalityType
    <3>4. QED
      BY <2>4, <3>1, <3>2, <3>3
  <2>12. early_pmm.free_pages = 0 <=> early_pmm.clear = {}
    BY <1>1, FS_EmptySet DEF HandsOverFreeHint
  <2>13. ASSUME early_pmm.clear \union F # {}
         PROVE  n \in early_pmm.clear \union F
    <3>1. CASE early_pmm.clear = {}
      BY <2>8, <2>9, <2>12, <2>13, <3>1
    <3>2. CASE early_pmm.clear # {}
      BY <2>12, <3>2 DEF HandsOverFreeHint
    <3>3. QED
      BY <3>1, <3>2
  <2> HIDE DEF n
  <2>14. QED
    BY <2>10, <2>11, <2>13 DEF HandsOverFreeHint
<1>5. CASE \E i \in DOMAIN mmap : Scan(i)
  BY <1>2, <1>5 DEF Scan
<1>6. CASE \E i \in DOMAIN mmap : Clear(i)
  BY <1>2, <1>4, <1>6 DEF Clear
<1>7. CASE UNCHANGED vars
  BY <1>2, <1>7 DEF vars
<1>8. QED
  BY <1>3, <1>5, <1>6, <1>7 DEF Next, InitFrameAllocator, Return

(* For usual maps late_pmm_init() gets a hint that names a free page, if   *)
(* there is any, and the number of free pages: no page is counted twice.   *)
THEOREM FreeHint == UsualMaps => (Spec => []HandsOverFreeHint)
<1> SUFFICES ASSUME UsualMaps PROVE Spec => []HandsOverFreeHint
  OBVIOUS
<1>1. EarlyInv /\ HandsOverFreeHint /\ [Next]_vars => HandsOverFreeHint'
  BY NextHint
<1>2. QED
  BY <1>1, InitHint, EarlyInvariant, PTL DEF Spec

-----------------------------------------------------------------------------
(* What follows init_frame_allocator() at start-up leaves its result as it *)
(* is, so all of this stays true until the heap is there.                  *)
LEMMA BootKeepsMemory == BootSpec => Spec
<1>1. BootInit => Init
  BY DEF BootInit
<1>2. [BootNext]_bootVars => [Next]_vars
  <2> SUFFICES ASSUME [BootNext]_bootVars PROVE [Next]_vars
    OBVIOUS
  <2>1. CASE InitFrameAllocator
    BY <2>1 DEF Next
  <2>2. CASE UNCHANGED vars
    BY <2>2
  <2>3. CASE UNCHANGED bootVars
    BY <2>3 DEF bootVars, vars
  <2>4. QED
    BY <2>1, <2>2, <2>3 DEF BootNext, StartUpEnds
<1>3. QED
  BY <1>1, <1>2, PTL DEF BootSpec, Spec

THEOREM MemoryAtStartUp ==
  UsualMaps =>
    (BootSpec => [](/\ TypeOK /\ FreePagesAreUsable /\ BitmapHoldsAllPages
                    /\ UsablePagesAreFree /\ HandsOverFreeHint))
<1> SUFFICES ASSUME UsualMaps
             PROVE  BootSpec => [](/\ TypeOK /\ FreePagesAreUsable /\ BitmapHoldsAllPages
                                   /\ UsablePagesAreFree /\ HandsOverFreeHint)
  OBVIOUS
<1>1. Spec => []FreePagesAreUsable /\ []BitmapHoldsAllPages /\ []HandsOverFreeHint
  BY FreePagesRight, BitmapRight, FreeHint
<1>2. QED
  BY <1>1, BootKeepsMemory, EarlyTypeCorrect, NoPageIsLost, PTL

-----------------------------------------------------------------------------
(* The kernel's part of the address space: first the pages of the bitmap,  *)
(* then the kernel's own, then the VGA buffer's.                           *)
FirstKernelFrame == KernelStart \div PageSize

LEMMA LayoutFacts ==
  /\ FirstKernelFrame \in Nat /\ KernelPages \in Nat \ {0} /\ TableEntries \in Nat
  /\ KernelStart = PageSize * FirstKernelFrame
  /\ KernelPages < FirstKernelFrame
  /\ FirstKernelFrame < TableEntries - 2
  /\ \A t \in KernelFrames :
       /\ t \in PtIndices /\ FirstKernelFrame <= t /\ t < FirstKernelFrame + KernelPages
       /\ t < TableEntries - 2
       /\ KernelStart <= PageSize * t /\ PageSize * t < KernelStart + KernelSize
  /\ KernelStart + KernelSize <= KernelStart + KernelPages * PageSize
<1> DEFINE q == FirstKernelFrame
           z == PageSize
<1>1. q \in Nat /\ z \in Nat \ {0} /\ KernelStart = z * q /\ KernelSize \in Nat \ {0}
  BY EarlyConstants DEF FirstKernelFrame
<1>2. TableEntries \in Nat /\ KernelPages < q /\ KernelStart + KernelSize <= (TableEntries - 2) * z
  BY TablesAssumption, LayoutAssumption DEF FirstKernelFrame
<1>3. KernelPages \in Nat /\ KernelSize <= z * KernelPages
  BY <1>1, DivCeilCovers DEF KernelPages
<1>4. KernelPages # 0
  <2>1. z * 0 = 0
    BY <1>1
  <2>2. QED
    BY <1>1, <1>3, <2>1
<1>5. z * q < z * (TableEntries - 2)
  <2>1. (TableEntries - 2) * z = z * (TableEntries - 2) /\ z * q \in Int /\ z * (TableEntries - 2) \in Int
    BY <1>1, <1>2
  <2>2. QED
    BY <1>1, <1>2, <2>1
<1>6. z * KernelPages = KernelPages * z /\ z * KernelPages \in Nat
  BY <1>1, <1>3
<1>7. ASSUME NEW t \in KernelFrames
      PROVE  /\ t \in PtIndices /\ q <= t /\ t < q + KernelPages /\ t < TableEntries - 2
             /\ KernelStart <= z * t /\ z * t < KernelStart + KernelSize
  <2>1. t \in PtIndices /\ t \in Nat
    BY <1>2 DEF KernelFrames, PtIndices
  <2>2. z * t = t * z /\ z * t \in Nat
    BY <1>1, <2>1
  <2>3. KernelStart <= z * t /\ z * t < KernelStart + KernelSize
    BY <2>2 DEF KernelFrames
  <2>4. q <= t
    <3> SUFFICES ASSUME t < q PROVE FALSE
      BY <1>1, <2>1
    <3>1. z * t < z * q
      BY <1>1, <2>1
    <3>2. QED
      BY <1>1, <2>2, <2>3, <3>1
  <2>5. t < q + KernelPages
    <3> SUFFICES ASSUME q + KernelPages <= t PROVE FALSE
      BY <1>1, <1>3, <2>1
    <3>1. z * (q + KernelPages) <= z * t
      BY <1>1, <1>3, <2>1
    <3>2. z * (q + KernelPages) = z * q + z * KernelPages
      BY <1>1, <1>3
    <3>3. z * q \in Int
      BY <1>1
    <3>4. QED
      BY <1>1, <1>3, <1>6, <2>2, <2>3, <3>1, <3>2, <3>3
  <2>6. t < TableEntries - 2
    <3> SUFFICES ASSUME TableEntries - 2 <= t PROVE FALSE
      BY <1>2, <2>1
    <3>1. z * (TableEntries - 2) <= z * t
      BY <1>1, <1>2, <2>1
    <3>2. z * (TableEntries - 2) = (TableEntries - 2) * z /\ z * (TableEntries - 2) \in Int
      BY <1>1, <1>2
    <3>3. QED
      BY <1>1, <1>2, <2>2, <2>3, <3>1, <3>2
  <2>7. QED
    BY <2>1, <2>3, <2>4, <2>5, <2>6
<1>8. q < TableEntries - 2
  <2> SUFFICES ASSUME TableEntries - 2 <= q PROVE FALSE
    BY <1>1, <1>2
  <2>1. z * (TableEntries - 2) <= z * q
    BY <1>1, <1>2
  <2>2. z * (TableEntries - 2) \in Int /\ z * q \in Int
    BY <1>1, <1>2
  <2>3. QED
    BY <1>5, <2>1, <2>2
<1>9. QED
  BY <1>1, <1>2, <1>3, <1>4, <1>6, <1>7, <1>8

(* total_size is the end of an area as the first loop leaves it.           *)
TotalInv ==
  \/ total_size = 0
  \/ \E k \in DOMAIN given :
       LET s == Sanitized(given, given[k])
       IN  given[k].available /\ total_size = (s.addr + s.length) % LongWord

LEMMA NextTotalInv ==
  ASSUME EarlyInv, TotalInv, [Next]_vars
  PROVE  TotalInv'
<1>1. DOMAIN mmap = DOMAIN given
  BY EarlyTypes
<1>2. CASE given' = given /\ total_size' = total_size
  BY <1>2 DEF TotalInv
<1>3. ASSUME NEW k \in DOMAIN mmap, Scan(k)
      PROVE  TotalInv'
  <2> DEFINE s == Sanitized(given, given[k])
  <2>1. /\ step = <<"scan", k>> /\ given' = given
        /\ total_size' = IF mmap[k].available
                         THEN (Sanitized(mmap, mmap[k]).addr
                               + Sanitized(mmap, mmap[k]).length) % LongWord
                         ELSE total_size
    BY <1>3 DEF Scan
  <2>2. k \in Nat
    BY EarlyTypes
  <2>3. mmap[k] = given[k]
    BY <1>1, <2>1, <2>2 DEF EarlyInv, MapInv, Scanned
  <2>4. Sanitized(mmap, mmap[k]) = s
    BY <2>3, SanitizedAnytime
  <2>5. total_size' = IF given[k].available THEN (s.addr + s.length) % LongWord
                      ELSE total_size
    BY <2>1, <2>3, <2>4
  <2> HIDE DEF s
  <2>7. CASE given[k].available
    BY <1>1, <2>1, <2>5, <2>7 DEF TotalInv, s
  <2>8. CASE ~ given[k].available
    BY <1>2, <2>1, <2>5, <2>8
  <2>9. QED
    BY <2>7, <2>8
<1>4. CASE SetUp
  BY <1>2, <1>4 DEF SetUp
<1>5. CASE \E k \in DOMAIN mmap : Clear(k)
  BY <1>2, <1>5 DEF Clear
<1>6. CASE UNCHANGED vars
  BY <1>2, <1>6 DEF vars
<1>7. QED
  BY <1>3, <1>4, <1>5, <1>6 DEF Next, InitFrameAllocator, Return

(* Whatever the number of the page, rounding down keeps the order.         *)
LEMMA DivisionMonotonic ==
  ASSUME NEW a \in Nat, NEW b \in Nat, NEW m \in Nat \ {0}, a <= b
  PROVE  a \div m \in Nat /\ a \div m <= b \div m
<1> DEFINE q == a \div m
           r == b \div m
           x == a % m
           y == b % m
<1>1. q \in Nat /\ r \in Nat /\ a = m * q + x /\ b = m * r + y /\ x \in 0 .. m - 1 /\ y \in 0 .. m - 1
  BY DivisionRemainder
<1> HIDE DEF q, r, x, y
<1>2. x \in Nat /\ y \in Nat /\ x < m /\ y < m
  BY <1>1
<1>3. q <= r
  <2> SUFFICES ASSUME r < q PROVE FALSE
    BY <1>1
  <2>1. m * r \in Nat /\ m * q \in Nat
    BY <1>1
  <2>2. m * r + m <= m * q
    <3>1. m * r < m * q
      BY <1>1
    <3>2. QED
      BY <1>1, <3>1, MultiplesApart
  <2>3. QED
    BY <1>1, <1>2, <2>1, <2>2
<1>4. QED
  BY <1>1, <1>3 DEF q, r

(* The bitmap's pages end in front of where the kernel is in its part of   *)
(* the address space.                                                      *)
LEMMA BitmapPagesFit ==
  ASSUME EarlyInv, SizeInv, TotalInv, UsualMaps, total_size # 0
  PROVE  KernelPages + BitmapPages(total_size) <= FirstKernelFrame
<1>1. given \in Seq(Areas) /\ given \in MemoryMaps /\ total_size \in Nat /\ IsUsual(given)
  BY EarlyTypes DEF EarlyInv, MapInv, UsualMaps
<1>2. PICK k \in DOMAIN given :
        /\ given[k].available
        /\ total_size = Sanitized(given, given[k]).addr + Sanitized(given, given[k]).length
  BY <1>1, EndNotCut DEF TotalInv
<1> DEFINE e == given[k]
           s == Sanitized(given, e)
           t == e.addr + e.length
           n == s.length \div PageSize
           y == s.length % PageSize
           q == s.addr \div PageSize
<1>3. e \in Areas /\ e.addr \in Nat /\ e.length \in Nat
  BY <1>1, MapTypes
<1>4. s \in Areas /\ s.addr % PageSize = 0 /\ PagesEnd(s) <= t
  BY <1>1, <1>2, <1>3, SanitizedType, SanitizedPages
<1>5. s.addr \in Nat /\ s.length \in Nat
  BY <1>4 DEF Areas
<1>6. t <= Word + KernelStart /\ t \in Nat
  BY <1>1, <1>2, <1>3 DEF IsUsual
<1>7. q \in Nat /\ s.addr = PageSize * q
  <2>1. q \in Nat /\ s.addr = PageSize * q + (s.addr % PageSize)
    BY <1>5, EarlyConstants, DivisionRemainder
  <2>2. PageSize * q \in Int
    BY <2>1, EarlyConstants
  <2> HIDE DEF q
  <2>3. QED
    BY <1>4, <2>1, <2>2
<1>8. n \in Nat /\ y \in 0 .. PageSize - 1 /\ s.length = PageSize * n + y
  BY <1>5, EarlyConstants, DivisionRemainder
<1>9. PagesEnd(s) = PageSize * (q + n)
  <2>1. PagesEnd(s) = s.addr + PageSize * n
    BY DEF PagesEnd
  <2> HIDE DEF q, n, s
  <2>2. PageSize * (q + n) = PageSize * q + PageSize * n
    BY <1>7, <1>8, EarlyConstants
  <2>3. QED
    BY <1>7, <2>1, <2>2
<1>10. total_size \div PageSize = q + n
  <2>1. total_size = PageSize * (q + n) + y
    <3>1. PageSize * (q + n) = PageSize * q + PageSize * n
      BY <1>7, <1>8, EarlyConstants
    <3>2. PageSize * q \in Nat /\ PageSize * n \in Nat
      BY <1>7, <1>8, EarlyConstants
    <3>3. total_size = s.addr + s.length
      BY <1>2
    <3> HIDE DEF q, n, s, y
    <3>4. QED
      BY <1>7, <1>8, <3>1, <3>2, <3>3
  <2> DEFINE m == q + n
  <2>2. m \in Nat
    BY <1>7, <1>8
  <2> HIDE DEF q, n, s, y, m
  <2>3. (PageSize * m + y) \div PageSize = m
    BY <1>8, <2>2, EarlyConstants, RemainderUnique
  <2>4. QED
    BY <2>1, <2>3 DEF m
<1>11. q + n <= t \div PageSize
  <2> DEFINE m == q + n
  <2>1. m \in Nat
    BY <1>7, <1>8
  <2> HIDE DEF m
  <2>2. PageSize * m \in Nat
    BY <2>1, EarlyConstants
  <2>3. (PageSize * m) \div PageSize <= t \div PageSize
    BY <1>4, <1>6, <1>9, <2>2, EarlyConstants, DivisionMonotonic DEF m
  <2>4. (PageSize * m) \div PageSize = m
    BY <2>1, ExactPage
  <2>5. QED
    BY <2>3, <2>4 DEF m
<1> HIDE DEF s, q, n, y, t
<1>12. t \div PageSize \in Nat
  BY <1>6, EarlyConstants, DivisionRemainder
<1>13. BitmapSize(total_size) <= BitmapSize(t) /\ BitmapSize(total_size) \in Nat /\ BitmapSize(t) \in Nat
  <2>1. /\ BitmapSize(total_size) = DivCeil(total_size \div PageSize, 8)
        /\ BitmapSize(total_size) \in Nat
    BY <1>1, BitmapSizeIs DEF SizeInv
  <2>2. BitmapSize(t) = DivCeil(t \div PageSize, 8) /\ BitmapSize(t) \in Nat
    BY <1>6, BitmapSizeIs, EarlyConstants
  <2>3. DivCeil(q + n, 8) <= DivCeil(t \div PageSize, 8)
    BY <1>7, <1>8, <1>11, <1>12 DEF DivCeil
  <2>4. QED
    BY <1>10, <2>1, <2>2, <2>3
<1>14. BitmapPages(total_size) <= BitmapPages(t) /\ BitmapPages(total_size) \in Nat
       /\ BitmapPages(t) \in Nat
  <2> DEFINE a == BitmapSize(total_size) + PageSize - 1
             b == BitmapSize(t) + PageSize - 1
  <2>1. a \in Nat /\ b \in Nat /\ a <= b
    BY <1>13, EarlyConstants
  <2> HIDE DEF a, b
  <2>2. a \div PageSize <= b \div PageSize
    BY <2>1, EarlyConstants, DivisionMonotonic
  <2>3. BitmapPages(total_size) = a \div PageSize /\ BitmapPages(t) = b \div PageSize
    BY DEF BitmapPages, DivCeil, a, b
  <2>4. QED
    BY <1>1, <1>6, <2>2, <2>3, PageNumbers
<1>15. KernelPages + BitmapPages(t) <= FirstKernelFrame
  BY <1>1, LayoutAssumption DEF FirstKernelFrame, t
<1>16. QED
  BY <1>14, <1>15, LayoutFacts

(* As long as no page is free the hint is 0.                               *)
HintInv == early_pmm.clear = {} => early_pmm.next = 0

LEMMA NextHintInv ==
  ASSUME EarlyInv, HintInv, [Next]_vars
  PROVE  HintInv'
<1>1. /\ early_pmm \in [bitmap : Nat, size : Nat, clear : SUBSET Nat, next : Nat, free_pages : Nat]
  BY DEF EarlyInv, MemoryInv
<1>2. CASE early_pmm' = early_pmm
  BY <1>2 DEF HintInv
<1>3. CASE SetUp
  <2>1. CASE early_pmm'.next = 0
    BY <2>1 DEF HintInv
  <2>2. CASE early_pmm' = early_pmm
    BY <1>2, <2>2
  <2>3. QED
    BY <1>3, <2>1, <2>2 DEF SetUp, NoMemory
<1>4. ASSUME NEW k \in DOMAIN mmap, Clear(k)
      PROVE  HintInv'
  <2> DEFINE e == mmap[k]
             C == Cleared(e)
             F == {PageAddress(e, j) \div PageSize : j \in C}
             n == IF early_pmm.free_pages = 0 /\ C # {}
                  THEN PageAddress(e, Min(C)) \div PageSize ELSE early_pmm.next
             c == Cardinality(C)
  <2>1. CASE ~ e.available
    BY <1>2, <1>4, <2>1 DEF Clear
  <2>2. CASE e.available
    <3>1. early_pmm' = [early_pmm EXCEPT !.clear = @ \union F, !.free_pages = @ + c, !.next = n]
      BY <1>4, <2>2 DEF Clear, AfterClear
    <3>2. F = {} => C = {}
      OBVIOUS
    <3>3. C = {} => n = early_pmm.next
      OBVIOUS
    <3> HIDE DEF C, F, n, c
    <3>4. early_pmm'.clear = early_pmm.clear \union F /\ early_pmm'.next = n
      BY <1>1, <3>1
    <3>5. QED
      BY <3>2, <3>3, <3>4 DEF HintInv
  <2>3. QED
    BY <2>1, <2>2
<1>5. CASE \E k \in DOMAIN mmap : Scan(k)
  BY <1>2, <1>5 DEF Scan
<1>6. CASE UNCHANGED vars
  BY <1>2, <1>6 DEF vars
<1>7. QED
  BY <1>3, <1>4, <1>5, <1>6 DEF Next, InitFrameAllocator, Return

MemoryIsRight ==
  EarlyInv /\ SizeInv /\ TotalInv /\ HintInv
  /\ FreePagesAreUsable /\ BitmapHoldsAllPages /\ HandsOverFreeHint

FirstBitmapFrame == FirstKernelFrame + KernelPages

(* The bitmap is right behind the kernel and describes both; its pages fit *)
(* in front of where the kernel is mapped.                                 *)
LEMMA BitmapLayout ==
  ASSUME MemoryIsRight, UsualMaps, HasBitmap, Done
  PROVE  /\ early_pmm.size \in Nat \ {0}
         /\ early_pmm.bitmap = PageSize * FirstBitmapFrame
         /\ early_pmm.bitmap \div PageSize = FirstBitmapFrame
         /\ KernelPages + BitmapPageCount <= FirstKernelFrame
         /\ FirstBitmapFrame <= 8 * early_pmm.size
<1> DEFINE u == mmap[kernel_entry]
           n == u.length \div PageSize
           b == FirstBitmapFrame
           c == CombinedPages(total_size)
<1>1. EarlyInv /\ SizeInv /\ TotalInv /\ step[1] = "done"
  BY DEF MemoryIsRight, Done
<1>2. /\ kernel_entry \in DOMAIN given /\ given[kernel_entry].available
      /\ u.addr = KernelStart /\ u.length \in Nat /\ c <= n
  BY <1>1, KernelArea
<1>3. total_size \in Nat /\ c \in Nat /\ KernelPages <= c
  <2>1. total_size \in Nat
    BY <1>1, EarlyTypes
  <2>2. KernelPages \in Nat /\ BitmapPages(total_size) \in Nat
    BY <2>1, PageNumbers
  <2>3. c = KernelPages + BitmapPages(total_size)
    BY DEF CombinedPages
  <2>4. QED
    BY <2>1, <2>2, <2>3
<1>4. PagesEnd(u) <= total_size /\ total_size <= Word + KernelStart + PageSize
  BY <1>1, <1>2 DEF SizeInv, Scanned
<1>5. PagesEnd(u) = KernelStart + PageSize * n
  BY <1>2 DEF PagesEnd
<1>6. n \in Nat
  BY <1>2, EarlyConstants, DivisionRemainder
<1> HIDE DEF u, n, c
<1>7. b \in Nat /\ b # 0 /\ PageSize * b <= total_size /\ PageSize * b = KernelStart + PageSize * KernelPages
  <2>1. b \in Nat /\ b # 0 /\ PageSize * b = PageSize * FirstKernelFrame + PageSize * KernelPages
    BY LayoutFacts, EarlyConstants DEF FirstBitmapFrame
  <2>2. PageSize * KernelPages <= PageSize * n /\ PageSize * KernelPages \in Nat /\ PageSize * n \in Nat
    BY <1>2, <1>3, <1>6, LayoutFacts, EarlyConstants
  <2>3. QED
    BY <1>3, <1>4, <1>5, <2>1, <2>2, LayoutFacts, EarlyConstants
<1>8. b - 1 < 8 * BitmapSize(total_size)
  <2> DEFINE f == b - 1
  <2>1. f \in Nat
    BY <1>7
  <2>2. PageSize * f + PageSize = PageSize * b
    <3>1. PageSize * (f + 1) = PageSize * f + PageSize
      BY <2>1, EarlyConstants
    <3>2. f + 1 = b
      BY <1>7
    <3>3. QED
      BY <3>1, <3>2
  <2> HIDE DEF f, b
  <2>3. f < 8 * BitmapSize(total_size)
    BY <1>3, <1>4, <1>7, <2>1, <2>2, BitmapSizeCovers
  <2>4. QED
    BY <2>3 DEF f
<1>9. early_pmm.size = BitmapSize(total_size) /\ BitmapSize(total_size) \in Nat
      /\ early_pmm.bitmap = KernelStart + KernelPages * PageSize
  BY <1>3, PageNumbers DEF HasBitmap
<1>10. total_size # 0
  <2>1. PageSize * b # 0
    BY <1>7, EarlyConstants
  <2>2. PageSize * b \in Nat
    BY <1>7, EarlyConstants
  <2> HIDE DEF b
  <2>3. QED
    BY <1>3, <1>7, <2>1, <2>2
<1>11. KernelPages + BitmapPages(total_size) <= FirstKernelFrame
  BY <1>1, <1>10, BitmapPagesFit
<1>12. BitmapPages(total_size) = BitmapPageCount
  BY <1>9 DEF BitmapPages, BitmapPageCount
<1>13. early_pmm.bitmap = PageSize * b
  <2>1. KernelPages * PageSize = PageSize * KernelPages
    BY LayoutFacts, EarlyConstants
  <2>2. QED
    BY <1>7, <1>9, <2>1
<1>14. (PageSize * b) \div PageSize = b
  BY <1>7, ExactPage
<1>15. QED
  BY <1>7, <1>8, <1>9, <1>11, <1>12, <1>13, <1>14

(* A free page is none of those that kernel_main() maps by name.           *)
LEMMA FreePageApart ==
  ASSUME MemoryIsRight, UsualMaps, HasBitmap, Done, NEW f \in early_pmm.clear
  PROVE  /\ f \in 0 .. 8 * early_pmm.size - 1
         /\ f \notin KernelFrames /\ f # VgaFrame
         /\ \A k \in 0 .. BitmapPageCount - 1 : f # FirstBitmapFrame + k
<1> DEFINE z == early_pmm.size
           p == PageSize
           b == FirstBitmapFrame
<1>1. /\ z \in Nat \ {0} /\ early_pmm.bitmap = p * b
      /\ p \in Nat \ {0} /\ b \in Nat
      /\ KernelStart + KernelSize <= p * b /\ KernelStart = p * FirstKernelFrame
      /\ KernelStart \in Nat /\ KernelSize \in Nat /\ KernelStart <= p * b
  <2>1. p * b = p * FirstKernelFrame + p * KernelPages /\ KernelPages * p = p * KernelPages
    BY LayoutFacts, EarlyConstants DEF FirstBitmapFrame
  <2>2. p * KernelPages \in Nat
    BY LayoutFacts, EarlyConstants
  <2>3. b \in Nat
    BY LayoutFacts DEF FirstBitmapFrame
  <2>4. QED
    BY <2>1, <2>2, <2>3, LayoutFacts, EarlyConstants, BitmapLayout
<1>2. f \in Nat /\ f < 8 * z
  BY <1>1 DEF MemoryIsRight, EarlyInv, MemoryInv, BitmapHoldsAllPages
<1>3. \A x \in PageBytes(f) : ~ (KernelStart <= x /\ x < early_pmm.bitmap + z)
  BY DEF MemoryIsRight, FreePagesAreUsable
<1>4. p * f \in Nat /\ p * f \in PageBytes(f)
  BY <1>1, <1>2, EarlyConstants DEF PageBytes
<1> HIDE DEF z, p, b
<1>5. f \notin KernelFrames
  <2> SUFFICES ASSUME f \in KernelFrames PROVE FALSE
    OBVIOUS
  <2>1. KernelStart <= p * f /\ p * f < KernelStart + KernelSize
    BY LayoutFacts DEF p
  <2>2. p * b \in Nat
    BY <1>1
  <2>3. QED
    BY <1>1, <1>3, <1>4, <2>1, <2>2
<1>6. ASSUME NEW k \in 0 .. BitmapPageCount - 1
      PROVE  f # b + k
  <2> SUFFICES ASSUME f = b + k PROVE FALSE
    OBVIOUS
  <2>1. BitmapPageCount = (z + p - 1) \div p
    BY DEF BitmapPageCount, DivCeil, z, p
  <2> DEFINE a == z + p - 1
             c == a \div p
             y == a % p
  <2>2. a \in Nat
    BY <1>1
  <2>3. c \in Nat /\ y \in 0 .. p - 1 /\ a = p * c + y
    BY <1>1, <2>2, DivisionRemainder
  <2>4. k \in Nat /\ k + 1 <= c
    BY <2>1, <2>3
  <2> HIDE DEF c, y
  <2>5. p * (k + 1) <= p * c /\ p * (k + 1) = p * k + p /\ p * k \in Nat /\ p * c \in Nat
    BY <1>1, <2>3, <2>4
  <2>6. p * k < z
    BY <1>1, <2>3, <2>5
  <2>7. p * f = p * b + p * k /\ p * b \in Nat
    BY <1>1, <2>4
  <2>8. QED
    BY <1>1, <1>3, <1>4, <2>5, <2>6, <2>7
<1>7. f # VgaFrame
  <2>1. PICK e \in AvailableAreas : PageBytes(f) \subseteq AreaBytes(e)
    BY DEF MemoryIsRight, FreePagesAreUsable
  <2>2. PICK j \in DOMAIN given : e = given[j]
    BY <2>1 DEF AvailableAreas
  <2>3. given \in MemoryMaps /\ given \in Seq(Areas)
    BY EarlyTypes DEF MemoryIsRight, EarlyInv, MapInv
  <2>4. e.addr \in Nat /\ e.length \in Nat
    BY <2>2, <2>3, MapTypes
  <2>5. VgaFrame \notin e.addr \div p .. (e.addr + e.length - 1) \div p
    BY <2>2, <2>3, VgaAssumption DEF p
  <2> DEFINE x == p * f
             l == e.addr + e.length - 1
  <2>6. x \in AreaBytes(e) /\ x \in Nat
    BY <1>4, <2>1
  <2>7. e.addr <= x /\ x <= l /\ l \in Nat
    BY <2>4, <2>6 DEF AreaBytes
  <2>8. x \div p = f
    BY <1>1, <1>2, ExactPage DEF p
  <2> HIDE DEF x, l
  <2>9. e.addr \div p <= x \div p /\ x \div p <= l \div p
    BY <1>1, <2>4, <2>6, <2>7, DivisionMonotonic
  <2>10. l \div p \in Nat /\ e.addr \div p \in Nat
    BY <1>1, <2>4, <2>7, DivisionMonotonic
  <2>11. f \in e.addr \div p .. l \div p
    BY <1>2, <2>8, <2>9, <2>10
  <2>12. QED
    BY <2>5, <2>11 DEF l
<1>8. QED
  BY <1>1, <1>2, <1>5, <1>6, <1>7 DEF z, b

-----------------------------------------------------------------------------
(* What boot.S and kernel_main() may rely on in the structure m that       *)
(* init_frame_allocator() leaves, if it found room for the bitmap.         *)
PagesOf(m)  == DivCeil(m.size, PageSize)
FramesIn(m) == 0 .. 8 * m.size - 1

UsableMemory(m) ==
  /\ m \in [bitmap : Nat, size : Nat, clear : SUBSET Nat, next : Nat, free_pages : Nat]
  /\ m.size = 0 => m.clear = {}
  /\ m.size # 0 =>
       /\ m.bitmap \div PageSize = FirstBitmapFrame
       /\ PagesOf(m) \in Nat /\ KernelPages + PagesOf(m) <= FirstKernelFrame
       /\ FirstBitmapFrame <= 8 * m.size
       /\ m.next \in m.clear \/ (m.clear = {} /\ m.next = 0)
       /\ \A f \in m.clear :
            /\ f \in FramesIn(m) /\ f \notin KernelFrames /\ f # VgaFrame
            /\ \A k \in 0 .. PagesOf(m) - 1 : f # FirstBitmapFrame + k

LEMMA MemoryIsUsable ==
  ASSUME MemoryIsRight, UsualMaps, Done
  PROVE  UsableMemory(early_pmm)
<1>1. /\ early_pmm \in [bitmap : Nat, size : Nat, clear : SUBSET Nat, next : Nat, free_pages : Nat]
      /\ early_pmm = NoMemory \/ HasBitmap
  BY DEF MemoryIsRight, EarlyInv, MemoryInv
<1>2. CASE early_pmm = NoMemory
  BY <1>1, <1>2 DEF UsableMemory, NoMemory
<1>3. CASE HasBitmap
  <2>1. /\ early_pmm.size \in Nat \ {0} /\ early_pmm.bitmap \div PageSize = FirstBitmapFrame
        /\ KernelPages + BitmapPageCount <= FirstKernelFrame
        /\ FirstBitmapFrame <= 8 * early_pmm.size
    BY <1>3, BitmapLayout
  <2>2. BitmapPageCount = PagesOf(early_pmm)
    BY DEF BitmapPageCount, PagesOf
  <2>3. PagesOf(early_pmm) \in Nat
    BY <2>1, EarlyConstants, DivCeilCovers DEF PagesOf
  <2>4. early_pmm.next \in early_pmm.clear \/ (early_pmm.clear = {} /\ early_pmm.next = 0)
    BY DEF MemoryIsRight, HintInv, HandsOverFreeHint
  <2>5. \A f \in early_pmm.clear :
          /\ f \in FramesIn(early_pmm) /\ f \notin KernelFrames /\ f # VgaFrame
          /\ \A k \in 0 .. PagesOf(early_pmm) - 1 : f # FirstBitmapFrame + k
    BY <1>3, <2>2, FreePageApart DEF FramesIn
  <2>6. QED
    BY <1>1, <2>1, <2>2, <2>3, <2>4, <2>5 DEF UsableMemory
<1>4. QED
  BY <1>1, <1>2, <1>3

-----------------------------------------------------------------------------
(* get_page() on the bitmap of early_pmm, as in module FrameBitmapProofs.  *)
Bit          == 0 .. 7
Manager(m)   == [bitmap : [0 .. m.size -> SUBSET Bit], next_index : 0 .. m.size, next_offset : Bit]
IsMarked(p, f) == f % 8 \in p.bitmap[f \div 8]
Hint(p)      == 8 * p.next_index + p.next_offset
Behind(m)    == 8 * m.size .. 8 * m.size + 7

LEMMA BitOf ==
  ASSUME NEW i \in Nat, NEW o \in Bit
  PROVE  (8 * i + o) \div 8 = i /\ (8 * i + o) % 8 = o
  BY DEF Bit

LEMMA FrameBit ==
  ASSUME NEW f \in Nat
  PROVE  f \div 8 \in Nat /\ f % 8 \in Bit /\ f = 8 * (f \div 8) + (f % 8)
  BY DEF Bit

LEMMA FrameInBitmap ==
  ASSUME NEW z \in Nat, NEW f \in 0 .. 8 * z - 1
  PROVE  f \div 8 \in 0 .. z - 1 /\ f % 8 \in Bit /\ f = 8 * (f \div 8) + (f % 8)
  BY DEF Bit

LEMMA ScanFinds ==
  ASSUME early_pmm.size \in Nat,
         NEW b \in [0 .. early_pmm.size -> SUBSET Bit], Tables!NotFull(b) # {}
  PROVE  /\ Tables!FirstNotFull(b) \in 0 .. early_pmm.size - 1
         /\ Tables!FirstZeroInByte(b[Tables!FirstNotFull(b)]) \in Bit \ b[Tables!FirstNotFull(b)]
<1> DEFINE S == Tables!NotFull(b)
           i == Tables!FirstNotFull(b)
<1>1. S \in SUBSET Nat
  BY DEF Tables!NotFull
<1>2. \E x \in S : \A y \in S : x <= y
  BY <1>1, LeastNumber
<1>3. i \in S
  BY <1>2 DEF Tables!FirstNotFull
<1>4. i \in 0 .. early_pmm.size - 1 /\ b[i] # Bit
  BY <1>3 DEF Tables!NotFull, Tables!Full, Tables!Bits, Bit
<1>5. b[i] \in SUBSET Bit
  <2> HIDE DEF i
  <2> QED BY <1>4
<1> DEFINE C == Bit \ b[i]
<1>6. C \in SUBSET Nat /\ C # {}
  BY <1>4, <1>5 DEF Bit
<1>7. \E x \in C : \A y \in C : x <= y
  BY <1>6, LeastNumber
<1>8. Tables!FirstZeroInByte(b[i]) = CHOOSE x \in C : \A y \in C : x <= y
  BY <1>4 DEF Tables!FirstZeroInByte, Tables!Full, Tables!Bits, Bit
<1>9. QED
  BY <1>4, <1>7, <1>8

(* It marks the hinted frame and no other; the new hint is a frame that is *)
(* not marked, or behind the bitmap if there is none.                      *)
LEMMA TakeEffect ==
  ASSUME early_pmm.size \in Nat, NEW p \in Manager(early_pmm)
  PROVE  LET q == Tables!AfterGetPage(p)
         IN  /\ q \in Manager(early_pmm)
             /\ Hint(p) \in FramesIn(early_pmm) \union Behind(early_pmm)
             /\ \A f \in FramesIn(early_pmm) : IsMarked(q, f) <=> IsMarked(p, f) \/ f = Hint(p)
             /\ \/ Hint(q) \in FramesIn(early_pmm) /\ ~ IsMarked(q, Hint(q))
                \/ /\ Hint(q) \in Behind(early_pmm)
                   /\ \A f \in FramesIn(early_pmm) : IsMarked(q, f)
<1> DEFINE z == early_pmm.size
           marked == [p.bitmap EXCEPT ![p.next_index] = @ \union {p.next_offset}]
           found  == Tables!NotFull(marked) # {}
           index  == IF found THEN Tables!FirstNotFull(marked) ELSE z
           offset == IF found THEN Tables!FirstZeroInByte(marked[Tables!FirstNotFull(marked)])
                              ELSE p.next_offset
           q == Tables!AfterGetPage(p)
<1>1. /\ p.next_index \in 0 .. z /\ p.next_offset \in Bit
      /\ p.bitmap \in [0 .. z -> SUBSET Bit] /\ z \in Nat
  BY DEF Manager
<1>2. marked \in [0 .. z -> SUBSET Bit]
  BY <1>1
<1>3. q = [bitmap |-> marked, next_index |-> index, next_offset |-> offset]
  BY DEF Tables!AfterGetPage
<1>4. found => index \in 0 .. z - 1 /\ offset \in Bit \ marked[index]
  <2> SUFFICES ASSUME found PROVE index \in 0 .. z - 1 /\ offset \in Bit \ marked[index]
    OBVIOUS
  <2>1. index = Tables!FirstNotFull(marked)
        /\ offset = Tables!FirstZeroInByte(marked[Tables!FirstNotFull(marked)])
    OBVIOUS
  <2> HIDE DEF marked, index, offset
  <2>2. QED
    BY <1>2, <2>1, ScanFinds
<1>5. ~ found => /\ index = z /\ offset = p.next_offset
                 /\ \A i \in 0 .. z - 1 : marked[i] = Bit
  BY DEF Tables!NotFull, Tables!Full, Tables!Bits, Bit
<1>6. Hint(p) \in FramesIn(early_pmm) \union Behind(early_pmm)
  <2> DEFINE i == p.next_index
             o == p.next_offset
  <2>1. i \in 0 .. z /\ o \in 0 .. 7 /\ z \in Nat
    BY <1>1 DEF Bit
  <2> HIDE DEF i, o, z
  <2>2. 8 * i + o \in (0 .. 8 * z - 1) \union (8 * z .. 8 * z + 7)
    BY <2>1
  <2>3. QED
    BY <2>2 DEF Hint, FramesIn, Behind, i, o, z
<1>7. \A f \in FramesIn(early_pmm) : f \div 8 \in 0 .. z - 1 /\ f % 8 \in Bit
                                     /\ f = 8 * (f \div 8) + (f % 8)
  BY <1>1, FrameInBitmap DEF FramesIn
<1> HIDE DEF q, index, offset, found
<1>8. q \in Manager(early_pmm)
  <2>1. index \in 0 .. z /\ offset \in Bit
    BY <1>1, <1>4, <1>5
  <2> HIDE DEF marked
  <2>2. QED
    BY <1>2, <1>3, <2>1 DEF Manager
<1>9. q.bitmap = marked /\ q.next_index = index /\ q.next_offset = offset
  BY <1>3
<1>10. ASSUME NEW f \in FramesIn(early_pmm)
       PROVE  IsMarked(q, f) <=> IsMarked(p, f) \/ f = Hint(p)
  <2>1. f \div 8 \in 0 .. z - 1 /\ f % 8 \in Bit /\ f = 8 * (f \div 8) + (f % 8)
    BY <1>7
  <2>2. f = Hint(p) <=> f \div 8 = p.next_index /\ f % 8 = p.next_offset
    <3>1. Hint(p) \div 8 = p.next_index /\ Hint(p) % 8 = p.next_offset
      BY <1>1, BitOf DEF Hint
    <3>2. QED
      BY <2>1, <3>1 DEF Hint
  <2>3. marked[f \div 8] = IF f \div 8 = p.next_index
                           THEN p.bitmap[f \div 8] \union {p.next_offset} ELSE p.bitmap[f \div 8]
    <3> DEFINE i == f \div 8
    <3>1. i \in 0 .. z
      BY <1>1, <2>1
    <3> HIDE DEF i
    <3>2. QED
      BY <1>1, <3>1 DEF i
  <2>4. IsMarked(q, f) <=> f % 8 \in marked[f \div 8]
    BY <1>9 DEF IsMarked
  <2> HIDE DEF marked
  <2>5. QED
    BY <2>2, <2>3, <2>4 DEF IsMarked
<1>11. CASE found
  <2>1. index \in 0 .. z - 1 /\ offset \in Bit /\ offset \notin marked[index]
    BY <1>4, <1>11
  <2>2. Hint(q) = 8 * index + offset
    BY <1>9 DEF Hint
  <2>3. Hint(q) \in FramesIn(early_pmm)
    BY <1>1, <2>1, <2>2 DEF FramesIn, Bit
  <2>4. Hint(q) \div 8 = index /\ Hint(q) % 8 = offset
    BY <2>1, <2>2, BitOf
  <2>5. ~ IsMarked(q, Hint(q))
    BY <1>9, <2>1, <2>4 DEF IsMarked
  <2>6. QED
    BY <1>6, <1>8, <1>10, <2>3, <2>5 DEF q
<1>12. CASE ~ found
  <2>1. index = z /\ offset = p.next_offset
    BY <1>5, <1>12
  <2>2. Hint(q) \in Behind(early_pmm)
    <3>1. Hint(q) = 8 * z + p.next_offset
      BY <1>9, <2>1 DEF Hint
    <3> HIDE DEF q, marked, found, index, offset
    <3>2. QED
      BY <1>1, <3>1 DEF Behind, Bit
  <2>3. ASSUME NEW f \in FramesIn(early_pmm) PROVE IsMarked(q, f)
    <3>1. f \div 8 \in 0 .. z - 1 /\ f % 8 \in Bit
      BY <1>7
    <3>2. marked[f \div 8] = Bit
      BY <1>5, <1>12, <3>1
    <3> HIDE DEF marked
    <3>3. QED
      BY <1>9, <3>1, <3>2 DEF IsMarked
  <2>4. QED
    BY <1>6, <1>8, <1>10, <2>2, <2>3 DEF q
<1>13. QED
  BY <1>11, <1>12

-----------------------------------------------------------------------------
(* The memory manager at run time: n pages or less have been taken, all of *)
(* them free before, and a page that is still free is the hint's.          *)
Used(p, m) == {f \in m.clear : IsMarked(p, f)}

Pool(p, n, m) ==
  /\ p \in Manager(m)
  /\ \A f \in FramesIn(m) : ~ IsMarked(p, f) => f \in m.clear
  /\ Hint(p) \in m.clear \union Behind(m) \union {0}
  /\ (\E f \in m.clear : ~ IsMarked(p, f)) => Hint(p) \in m.clear /\ ~ IsMarked(p, Hint(p))
  /\ IsFiniteSet(Used(p, m)) /\ Cardinality(Used(p, m)) <= n

(* As long as fewer pages have been taken than there are free ones, the    *)
(* hint names one.                                                         *)
LEMMA PoolHasFree ==
  ASSUME NEW p, NEW n \in Nat, NEW m, Pool(p, n, m),
         IsFiniteSet(m.clear), Cardinality(m.clear) > n
  PROVE  Hint(p) \in m.clear \ Used(p, m)
<1>1. Used(p, m) # m.clear
  <2>1. Cardinality(Used(p, m)) <= n /\ Cardinality(Used(p, m)) \in Nat /\ Cardinality(m.clear) \in Nat
    BY FS_CardinalityType DEF Pool
  <2>2. QED
    BY <2>1
<1>2. \E f \in m.clear : ~ IsMarked(p, f)
  BY <1>1 DEF Used
<1>3. QED
  BY <1>2 DEF Pool, Used

LEMMA TakePool ==
  ASSUME NEW p, NEW n \in Nat, Pool(p, n, early_pmm), early_pmm.size \in Nat,
         early_pmm.clear \subseteq FramesIn(early_pmm)
  PROVE  LET q == Tables!AfterGetPage(p)
         IN  /\ Pool(q, n + 1, early_pmm)
             /\ Used(q, early_pmm) = Used(p, early_pmm) \union ({Hint(p)} \intersect early_pmm.clear)
<1> DEFINE q == Tables!AfterGetPage(p)
           m == early_pmm
<1>1. /\ q \in Manager(m)
      /\ Hint(p) \in FramesIn(m) \union Behind(m)
      /\ \A f \in FramesIn(m) : IsMarked(q, f) <=> IsMarked(p, f) \/ f = Hint(p)
      /\ \/ Hint(q) \in FramesIn(m) /\ ~ IsMarked(q, Hint(q))
         \/ Hint(q) \in Behind(m) /\ \A f \in FramesIn(m) : IsMarked(q, f)
  BY TakeEffect DEF Pool
<1> HIDE DEF q
<1>2. Used(q, m) = Used(p, m) \union ({Hint(p)} \intersect m.clear)
  BY <1>1 DEF Used
<1>3. \A f \in FramesIn(m) : ~ IsMarked(q, f) => f \in m.clear
  BY <1>1 DEF Pool
<1>4. Hint(q) \in m.clear \union Behind(m) \union {0}
  BY <1>1, <1>3
<1>5. (\E f \in m.clear : ~ IsMarked(q, f)) => Hint(q) \in m.clear /\ ~ IsMarked(q, Hint(q))
  BY <1>1, <1>3
<1>6. IsFiniteSet(Used(q, m)) /\ Cardinality(Used(q, m)) <= n + 1
  <2>1. IsFiniteSet(Used(p, m)) /\ Cardinality(Used(p, m)) <= n /\ Cardinality(Used(p, m)) \in Nat
    BY FS_CardinalityType DEF Pool
  <2> DEFINE U == Used(p, m)
             h == Hint(p)
  <2> HIDE DEF U, h
  <2>2. CASE h \in m.clear
    <3>1. Used(q, m) = U \union {h}
      BY <1>2, <2>2 DEF U, h
    <3>2. /\ IsFiniteSet(U \union {h})
          /\ Cardinality(U \union {h}) = IF h \in U THEN Cardinality(U) ELSE Cardinality(U) + 1
      BY <2>1, FS_AddElement DEF U
    <3>3. QED
      BY <2>1, <3>1, <3>2 DEF U
  <2>3. CASE h \notin m.clear
    <3>1. Used(q, m) = U
      BY <1>2, <2>3 DEF U, h
    <3>2. QED
      BY <2>1, <3>1 DEF U
  <2>4. QED
    BY <2>2, <2>3
<1>7. QED
  BY <1>1, <1>2, <1>3, <1>4, <1>5, <1>6 DEF Pool, q

-----------------------------------------------------------------------------
(* The page tables at run time: the kernel's table, with the first n pages *)
(* of the bitmap and, if vga holds, the page of the VGA buffer.            *)
NoEntry        == [present |-> FALSE, frame |-> 0, writable |-> FALSE, global |-> FALSE]
Entry(f, w, g) == [present |-> TRUE, frame |-> f, writable |-> w, global |-> g]
Entries        == [present : BOOLEAN, frame : Int, writable : BOOLEAN, global : BOOLEAN]
Pds            == {IdentityPd, KernelPd, WindowPd} \union HeapPds

KernelEntry(t, n, vga) ==
  IF t \in KernelFrames THEN Entry(t, t * PageSize >= NoWriteEnd, TRUE)
  ELSE IF KernelPages <= t /\ t < KernelPages + n
       THEN Entry(FirstBitmapFrame + (t - KernelPages), TRUE, TRUE)
       ELSE IF vga /\ t = TableEntries - 2 THEN Entry(VgaFrame, TRUE, TRUE) ELSE NoEntry

TablesThere(v) ==
  /\ v = [pmm |-> v.pmm, pd |-> v.pd, table |-> v.table]
  /\ v.pd \in [Pds -> Entries]
  /\ v.table \in [DOMAIN v.table -> [PtIndices -> Entries]]

KernelMapped(v, n, vga) ==
  /\ TablesThere(v)
  /\ v.pd[KernelPd] = Entry(BootTable, TRUE, FALSE)
  /\ v.pd[WindowPd] = Entry(BootDirectory, TRUE, FALSE)
  /\ BootTable \in DOMAIN v.table
  /\ \A t \in PtIndices : v.table[BootTable][t] = KernelEntry(t, n, vga)

LEMMA FrameTypes ==
  /\ BootTable \in KernelFrames /\ BootDirectory \in KernelFrames
  /\ BootTable \in Int /\ BootDirectory \in Int /\ VgaFrame \in Int
  /\ VgaFrame < FirstKernelFrame /\ VgaFrame \in Nat
  /\ FirstBitmapFrame \in Nat /\ FirstBitmapFrame = FirstKernelFrame + KernelPages
  /\ NoEntry \in Entries
  /\ \A f \in Int, w, g \in BOOLEAN : Entry(f, w, g) \in Entries
<1>1. BootTable \in KernelFrames /\ BootDirectory \in KernelFrames
  BY TablesAssumption
<1>2. \A t \in KernelFrames : t \in Int
  BY LayoutFacts DEF PtIndices
<1>3. VgaFrame \in 0 .. FirstKernelFrame - 1
  BY VgaAssumption DEF FirstKernelFrame
<1>4. FirstBitmapFrame \in Nat
  BY LayoutFacts DEF FirstBitmapFrame
<1>5. QED
  BY <1>1, <1>2, <1>3, <1>4, LayoutFacts DEF Entries, NoEntry, Entry, FirstBitmapFrame

LEMMA MapKernelPage ==
  ASSUME NEW v, NEW n, NEW vga, KernelMapped(v, n, vga),
         NEW t \in PtIndices, KernelEntry(t, n, vga) = NoEntry, NEW e \in Entries
  PROVE  /\ ~ Tables!IsMapped(v, <<KernelPd, t>>)
         /\ Tables!AfterMapPage(v, <<KernelPd, t>>, e) =
              [pmm |-> v.pmm, pd |-> v.pd, table |-> [v.table EXCEPT ![BootTable][t] = e]]
<1>1. v.pd[KernelPd].present /\ v.pd[KernelPd].frame = BootTable
  BY DEF KernelMapped, Entry
<1>2. v.table[BootTable][t] = NoEntry
  BY DEF KernelMapped
<1>3. Tables!WithTable(v, KernelPd) = v
  BY <1>1 DEF Tables!WithTable
<1>4. ~ Tables!IsMapped(v, <<KernelPd, t>>)
  BY <1>1, <1>2 DEF Tables!IsMapped, Tables!EntryOf, NoEntry
<1>5. Tables!AfterMapPage(v, <<KernelPd, t>>, e) = [v EXCEPT !.table[BootTable][t] = e]
  BY <1>1, <1>3, <1>4 DEF Tables!AfterMapPage
<1>6. v = [pmm |-> v.pmm, pd |-> v.pd, table |-> v.table]
  BY DEF KernelMapped, TablesThere
<1>7. QED
  BY <1>4, <1>5, <1>6

(* A page is added to the kernel's table, whichever entry it is.           *)
LEMMA KernelPageMapped ==
  ASSUME NEW v, NEW n, NEW vga, KernelMapped(v, n, vga),
         NEW t \in PtIndices, KernelEntry(t, n, vga) = NoEntry, NEW e \in Entries,
         NEW n2, NEW vga2,
         \A s \in PtIndices : KernelEntry(s, n2, vga2) = IF s = t THEN e ELSE KernelEntry(s, n, vga)
  PROVE  LET w == Tables!AfterMapPage(v, <<KernelPd, t>>, e)
         IN  KernelMapped(w, n2, vga2) /\ w.pmm = v.pmm /\ w.pd = v.pd
             /\ DOMAIN w.table = DOMAIN v.table
             /\ \A f \in DOMAIN v.table : f # BootTable => w.table[f] = v.table[f]
<1> DEFINE w == Tables!AfterMapPage(v, <<KernelPd, t>>, e)
<1>1. w = [pmm |-> v.pmm, pd |-> v.pd, table |-> [v.table EXCEPT ![BootTable][t] = e]]
  BY MapKernelPage
<1> HIDE DEF w
<1>2. w.pmm = v.pmm /\ w.pd = v.pd /\ w.table = [v.table EXCEPT ![BootTable][t] = e]
      /\ w = [pmm |-> w.pmm, pd |-> w.pd, table |-> w.table]
  BY <1>1
<1>3. v.table \in [DOMAIN v.table -> [PtIndices -> Entries]] /\ BootTable \in DOMAIN v.table
      /\ v.pd \in [Pds -> Entries]
  BY DEF KernelMapped, TablesThere
<1> DEFINE T == v.table
<1> HIDE DEF T
<1>4. /\ DOMAIN w.table = DOMAIN T
      /\ w.table \in [DOMAIN w.table -> [PtIndices -> Entries]]
      /\ \A f \in DOMAIN T : f # BootTable => w.table[f] = T[f]
      /\ \A s \in PtIndices : w.table[BootTable][s] = IF s = t THEN e ELSE T[BootTable][s]
  BY <1>2, <1>3 DEF T
<1>5. \A s \in PtIndices : w.table[BootTable][s] = KernelEntry(s, n2, vga2)
  BY <1>4 DEF KernelMapped, T
<1>6. KernelMapped(w, n2, vga2)
  BY <1>2, <1>3, <1>4, <1>5 DEF KernelMapped, TablesThere, T
<1>7. QED
  BY <1>2, <1>4, <1>6 DEF w, T

(* The entries differ as the frames behind them do.                        *)
LEMMA EntryTypes ==
  ASSUME NEW t \in PtIndices, NEW n \in Nat, NEW vga
  PROVE  /\ KernelEntry(t, n, vga) \in Entries
         /\ KernelEntry(t, 0, FALSE) = IF t \in KernelFrames
              THEN Entry(t, t * PageSize >= NoWriteEnd, TRUE) ELSE NoEntry
<1>1. t \in Int /\ KernelPages \in Nat /\ FirstBitmapFrame \in Nat
  BY LayoutFacts, FrameTypes DEF PtIndices
<1>2. (t * PageSize >= NoWriteEnd) \in BOOLEAN
  OBVIOUS
<1>3. FirstBitmapFrame + (t - KernelPages) \in Int
  BY <1>1
<1>4. KernelEntry(t, n, vga) \in Entries
  BY <1>1, <1>2, <1>3, FrameTypes DEF KernelEntry
<1>5. ~ (KernelPages <= t /\ t < KernelPages + 0)
  BY <1>1
<1>6. QED
  BY <1>4, <1>5 DEF KernelEntry

LEMMA BitmapEntry ==
  ASSUME NEW n \in Nat, KernelPages + n <= FirstKernelFrame, NEW k \in 0 .. n - 1, NEW vga
  PROVE  /\ KernelPages + k \in PtIndices
         /\ KernelEntry(KernelPages + k, n, vga) = Entry(FirstBitmapFrame + k, TRUE, TRUE)
<1> DEFINE t == KernelPages + k
<1>1. t \in Nat /\ t < FirstKernelFrame /\ KernelPages <= t /\ t < KernelPages + n
      /\ t - KernelPages = k
  BY LayoutFacts
<1> HIDE DEF t
<1>2. t \notin KernelFrames /\ t \in PtIndices
  BY <1>1, LayoutFacts DEF PtIndices
<1>3. QED
  BY <1>1, <1>2 DEF KernelEntry, t

(* Neither the next page of the bitmap nor that of the VGA buffer is in    *)
(* use before it is mapped.                                                *)
LEMMA NextBitmapEntry ==
  ASSUME NEW n \in Nat, KernelPages + n < FirstKernelFrame
  PROVE  /\ KernelPages + n \in PtIndices
         /\ KernelEntry(KernelPages + n, n, FALSE) = NoEntry
         /\ \A s \in PtIndices :
              KernelEntry(s, n + 1, FALSE) =
                IF s = KernelPages + n THEN Entry(FirstBitmapFrame + n, TRUE, TRUE)
                ELSE KernelEntry(s, n, FALSE)
<1> DEFINE t == KernelPages + n
<1>1. t \in Nat /\ t < FirstKernelFrame /\ t - KernelPages = n /\ ~ (t < KernelPages + n)
  BY LayoutFacts
<1> HIDE DEF t
<1>2. t \notin KernelFrames /\ t \in PtIndices
  BY <1>1, LayoutFacts DEF PtIndices
<1>3. KernelEntry(t, n, FALSE) = NoEntry
  BY <1>1, <1>2 DEF KernelEntry
<1>4. ASSUME NEW s \in PtIndices
      PROVE  KernelEntry(s, n + 1, FALSE) =
               IF s = t THEN Entry(FirstBitmapFrame + n, TRUE, TRUE) ELSE KernelEntry(s, n, FALSE)
  <2>1. s \in Int /\ KernelPages \in Nat
    BY LayoutFacts DEF PtIndices
  <2>2. CASE s = t
    <3>1. KernelPages <= s /\ s < KernelPages + (n + 1) /\ s - KernelPages = n
      BY <1>1, <2>1, <2>2 DEF t
    <3>2. QED
      BY <1>2, <2>2, <3>1 DEF KernelEntry
  <2>3. CASE s # t
    <3>1. s < KernelPages + (n + 1) <=> s < KernelPages + n
      BY <2>1, <2>3 DEF t
    <3>2. QED
      BY <2>3, <3>1 DEF KernelEntry
  <2>4. QED
    BY <2>2, <2>3
<1>5. QED
  BY <1>2, <1>3, <1>4 DEF t

LEMMA VgaEntry ==
  ASSUME NEW n \in Nat, KernelPages + n <= FirstKernelFrame
  PROVE  /\ TableEntries - 2 \in PtIndices
         /\ KernelEntry(TableEntries - 2, n, FALSE) = NoEntry
         /\ \A s \in PtIndices :
              KernelEntry(s, n, TRUE) =
                IF s = TableEntries - 2 THEN Entry(VgaFrame, TRUE, TRUE)
                ELSE KernelEntry(s, n, FALSE)
<1> DEFINE t == TableEntries - 2
<1>1. t \in Nat /\ FirstKernelFrame < t /\ ~ (t < KernelPages + n)
  BY LayoutFacts
<1>2. t \in PtIndices
  BY LayoutFacts DEF PtIndices
<1> HIDE DEF t
<1>3. t \notin KernelFrames
  BY <1>1, LayoutFacts DEF t
<1>4. KernelEntry(t, n, FALSE) = NoEntry
  BY <1>1, <1>3 DEF KernelEntry, t
<1>5. \A s \in PtIndices : KernelEntry(s, n, TRUE) =
                IF s = t THEN Entry(VgaFrame, TRUE, TRUE) ELSE KernelEntry(s, n, FALSE)
  BY <1>1, <1>3 DEF KernelEntry, t
<1>6. QED
  BY <1>2, <1>4, <1>5 DEF t

(* With the bitmap mapped get_page() takes no page fault while a page is   *)
(* free.                                                                   *)
LEMMA NoFault ==
  ASSUME UsableMemory(early_pmm), early_pmm.size # 0, NEW v, NEW vga,
         KernelMapped(v, PagesOf(early_pmm), vga), NEW k \in Nat, Pool(v.pmm, k, early_pmm),
         IsFiniteSet(early_pmm.clear), Cardinality(early_pmm.clear) > k
  PROVE  ~ GetPageFaults(v)
<1> DEFINE z == early_pmm.size
           P == PageSize
           n == PagesOf(early_pmm)
<1>1. /\ z \in Nat \ {0} /\ n \in Nat /\ KernelPages + n <= FirstKernelFrame
      /\ \A f \in early_pmm.clear : f \in 0 .. 8 * z - 1
  BY DEF UsableMemory, FramesIn
<1>2. P \in Nat \ {0} /\ n = (z + P - 1) \div P
  BY EarlyConstants DEF PagesOf, DivCeil
<1>3. Hint(v.pmm) \in 0 .. 8 * z - 1
  BY <1>1, PoolHasFree
<1>4. v.pmm.next_index \in 0 .. z - 1
  <2> DEFINE i == v.pmm.next_index
             o == v.pmm.next_offset
  <2>1. i \in Nat /\ o \in Nat
    BY <1>1 DEF Pool, Manager, Bit
  <2>2. 8 * i + o \in 0 .. 8 * z - 1
    BY <1>3 DEF Hint
  <2> HIDE DEF i, o, z
  <2>3. i \in 0 .. z - 1
    BY <1>1, <2>1, <2>2
  <2>4. QED
    BY <2>3 DEF i
<1>5. \A i \in BytesUsed(v.pmm) : i \in 0 .. z - 1
  BY <1>4 DEF BytesUsed
<1> HIDE DEF z, P, n
<1>6. ASSUME NEW i \in 0 .. z - 1
      PROVE  IsWritable(v, BitmapPage(i \div P))
  <2> DEFINE q == i \div P
             r == i % P
  <2>1. i \in Nat /\ i < z
    BY <1>1
  <2>2. q \in Nat /\ r \in 0 .. P - 1 /\ i = P * q + r
    BY <1>2, <2>1, DivisionRemainder
  <2> HIDE DEF q, r
  <2>3. P * (q + 1) \in Nat /\ P * (q + 1) <= z + P - 1
    <3>1. P * (q + 1) = P * q + P /\ P * q \in Nat
      BY <1>2, <2>2
    <3>2. QED
      BY <1>1, <1>2, <2>1, <2>2, <3>1
  <2>4. (P * (q + 1)) \div P = q + 1
    <3>1. q + 1 \in Nat
      BY <2>2
    <3>2. QED
      BY <3>1, ExactPage DEF P
  <2>5. q + 1 <= n
    <3>1. z + P - 1 \in Nat
      BY <1>1, <1>2
    <3>2. (P * (q + 1)) \div P <= (z + P - 1) \div P
      BY <1>2, <2>3, <3>1, DivisionMonotonic
    <3>3. QED
      BY <1>2, <2>4, <3>2
  <2>6. q \in 0 .. n - 1
    BY <1>1, <2>2, <2>5
  <2>7. KernelPages + q \in PtIndices
        /\ KernelEntry(KernelPages + q, n, vga) = Entry(FirstBitmapFrame + q, TRUE, TRUE)
    BY <1>1, <2>6, BitmapEntry
  <2>8. /\ v.pd[KernelPd].present /\ v.pd[KernelPd].frame = BootTable
        /\ v.table[BootTable][KernelPages + q] = Entry(FirstBitmapFrame + q, TRUE, TRUE)
    BY <2>7 DEF KernelMapped, Entry, n
  <2>9. Tables!EntryOf(v, BitmapPage(q)) = Entry(FirstBitmapFrame + q, TRUE, TRUE)
    BY <2>8 DEF Tables!EntryOf, BitmapPage
  <2>10. QED
    BY <2>9 DEF IsWritable, Entry, q
<1>7. QED
  BY <1>5, <1>6 DEF GetPageFaults, P

-----------------------------------------------------------------------------
(* The tables of the heap: those of ds are there, each with the one page   *)
(* of its end of the heap; with enough memory all that is theirs has been  *)
(* taken from the free pages, and nothing twice.                           *)
HeapIndex(d)    == IF d = 896 THEN 0 ELSE TableEntries - 1
HeapTable(v, d) == v.pd[d].frame
HeapFrame(v, d) == v.table[v.pd[d].frame][HeapIndex(d)].frame

HeapPage(v, d, m) ==
  /\ HeapTable(v, d) \in DOMAIN v.table
  /\ HeapTable(v, d) \in Used(v.pmm, m) /\ HeapFrame(v, d) \in Used(v.pmm, m)
  /\ HeapTable(v, d) # HeapFrame(v, d)
  /\ \A t \in PtIndices : v.table[HeapTable(v, d)][t] =
                            IF t = HeapIndex(d) THEN Entry(HeapFrame(v, d), TRUE, FALSE) ELSE NoEntry

HeapMapped(v, ds, m) ==
  /\ \A d \in HeapPds : v.pd[d].present <=> d \in ds
  /\ Cardinality(m.clear) >= PagesTaken =>
       /\ \A d \in ds : HeapPage(v, d, m)
       /\ \A d, e \in ds : d # e =>
            /\ HeapTable(v, d) # HeapTable(v, e) /\ HeapFrame(v, d) # HeapFrame(v, e)
            /\ HeapTable(v, d) # HeapFrame(v, e)

LEMMA HeapTypes ==
  /\ \A d \in HeapPds : /\ d \in Pds /\ d # KernelPd /\ d # WindowPd /\ d # IdentityPd
                        /\ HeapIndex(d) \in PtIndices
  /\ HeapPds \subseteq Nat /\ IdentityPd \in Pds /\ KernelPd \in Pds /\ WindowPd \in Pds
<1>1. 0 \in PtIndices /\ TableEntries - 1 \in PtIndices
  BY LayoutFacts DEF PtIndices
<1>2. \A d \in HeapPds : HeapIndex(d) \in PtIndices
  BY <1>1 DEF HeapIndex
<1>3. QED
  BY <1>2 DEF HeapPds, Pds, KernelPd, WindowPd, IdentityPd

(* map_page(get_page(), ...): the first page taken is the heap's, the      *)
(* second one the table's.                                                 *)
LEMMA MapFresh ==
  ASSUME NEW v, TablesThere(v), NEW d \in HeapPds, ~ v.pd[d].present,
         Hint(v.pmm) \in Int, Hint(Tables!AfterGetPage(v.pmm)) \in Int
  PROVE  LET w == Tables!AfterMapFresh(v, <<d, HeapIndex(d)>>, FALSE)
             p == Tables!AfterGetPage(v.pmm)
             F == Hint(p)
         IN  /\ TablesThere(w)
             /\ w.pmm = Tables!AfterGetPage(p)
             /\ w.pd[d] = Entry(F, TRUE, FALSE)
             /\ \A c \in Pds : c # d => w.pd[c] = v.pd[c]
             /\ DOMAIN w.table = DOMAIN v.table \union {F}
             /\ \A f \in DOMAIN v.table : f # F => w.table[f] = v.table[f]
             /\ \A t \in PtIndices : w.table[F][t] =
                  IF t = HeapIndex(d) THEN Entry(Hint(v.pmm), TRUE, FALSE) ELSE NoEntry
<1> DEFINE i == HeapIndex(d)
           p == Tables!AfterGetPage(v.pmm)
           F == Hint(p)
           e == Entry(Hint(v.pmm), TRUE, FALSE)
           u == [pmm |-> p, pd |-> v.pd, table |-> v.table]
           x == Tables!WithTable(u, d)
           w == Tables!AfterMapFresh(v, <<d, i>>, FALSE)
           q == Tables!AfterGetPage(p)
<1>1. i \in PtIndices /\ d \in Pds /\ F \in Int /\ e \in Entries /\ Entry(F, TRUE, FALSE) \in Entries
      /\ NoEntry \in Entries
  BY HeapTypes, FrameTypes
<1>2. v = [pmm |-> v.pmm, pd |-> v.pd, table |-> v.table] /\ v.pd \in [Pds -> Entries]
      /\ v.table \in [DOMAIN v.table -> [PtIndices -> Entries]]
  BY DEF TablesThere
<1> HIDE DEF p, q, i
<1>3. Tables!NextFrame(p) = F /\ Tables!NextFrame(v.pmm) = Hint(v.pmm)
  BY DEF Tables!NextFrame, Tables!FrameAt, Hint
<1>4. [v EXCEPT !.pmm = p] = u
  BY <1>2
<1>5. Tables!Mapping(F, TRUE, FALSE) = Entry(F, TRUE, FALSE)
      /\ Tables!Mapping(Tables!NextFrame(v.pmm), TRUE, FALSE) = e
  BY <1>3 DEF Tables!Mapping, Entry
<1>6. w = Tables!AfterMapPage(u, <<d, i>>, e)
  BY <1>4, <1>5 DEF Tables!AfterMapFresh, p
<1> HIDE DEF w
<1>7. Tables!Empty = [t \in PtIndices |-> NoEntry]
  BY DEF Tables!Empty, Tables!Absent, NoEntry
<1> DEFINE T == [f \in DOMAIN v.table \union {F} |->
                   IF f = F THEN [t \in PtIndices |-> NoEntry] ELSE v.table[f]]
           D == [v.pd EXCEPT ![d] = Entry(F, TRUE, FALSE)]
<1>8. x = [pmm |-> q, pd |-> D, table |-> T]
  <2>1. ~ u.pd[d].present /\ u.pmm = p /\ u.pd = v.pd /\ u.table = v.table
    OBVIOUS
  <2>2. Tables!Holding(u.table, F, Tables!Empty) = T
    BY <1>7, <2>1 DEF Tables!Holding
  <2> HIDE DEF u, T, F
  <2>3. x = [u EXCEPT !.pd[d] = Tables!Mapping(Tables!NextFrame(u.pmm), TRUE, FALSE),
                      !.table = Tables!Holding(@, Tables!NextFrame(u.pmm), Tables!Empty),
                      !.pmm = Tables!AfterGetPage(u.pmm)]
    BY <2>1 DEF Tables!WithTable
  <2>4. x = [u EXCEPT !.pd[d] = Entry(F, TRUE, FALSE), !.table = T, !.pmm = q]
    BY <1>3, <1>5, <2>1, <2>2, <2>3 DEF q
  <2>5. QED
    BY <2>1, <2>4 DEF u
<1> HIDE DEF x, u
<1>9. T \in [DOMAIN v.table \union {F} -> [PtIndices -> Entries]]
  BY <1>1, <1>2
<1>10. D \in [Pds -> Entries] /\ D[d] = Entry(F, TRUE, FALSE)
       /\ \A c \in Pds : c # d => D[c] = v.pd[c]
  BY <1>1, <1>2
<1>11. T[F] = [t \in PtIndices |-> NoEntry] /\ F \in DOMAIN T
       /\ \A f \in DOMAIN v.table : f # F => T[f] = v.table[f]
  OBVIOUS
<1> HIDE DEF T, D, F, e
<1>12. x.pd = D /\ x.table = T /\ x.pmm = q /\ x.pd[d].frame = F /\ x.pd[d].present
  BY <1>8, <1>10 DEF Entry
<1>13. ~ Tables!IsMapped(x, <<d, i>>)
  BY <1>1, <1>11, <1>12 DEF Tables!IsMapped, Tables!EntryOf, NoEntry
<1>14. w = [x EXCEPT !.table[F][i] = e]
  BY <1>6, <1>12, <1>13 DEF Tables!AfterMapPage, x
<1>15. w = [pmm |-> q, pd |-> D, table |-> [T EXCEPT ![F][i] = e]]
  BY <1>8, <1>14
<1>16. w.pmm = q /\ w.pd = D /\ w.table = [T EXCEPT ![F][i] = e]
       /\ w = [pmm |-> w.pmm, pd |-> w.pd, table |-> w.table]
  BY <1>15
<1>17. /\ DOMAIN w.table = DOMAIN v.table \union {F}
       /\ w.table \in [DOMAIN w.table -> [PtIndices -> Entries]]
       /\ \A f \in DOMAIN v.table : f # F => w.table[f] = v.table[f]
       /\ \A t \in PtIndices : w.table[F][t] = IF t = i THEN e ELSE NoEntry
  BY <1>1, <1>9, <1>11, <1>16
<1>18. TablesThere(w)
  BY <1>10, <1>16, <1>17 DEF TablesThere
<1>19. QED
  BY <1>10, <1>16, <1>17, <1>18 DEF w, i, F, e, p, q

(* init_heap(), one end: the kernel's table is left alone, and what the    *)
(* heap had before.                                                        *)
LEMMA MapHeapEnd ==
  ASSUME UsableMemory(early_pmm), early_pmm.size # 0,
         IsFiniteSet(early_pmm.clear),
         NEW v, NEW n, NEW vga, KernelMapped(v, n, vga),
         NEW k \in Nat, Pool(v.pmm, k, early_pmm), k + 1 < PagesTaken,
         NEW ds \in SUBSET HeapPds, HeapMapped(v, ds, early_pmm),
         NEW d \in HeapPds \ ds
  PROVE  LET w == Tables!AfterMapFresh(v, <<d, HeapIndex(d)>>, FALSE)
         IN  /\ KernelMapped(w, n, vga) /\ w.pd[IdentityPd] = v.pd[IdentityPd]
             /\ Pool(w.pmm, k + 2, early_pmm)
             /\ HeapMapped(w, ds \union {d}, early_pmm)
<1> DEFINE m == early_pmm
           p == Tables!AfterGetPage(v.pmm)
           w == Tables!AfterMapFresh(v, <<d, HeapIndex(d)>>, FALSE)
           F == Hint(p)
           G == Hint(v.pmm)
<1>1. /\ m.size \in Nat /\ m.clear \subseteq FramesIn(m) /\ FirstBitmapFrame <= 8 * m.size
      /\ \A f \in m.clear : f \in Nat /\ f \notin KernelFrames
  BY DEF UsableMemory
<1>2. Pool(p, k + 1, m) /\ Used(p, m) = Used(v.pmm, m) \union ({G} \intersect m.clear)
  BY <1>1, TakePool
<1> HIDE DEF p
<1>3. Pool(Tables!AfterGetPage(p), k + 2, m)
      /\ Used(Tables!AfterGetPage(p), m) = Used(p, m) \union ({F} \intersect m.clear)
  <2>1. k + 1 \in Nat /\ (k + 1) + 1 = k + 2
    OBVIOUS
  <2> DEFINE k1 == k + 1
  <2> HIDE DEF k1
  <2>2. Pool(Tables!AfterGetPage(p), k1 + 1, m)
        /\ Used(Tables!AfterGetPage(p), m) = Used(p, m) \union ({F} \intersect m.clear)
    BY <1>1, <1>2, <2>1, TakePool DEF k1
  <2>3. QED
    BY <2>1, <2>2 DEF k1
<1>4. F \in m.clear \union Behind(m) \union {0} /\ G \in m.clear \union Behind(m) \union {0}
  BY <1>2 DEF Pool
<1>5. F \in Int /\ G \in Int
  BY <1>1, <1>4 DEF Behind
<1>6. BootTable # F
  <2>1. BootTable \in KernelFrames /\ BootTable \in Int /\ FirstKernelFrame <= BootTable
        /\ BootTable < FirstKernelFrame + KernelPages /\ FirstKernelFrame > 0
    BY FrameTypes, LayoutFacts
  <2>2. BootTable < 8 * m.size /\ BootTable > 0
    BY <1>1, <2>1, LayoutFacts DEF FirstBitmapFrame
  <2>3. QED
    BY <1>1, <1>4, <2>1, <2>2 DEF Behind
<1>7. ~ v.pd[d].present /\ TablesThere(v)
  BY DEF HeapMapped, KernelMapped
<1>8. /\ TablesThere(w)
      /\ w.pmm = Tables!AfterGetPage(p)
      /\ w.pd[d] = Entry(F, TRUE, FALSE)
      /\ \A c \in Pds : c # d => w.pd[c] = v.pd[c]
      /\ DOMAIN w.table = DOMAIN v.table \union {F}
      /\ \A f \in DOMAIN v.table : f # F => w.table[f] = v.table[f]
      /\ \A t \in PtIndices : w.table[F][t] =
           IF t = HeapIndex(d) THEN Entry(G, TRUE, FALSE) ELSE NoEntry
  BY <1>5, <1>7, MapFresh DEF p
<1> HIDE DEF w
<1>9. KernelMapped(w, n, vga) /\ w.pd[IdentityPd] = v.pd[IdentityPd]
  <2>1. w.pd[KernelPd] = v.pd[KernelPd] /\ w.pd[WindowPd] = v.pd[WindowPd]
        /\ w.pd[IdentityPd] = v.pd[IdentityPd]
    BY <1>8, HeapTypes
  <2>2. BootTable \in DOMAIN w.table /\ w.table[BootTable] = v.table[BootTable]
    BY <1>6, <1>8 DEF KernelMapped
  <2>3. QED
    BY <1>8, <2>1, <2>2 DEF KernelMapped
<1>10. Pool(w.pmm, k + 2, m)
  BY <1>3, <1>8
<1>11. \A c \in HeapPds : w.pd[c].present <=> c \in ds \union {d}
  <2>1. w.pd[d].present
    BY <1>8 DEF Entry
  <2>2. \A c \in HeapPds : c # d => w.pd[c] = v.pd[c]
    BY <1>8, HeapTypes
  <2>3. QED
    BY <2>1, <2>2 DEF HeapMapped
<1>12. ASSUME Cardinality(m.clear) >= PagesTaken
       PROVE  /\ \A c \in ds \union {d} : HeapPage(w, c, m)
              /\ \A c, e \in ds \union {d} : c # e =>
                   /\ HeapTable(w, c) # HeapTable(w, e) /\ HeapFrame(w, c) # HeapFrame(w, e)
                   /\ HeapTable(w, c) # HeapFrame(w, e)
  <2>1. Cardinality(m.clear) \in Nat /\ Cardinality(m.clear) > k /\ Cardinality(m.clear) > k + 1
    BY <1>12, FS_CardinalityType DEF PagesTaken
  <2>2. G \in m.clear /\ G \notin Used(v.pmm, m)
    BY <2>1, PoolHasFree
  <2>3. F \in m.clear /\ F \notin Used(p, m)
    <3>1. k + 1 \in Nat
      OBVIOUS
    <3>2. F \in m.clear \ Used(p, m)
      BY <1>2, <2>1, <3>1, PoolHasFree
    <3>3. QED
      BY <3>2
  <2> DEFINE U == Used(v.pmm, m)
  <2>4. Used(w.pmm, m) = U \union {F, G} /\ F # G /\ F \notin U /\ G \notin U
    BY <1>2, <1>3, <1>8, <2>2, <2>3
  <2>5. HeapTable(w, d) = F /\ HeapFrame(w, d) = G
    <3>1. w.pd[d].frame = F /\ HeapIndex(d) \in PtIndices
      BY <1>8, HeapTypes DEF Entry
    <3>2. w.table[F][HeapIndex(d)] = Entry(G, TRUE, FALSE)
      BY <1>8, <3>1
    <3>3. QED
      BY <3>1, <3>2 DEF HeapTable, HeapFrame, Entry
  <2>6. HeapPage(w, d, m)
    BY <1>8, <2>4, <2>5 DEF HeapPage
  <2>7. ASSUME NEW c \in ds
        PROVE  /\ HeapTable(w, c) = HeapTable(v, c) /\ HeapFrame(w, c) = HeapFrame(v, c)
               /\ HeapPage(w, c, m)
               /\ HeapTable(w, c) \in U /\ HeapFrame(w, c) \in U
    <3>1. HeapPage(v, c, m)
      BY <1>12 DEF HeapMapped
    <3>2. c \in Pds /\ c # d
      BY HeapTypes
    <3>3. w.pd[c] = v.pd[c]
      BY <1>8, <3>2
    <3>4. HeapTable(v, c) \in U /\ HeapFrame(v, c) \in U /\ HeapTable(v, c) \in DOMAIN v.table
      BY <3>1 DEF HeapPage
    <3>5. w.table[HeapTable(v, c)] = v.table[HeapTable(v, c)] /\ HeapTable(v, c) \in DOMAIN w.table
      BY <1>8, <2>4, <3>4
    <3>6. HeapTable(w, c) = HeapTable(v, c) /\ HeapFrame(w, c) = HeapFrame(v, c)
      BY <3>3, <3>5 DEF HeapTable, HeapFrame
    <3>7. HeapPage(w, c, m)
      BY <2>4, <3>1, <3>4, <3>5, <3>6 DEF HeapPage
    <3>8. QED
      BY <3>4, <3>6, <3>7
  <2>8. \A c, e \in ds : c # e =>
          /\ HeapTable(w, c) # HeapTable(w, e) /\ HeapFrame(w, c) # HeapFrame(w, e)
          /\ HeapTable(w, c) # HeapFrame(w, e)
    BY <1>12, <2>7 DEF HeapMapped
  <2>9. QED
    BY <2>4, <2>5, <2>6, <2>7, <2>8
<1>13. HeapMapped(w, ds \union {d}, m)
  BY <1>11, <1>12 DEF HeapMapped
<1>14. QED
  BY <1>9, <1>10, <1>13 DEF w

-----------------------------------------------------------------------------
(* late_pmm_init() takes the structure over as it is.                      *)
LEMMA ManagedFields ==
  ASSUME UsableMemory(early_pmm), early_pmm.size # 0, NEW after \in {{}, 0 .. 7}
  PROVE  LET p == Managed(early_pmm, after)
         IN  /\ p \in Manager(early_pmm) /\ Hint(p) = early_pmm.next
             /\ early_pmm.next \in FramesIn(early_pmm)
             /\ p.next_index \in 0 .. early_pmm.size - 1 /\ p.next_offset \in Bit
             /\ p.bitmap = [i \in 0 .. early_pmm.size |-> IF i = early_pmm.size THEN after
                              ELSE {o \in 0 .. 7 : 8 * i + o \notin early_pmm.clear}]
             /\ p = [bitmap |-> p.bitmap, next_index |-> p.next_index, next_offset |-> p.next_offset]
             /\ \A f \in FramesIn(early_pmm) : IsMarked(p, f) <=> f \notin early_pmm.clear
<1> DEFINE m == early_pmm
           z == m.size
           p == Managed(m, after)
           b == [i \in 0 .. z |-> IF i = z THEN after ELSE {o \in 0 .. 7 : 8 * i + o \notin m.clear}]
<1>1. z \in Nat \ {0} /\ m.next \in Nat /\ (m.next \in m.clear \/ m.next = 0)
      /\ \A f \in m.clear : f \in FramesIn(m)
  BY DEF UsableMemory
<1>2. m.next \in 0 .. 8 * z - 1
  <2>1. 0 \in 0 .. 8 * z - 1
    BY <1>1
  <2>2. QED
    BY <1>1, <2>1 DEF FramesIn
<1>3. m.next \div 8 \in 0 .. z - 1 /\ m.next % 8 \in Bit /\ m.next = 8 * (m.next \div 8) + (m.next % 8)
  BY <1>1, <1>2, FrameInBitmap
<1>4. p = [bitmap |-> b, next_index |-> m.next \div 8, next_offset |-> m.next % 8]
  BY DEF Managed
<1>5. b \in [0 .. z -> SUBSET Bit]
  BY DEF Bit
<1> HIDE DEF p, b
<1>6. p.bitmap = b /\ p.next_index = m.next \div 8 /\ p.next_offset = m.next % 8
  BY <1>4
<1>7. Hint(p) = m.next
  BY <1>3, <1>6 DEF Hint
<1>8. p \in Manager(m)
  <2>1. m.next \div 8 \in 0 .. z
    BY <1>1, <1>3
  <2>2. QED
    BY <1>3, <1>4, <1>5, <2>1 DEF Manager
<1>9. ASSUME NEW f \in FramesIn(m)
      PROVE  IsMarked(p, f) <=> f \notin m.clear
  <2> DEFINE i == f \div 8
             o == f % 8
  <2>1. i \in 0 .. z - 1 /\ o \in 0 .. 7 /\ f = 8 * i + o
    BY <1>1, FrameInBitmap DEF FramesIn, Bit
  <2> HIDE DEF i, o
  <2>2. i \in 0 .. z /\ i # z
    BY <1>1, <2>1
  <2>3. b[i] = {x \in 0 .. 7 : 8 * i + x \notin m.clear}
    BY <2>2 DEF b
  <2>4. o \in b[i] <=> f \notin m.clear
    BY <2>1, <2>3
  <2>5. QED
    BY <1>6, <2>4 DEF IsMarked, i, o
<1>10. QED
  BY <1>2, <1>3, <1>4, <1>6, <1>7, <1>8, <1>9 DEF p, b, FramesIn

LEMMA ManagedPool ==
  ASSUME UsableMemory(early_pmm), early_pmm.size # 0, NEW after \in {{}, 0 .. 7}
  PROVE  Pool(Managed(early_pmm, after), 0, early_pmm)
<1> DEFINE m == early_pmm
           p == Managed(m, after)
<1>1. p \in Manager(m) /\ Hint(p) = m.next
      /\ \A f \in FramesIn(m) : IsMarked(p, f) <=> f \notin m.clear
  BY ManagedFields
<1>2. (m.next \in m.clear \/ (m.clear = {} /\ m.next = 0)) /\ \A f \in m.clear : f \in FramesIn(m)
  BY DEF UsableMemory
<1> HIDE DEF p
<1>3. Used(p, m) = {}
  BY <1>1, <1>2 DEF Used
<1>4. IsFiniteSet(Used(p, m)) /\ Cardinality(Used(p, m)) <= 0
  BY <1>3, FS_EmptySet
<1>5. QED
  BY <1>1, <1>2, <1>4 DEF Pool, p

LEMMA ManagedHandedOver ==
  ASSUME UsableMemory(early_pmm), early_pmm.clear # {}, NEW after \in {{}, 0 .. 7}
  PROVE  Managed(early_pmm, after) \in Tables!HandedOver
<1> DEFINE m == early_pmm
           z == m.size
           p == Managed(m, after)
           B(x) == [i \in 0 .. z |-> IF i < z THEN {o \in 0 .. 7 : 8 * i + o \notin m.clear} ELSE x]
<1>1. z \in Nat \ {0} /\ m.next \in m.clear
  BY DEF UsableMemory
<1>2. /\ Hint(p) = m.next /\ p.next_index \in 0 .. z - 1 /\ p.next_offset \in Bit
      /\ p.bitmap = [i \in 0 .. z |-> IF i = z THEN after
                       ELSE {o \in 0 .. 7 : 8 * i + o \notin m.clear}]
      /\ p = [bitmap |-> p.bitmap, next_index |-> p.next_index, next_offset |-> p.next_offset]
  BY <1>1, ManagedFields
<1> HIDE DEF p
<1>3. p.bitmap = B(after)
  BY <1>1, <1>2
<1>4. Tables!HandedOver = {q \in [bitmap : {B(x) : x \in {{}, 0 .. 7}},
                                  next_index : 0 .. z - 1, next_offset : 0 .. 7] :
                             8 * q.next_index + q.next_offset \in m.clear}
  BY DEF Tables!HandedOver, Tables!Bits, Tables!Full, Tables!FrameAt, Tables!NextFrame
<1>5. p.bitmap \in {B(x) : x \in {{}, 0 .. 7}}
  BY <1>3
<1> DEFINE S == {B(x) : x \in {{}, 0 .. 7}}
<1> HIDE DEF S, B
<1>6. p \in [bitmap : S, next_index : 0 .. z - 1, next_offset : 0 .. 7]
  BY <1>2, <1>5 DEF S, Bit
<1>7. 8 * p.next_index + p.next_offset \in m.clear
  BY <1>1, <1>2 DEF Hint
<1>8. QED
  BY <1>4, <1>6, <1>7 DEF S, p

-----------------------------------------------------------------------------
(* The inductive invariant of start-up, by stage: what of the tables there *)
(* is, and how many pages have been taken at most.                         *)
LateStages == {"map_vga", "first_page", "second_page", "heap_start", "heap_end", "up"}
RunStages  == {"high_half", "late_pmm_init", "map_bitmap"} \union LateStages
VgaStages  == {"first_page", "second_page", "heap_start", "heap_end", "up"}

TakenBy(s) == IF s = "second_page" THEN 1 ELSE IF s = "heap_start" THEN 2
              ELSE IF s = "heap_end" THEN 4 ELSE IF s = "up" THEN 6 ELSE 0
HeapsBy(s) == IF s = "heap_end" THEN {896} ELSE IF s = "up" THEN HeapPds ELSE {}

RightPages(s, n, m) ==
  /\ n \in Nat
  /\ s \in {"high_half", "late_pmm_init"} => n = 0
  /\ s = "map_bitmap" => n <= PagesOf(m)
  /\ s \in LateStages => n = PagesOf(m)

RightTables(s, n, v, m) ==
  /\ s \in VgaStages => KernelMapped(v, n, TRUE)
  /\ s \notin VgaStages => KernelMapped(v, n, FALSE)
  /\ s # "high_half" => v.pd[IdentityPd] = NoEntry
  /\ HeapMapped(v, HeapsBy(s), m)

RightPool(s, v, m) ==
  /\ s \in {"map_bitmap"} \union LateStages => Pool(v.pmm, TakenBy(s), m)
  /\ s \in {"map_bitmap", "map_vga"} => \E after \in {{}, 0 .. 7} : v.pmm = Managed(m, after)

Started(s, n, v, m) ==
  /\ s \in {"init_frame_allocator", "fault", "returned"} \union RunStages
  /\ s = "init_frame_allocator" => n = 0 /\ v = [pmm |-> v.pmm, pd |-> << >>, table |-> << >>]
  /\ s \in {"fault", "returned"} => Cardinality(m.clear) < PagesTaken
  /\ m.size # 0 /\ s \in RunStages =>
       RightPages(s, n, m) /\ RightTables(s, n, v, m) /\ RightPool(s, v, m)

BootInv ==
  /\ stage # "init_frame_allocator" => Done
  /\ Started(stage, bitmap_page, vm, early_pmm)

(* Until init_heap() the heap has no table, and the memory manager may be  *)
(* exchanged under the tables.                                             *)
LEMMA NoHeapYet ==
  ASSUME NEW v, NEW m
  PROVE  HeapMapped(v, {}, m) <=> \A d \in HeapPds : ~ v.pd[d].present
  BY DEF HeapMapped

LEMMA OtherPool ==
  ASSUME NEW v, NEW n, NEW vga, KernelMapped(v, n, vga), NEW p
  PROVE  LET w == [v EXCEPT !.pmm = p]
         IN  KernelMapped(w, n, vga) /\ w.pmm = p /\ w.pd = v.pd /\ w.table = v.table
<1> DEFINE w == [v EXCEPT !.pmm = p]
<1>1. v = [pmm |-> v.pmm, pd |-> v.pd, table |-> v.table]
  BY DEF KernelMapped, TablesThere
<1>2. w = [pmm |-> p, pd |-> v.pd, table |-> v.table]
  BY <1>1
<1> HIDE DEF w
<1>3. w.pmm = p /\ w.pd = v.pd /\ w.table = v.table
      /\ w = [pmm |-> w.pmm, pd |-> w.pd, table |-> w.table]
  BY <1>2
<1>4. KernelMapped(w, n, vga)
  BY <1>3 DEF KernelMapped, TablesThere
<1>5. QED
  BY <1>3, <1>4 DEF w

(* boot.S builds the tables.                                               *)
LEMMA SetUpStarted ==
  ASSUME UsableMemory(early_pmm), Started(stage, bitmap_page, vm, early_pmm),
         SetUpPaging, bitmap_page' = bitmap_page
  PROVE  Started(stage', bitmap_page', vm', early_pmm)
<1> DEFINE m == early_pmm
           w == vm'
           C(d) == CASE d \in {IdentityPd, KernelPd} -> Tables!Mapping(BootTable, TRUE, FALSE)
                     [] d = WindowPd -> Tables!Mapping(BootDirectory, TRUE, FALSE)
                     [] OTHER -> Tables!Absent
           D == [d \in {IdentityPd, KernelPd, WindowPd} \union HeapPds |-> C(d)]
           T == [f \in {BootTable} |-> [i \in PtIndices |-> BootEntry(i)]]
<1>1. stage = "init_frame_allocator" /\ stage' = "high_half"
      /\ w = [vm EXCEPT !.pd = D, !.table = T]
  BY DEF SetUpPaging
<1>2. bitmap_page' = 0 /\ vm = [pmm |-> vm.pmm, pd |-> << >>, table |-> << >>]
  BY <1>1 DEF Started
<1>3. /\ Tables!Mapping(BootTable, TRUE, FALSE) = Entry(BootTable, TRUE, FALSE)
      /\ Tables!Mapping(BootDirectory, TRUE, FALSE) = Entry(BootDirectory, TRUE, FALSE)
      /\ Tables!Absent = NoEntry
  BY DEF Tables!Mapping, Tables!Absent, Entry, NoEntry
<1>4. D = [d \in Pds |-> IF d \in {IdentityPd, KernelPd} THEN Entry(BootTable, TRUE, FALSE)
                         ELSE IF d = WindowPd THEN Entry(BootDirectory, TRUE, FALSE) ELSE NoEntry]
  <2> DEFINE h(d) == IF d \in {IdentityPd, KernelPd} THEN Entry(BootTable, TRUE, FALSE)
                     ELSE IF d = WindowPd THEN Entry(BootDirectory, TRUE, FALSE) ELSE NoEntry
  <2>1. ASSUME NEW d \in Pds
        PROVE  C(d) = h(d)
    <3>1. KernelPd # WindowPd /\ IdentityPd # WindowPd
      BY DEF KernelPd, WindowPd, IdentityPd
    <3>2. CASE d \in {IdentityPd, KernelPd}
      BY <1>3, <3>1, <3>2
    <3>3. CASE d = WindowPd
      BY <1>3, <3>1, <3>3
    <3>4. CASE d \notin {IdentityPd, KernelPd} /\ d # WindowPd
      BY <1>3, <3>1, <3>4
    <3>5. QED
      BY <3>2, <3>3, <3>4
  <2> HIDE DEF C
  <2>2. D = [d \in Pds |-> C(d)]
    BY DEF Pds
  <2> HIDE DEF D, h
  <2>3. D = [d \in Pds |-> h(d)]
    BY <2>1, <2>2
  <2>4. QED
    BY <2>3 DEF h
<1> HIDE DEF D
<1>5. /\ D \in [Pds -> Entries]
      /\ D[KernelPd] = Entry(BootTable, TRUE, FALSE) /\ D[WindowPd] = Entry(BootDirectory, TRUE, FALSE)
      /\ \A d \in HeapPds : ~ D[d].present
  <2>1. D \in [Pds -> Entries]
    BY <1>4, FrameTypes
  <2>2. KernelPd \in {IdentityPd, KernelPd} /\ WindowPd \notin {IdentityPd, KernelPd}
    BY DEF KernelPd, WindowPd, IdentityPd
  <2>3. D[KernelPd] = Entry(BootTable, TRUE, FALSE) /\ D[WindowPd] = Entry(BootDirectory, TRUE, FALSE)
    BY <1>4, <2>2, HeapTypes
  <2>4. \A d \in HeapPds : D[d] = NoEntry
    BY <1>4, HeapTypes
  <2>5. QED
    BY <2>1, <2>3, <2>4 DEF NoEntry
<1>6. \A i \in PtIndices : BootEntry(i) = KernelEntry(i, 0, FALSE) /\ BootEntry(i) \in Entries
  <2>1. \A i \in PtIndices : BootEntry(i) = IF i \in KernelFrames
                               THEN Entry(i, i * PageSize >= NoWriteEnd, TRUE) ELSE NoEntry
    BY DEF BootEntry, Tables!Mapping, Tables!Absent, Entry, NoEntry
  <2>2. QED
    BY <2>1, EntryTypes
<1>7. /\ T \in [{BootTable} -> [PtIndices -> Entries]] /\ DOMAIN T = {BootTable}
      /\ \A t \in PtIndices : T[BootTable][t] = KernelEntry(t, 0, FALSE)
  BY <1>6
<1> HIDE DEF T
<1>8. w = [pmm |-> vm.pmm, pd |-> D, table |-> T]
  BY <1>1, <1>2
<1>9. w.pd = D /\ w.table = T /\ w = [pmm |-> w.pmm, pd |-> w.pd, table |-> w.table]
  BY <1>8
<1>10. KernelMapped(w, 0, FALSE)
  BY <1>5, <1>7, <1>9 DEF KernelMapped, TablesThere
<1>11. HeapMapped(w, {}, m)
  BY <1>5, <1>9, NoHeapYet
<1>12. RightTables("high_half", 0, w, m)
  BY <1>10, <1>11 DEF RightTables, VgaStages, HeapsBy
<1>13. RightPages("high_half", 0, m)
  BY DEF RightPages, LateStages
<1>14. RightPool("high_half", w, m)
  BY DEF RightPool, LateStages
<1>15. QED
  BY <1>1, <1>2, <1>12, <1>13, <1>14 DEF Started, RunStages

(* The jump to the high half takes the identity mapping away.              *)
LEMMA HighHalfStarted ==
  ASSUME UsableMemory(early_pmm), Started(stage, bitmap_page, vm, early_pmm),
         EnterHighHalf, bitmap_page' = bitmap_page
  PROVE  Started(stage', bitmap_page', vm', early_pmm)
<1> DEFINE m == early_pmm
           w == vm'
<1>1. stage = "high_half" /\ stage' = "late_pmm_init"
      /\ w = [vm EXCEPT !.pd[IdentityPd] = Tables!Absent]
  BY DEF EnterHighHalf
<1>2. SUFFICES ASSUME m.size # 0
               PROVE  /\ RightPages("late_pmm_init", bitmap_page, m)
                      /\ RightTables("late_pmm_init", bitmap_page, w, m)
                      /\ RightPool("late_pmm_init", w, m)
  BY <1>1 DEF Started, RunStages
<1>3. RightPages("high_half", bitmap_page, m) /\ RightTables("high_half", bitmap_page, vm, m)
  BY <1>1, <1>2 DEF Started, RunStages
<1>4. KernelMapped(vm, bitmap_page, FALSE) /\ \A d \in HeapPds : ~ vm.pd[d].present
  BY <1>3, NoHeapYet DEF RightTables, VgaStages, HeapsBy
<1>5. vm = [pmm |-> vm.pmm, pd |-> vm.pd, table |-> vm.table] /\ vm.pd \in [Pds -> Entries]
  BY <1>4 DEF KernelMapped, TablesThere
<1>6. w = [pmm |-> vm.pmm, pd |-> [vm.pd EXCEPT ![IdentityPd] = NoEntry], table |-> vm.table]
  BY <1>1, <1>5 DEF Tables!Absent, NoEntry
<1>7. w.pd = [vm.pd EXCEPT ![IdentityPd] = NoEntry] /\ w.table = vm.table
      /\ w = [pmm |-> w.pmm, pd |-> w.pd, table |-> w.table]
  BY <1>6
<1>8. /\ w.pd \in [Pds -> Entries] /\ w.pd[IdentityPd] = NoEntry
      /\ \A d \in Pds : d # IdentityPd => w.pd[d] = vm.pd[d]
  BY <1>5, <1>7, HeapTypes, FrameTypes
<1>9. KernelPd # IdentityPd /\ WindowPd # IdentityPd
  BY DEF KernelPd, WindowPd, IdentityPd
<1>10. KernelMapped(w, bitmap_page, FALSE)
  BY <1>4, <1>7, <1>8, <1>9, HeapTypes DEF KernelMapped, TablesThere
<1>11. HeapMapped(w, {}, m)
  BY <1>4, <1>8, HeapTypes, NoHeapYet
<1>12. RightTables("late_pmm_init", bitmap_page, w, m)
  BY <1>8, <1>10, <1>11 DEF RightTables, VgaStages, HeapsBy
<1>13. QED
  BY <1>3, <1>12 DEF RightPages, RightPool, LateStages

(* late_pmm_init() copies the structure.                                   *)
LEMMA LatePmmStarted ==
  ASSUME UsableMemory(early_pmm), Started(stage, bitmap_page, vm, early_pmm), LatePmmInit
  PROVE  Started(stage', bitmap_page', vm', early_pmm)
<1> DEFINE m == early_pmm
           w == vm'
<1>1. PICK after \in {{}, 0 .. 7} : w = [vm EXCEPT !.pmm = Managed(m, after)]
  BY DEF LatePmmInit
<1>2. stage = "late_pmm_init" /\ stage' = "map_bitmap" /\ bitmap_page' = bitmap_page
  BY DEF LatePmmInit
<1>3. SUFFICES ASSUME m.size # 0
               PROVE  /\ RightPages("map_bitmap", bitmap_page, m)
                      /\ RightTables("map_bitmap", bitmap_page, w, m)
                      /\ RightPool("map_bitmap", w, m)
  BY <1>2 DEF Started, RunStages
<1>4. RightPages("late_pmm_init", bitmap_page, m) /\ RightTables("late_pmm_init", bitmap_page, vm, m)
  BY <1>2, <1>3 DEF Started, RunStages
<1>5. KernelMapped(vm, bitmap_page, FALSE) /\ HeapMapped(vm, {}, m) /\ vm.pd[IdentityPd] = NoEntry
  BY <1>4 DEF RightTables, VgaStages, HeapsBy
<1>6. KernelMapped(w, bitmap_page, FALSE) /\ w.pmm = Managed(m, after) /\ w.pd = vm.pd
  BY <1>1, <1>5, OtherPool
<1>7. HeapMapped(w, {}, m)
  BY <1>5, <1>6, NoHeapYet
<1>8. Pool(w.pmm, 0, m)
  BY <1>3, <1>6, ManagedPool
<1>9. PagesOf(m) \in Nat
  BY <1>3 DEF UsableMemory
<1>10. RightPages("map_bitmap", bitmap_page, m)
  BY <1>4, <1>9 DEF RightPages, LateStages
<1>11. RightTables("map_bitmap", bitmap_page, w, m)
  BY <1>5, <1>6, <1>7 DEF RightTables, VgaStages, HeapsBy
<1>12. RightPool("map_bitmap", w, m)
  BY <1>6, <1>8 DEF RightPool, LateStages, TakenBy
<1>13. QED
  BY <1>10, <1>11, <1>12

(* ... and maps the bitmap, page by page; the window never closes.         *)
LEMMA MapBitmapStarted ==
  ASSUME UsableMemory(early_pmm), Started(stage, bitmap_page, vm, early_pmm), MapBitmapPage
  PROVE  Started(stage', bitmap_page', vm', early_pmm)
<1> DEFINE m == early_pmm
           w == vm'
           n == bitmap_page
           t == KernelPages + n
           e == Entry(FirstBitmapFrame + n, TRUE, TRUE)
<1>1. stage = "map_bitmap" /\ n < PagesOf(m)
  BY DEF MapBitmapPage, BitmapPageCount, PagesOf
<1>2. CASE m.size = 0
  <2>1. m.clear = {}
    BY <1>2 DEF UsableMemory
  <2>2. Cardinality(m.clear) < PagesTaken
    BY <2>1, FS_EmptySet DEF PagesTaken
  <2>3. stage' \in {"map_bitmap", "fault"}
    BY <1>1 DEF MapBitmapPage
  <2>4. QED
    BY <1>2, <2>2, <2>3 DEF Started, RunStages
<1>3. CASE m.size # 0
  <2>1. /\ RightPages("map_bitmap", n, m) /\ RightTables("map_bitmap", n, vm, m)
        /\ RightPool("map_bitmap", vm, m)
    BY <1>1, <1>3 DEF Started, RunStages
  <2>2. KernelMapped(vm, n, FALSE) /\ HeapMapped(vm, {}, m) /\ vm.pd[IdentityPd] = NoEntry
    BY <2>1 DEF RightTables, VgaStages, HeapsBy
  <2>3. WindowIsOpen
    BY <2>2 DEF WindowIsOpen, KernelMapped, Tables!Mapping, Entry
  <2>4. n \in Nat /\ PagesOf(m) \in Nat /\ KernelPages + PagesOf(m) <= FirstKernelFrame
        /\ m.bitmap \div PageSize = FirstBitmapFrame
    BY <1>3, <2>1 DEF RightPages, UsableMemory
  <2>5. /\ w = Tables!AfterMapPage(vm, <<KernelPd, t>>, e)
        /\ n' = n + 1 /\ stage' = "map_bitmap"
    BY <1>1, <2>3, <2>4 DEF MapBitmapPage, BitmapPage, BitmapMapping, Tables!Mapping, Entry
  <2>6. KernelPages + n < FirstKernelFrame
    BY <1>1, <2>4, LayoutFacts
  <2>7. /\ t \in PtIndices /\ KernelEntry(t, n, FALSE) = NoEntry
        /\ \A s \in PtIndices : KernelEntry(s, n + 1, FALSE) = IF s = t THEN e
                                                              ELSE KernelEntry(s, n, FALSE)
    BY <2>4, <2>6, NextBitmapEntry
  <2>8. e \in Entries
    <3>1. FirstBitmapFrame + n \in Int
      BY <2>4, FrameTypes
    <3>2. QED
      BY <3>1 DEF Entry, Entries
  <2> HIDE DEF t, e
  <2>9. KernelMapped(w, n + 1, FALSE) /\ w.pmm = vm.pmm /\ w.pd = vm.pd
    <3> DEFINE k == n + 1
               vga == FALSE
    <3>1. KernelMapped(vm, n, vga) /\ KernelEntry(t, n, vga) = NoEntry
          /\ \A s \in PtIndices : KernelEntry(s, k, vga) = IF s = t THEN e
                                                          ELSE KernelEntry(s, n, vga)
      BY <2>2, <2>7
    <3> HIDE DEF k, vga
    <3>2. LET x == Tables!AfterMapPage(vm, <<KernelPd, t>>, e)
          IN  KernelMapped(x, k, vga) /\ x.pmm = vm.pmm /\ x.pd = vm.pd
      BY <2>7, <2>8, <3>1, KernelPageMapped
    <3>3. QED
      BY <2>5, <3>2 DEF k, vga
  <2>10. HeapMapped(w, {}, m)
    BY <2>2, <2>9, NoHeapYet
  <2>11. RightPages("map_bitmap", n + 1, m)
    BY <1>1, <2>4 DEF RightPages, LateStages
  <2>12. RightTables("map_bitmap", n + 1, w, m)
    BY <2>2, <2>9, <2>10 DEF RightTables, VgaStages, HeapsBy
  <2>13. RightPool("map_bitmap", w, m)
    BY <2>1, <2>9 DEF RightPool
  <2>14. QED
    BY <2>5, <2>11, <2>12, <2>13 DEF Started, RunStages
<1>4. QED
  BY <1>2, <1>3

LEMMA ClearFinite ==
  ASSUME NEW m, UsableMemory(m)
  PROVE  /\ IsFiniteSet(m.clear) /\ Cardinality(m.clear) \in Nat
         /\ m.size = 0 => Cardinality(m.clear) < PagesTaken
<1>1. CASE m.size = 0
  <2>1. m.clear = {}
    BY <1>1 DEF UsableMemory
  <2>2. QED
    BY <2>1, FS_EmptySet DEF PagesTaken
<1>2. CASE m.size # 0
  <2>1. m.size \in Nat /\ m.clear \subseteq 0 .. 8 * m.size - 1
    BY <1>2 DEF UsableMemory, FramesIn
  <2> DEFINE b == 8 * m.size - 1
  <2>2. b \in Int
    BY <2>1
  <2> HIDE DEF b
  <2>3. IsFiniteSet(0 .. b)
    BY <2>2, FS_Interval
  <2>4. IsFiniteSet(m.clear)
    BY <2>1, <2>3, FS_Subset DEF b
  <2>5. QED
    BY <1>2, <2>4, FS_CardinalityType
<1>3. QED
  BY <1>1, <1>2

(* late_pmm_init() returns when every page of the bitmap is mapped.        *)
LEMMA ReturnStarted ==
  ASSUME UsableMemory(early_pmm), Started(stage, bitmap_page, vm, early_pmm), LatePmmInitReturns
  PROVE  Started(stage', bitmap_page', vm', early_pmm)
<1> DEFINE m == early_pmm
           n == bitmap_page
<1>1. stage = "map_bitmap" /\ n >= PagesOf(m) /\ stage' = "map_vga" /\ n' = n /\ vm' = vm
  BY DEF LatePmmInitReturns, BitmapPageCount, PagesOf
<1>2. SUFFICES ASSUME m.size # 0
               PROVE  /\ RightPages("map_vga", n, m) /\ RightTables("map_vga", n, vm, m)
                      /\ RightPool("map_vga", vm, m)
  BY <1>1 DEF Started, RunStages, LateStages
<1>3. /\ RightPages("map_bitmap", n, m) /\ RightTables("map_bitmap", n, vm, m)
      /\ RightPool("map_bitmap", vm, m)
  BY <1>1, <1>2 DEF Started, RunStages
<1>4. n = PagesOf(m)
  <2>1. n \in Nat /\ PagesOf(m) \in Nat /\ n <= PagesOf(m)
    BY <1>2, <1>3 DEF RightPages, UsableMemory
  <2>2. QED
    BY <1>1, <2>1
<1>5. RightPages("map_vga", n, m)
  BY <1>3, <1>4 DEF RightPages, LateStages
<1>6. RightTables("map_vga", n, vm, m)
  BY ZenonT(60), <1>3 DEF RightTables, VgaStages, HeapsBy
<1>7. RightPool("map_vga", vm, m)
  BY <1>3 DEF RightPool, LateStages, TakenBy
<1>8. QED
  BY <1>5, <1>6, <1>7

(* The page of the VGA buffer is not in use, so kernel_main() goes on.     *)
LEMMA VgaStarted ==
  ASSUME UsableMemory(early_pmm), Started(stage, bitmap_page, vm, early_pmm),
         MapVga, bitmap_page' = bitmap_page
  PROVE  Started(stage', bitmap_page', vm', early_pmm)
<1> DEFINE m == early_pmm
           w == vm'
           n == bitmap_page
           t == TableEntries - 2
           e == Entry(VgaFrame, TRUE, TRUE)
<1>1. stage = "map_vga" /\ stage' \in {"returned", "first_page"}
  BY DEF MapVga
<1>2. CASE m.size = 0
  BY <1>1, <1>2, ClearFinite DEF Started, RunStages, LateStages
<1>3. CASE m.size # 0
  <2>1. /\ RightPages("map_vga", n, m) /\ RightTables("map_vga", n, vm, m)
        /\ RightPool("map_vga", vm, m)
    BY <1>1, <1>3 DEF Started, RunStages, LateStages
  <2>2. KernelMapped(vm, n, FALSE) /\ HeapMapped(vm, {}, m) /\ vm.pd[IdentityPd] = NoEntry
    BY <2>1 DEF RightTables, VgaStages, HeapsBy
  <2>3. n \in Nat /\ n = PagesOf(m) /\ KernelPages + n <= FirstKernelFrame
    BY <1>3, <2>1 DEF RightPages, UsableMemory, LateStages
  <2>4. /\ t \in PtIndices /\ KernelEntry(t, n, FALSE) = NoEntry
        /\ \A s \in PtIndices : KernelEntry(s, n, TRUE) = IF s = t THEN e
                                                          ELSE KernelEntry(s, n, FALSE)
    BY <2>3, VgaEntry
  <2>5. e \in Entries
    BY FrameTypes DEF Entry, Entries
  <2>6. VgaPage = <<KernelPd, t>> /\ Tables!Mapping(VgaFrame, TRUE, TRUE) = e
    BY DEF VgaPage, Tables!Mapping, Entry
  <2> HIDE DEF t, e
  <2>7. ~ Tables!IsMapped(vm, <<KernelPd, t>>)
    <3> DEFINE vga == FALSE
    <3>1. KernelMapped(vm, n, vga) /\ KernelEntry(t, n, vga) = NoEntry
      BY <2>2, <2>4
    <3> HIDE DEF vga
    <3>2. QED
      BY <2>4, <2>5, <3>1, MapKernelPage
  <2>8. w = Tables!AfterMapPage(vm, <<KernelPd, t>>, e) /\ stage' = "first_page"
    BY <2>6, <2>7 DEF MapVga
  <2>9. KernelMapped(w, n, TRUE) /\ w.pmm = vm.pmm /\ w.pd = vm.pd
    <3> DEFINE vga == FALSE
               vga2 == TRUE
    <3>1. KernelMapped(vm, n, vga) /\ KernelEntry(t, n, vga) = NoEntry
          /\ \A s \in PtIndices : KernelEntry(s, n, vga2) = IF s = t THEN e
                                                           ELSE KernelEntry(s, n, vga)
      BY <2>2, <2>4
    <3> HIDE DEF vga, vga2
    <3>2. LET x == Tables!AfterMapPage(vm, <<KernelPd, t>>, e)
          IN  KernelMapped(x, n, vga2) /\ x.pmm = vm.pmm /\ x.pd = vm.pd
      BY <2>4, <2>5, <3>1, KernelPageMapped
    <3>3. QED
      BY <2>8, <3>2 DEF vga2
  <2>10. HeapMapped(w, {}, m)
    BY <2>2, <2>9, NoHeapYet
  <2>11. RightPages("first_page", n, m)
    BY <2>3 DEF RightPages, LateStages
  <2>12. RightTables("first_page", n, w, m)
    BY <2>2, <2>9, <2>10 DEF RightTables, VgaStages, HeapsBy
  <2>13. RightPool("first_page", w, m)
    BY <2>1, <2>9 DEF RightPool, LateStages, TakenBy
  <2>14. QED
    BY <2>8, <2>11, <2>12, <2>13 DEF Started, RunStages, LateStages
<1>4. QED
  BY <1>2, <1>3

(* Line 43: two pages are taken; a page fault means there was none.        *)
LEMMA GetPageStarted ==
  ASSUME UsableMemory(early_pmm), Started(stage, bitmap_page, vm, early_pmm),
         bitmap_page' = bitmap_page, NEW this, NEW next,
         \/ this = "first_page" /\ next = "second_page"
         \/ this = "second_page" /\ next = "heap_start",
         GetPage(this, next)
  PROVE  Started(stage', bitmap_page', vm', early_pmm)
<1> DEFINE m == early_pmm
           w == vm'
           n == bitmap_page
           k == TakenBy(this)
<1>1. /\ stage = this
      /\ IF GetPageFaults(vm) THEN stage' = "fault" ELSE stage' = next /\ w = Taken(vm)
  BY DEF GetPage
<1>2. /\ this \in VgaStages /\ next \in VgaStages /\ HeapsBy(this) = {} /\ HeapsBy(next) = {}
      /\ k \in Nat /\ TakenBy(next) = k + 1 /\ k < PagesTaken
      /\ this \in LateStages /\ next \in LateStages /\ this \in RunStages /\ next \in RunStages
      /\ this \notin {"map_bitmap", "map_vga", "high_half", "late_pmm_init"}
      /\ next \notin {"map_bitmap", "map_vga", "high_half", "late_pmm_init", "init_frame_allocator",
                      "fault", "returned"}
  BY DEF VgaStages, HeapsBy, TakenBy, LateStages, RunStages, PagesTaken
<1> HIDE DEF k
<1>3. CASE m.size = 0
  <2>1. stage' \in {"fault", next}
    BY <1>1
  <2>2. QED
    BY <1>2, <1>3, <2>1, ClearFinite DEF Started
<1>4. CASE m.size # 0
  <2>1. RightPages(this, n, m) /\ RightTables(this, n, vm, m) /\ RightPool(this, vm, m)
    BY <1>1, <1>2, <1>4 DEF Started
  <2>2. KernelMapped(vm, n, TRUE) /\ HeapMapped(vm, {}, m) /\ vm.pd[IdentityPd] = NoEntry
    BY <1>2, <2>1 DEF RightTables
  <2>3. n \in Nat /\ n = PagesOf(m)
    BY <1>2, <2>1 DEF RightPages
  <2>4. Pool(vm.pmm, k, m)
    BY <1>2, <2>1 DEF RightPool, k
  <2>5. CASE GetPageFaults(vm)
    <3> DEFINE vga == TRUE
    <3>1. KernelMapped(vm, PagesOf(m), vga)
      BY <2>2, <2>3
    <3> HIDE DEF vga
    <3>2. ~ (Cardinality(m.clear) > k)
      BY <1>2, <1>4, <2>4, <2>5, <3>1, ClearFinite, NoFault
    <3>3. Cardinality(m.clear) < PagesTaken
      BY <1>2, <3>2, ClearFinite DEF PagesTaken
    <3>4. stage' = "fault"
      BY <1>1, <2>5
    <3>5. QED
      BY <3>3, <3>4 DEF Started, RunStages, LateStages
  <2>6. CASE ~ GetPageFaults(vm)
    <3>1. stage' = next /\ w = [vm EXCEPT !.pmm = Tables!AfterGetPage(vm.pmm)]
      BY <1>1, <2>6 DEF Taken
    <3>2. KernelMapped(w, n, TRUE) /\ w.pmm = Tables!AfterGetPage(vm.pmm) /\ w.pd = vm.pd
      BY <2>2, <3>1, OtherPool
    <3>3. Pool(w.pmm, k + 1, m)
      BY <1>2, <1>4, <2>4, <3>2, TakePool DEF UsableMemory
    <3>4. HeapMapped(w, {}, m)
      BY <2>2, <3>2, NoHeapYet
    <3>5. RightPages(next, n, m)
      BY <1>2, <2>3 DEF RightPages
    <3>6. RightTables(next, n, w, m)
      BY <1>2, <2>2, <3>2, <3>4 DEF RightTables
    <3>7. RightPool(next, w, m)
      BY <1>2, <3>3 DEF RightPool
    <3>8. QED
      BY <1>2, <3>1, <3>5, <3>6, <3>7 DEF Started
  <2>7. QED
    BY <2>5, <2>6
<1>5. QED
  BY <1>3, <1>4

(* init_heap(): each of its ends takes two pages.                          *)
LEMMA HeapStarted ==
  ASSUME UsableMemory(early_pmm), Started(stage, bitmap_page, vm, early_pmm),
         bitmap_page' = bitmap_page, NEW this, NEW next, NEW d \in HeapPds, NEW page,
         \/ this = "heap_start" /\ next = "heap_end" /\ d = HeapStartPage[1]
         \/ this = "heap_end" /\ next = "up" /\ d = HeapEndPage[1],
         page = <<d, HeapIndex(d)>>,
         MapHeapPage(this, page, next)
  PROVE  Started(stage', bitmap_page', vm', early_pmm)
<1> DEFINE m == early_pmm
           w == vm'
           n == bitmap_page
           k == TakenBy(this)
           ds == HeapsBy(this)
<1>1. /\ stage = this
      /\ IF GetPageFaults(vm) \/ GetPageFaults(Taken(vm)) THEN stage' = "fault"
         ELSE stage' = next /\ w = Tables!AfterMapFresh(vm, page, FALSE)
  BY DEF MapHeapPage
<1>2. /\ this \in VgaStages /\ next \in VgaStages
      /\ k \in Nat /\ TakenBy(next) = k + 2 /\ k + 1 < PagesTaken
      /\ this \in LateStages /\ next \in LateStages /\ this \in RunStages /\ next \in RunStages
      /\ this \notin {"map_bitmap", "map_vga", "high_half", "late_pmm_init"}
      /\ next \notin {"map_bitmap", "map_vga", "high_half", "late_pmm_init", "init_frame_allocator",
                      "fault", "returned"}
  BY DEF VgaStages, TakenBy, LateStages, RunStages, PagesTaken
<1>3. HeapsBy(next) = ds \union {d} /\ d \notin ds /\ ds \in SUBSET HeapPds
  BY DEF HeapsBy, HeapPds, HeapStartPage, HeapEndPage
<1> HIDE DEF k, ds
<1>4. CASE m.size = 0
  <2>1. stage' \in {"fault", next}
    BY <1>1
  <2>2. QED
    BY <1>2, <1>4, <2>1, ClearFinite DEF Started
<1>5. CASE m.size # 0
  <2>1. RightPages(this, n, m) /\ RightTables(this, n, vm, m) /\ RightPool(this, vm, m)
    BY <1>1, <1>2, <1>5 DEF Started
  <2>2. KernelMapped(vm, n, TRUE) /\ HeapMapped(vm, ds, m) /\ vm.pd[IdentityPd] = NoEntry
    BY <1>2, <2>1 DEF RightTables, ds
  <2>3. n \in Nat /\ n = PagesOf(m)
    BY <1>2, <2>1 DEF RightPages
  <2>4. Pool(vm.pmm, k, m)
    BY <1>2, <2>1 DEF RightPool, k
  <2>5. CASE GetPageFaults(vm) \/ GetPageFaults(Taken(vm))
    <3> DEFINE vga == TRUE
               k1 == k + 1
    <3>8. k1 \in Nat
      BY <1>2
    <3>9. KernelMapped(vm, n, vga)
      BY <2>2
    <3> HIDE DEF vga, k1
    <3>1. KernelMapped(vm, n, vga) /\ k1 \in Nat
      BY <3>8, <3>9
    <3>2. KernelMapped(Taken(vm), n, vga) /\ Taken(vm).pmm = Tables!AfterGetPage(vm.pmm)
      BY <3>1, OtherPool DEF Taken
    <3>3. Pool(Taken(vm).pmm, k1, m)
      BY <1>2, <1>5, <2>4, <3>2, TakePool DEF UsableMemory, k1
    <3>4. ~ (Cardinality(m.clear) > k1)
      <4> SUFFICES ASSUME Cardinality(m.clear) > k1 PROVE FALSE
        OBVIOUS
      <4>1. Cardinality(m.clear) > k
        BY <1>2, ClearFinite DEF k1
      <4>2. ~ GetPageFaults(vm)
        BY <1>2, <1>5, <2>3, <2>4, <3>1, <4>1, ClearFinite, NoFault
      <4>3. ~ GetPageFaults(Taken(vm))
        BY <1>5, <2>3, <3>1, <3>2, <3>3, ClearFinite, NoFault
      <4>4. QED
        BY <2>5, <4>2, <4>3
    <3>5. Cardinality(m.clear) < PagesTaken
      BY <1>2, <3>4, ClearFinite DEF PagesTaken, k1
    <3>6. stage' = "fault"
      BY <1>1, <2>5
    <3>7. QED
      BY <3>5, <3>6 DEF Started, RunStages, LateStages
  <2>6. CASE ~ (GetPageFaults(vm) \/ GetPageFaults(Taken(vm)))
    <3>1. stage' = next /\ w = Tables!AfterMapFresh(vm, <<d, HeapIndex(d)>>, FALSE)
      BY <1>1, <2>6
    <3>2. /\ KernelMapped(w, n, TRUE) /\ w.pd[IdentityPd] = vm.pd[IdentityPd]
          /\ Pool(w.pmm, k + 2, m) /\ HeapMapped(w, ds \union {d}, m)
      <4> DEFINE vga == TRUE
      <4>1. KernelMapped(vm, n, vga)
        BY <2>2
      <4> HIDE DEF vga
      <4>4. d \in HeapPds \ ds /\ IsFiniteSet(m.clear) /\ k + 1 < PagesTaken /\ k \in Nat
            /\ ds \in SUBSET HeapPds
        BY <1>2, <1>3, ClearFinite
      <4>2. LET x == Tables!AfterMapFresh(vm, <<d, HeapIndex(d)>>, FALSE)
            IN  /\ KernelMapped(x, n, vga) /\ x.pd[IdentityPd] = vm.pd[IdentityPd]
                /\ Pool(x.pmm, k + 2, m) /\ HeapMapped(x, ds \union {d}, m)
        BY <1>5, <2>2, <2>4, <4>1, <4>4, MapHeapEnd
      <4>3. QED
        BY <3>1, <4>2 DEF vga
    <3>3. RightPages(next, n, m)
      BY <1>2, <2>3 DEF RightPages
    <3>4. RightTables(next, n, w, m)
      BY <1>2, <1>3, <2>2, <3>2 DEF RightTables
    <3>5. RightPool(next, w, m)
      BY <1>2, <3>2 DEF RightPool
    <3>6. QED
      BY <1>2, <3>1, <3>3, <3>4, <3>5 DEF Started
  <2>7. QED
    BY <2>5, <2>6
<1>6. QED
  BY <1>4, <1>5

LEMMA NextBootInv ==
  ASSUME MemoryIsRight, UsualMaps, BootInv, [BootNext]_bootVars
  PROVE  BootInv'
<1>1. SUFFICES /\ stage' # "init_frame_allocator" => Done'
               /\ Started(stage', bitmap_page', vm', early_pmm')
  BY DEF BootInv
<1>2. Started(stage, bitmap_page, vm, early_pmm) /\ (stage # "init_frame_allocator" => Done)
  BY DEF BootInv
<1>3. CASE UNCHANGED bootVars
  BY <1>2, <1>3 DEF bootVars, Done
<1>4. CASE InitFrameAllocator /\ UNCHANGED <<stage, bitmap_page, vm>>
  <2>1. step[1] # "done"
    BY <1>4 DEF InitFrameAllocator, SetUp, Scan, Clear
  <2>2. stage = "init_frame_allocator"
    BY <1>2, <2>1 DEF Done
  <2>3. QED
    BY <1>2, <1>4, <2>2 DEF Started, RunStages, LateStages
<1>5. ASSUME UNCHANGED vars
      PROVE  Done' = Done /\ early_pmm' = early_pmm
  BY <1>5 DEF vars, Done
<1>6. CASE (LatePmmInit \/ MapBitmapPage \/ LatePmmInitReturns) /\ UNCHANGED vars
  <2>1. stage # "init_frame_allocator"
    BY <1>6 DEF LatePmmInit, MapBitmapPage, LatePmmInitReturns
  <2>2. Done /\ Done' /\ early_pmm' = early_pmm
    BY <1>2, <1>5, <1>6, <2>1
  <2>3. UsableMemory(early_pmm)
    BY <2>2, MemoryIsUsable
  <2>4. Started(stage', bitmap_page', vm', early_pmm)
    BY <1>2, <1>6, <2>3, LatePmmStarted, MapBitmapStarted, ReturnStarted
  <2>5. QED
    BY <2>2, <2>4
<1>7. CASE (SetUpPaging \/ EnterHighHalf \/ KernelMain) /\ UNCHANGED <<vars, bitmap_page>>
  <2>1. Done
    BY <1>2, <1>7 DEF SetUpPaging, EnterHighHalf, KernelMain, MapVga, GetPage, MapHeapPage
  <2>2. Done' /\ early_pmm' = early_pmm /\ bitmap_page' = bitmap_page
    BY <1>5, <1>7, <2>1
  <2>3. UsableMemory(early_pmm)
    BY <2>1, MemoryIsUsable
  <2>4. Started(stage', bitmap_page', vm', early_pmm)
    <3>1. CASE SetUpPaging \/ EnterHighHalf \/ MapVga
      BY <1>2, <2>2, <2>3, <3>1, SetUpStarted, HighHalfStarted, VgaStarted
    <3>2. CASE GetPage("first_page", "second_page") \/ GetPage("second_page", "heap_start")
      BY <1>2, <2>2, <2>3, <3>2, GetPageStarted
    <3>3. CASE MapHeapPage("heap_start", HeapStartPage, "heap_end")
      <4> DEFINE d == HeapStartPage[1]
      <4>1. d \in HeapPds /\ HeapStartPage = <<d, HeapIndex(d)>>
        BY DEF HeapStartPage, HeapPds, HeapIndex
      <4> HIDE DEF d
      <4>2. QED
        BY <1>2, <2>2, <2>3, <3>3, <4>1, HeapStarted DEF d
    <3>4. CASE MapHeapPage("heap_end", HeapEndPage, "up")
      <4> DEFINE d == HeapEndPage[1]
      <4>1. d \in HeapPds /\ HeapEndPage = <<d, HeapIndex(d)>>
        BY DEF HeapEndPage, HeapPds, HeapIndex
      <4> HIDE DEF d
      <4>2. QED
        BY <1>2, <2>2, <2>3, <3>4, <4>1, HeapStarted DEF d
    <3>5. QED
      BY <1>7, <3>1, <3>2, <3>3, <3>4 DEF KernelMain
  <2>5. QED
    BY <2>2, <2>4
<1>8. QED
  BY <1>3, <1>4, <1>6, <1>7 DEF BootNext, StartUpEnds

(* All the facts about early_pmm together, at every stage of start-up.     *)
LEMMA MemoryRight == UsualMaps => (Spec => []MemoryIsRight)
<1> SUFFICES ASSUME UsualMaps PROVE Spec => []MemoryIsRight
  OBVIOUS
<1>1. Init => TotalInv /\ HintInv
  BY DEF Init, TotalInv, HintInv, NoMemory
<1>2. EarlyInv /\ TotalInv /\ HintInv /\ [Next]_vars => TotalInv' /\ HintInv'
  BY NextTotalInv, NextHintInv
<1>3. Spec => [](TotalInv /\ HintInv)
  BY <1>1, <1>2, EarlyInvariant, PTL DEF Spec
<1>4. Spec => /\ [](EarlyInv /\ SizeInv) /\ []FreePagesAreUsable
              /\ []BitmapHoldsAllPages /\ []HandsOverFreeHint
  BY EarlyAndSizeInvariant, FreePagesRight, BitmapRight, FreeHint
<1>5. EarlyInv /\ SizeInv /\ TotalInv /\ HintInv /\ FreePagesAreUsable
        /\ BitmapHoldsAllPages /\ HandsOverFreeHint => MemoryIsRight
  BY DEF MemoryIsRight
<1>6. QED
  BY <1>3, <1>4, <1>5, PTL

LEMMA BootInvariant == UsualMaps => (BootSpec => [](BootInv /\ MemoryIsRight))
<1> SUFFICES ASSUME UsualMaps PROVE BootSpec => [](BootInv /\ MemoryIsRight)
  OBVIOUS
<1>1. BootInit => BootInv
  <2> SUFFICES ASSUME BootInit PROVE BootInv
    OBVIOUS
  <2>1. stage = "init_frame_allocator" /\ bitmap_page = 0
        /\ vm = [pmm |-> vm.pmm, pd |-> << >>, table |-> << >>]
    BY DEF BootInit
  <2>2. QED
    BY <2>1 DEF BootInv, Started, RunStages, LateStages
<1>2. MemoryIsRight /\ BootInv /\ [BootNext]_bootVars => BootInv'
  BY NextBootInv
<1>3. Spec => []MemoryIsRight
  BY MemoryRight
<1>4. QED
  BY <1>1, <1>2, <1>3, BootKeepsMemory, PTL DEF BootSpec

(* The free pages late_pmm_init() hands over are those get_page() hands    *)
(* out: its structure is one the frame allocator starts from.              *)
THEOREM HandedOverRight == UsualMaps => (BootSpec => []ManagerIsHandedOver)
<1> SUFFICES ASSUME UsualMaps PROVE BootSpec => []ManagerIsHandedOver
  OBVIOUS
<1>1. BootInv /\ MemoryIsRight => ManagerIsHandedOver
  <2> SUFFICES ASSUME BootInv, MemoryIsRight, stage = "map_vga", early_pmm.clear # {}
               PROVE  vm.pmm \in Tables!HandedOver
    BY DEF ManagerIsHandedOver
  <2>1. UsableMemory(early_pmm)
    BY MemoryIsUsable DEF BootInv
  <2>2. early_pmm.size # 0
    BY <2>1 DEF UsableMemory
  <2>3. RightPool("map_vga", vm, early_pmm)
    BY <2>2 DEF BootInv, Started, RunStages, LateStages
  <2>4. PICK after \in {{}, 0 .. 7} : vm.pmm = Managed(early_pmm, after)
    BY <2>3 DEF RightPool
  <2>5. QED
    BY <2>1, <2>4, ManagedHandedOver
<1>2. QED
  BY <1>1, BootInvariant, PTL

(* The bitmap stays where init_frame_allocator() put it, and can be        *)
(* written, whatever the heap maps.                                        *)
THEOREM BitmapReachable == UsualMaps => (BootSpec => []BitmapIsReachable)
<1> SUFFICES ASSUME UsualMaps PROVE BootSpec => []BitmapIsReachable
  OBVIOUS
<1>1. BootInv /\ MemoryIsRight => BitmapIsReachable
  <2> SUFFICES ASSUME BootInv, MemoryIsRight, AfterLateInit,
                      NEW k \in 0 .. DivCeil(early_pmm.size, PageSize) - 1
               PROVE  Tables!EntryOf(vm, BitmapPage(k)) = BitmapMapping(k)
    BY DEF BitmapIsReachable
  <2> DEFINE n == PagesOf(early_pmm)
             t == KernelPages + k
  <2>1. stage \in LateStages /\ stage # "init_frame_allocator"
    BY DEF AfterLateInit, LateStages
  <2>2. UsableMemory(early_pmm)
    BY <2>1, MemoryIsUsable DEF BootInv
  <2>3. k \in 0 .. n - 1
    BY DEF PagesOf
  <2>4. early_pmm.size # 0
    <3> SUFFICES ASSUME early_pmm.size = 0 PROVE FALSE
      OBVIOUS
    <3>1. n = (0 + PageSize - 1) \div PageSize
      BY DEF PagesOf, DivCeil
    <3>2. (PageSize * 0 + (PageSize - 1)) \div PageSize = 0
      <4>1. PageSize - 1 \in 0 .. PageSize - 1
        BY EarlyConstants
      <4>2. QED
        BY <4>1, EarlyConstants, RemainderUnique
    <3>3. PageSize * 0 + (PageSize - 1) = 0 + PageSize - 1
      BY EarlyConstants
    <3>4. n = 0
      BY <3>1, <3>2, <3>3
    <3>5. QED
      BY <2>3, <3>4
  <2>5. /\ RightPages(stage, bitmap_page, early_pmm)
        /\ RightTables(stage, bitmap_page, vm, early_pmm)
    BY <2>1, <2>4 DEF BootInv, Started, RunStages
  <2>6. n \in Nat /\ KernelPages + n <= FirstKernelFrame
        /\ early_pmm.bitmap \div PageSize = FirstBitmapFrame
    BY <2>2, <2>4 DEF UsableMemory
  <2>7. /\ vm.pd[KernelPd].present /\ vm.pd[KernelPd].frame = BootTable
        /\ t \in PtIndices => vm.table[BootTable][t] = KernelEntry(t, n, TRUE)
                              \/ vm.table[BootTable][t] = KernelEntry(t, n, FALSE)
    <3>1. KernelMapped(vm, n, TRUE) \/ KernelMapped(vm, n, FALSE)
      BY <2>1, <2>5 DEF RightPages, RightTables
    <3>2. ASSUME NEW vga, KernelMapped(vm, n, vga)
          PROVE  /\ vm.pd[KernelPd].present /\ vm.pd[KernelPd].frame = BootTable
                 /\ t \in PtIndices => vm.table[BootTable][t] = KernelEntry(t, n, vga)
      BY <3>2 DEF KernelMapped, Entry
    <3> HIDE DEF t
    <3>3. CASE KernelMapped(vm, n, TRUE)
      BY <3>2, <3>3
    <3>4. CASE KernelMapped(vm, n, FALSE)
      BY <3>2, <3>4
    <3>5. QED
      BY <3>1, <3>3, <3>4
  <2>8. /\ t \in PtIndices
        /\ KernelEntry(t, n, TRUE) = Entry(FirstBitmapFrame + k, TRUE, TRUE)
        /\ KernelEntry(t, n, FALSE) = Entry(FirstBitmapFrame + k, TRUE, TRUE)
    BY <2>3, <2>6, BitmapEntry
  <2>9. Tables!EntryOf(vm, <<KernelPd, t>>) = Entry(FirstBitmapFrame + k, TRUE, TRUE)
    BY <2>7, <2>8 DEF Tables!EntryOf
  <2>10. QED
    BY <2>6, <2>9 DEF BitmapPage, BitmapMapping, Tables!Mapping, Entry
<1>2. QED
  BY <1>1, BootInvariant, PTL

(* With six free pages nothing stops kernel_main() before its self test.   *)
THEOREM StartUpRight == UsualMaps => (BootSpec => []StartUpSucceeds)
<1> SUFFICES ASSUME UsualMaps PROVE BootSpec => []StartUpSucceeds
  OBVIOUS
<1>1. BootInv /\ MemoryIsRight => StartUpSucceeds
  <2> SUFFICES ASSUME BootInv, MemoryIsRight, stage \in {"fault", "returned"}
               PROVE  ~ EnoughMemory
    BY DEF StartUpSucceeds
  <2>1. UsableMemory(early_pmm)
    BY MemoryIsUsable DEF BootInv
  <2>2. Cardinality(early_pmm.clear) < PagesTaken
    BY DEF BootInv, Started
  <2>3. QED
    BY <2>1, <2>2, ClearFinite DEF EnoughMemory, PagesTaken
<1>2. QED
  BY <1>1, BootInvariant, PTL

-----------------------------------------------------------------------------
(* The entries of the kernel's table name different frames, none of them   *)
(* free.                                                                   *)
LEMMA KernelEntryFrame ==
  ASSUME NEW n \in Nat, KernelPages + n <= FirstKernelFrame, NEW vga, NEW t \in PtIndices,
         KernelEntry(t, n, vga).present
  PROVE  LET e == KernelEntry(t, n, vga)
         IN  \/ t \in KernelFrames /\ e.frame = t /\ (e.writable => ~ (t * PageSize < NoWriteEnd))
             \/ /\ t - KernelPages \in 0 .. n - 1 /\ t < FirstKernelFrame
                /\ e.frame = FirstBitmapFrame + (t - KernelPages)
             \/ t = TableEntries - 2 /\ e.frame = VgaFrame
<1>1. t \in Int /\ KernelPages \in Nat
  BY LayoutFacts DEF PtIndices
<1>2. CASE t \in KernelFrames
  <2>1. KernelEntry(t, n, vga) = Entry(t, t * PageSize >= NoWriteEnd, TRUE)
    BY <1>2 DEF KernelEntry
  <2> DEFINE a == t * PageSize
  <2>2. KernelEntry(t, n, vga).frame = t /\ (KernelEntry(t, n, vga).writable <=> a >= NoWriteEnd)
    <3> DEFINE b == a >= NoWriteEnd
    <3>1. KernelEntry(t, n, vga) = Entry(t, b, TRUE)
      BY <2>1
    <3>2. Entry(t, b, TRUE).frame = t /\ Entry(t, b, TRUE).writable = b
      <4> HIDE DEF b
      <4> QED BY DEF Entry
    <3>3. QED
      BY <3>1, <3>2
  <2>4. a \in Int /\ NoWriteEnd \in Int
    BY <1>1, EarlyConstants, TablesAssumption
  <2> HIDE DEF a
  <2>3. a >= NoWriteEnd => ~ (a < NoWriteEnd)
    BY <2>4
  <2>5. QED
    BY <1>2, <2>2, <2>3 DEF a
<1>3. CASE t \notin KernelFrames /\ KernelPages <= t /\ t < KernelPages + n
  <2>1. KernelEntry(t, n, vga).frame = FirstBitmapFrame + (t - KernelPages)
    BY <1>3 DEF KernelEntry, Entry
  <2>2. t - KernelPages \in 0 .. n - 1 /\ t < FirstKernelFrame
    BY <1>1, <1>3, LayoutFacts
  <2>3. QED
    BY <2>1, <2>2
<1>4. CASE t \notin KernelFrames /\ ~ (KernelPages <= t /\ t < KernelPages + n)
  BY <1>4 DEF KernelEntry, Entry, NoEntry
<1>5. QED
  BY <1>2, <1>3, <1>4

LEMMA KernelFramesDiffer ==
  ASSUME UsableMemory(early_pmm), early_pmm.size # 0, NEW vga, NEW s \in PtIndices,
         KernelEntry(s, PagesOf(early_pmm), vga).present
  PROVE  LET n == PagesOf(early_pmm)
             e == KernelEntry(s, n, vga)
         IN  /\ e.frame \notin early_pmm.clear
             /\ e.writable => e.frame \notin ReadOnlyFrames
             /\ \A t \in PtIndices :
                  KernelEntry(t, n, vga).present /\ KernelEntry(t, n, vga).frame = e.frame => t = s
<1> DEFINE n == PagesOf(early_pmm)
           e == KernelEntry(s, n, vga)
<1>1. /\ n \in Nat /\ KernelPages + n <= FirstKernelFrame
      /\ \A f \in early_pmm.clear :
            f \notin KernelFrames /\ f # VgaFrame /\ \A k \in 0 .. n - 1 : f # FirstBitmapFrame + k
  BY DEF UsableMemory
<1>2. s \in Int /\ KernelPages \in Nat /\ FirstKernelFrame \in Nat /\ VgaFrame \in Nat
      /\ FirstBitmapFrame = FirstKernelFrame + KernelPages /\ VgaFrame < FirstKernelFrame
      /\ FirstKernelFrame < TableEntries - 2 /\ TableEntries \in Nat
  BY LayoutFacts, FrameTypes DEF PtIndices
<1>3. \A t \in KernelFrames : t \in Int /\ FirstKernelFrame <= t /\ t < FirstBitmapFrame
  BY LayoutFacts, FrameTypes DEF PtIndices
<1> HIDE DEF n
<1>4. ASSUME NEW t \in PtIndices, KernelEntry(t, n, vga).present
      PROVE  LET x == KernelEntry(t, n, vga)
             IN  \/ t \in KernelFrames /\ x.frame = t /\ (x.writable => ~ (t * PageSize < NoWriteEnd))
                 \/ /\ t - KernelPages \in 0 .. n - 1 /\ t < FirstKernelFrame
                    /\ x.frame = FirstBitmapFrame + (t - KernelPages)
                 \/ t = TableEntries - 2 /\ x.frame = VgaFrame
  BY <1>1, <1>4, KernelEntryFrame
<1>5. e.present
  BY DEF n
<1>6. e.frame \notin early_pmm.clear
  BY <1>1, <1>4, <1>5
<1>7. e.writable => e.frame \notin ReadOnlyFrames
  <2> SUFFICES ASSUME e.writable, e.frame \in ReadOnlyFrames PROVE FALSE
    OBVIOUS
  <2>1. e.frame \in KernelFrames /\ e.frame * PageSize < NoWriteEnd
    BY DEF ReadOnlyFrames
  <2>2. FirstKernelFrame <= e.frame /\ e.frame < FirstBitmapFrame
    BY <1>3, <2>1
  <2>3. e.frame = s /\ ~ (s * PageSize < NoWriteEnd)
    BY <1>2, <1>4, <1>5, <2>2
  <2>4. QED
    BY <2>1, <2>3
<1>8. ASSUME NEW t \in PtIndices, KernelEntry(t, n, vga).present,
             KernelEntry(t, n, vga).frame = e.frame
      PROVE  t = s
  <2> DEFINE g == KernelEntry(t, n, vga).frame
             h == e.frame
  <2>1. \/ s \in KernelFrames /\ h = s
        \/ s - KernelPages \in 0 .. n - 1 /\ h = FirstBitmapFrame + (s - KernelPages)
        \/ s = TableEntries - 2 /\ h = VgaFrame
    BY <1>4, <1>5
  <2>2. \/ t \in KernelFrames /\ g = t
        \/ t - KernelPages \in 0 .. n - 1 /\ g = FirstBitmapFrame + (t - KernelPages)
        \/ t = TableEntries - 2 /\ g = VgaFrame
    BY <1>4, <1>8
  <2>3. g = h /\ t \in Int
    BY <1>2, <1>8 DEF PtIndices
  <2> HIDE DEF g, h
  <2>4. QED
    BY <1>1, <1>2, <1>3, <2>1, <2>2, <2>3
<1>9. QED
  BY <1>6, <1>7, <1>8 DEF n

LEMMA OneUse ==
  ASSUME UsableMemory(early_pmm), early_pmm.size # 0, EnoughMemory,
         NEW vga, KernelMapped(vm, PagesOf(early_pmm), vga), vm.pd[IdentityPd] = NoEntry,
         NEW ds \in SUBSET HeapPds, HeapMapped(vm, ds, early_pmm)
  PROVE  /\ \A p, q \in MappedPages : FrameBehind(p) = FrameBehind(q) => p = q
         /\ \A p \in MappedPages : p[1] \in HeapPds => FrameBehind(p) \in early_pmm.clear
         /\ \A d \in HeapPds : vm.pd[d].present =>
              /\ vm.pd[d].frame \in early_pmm.clear
              /\ \A p \in MappedPages : FrameBehind(p) # vm.pd[d].frame
         /\ \A p \in MappedPages :
              Tables!EntryOf(vm, p).writable => FrameBehind(p) \notin ReadOnlyFrames
<1> DEFINE n == PagesOf(early_pmm)
           C == early_pmm.clear
           U == Used(vm.pmm, early_pmm)
           K(t) == KernelEntry(t, n, vga)
           F(d) == HeapTable(vm, d)
           G(d) == HeapFrame(vm, d)
<1>1. Cardinality(C) >= PagesTaken
  BY DEF EnoughMemory
<1>2. /\ \A d \in HeapPds : vm.pd[d].present <=> d \in ds
      /\ \A d \in ds : HeapPage(vm, d, early_pmm)
      /\ \A d, e \in ds : d # e => F(d) # F(e) /\ G(d) # G(e) /\ F(d) # G(e)
  BY <1>1 DEF HeapMapped
<1>3. U \subseteq C
  BY DEF Used
<1>4. \A d \in ds : F(d) \in C /\ G(d) \in C /\ F(d) # G(d)
  BY <1>2, <1>3 DEF HeapPage
<1>5. \A d, e \in ds : F(d) # G(e) /\ (G(d) = G(e) => d = e)
  BY <1>2, <1>4
<1>6. ASSUME NEW p \in MappedPages
      PROVE  \/ \E t \in PtIndices : /\ p = <<KernelPd, t>> /\ Tables!EntryOf(vm, p) = K(t)
                                     /\ K(t).present
             \/ \E d \in ds : /\ p = <<d, HeapIndex(d)>>
                              /\ Tables!EntryOf(vm, p) = Entry(G(d), TRUE, FALSE)
  <2>1. /\ p \in ({IdentityPd, KernelPd} \union HeapPds) \X PtIndices
        /\ Tables!EntryOf(vm, p).present
    BY DEF MappedPages, Tables!IsMapped
  <2>2. PICK d \in {IdentityPd, KernelPd} \union HeapPds, t \in PtIndices : p = <<d, t>>
    BY <2>1
  <2>3. Tables!EntryOf(vm, p) = IF vm.pd[d].present THEN vm.table[vm.pd[d].frame][t]
                                ELSE Tables!Absent
    BY <2>2 DEF Tables!EntryOf
  <2>4. vm.pd[d].present /\ Tables!EntryOf(vm, p) = vm.table[vm.pd[d].frame][t]
    BY <2>1, <2>3 DEF Tables!Absent
  <2>5. d # IdentityPd
    BY <2>4 DEF NoEntry
  <2>6. CASE d = KernelPd
    <3>1. vm.pd[d].frame = BootTable /\ vm.table[BootTable][t] = K(t)
      BY <2>6 DEF KernelMapped, Entry
    <3>2. QED
      BY <2>1, <2>2, <2>4, <2>6, <3>1
  <2>7. CASE d \in HeapPds
    <3>1. d \in ds /\ HeapPage(vm, d, early_pmm)
      BY <1>2, <2>4, <2>7
    <3>2. vm.table[F(d)][t] = IF t = HeapIndex(d) THEN Entry(G(d), TRUE, FALSE) ELSE NoEntry
      BY <3>1 DEF HeapPage
    <3>3. Tables!EntryOf(vm, p) = vm.table[F(d)][t]
      BY <2>4 DEF HeapTable
    <3>4. t = HeapIndex(d)
      <4> SUFFICES ASSUME t # HeapIndex(d) PROVE FALSE
        OBVIOUS
      <4>1. Tables!EntryOf(vm, p) = NoEntry
        BY <3>2, <3>3
      <4>2. QED
        BY <2>1, <4>1 DEF NoEntry
    <3>5. QED
      BY <2>2, <3>1, <3>2, <3>3, <3>4
  <2>8. QED
    BY <2>5, <2>6, <2>7
<1>7. \A d \in ds : d \in HeapPds /\ d # KernelPd
  BY HeapTypes
<1>8. \A f : Entry(f, TRUE, FALSE).frame = f
  BY DEF Entry
<1>9. \A s \in PtIndices : K(s).present =>
        /\ K(s).frame \notin C
        /\ K(s).writable => K(s).frame \notin ReadOnlyFrames
        /\ \A t \in PtIndices : K(t).present /\ K(t).frame = K(s).frame => t = s
  BY KernelFramesDiffer
<1>10. \A f \in C : f \notin ReadOnlyFrames
  BY DEF UsableMemory, ReadOnlyFrames
<1> HIDE DEF n, C, U, K, F, G
<1>11. ASSUME NEW p \in MappedPages
       PROVE  \/ \E t \in PtIndices : /\ p = <<KernelPd, t>> /\ FrameBehind(p) = K(t).frame
                                      /\ K(t).present /\ Tables!EntryOf(vm, p) = K(t)
              \/ \E d \in ds : p = <<d, HeapIndex(d)>> /\ FrameBehind(p) = G(d)
  BY <1>6, <1>8 DEF FrameBehind
<1>12. ASSUME NEW p \in MappedPages, NEW q \in MappedPages, FrameBehind(p) = FrameBehind(q)
       PROVE  p = q
  <2>1. CASE \E t \in PtIndices : p = <<KernelPd, t>> /\ FrameBehind(p) = K(t).frame /\ K(t).present
    <3>1. FrameBehind(q) \notin C
      BY <1>9, <1>12, <2>1
    <3>2. \E t \in PtIndices : q = <<KernelPd, t>> /\ FrameBehind(q) = K(t).frame /\ K(t).present
      BY <1>4, <1>11, <3>1
    <3>3. QED
      BY <1>9, <1>12, <2>1, <3>2
  <2>2. CASE \E d \in ds : p = <<d, HeapIndex(d)>> /\ FrameBehind(p) = G(d)
    <3>1. FrameBehind(q) \in C
      BY <1>4, <1>12, <2>2
    <3>2. \E d \in ds : q = <<d, HeapIndex(d)>> /\ FrameBehind(q) = G(d)
      BY <1>9, <1>11, <3>1
    <3>3. QED
      BY <1>5, <1>12, <2>2, <3>2
  <2>3. QED
    BY <1>11, <2>1, <2>2
<1>13. ASSUME NEW p \in MappedPages, p[1] \in HeapPds
       PROVE  FrameBehind(p) \in C
  <2>1. ~ \E t \in PtIndices : p = <<KernelPd, t>>
    <3>1. KernelPd \notin HeapPds
      BY HeapTypes
    <3>2. QED
      BY <1>13, <3>1
  <2>2. QED
    BY <1>4, <1>11, <2>1
<1>14. ASSUME NEW d \in HeapPds, vm.pd[d].present
       PROVE  /\ vm.pd[d].frame \in C
              /\ \A p \in MappedPages : FrameBehind(p) # vm.pd[d].frame
  <2>1. d \in ds /\ vm.pd[d].frame = F(d)
    BY <1>2, <1>14 DEF F, HeapTable
  <2>2. F(d) \in C
    BY <1>4, <2>1
  <2>3. \A p \in MappedPages : FrameBehind(p) # F(d)
    BY <1>5, <1>9, <1>11, <2>1, <2>2
  <2>4. QED
    BY <2>1, <2>2, <2>3
<1>15. ASSUME NEW p \in MappedPages, Tables!EntryOf(vm, p).writable
       PROVE  FrameBehind(p) \notin ReadOnlyFrames
  <2>1. CASE \E t \in PtIndices : /\ FrameBehind(p) = K(t).frame
                                  /\ K(t).present /\ Tables!EntryOf(vm, p) = K(t)
    BY <1>9, <1>15, <2>1
  <2>2. CASE \E d \in ds : FrameBehind(p) = G(d)
    BY <1>4, <1>10, <2>2
  <2>3. QED
    BY <1>11, <2>1, <2>2
<1>16. QED
  BY <1>12, <1>13, <1>14, <1>15 DEF C

(* In kernel_main() every page has a frame of its own, the heap's come     *)
(* from the free memory, and the kernel's code cannot be written.          *)
THEOREM OneUseAtStartUp == UsualMaps => (BootSpec => []MemoryHasOneUse)
<1> SUFFICES ASSUME UsualMaps PROVE BootSpec => []MemoryHasOneUse
  OBVIOUS
<1>1. BootInv /\ MemoryIsRight => MemoryHasOneUse
  <2> SUFFICES ASSUME BootInv, MemoryIsRight, AfterLateInit, EnoughMemory
               PROVE  MemoryHasOneUse
    BY DEF MemoryHasOneUse
  <2>1. stage \in LateStages /\ stage # "init_frame_allocator" /\ stage # "high_half"
    BY DEF AfterLateInit, LateStages
  <2>2. UsableMemory(early_pmm)
    BY <2>1, MemoryIsUsable DEF BootInv
  <2>3. early_pmm.size # 0
    BY <2>2, ClearFinite DEF EnoughMemory, PagesTaken
  <2>4. /\ RightPages(stage, bitmap_page, early_pmm)
        /\ RightTables(stage, bitmap_page, vm, early_pmm)
    BY <2>1, <2>3 DEF BootInv, Started, RunStages
  <2>5. /\ KernelMapped(vm, PagesOf(early_pmm), TRUE) \/ KernelMapped(vm, PagesOf(early_pmm), FALSE)
        /\ vm.pd[IdentityPd] = NoEntry /\ HeapMapped(vm, HeapsBy(stage), early_pmm)
    BY <2>1, <2>4 DEF RightPages, RightTables
  <2>6. HeapsBy(stage) \in SUBSET HeapPds
    BY DEF HeapsBy, HeapPds
  <2>7. CASE KernelMapped(vm, PagesOf(early_pmm), TRUE)
    BY <2>2, <2>3, <2>5, <2>6, <2>7, OneUse DEF MemoryHasOneUse
  <2>8. CASE KernelMapped(vm, PagesOf(early_pmm), FALSE)
    BY <2>2, <2>3, <2>5, <2>6, <2>8, OneUse DEF MemoryHasOneUse
  <2>9. QED
    BY <2>5, <2>7, <2>8
<1>2. QED
  BY <1>1, BootInvariant, PTL
=============================================================================
