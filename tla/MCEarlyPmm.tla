----------------------------- MODULE MCEarlyPmm -----------------------------
(* Memory maps the way a PC's firmware lists them, with pages of 8 bytes   *)
(* and the kernel at address 48: sorted, no two available areas overlap,   *)
(* and each of them starts or ends with a page.                            *)
EXTENDS EarlyPmm

Area(addr, length)     == [addr |-> addr, length |-> length, available |-> TRUE]
Reserved(addr, length) == [addr |-> addr, length |-> length, available |-> FALSE]

(* Below the kernel, an available area that ends within a page, alone or   *)
(* in front of a reserved one.                                             *)
Low == {<<Area(0, 31)>>, <<Area(0, 37), Reserved(37, 3)>>}

(* The area of the kernel, which needs three pages and for the bitmap a    *)
(* fourth, fifth or sixth: too short for it, just long enough for one or   *)
(* two, and with a partial last page.                                      *)
Kernel == {<<Area(48, n)>> : n \in {31, 32, 40, 53}}

(* A reserved area starts in the kernel's area, behind it, or nowhere.     *)
Holes == {<< >>} \union {<<Reserved(a, 5)>> : a \in {82, 88, 91, 101}}

(* The last areas start with a page, or they do not but end with one:      *)
(* early and late in their first page.  The ones at 528 need more than 64  *)
(* bits, so the bitmap takes two pages.  The last one lies above the       *)
(* addresses of a word; cut to a word they name pages below the kernel.    *)
High == {<< >>, <<Area(112, 19)>>, <<Area(112, 40)>>, <<Area(107, 21)>>, <<Area(110, 18)>>,
         <<Area(528, 19)>>, <<Area(528, 43)>>, <<Area(112, 48), Area(1024, 48)>>}

PcMaps == {<< >>} \union {low \o kernel \o hole \o high :
                          low \in Low, kernel \in Kernel, hole \in Holes, high \in High}

(* They are maps the theorems of BootProofs speak about.                   *)
ASSUME PcMapsAreUsual == \A m \in PcMaps : IsUsual(m)

(* The last available area starts and ends within pages and is followed by *)
(* a reserved one.                                                         *)
UnalignedMaps == {<<Area(0, 31), Area(48, 40), Area(a, 102 - a), Reserved(102, 10)>> :
                  a \in 89 .. 95}
=============================================================================
