---------------------------- MODULE Descriptors -----------------------------
(***************************************************************************)
(* The descriptors of gdt.c and idt.c, field by field as the code writes   *)
(* them, and, external, what the processor reads out of them when it takes *)
(* an interrupt: the gate of the vector, the segment the gate names, and   *)
(* the address to go on at.                                                *)
(***************************************************************************)
EXTENDS Words

(* gdt.h: the bits of `access' and `flags'.                                *)
PR    == {7}
Ring3 == {5, 6}
S     == {4}
EX    == {3}
RW    == {1}
GR    == {7}
SZ    == {6}

(* config_gdt_entry()                                                      *)
GdtEntry(base, limit, access, flags) ==
  [base_low    |-> LowBits(base, 16),
   base_middle |-> LowBits(ShiftedRight(base, 16), 8),
   base_high   |-> LowBits(ShiftedRight(base, 24), 8),
   limit_low   |-> LowBits(limit, 16),
   flags       |-> (flags \intersect 4 .. 7) \union (ShiftedRight(limit, 16) \intersect 0 .. 3),
   access      |-> access]

(* load_initial_gdt(): null, the kernel's and the user's code and data; a  *)
(* descriptor's index is the word that selectors hold.                     *)
InitialGdt ==
  LET access == PR \union S \union RW
      flat(bits) == GdtEntry({}, AllOnes, access \union bits, GR \union SZ)
  IN  [i \in {{}, {0}, {1}, {0, 1}, {2}} |->
         CASE i = {}     -> GdtEntry({}, {}, {}, {})
           [] i = {0}    -> flat(EX)
           [] i = {1}    -> flat({})
           [] i = {0, 1} -> flat(Ring3 \union EX)
           [] i = {2}    -> flat(Ring3)]

KernelDs == {4}                          \* 0x10

(* config_idt_entry()                                                      *)
IdtEntry(addr, cs, attributes) ==
  [addr_low |-> LowBits(addr, 16), addr_high |-> LowBits(ShiftedRight(addr, 16), 16),
   kernel_cs |-> cs, reserved |-> {}, attributes |-> attributes]

KernelCs      == {3}                     \* 0x08
InterruptGate == {7, 3, 2, 1}            \* 0b10001110

-----------------------------------------------------------------------------
(* The processor: base and last byte of a segment, ...                     *)
SegmentBase(e) ==
  e.base_low \union ShiftedLeft(e.base_middle, 16) \union ShiftedLeft(e.base_high, 24)

SegmentEnd(e) ==
  LET limit == e.limit_low \union ShiftedLeft(e.flags \intersect 0 .. 3, 16)
  IN  IF GR \subseteq e.flags THEN ShiftedLeft(limit, 12) \union 0 .. 11 ELSE limit

(* ... a 32-bit segment that is the whole address space, for ring 0, ...   *)
IsFlat(e) ==
  /\ PR \union S \subseteq e.access /\ e.access \intersect Ring3 = {}
  /\ SZ \subseteq e.flags
  /\ SegmentBase(e) = {} /\ SegmentEnd(e) = AllOnes

IsFlatCode(e) == IsFlat(e) /\ EX \subseteq e.access
IsFlatData(e) == IsFlat(e) /\ EX \intersect e.access = {} /\ RW \subseteq e.access

(* ... the descriptor a selector names, ...                                *)
Selected(gdt, selector) == gdt[ShiftedRight(selector, 3)]

(* ... and where a gate leads.                                             *)
IsPresent(gate)           == 7 \in gate.attributes
DisablesInterrupts(gate)  == LowBits(gate.attributes, 5) = {3, 2, 1}
EntryPoint(gate)          == gate.addr_low \union ShiftedLeft(gate.addr_high, 16)
EntersCode(gdt, gate)     == IsPresent(gate) /\ IsFlatCode(Selected(gdt, gate.kernel_cs))
=============================================================================
