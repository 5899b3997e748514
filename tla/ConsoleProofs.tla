---------------------------- MODULE ConsoleProofs ----------------------------
(***************************************************************************)
(* Proofs about module Console: for every screen, every text and every     *)
(* addresses of the handlers, an interrupt reaches its handler, no key is  *)
(* forgotten, the row of the terminal stays on the screen wherever in      *)
(* terminal_putchar() an interrupt comes, and the screen shows the text    *)
(* that kernel_main() and the handler print, as long as none comes there.  *)
(***************************************************************************)
EXTENDS Console, SequenceTheorems, NumberLemmas

-----------------------------------------------------------------------------
(* The tables, as the processor decodes them.                              *)
LEMMA KernelSegments ==
  /\ D!IsFlatCode(D!Selected(D!InitialGdt, D!KernelCs))
  /\ D!IsFlatData(D!Selected(D!InitialGdt, D!KernelDs))
<1> DEFINE access == D!PR \union D!S \union D!RW
           code == D!GdtEntry({}, D!AllOnes, access \union D!EX, D!GR \union D!SZ)
           data == D!GdtEntry({}, D!AllOnes, access \union {}, D!GR \union D!SZ)
<1>1. D!Selected(D!InitialGdt, D!KernelCs) = code /\ D!Selected(D!InitialGdt, D!KernelDs) = data
  <2>1. D!ShiftedRight(D!KernelCs, 3) = {0} /\ D!ShiftedRight(D!KernelDs, 3) = {1}
    <3>1. D!ShiftedRight(D!KernelCs, 3) = {0}
      BY DEF D!ShiftedRight, D!KernelCs
    <3>2. D!ShiftedRight(D!KernelDs, 3) = {1}
      BY DEF D!ShiftedRight, D!KernelDs
    <3>3. QED
      BY <3>1, <3>2
  <2>2. {0} # {} /\ {1} # {} /\ {1} # {0}
    <3>1. 0 \in {0} /\ 1 \in {1} /\ 1 \notin {0}
      BY SMT
    <3>2. QED
      BY <3>1, Zenon
  <2>3. D!InitialGdt[{0}] = code /\ D!InitialGdt[{1}] = data
    BY <2>2 DEF D!InitialGdt
  <2>4. QED
    BY <2>1, <2>3 DEF D!Selected
<1>2. ASSUME NEW bits,
             bits \in {access \union D!EX, access \union {}}
      PROVE  D!IsFlat(D!GdtEntry({}, D!AllOnes, bits, D!GR \union D!SZ))
  <2> DEFINE e == D!GdtEntry({}, D!AllOnes, bits, D!GR \union D!SZ)
  <2>1. D!LowBits({}, 16) = {} /\ D!LowBits({}, 8) = {}
        /\ D!ShiftedRight({}, 16) = {} /\ D!ShiftedRight({}, 24) = {}
        /\ D!ShiftedLeft({}, 16) = {} /\ D!ShiftedLeft({}, 24) = {}
    BY DEF D!LowBits, D!ShiftedRight, D!ShiftedLeft
  <2>2. D!LowBits(D!AllOnes, 16) = 0 .. 15
    BY DEF D!LowBits, D!AllOnes
  <2>3. D!ShiftedRight(D!AllOnes, 16) = 0 .. 15
    <3>1. ASSUME NEW b \in 0 .. 15
          PROVE  b \in D!ShiftedRight(D!AllOnes, 16)
      <4>1. b + 16 \in {c \in D!AllOnes : c >= 16} /\ (b + 16) - 16 = b
        BY DEF D!AllOnes
      <4>2. QED
        BY <4>1 DEF D!ShiftedRight
    <3>2. ASSUME NEW b \in D!ShiftedRight(D!AllOnes, 16)
          PROVE  b \in 0 .. 15
      BY DEF D!ShiftedRight, D!AllOnes
    <3>3. QED
      BY <3>1, <3>2
  <2>4. e.flags = {7, 6} \union 0 .. 3
    <3>1. e.flags = ((D!GR \union D!SZ) \intersect 4 .. 7) \union ((0 .. 15) \intersect 0 .. 3)
      BY <2>3 DEF D!GdtEntry
    <3>2. (D!GR \union D!SZ) \intersect 4 .. 7 = {7, 6}
      BY DEF D!GR, D!SZ
    <3>3. (0 .. 15) \intersect 0 .. 3 = 0 .. 3
      OBVIOUS
    <3>4. QED
      BY <3>1, <3>2, <3>3
  <2>5. e.base_low = {} /\ e.base_middle = {} /\ e.base_high = {} /\ e.limit_low = 0 .. 15
        /\ e.access = bits
    BY <2>1, <2>2 DEF D!GdtEntry
  <2> HIDE DEF e
  <2>6. D!SegmentBase(e) = {}
    BY <2>1, <2>5 DEF D!SegmentBase
  <2>7. D!ShiftedLeft(0 .. 3, 16) = 16 .. 19
    <3>1. ASSUME NEW b \in 16 .. 19
          PROVE  b \in D!ShiftedLeft(0 .. 3, 16)
      <4>1. b - 16 \in 0 .. 3 /\ (b - 16) + 16 = b /\ b \in D!AllOnes
        BY DEF D!AllOnes
      <4>2. QED
        BY <4>1 DEF D!ShiftedLeft
    <3>2. ASSUME NEW b \in D!ShiftedLeft(0 .. 3, 16)
          PROVE  b \in 16 .. 19
      BY DEF D!ShiftedLeft
    <3>3. QED
      BY <3>1, <3>2
  <2>8. D!ShiftedLeft(0 .. 19, 12) = 12 .. 31
    <3>1. ASSUME NEW b \in 12 .. 31
          PROVE  b \in D!ShiftedLeft(0 .. 19, 12)
      <4>1. b - 12 \in 0 .. 19 /\ (b - 12) + 12 = b /\ b \in D!AllOnes
        BY DEF D!AllOnes
      <4>2. QED
        BY <4>1 DEF D!ShiftedLeft
    <3>2. ASSUME NEW b \in D!ShiftedLeft(0 .. 19, 12)
          PROVE  b \in 12 .. 31
      BY DEF D!ShiftedLeft, D!AllOnes
    <3>3. QED
      BY <3>1, <3>2
  <2>9. D!SegmentEnd(e) = D!AllOnes
    <3>1. e.flags \intersect 0 .. 3 = 0 .. 3 /\ D!GR \subseteq e.flags
      BY <2>4 DEF D!GR
    <3>2. e.limit_low \union D!ShiftedLeft(e.flags \intersect 0 .. 3, 16) = 0 .. 19
      <4>1. 0 .. 15 \union 16 .. 19 = 0 .. 19
        OBVIOUS
      <4>2. QED
        BY <2>5, <2>7, <3>1, <4>1
    <3>3. D!SegmentEnd(e) = 12 .. 31 \union 0 .. 11
      BY <2>8, <3>1, <3>2 DEF D!SegmentEnd
    <3>4. 12 .. 31 \union 0 .. 11 = 0 .. 31
      OBVIOUS
    <3>5. QED
      BY <3>3, <3>4 DEF D!AllOnes
  <2>10. D!PR \union D!S \subseteq e.access /\ e.access \intersect D!Ring3 = {}
    <3>1. bits = {7, 4, 1, 3} \/ bits = {7, 4, 1}
      BY <1>2 DEF D!PR, D!S, D!RW, D!EX
    <3>2. QED
      BY <2>5, <3>1 DEF D!PR, D!S, D!Ring3
  <2>11. D!SZ \subseteq e.flags
    BY <2>4 DEF D!SZ
  <2>12. D!IsFlat(e)
    BY <2>6, <2>9, <2>10, <2>11 DEF D!IsFlat
  <2>13. QED
    BY <2>12 DEF e
<1>3. D!IsFlat(code) /\ D!IsFlat(data)
  BY <1>2
<1>4. code.access = {7, 4, 1, 3} /\ data.access = {7, 4, 1}
  <2>1. code.access = access \union D!EX /\ data.access = access \union {}
    BY DEF D!GdtEntry
  <2> HIDE DEF code, data
  <2>2. QED
    BY <2>1 DEF D!PR, D!S, D!RW, D!EX
<1> HIDE DEF code, data
<1>5. D!EX \subseteq code.access /\ D!EX \intersect data.access = {} /\ D!RW \subseteq data.access
  BY <1>4 DEF D!EX, D!RW
<1>6. QED
  BY <1>1, <1>3, <1>5 DEF D!IsFlatCode, D!IsFlatData

(* What the processor takes out of a gate is the address that was put in.  *)
LEMMA EntryPointOfGate ==
  ASSUME NEW addr \in SUBSET D!AllOnes, NEW cs, NEW attributes
  PROVE  D!EntryPoint(D!IdtEntry(addr, cs, attributes)) = addr
<1> DEFINE high == D!LowBits(D!ShiftedRight(addr, 16), 16)
<1>1. D!EntryPoint(D!IdtEntry(addr, cs, attributes))
        = D!LowBits(addr, 16) \union D!ShiftedLeft(high, 16)
  BY DEF D!EntryPoint, D!IdtEntry
<1>2. ASSUME NEW b \in addr
      PROVE  b \in D!LowBits(addr, 16) \union D!ShiftedLeft(high, 16)
  <2>1. b \in 0 .. 31
    BY DEF D!AllOnes
  <2>2. CASE b < 16
    BY <2>2 DEF D!LowBits
  <2>3. CASE b >= 16
    <3>1. b - 16 \in D!ShiftedRight(addr, 16)
      BY <2>3 DEF D!ShiftedRight
    <3>2. b - 16 \in high
      BY <2>1, <3>1 DEF D!LowBits
    <3>3. (b - 16) + 16 = b /\ b \in D!AllOnes
      BY <2>1 DEF D!AllOnes
    <3> HIDE DEF high
    <3>4. QED
      BY <3>2, <3>3 DEF D!ShiftedLeft
  <2>4. QED
    BY <2>1, <2>2, <2>3
<1>3. ASSUME NEW b \in D!LowBits(addr, 16) \union D!ShiftedLeft(high, 16)
      PROVE  b \in addr
  <2>1. CASE b \in D!LowBits(addr, 16)
    BY <2>1 DEF D!LowBits
  <2>2. CASE b \in D!ShiftedLeft(high, 16)
    <3>1. PICK c \in high : b = c + 16
      BY <2>2 DEF D!ShiftedLeft
    <3>2. PICK d \in addr : d >= 16 /\ c = d - 16
      BY <3>1 DEF D!LowBits, D!ShiftedRight
    <3>3. d \in 0 .. 31
      BY DEF D!AllOnes
    <3>4. b = d
      BY <3>1, <3>2, <3>3
    <3>5. QED
      BY <3>2, <3>4
  <2>3. QED
    BY <1>3, <2>1, <2>2
<1>4. QED
  BY <1>1, <1>2, <1>3

(* Vector 33 leads to the keyboard's handler and disables interrupts.      *)
LEMMA KeyboardVector ==
  ASSUME cpu.gdt, cpu.idt
  PROVE  HandlerAt(33) = "keyboard" /\ D!DisablesInterrupts(InitialIdt[33])
<1> DEFINE gate == InitialIdt[33]
<1>1. gate = D!IdtEntry(Address["keyboard"], D!KernelCs, D!InterruptGate)
  BY DEF InitialIdt
<1>2. gate.attributes = {7, 3, 2, 1} /\ gate.kernel_cs = D!KernelCs
  BY <1>1 DEF D!IdtEntry, D!InterruptGate
<1>3. 33 \in DOMAIN InitialIdt
  BY DEF InitialIdt
<1> HIDE DEF gate
<1>4. D!EntryPoint(gate) = Address["keyboard"]
  <2>1. Address["keyboard"] \in SUBSET D!AllOnes
    BY AddressAssumption DEF Handlers
  <2>2. QED
    BY <1>1, <2>1, EntryPointOfGate
<1>5. D!EntersCode(D!InitialGdt, gate)
  BY <1>2, KernelSegments DEF D!EntersCode, D!IsPresent
<1>6. D!LowBits({7, 3, 2, 1}, 5) = {3, 2, 1}
  BY DEF D!LowBits
<1>7. D!DisablesInterrupts(gate)
  BY <1>2, <1>6 DEF D!DisablesInterrupts
<1>8. "keyboard" \in Handlers /\ \A h \in Handlers : Address[h] = Address["keyboard"] => h = "keyboard"
  BY AddressAssumption DEF Handlers
<1>9. (CHOOSE h \in Handlers : Address[h] = D!EntryPoint(gate)) = "keyboard"
  BY <1>4, <1>8
<1>10. HandlerAt(33) = "keyboard"
  BY <1>3, <1>4, <1>5, <1>8, <1>9 DEF HandlerAt, gate
<1>11. QED
  BY <1>7, <1>10 DEF gate

-----------------------------------------------------------------------------
(* The inductive invariant.  What a start-up stage finds has been loaded   *)
(* by the stages before it, interrupts come on with the last one, exactly  *)
(* the line whose handler runs is in service, and a byte is `full' only if *)
(* it came after the controller was reset.                                 *)
AfterIcw1 == {"icw2", "mask", "sti", "on"}

ControlTypes ==
  /\ DOMAIN main = {"stage", "at", "char", "row", "column", "cell"}
  /\ main.stage \in {"gdt", "terminal", "idt", "pic"} \union AfterIcw1
  /\ cpu \in [enabled : BOOLEAN, gdt : BOOLEAN, idt : BOOLEAN,
              handler : {"none", "keyboard"}, at : {"print", "read", "eoi"},
              next : DOMAIN Pressed]
  /\ pic \in [offset : {BiosOffset, PicOffset1}, mask : SUBSET Lines, request : SUBSET Lines,
              service : SUBSET Lines]
  /\ keyboard \in {"empty", "full", "early"}

StartedInOrder ==
  /\ main.stage # "gdt" => cpu.gdt
  /\ main.stage \in {"pic"} \union AfterIcw1 => cpu.idt
  /\ main.stage \in {"mask", "sti", "on"} => pic.offset = PicOffset1
  /\ main.stage \in {"sti", "on"} => pic.mask = {TimerLine}

OneAtATime ==
  /\ cpu.enabled <=> main.stage = "on" /\ cpu.handler = "none"
  /\ cpu.handler = "keyboard" => main.stage = "on"
  /\ pic.service = IF cpu.handler = "keyboard" THEN {KeyboardLine} ELSE {}
  /\ cpu.handler = "none" => cpu.at = "print"

BytesArePending ==
  keyboard = "full" => main.stage \in AfterIcw1

ConsoleInv ==
  ControlTypes /\ StartedInOrder /\ OneAtATime /\ BytesArePending /\ KeysAreRequested

LEMMA PressedText ==
  /\ Len(Pressed) \in Nat /\ Len(Pressed) >= 1 /\ DOMAIN Pressed = 1 .. Len(Pressed)
  /\ 1 \in DOMAIN Pressed
  /\ \A i \in DOMAIN Pressed : Pressed[i] \in Characters /\ Pressed[i] # Newline
<1> DEFINE S == {Pressed[i] : i \in DOMAIN Pressed}
<1>1. Pressed \in Seq(S) /\ Pressed # << >>
  BY PressedAssumption
<1>2. \A i \in DOMAIN Pressed : Pressed[i] \in S
  OBVIOUS
<1> HIDE DEF S
<1>3. Len(Pressed) \in Nat /\ DOMAIN Pressed = 1 .. Len(Pressed)
  BY <1>1, LenProperties
<1>4. Len(Pressed) # 0
  BY <1>1, EmptySeq
<1>5. \A i \in DOMAIN Pressed : Pressed[i] \in Characters /\ Pressed[i] # Newline
  BY <1>2, PressedAssumption DEF Characters, S
<1>6. QED
  BY <1>3, <1>4, <1>5

LEMMA InitConsoleInv == Init => ConsoleInv
  BY PressedText DEF Init, ConsoleInv, ControlTypes, StartedInOrder, OneAtATime, BytesArePending,
         KeysAreRequested, AfterIcw1, BiosOffset, PicOffset1, Lines

(* kernel_main() between two characters.                                   *)
LEMMA StartUpConsoleInv ==
  ASSUME ConsoleInv, StartUp
  PROVE  ConsoleInv'
<1> USE DEF ConsoleInv, ControlTypes, StartedInOrder, OneAtATime, BytesArePending,
            KeysAreRequested, AfterIcw1
<1>1. cpu.handler = "none" /\ keyboard' = keyboard
  BY DEF StartUp, MainRuns
<1>2. CASE LoadInitialGdt
  <2>1. /\ main.stage = "gdt" /\ cpu' = [cpu EXCEPT !.gdt = TRUE, !.handler = "none"]
        /\ main' = [main EXCEPT !.stage = "terminal"] /\ pic' = pic
    BY <1>2, KernelSegments DEF LoadInitialGdt
  <2>2. cpu' = [cpu EXCEPT !.gdt = TRUE]
    BY <1>1, <2>1
  <2>3. QED
    BY <1>1, <2>1
<1>3. CASE TerminalInitialize
  BY <1>1, <1>3 DEF TerminalInitialize
<1>4. CASE LoadInitialIdt
  BY <1>1, <1>4 DEF LoadInitialIdt
<1>5. CASE PicIcw1
  BY <1>1, <1>5 DEF PicIcw1
<1>6. CASE PicIcw2
  BY <1>1, <1>6 DEF PicIcw2
<1>7. CASE PicMask
  BY <1>1, <1>7 DEF PicMask, Lines
<1>8. CASE Sti
  BY <1>1, <1>8 DEF Sti
<1>9. QED
  BY <1>2, <1>3, <1>4, <1>5, <1>6, <1>7, <1>8 DEF StartUp

(* An interrupt is the keyboard's: the timer is masked.                    *)
LEMMA DeliverConsoleInv ==
  ASSUME ConsoleInv, NEW line \in Lines, Deliver(line)
  PROVE  ConsoleInv'
<1> USE DEF ConsoleInv, ControlTypes, StartedInOrder, OneAtATime, BytesArePending,
            KeysAreRequested, AfterIcw1
<1>1. /\ cpu.handler = "none" /\ cpu.enabled /\ line \in Offered
      /\ cpu' = [cpu EXCEPT !.handler = HandlerAt(pic.offset + line), !.at = "print",
                            !.enabled = ~ D!DisablesInterrupts(InitialIdt[pic.offset + line])]
      /\ pic' = [pic EXCEPT !.request = @ \ {line}, !.service = @ \union {line}]
      /\ main' = main /\ keyboard' = keyboard
  BY DEF Deliver
<1>2. main.stage = "on" /\ cpu.gdt /\ cpu.idt /\ pic.offset = 32 /\ pic.mask = {0}
  BY <1>1 DEF PicOffset1, TimerLine
<1>3. line = 1 /\ line = KeyboardLine
  BY <1>1, <1>2 DEF Offered, Lines, KeyboardLine, TimerLine
<1>4. pic.offset + line = 33
  BY <1>2, <1>3
<1>5. HandlerAt(33) = "keyboard" /\ D!DisablesInterrupts(InitialIdt[33])
  BY <1>2, KeyboardVector
<1>6. cpu' = [cpu EXCEPT !.handler = "keyboard", !.at = "print", !.enabled = FALSE]
  BY <1>1, <1>4, <1>5
<1>7. QED
  BY <1>1, <1>2, <1>3, <1>6 DEF Lines

LEMMA NextConsoleInv == ConsoleInv /\ [Next]_vars => ConsoleInv'
<1> SUFFICES ASSUME ConsoleInv, [Next]_vars PROVE ConsoleInv'
  OBVIOUS
<1> USE DEF ConsoleInv, ControlTypes, StartedInOrder, OneAtATime, BytesArePending,
            KeysAreRequested, AfterIcw1
<1>1. CASE StartUp
  BY <1>1, StartUpConsoleInv
<1>2. CASE Prints
  <2>1. cpu' = cpu /\ pic' = pic /\ keyboard' = keyboard
    BY <1>2 DEF Prints
  <2>2. DOMAIN main' = DOMAIN main /\ main'.stage = main.stage
    BY <1>2 DEF Prints, Putchar, LoadRow, LoadColumn, NextColumn, PutEntry, CompareWidth, NewRow,
                FirstColumn, CompareHeight, ScrollCell, DeleteCell, LowerRow, AtReady
  <2>3. QED
    BY <2>1, <2>2
<1>3. CASE Delivers
  BY <1>3, DeliverConsoleInv DEF Delivers
<1>4. CASE HandlerPrint
  <2>1. cpu.next < Len(Pressed) => cpu.next + 1 \in DOMAIN Pressed
    BY PressedText
  <2>2. \/ cpu' = [cpu EXCEPT !.next = @ + 1] /\ cpu.next < Len(Pressed)
        \/ cpu' = [cpu EXCEPT !.at = "read", !.next = 1]
    BY <1>4 DEF HandlerPrint
  <2>3. cpu.handler = "keyboard" /\ cpu.at = "print" /\ UNCHANGED <<main, pic, keyboard>>
    BY <1>4 DEF HandlerPrint
  <2>4. CASE cpu' = [cpu EXCEPT !.next = @ + 1] /\ cpu.next < Len(Pressed)
    BY <2>1, <2>3, <2>4
  <2>5. CASE cpu' = [cpu EXCEPT !.at = "read", !.next = 1]
    BY <2>3, <2>5, PressedText
  <2>6. QED
    BY <2>2, <2>4, <2>5
<1>5. CASE HandlerRead
  BY <1>5 DEF HandlerRead
<1>6. CASE HandlerEoi
  BY <1>6 DEF HandlerEoi
<1>7. CASE KeyEvent
  BY <1>7 DEF KeyEvent, Lines
<1>8. CASE TimerTick
  BY <1>8 DEF TimerTick, Lines
<1>9. CASE UNCHANGED vars
  BY <1>9 DEF vars
<1>10. QED
  BY <1>1, <1>2, <1>3, <1>4, <1>5, <1>6, <1>7, <1>8, <1>9 DEF Next, Processor, PageFault

LEMMA ConsoleInvariant == Spec => []ConsoleInv
BY InitConsoleInv, NextConsoleInv, PTL DEF Spec

(* Whatever is pressed, ticks or prints, an interrupt never ends in an     *)
(* exception, and its line is in service as long as its handler runs, with *)
(* interrupts disabled.                                                    *)
THEOREM InterruptsReach == Spec => []InterruptsReachTheirHandler
<1>1. ConsoleInv => InterruptsReachTheirHandler
  BY DEF ConsoleInv, ControlTypes, OneAtATime, InterruptsReachTheirHandler
<1>2. QED
  BY <1>1, ConsoleInvariant, PTL

(* A byte that waits to be read is requested, or its handler is before the *)
(* instruction that reads it.                                              *)
THEOREM KeysRequested == Spec => []KeysAreRequested
<1>1. ConsoleInv => KeysAreRequested
  BY DEF ConsoleInv
<1>2. QED
  BY <1>1, ConsoleInvariant, PTL

-----------------------------------------------------------------------------
(* The terminal as an interrupt may find it, and its functions.            *)
TerminalType ==
  [row : 0 .. Height, column : 0 .. PageCells + 2, fault : BOOLEAN, buffer : [Cells -> Characters]]

LEMMA ScreenConstants ==
  /\ Width \in Nat \ {0} /\ Height \in Nat /\ Height >= 2
  /\ PageCells \in Nat /\ Width * Height <= PageCells /\ PageCells < Width * (Height + 1)
  /\ Width * Height \in Nat /\ Width * (Height + 1) = Width * Height + Width
  /\ Width <= PageCells
<1>1. Width \in Nat \ {0} /\ Height \in Nat /\ Height >= 2
  BY ScreenAssumption
<1>2. Width * Height \in Nat /\ Width * (Height + 1) = Width * Height + Width
      /\ Width <= Width * Height
  BY <1>1
<1>3. PageCells \in Nat /\ Width * Height <= PageCells /\ PageCells < Width * (Height + 1)
  <2> DEFINE a == Width * Height
             b == Width * (Height + 1)
  <2>1. PageCells \in a .. b - 1 /\ a \in Nat /\ b \in Int
    BY <1>1, <1>2, PageAssumption
  <2> HIDE DEF a, b
  <2>2. PageCells \in Nat /\ a <= PageCells /\ PageCells < b
    BY <2>1
  <2>3. QED
    BY <2>2 DEF a, b
<1>4. QED
  BY <1>1, <1>2, <1>3

(* A character put anywhere on the page, or behind it.                     *)
LEMMA PutType ==
  ASSUME NEW t \in TerminalType, NEW c \in Characters, NEW x \in 0 .. PageCells,
         NEW y \in 0 .. Height
  PROVE  LET r == AfterPutEntryAt(t, c, x, y)
         IN  /\ r \in TerminalType /\ r.row = t.row /\ r.column = t.column
             /\ ~ r.fault => x < PageCells /\ ~ t.fault
<1> DEFINE index == y * Width + x
           r == AfterPutEntryAt(t, c, x, y)
<1>1. y * Width \in Nat /\ x \in Nat /\ PageCells \in Nat
  BY ScreenConstants
<1>2. CASE index \in Cells
  <2> DEFINE b == [t.buffer EXCEPT ![index] = c]
  <2>1. r = [t EXCEPT !.buffer = b]
    BY <1>2 DEF AfterPutEntryAt
  <2>2. b \in [Cells -> Characters]
    BY DEF TerminalType
  <2>3. x < PageCells
    <3> DEFINE before == y * Width
    <3>1. before \in Nat /\ before + x < PageCells
      BY <1>1, <1>2 DEF Cells
    <3> HIDE DEF before
    <3>2. QED
      BY <1>1, <3>1
  <2> HIDE DEF b, r
  <2>4. r \in TerminalType /\ r.row = t.row /\ r.column = t.column /\ r.fault = t.fault
    BY <2>1, <2>2 DEF TerminalType
  <2>5. QED
    BY <2>3, <2>4 DEF r
<1>3. CASE index \notin Cells
  <2>1. r = [t EXCEPT !.fault = TRUE]
    BY <1>3 DEF AfterPutEntryAt
  <2>2. r \in TerminalType /\ r.row = t.row /\ r.column = t.column /\ r.fault
    BY <2>1 DEF TerminalType
  <2>3. QED
    BY <2>2
<1>4. QED
  BY <1>2, <1>3

(* The cells of two rows are apart.                                        *)
LEMMA CellOf ==
  ASSUME NEW y \in Nat, NEW x \in 0 .. Width - 1, NEW z \in Nat, NEW w \in 0 .. Width - 1
  PROVE  y * Width + x = z * Width + w <=> y = z /\ x = w
<1>1. /\ (Width * y + x) \div Width = y /\ (Width * y + x) % Width = x
      /\ (Width * z + w) \div Width = z /\ (Width * z + w) % Width = w
  BY ScreenConstants, RemainderUnique
<1>2. y * Width = Width * y /\ z * Width = Width * z
  BY ScreenConstants
<1>3. QED
  BY <1>1, <1>2

LEMMA CellOnScreen ==
  ASSUME NEW y \in 0 .. Height - 1, NEW x \in 0 .. Width - 1
  PROVE  y * Width + x \in Cells /\ y * Width + x < Width * Height
<1>1. y * Width + Width <= Width * Height
  <2>1. y + 1 <= Height /\ Width \in Nat
    BY ScreenConstants
  <2>2. (Height - (y + 1)) * Width >= 0
    BY <2>1, ScreenConstants
  <2>3. (Height - (y + 1)) * Width = Height * Width - (y * Width + Width)
    BY <2>1, ScreenConstants
  <2>4. QED
    BY <2>2, <2>3, ScreenConstants
<1>2. y * Width \in Nat
  BY ScreenConstants
<1>3. QED
  BY <1>1, <1>2, ScreenConstants DEF Cells

LEMMA PutEntryType ==
  ASSUME NEW t \in TerminalType, ~ t.fault, NEW c \in Characters, NEW x \in 0 .. PageCells + 1
  PROVE  LET r == [AfterPutEntryAt(t, c, x, t.row) EXCEPT !.column = x + 1]
         IN  /\ r \in TerminalType /\ r.row = t.row /\ r.column = x + 1
             /\ ~ r.fault => r.column <= PageCells
             /\ ~ r.fault => r.row < Height \/ x + 1 < Width
<1> DEFINE r == [AfterPutEntryAt(t, c, x, t.row) EXCEPT !.column = x + 1]
           index == t.row * Width + x
<1>1. t.row \in 0 .. Height /\ t.row \in Nat /\ x \in Nat /\ t.buffer \in [Cells -> Characters]
      /\ x + 1 \in 0 .. PageCells + 2
  BY ScreenConstants DEF TerminalType
<1>2. CASE index \in Cells
  <2>1. r = [t EXCEPT !.buffer = [t.buffer EXCEPT ![index] = c], !.column = x + 1]
    BY <1>2 DEF AfterPutEntryAt
  <2>2. r \in TerminalType /\ r.row = t.row /\ r.column = x + 1 /\ r.fault = t.fault
    <3> DEFINE b == [t.buffer EXCEPT ![index] = c]
    <3>1. b \in [Cells -> Characters]
      BY <1>1
    <3>2. r = [t EXCEPT !.buffer = b, !.column = x + 1]
      BY <2>1
    <3> HIDE DEF r, b
    <3>3. QED
      BY <1>1, <3>1, <3>2 DEF TerminalType
  <2>3. t.row * Width \in Nat
    BY <1>1, ScreenConstants
  <2>4. x < PageCells
    <3> DEFINE before == t.row * Width
    <3>1. before \in Nat /\ before + x < PageCells /\ PageCells \in Nat
      BY <1>2, <2>3, ScreenConstants DEF Cells
    <3> HIDE DEF before
    <3>2. QED
      BY <1>1, <3>1
  <2>5. t.row = Height => x + 1 < Width
    <3>1. t.row = Height => t.row * Width = Width * Height
      BY ScreenConstants
    <3>2. index < PageCells
      BY <1>2, ScreenConstants DEF Cells
    <3>3. QED
      BY <1>1, <3>1, <3>2, <2>3, ScreenConstants
  <2> HIDE DEF r, index
  <2>6. x + 1 <= PageCells /\ (r.row < Height \/ x + 1 < Width)
    BY <1>1, <2>2, <2>4, <2>5, ScreenConstants
  <2>7. QED
    BY <2>2, <2>6 DEF r
<1>3. CASE index \notin Cells
  <2>1. r = [t EXCEPT !.fault = TRUE, !.column = x + 1]
    BY <1>3 DEF AfterPutEntryAt
  <2>2. r \in TerminalType /\ r.row = t.row /\ r.column = x + 1 /\ r.fault
    BY <1>1, <2>1 DEF TerminalType
  <2>3. QED
    BY <2>2
<1>4. QED
  BY <1>2, <1>3

LEMMA RowCheckType ==
  ASSUME NEW t \in TerminalType
  PROVE  /\ AfterRowCheck(t) \in TerminalType
         /\ AfterRowCheck(t).row = IF t.row = Height THEN Height - 1 ELSE t.row
         /\ AfterRowCheck(t).row < Height
         /\ AfterRowCheck(t).column = t.column /\ AfterRowCheck(t).fault = t.fault
<1>1. t.row \in 0 .. Height /\ t.buffer \in [Cells -> Characters] /\ Height \in Nat /\ Height >= 2
  BY ScreenConstants DEF TerminalType
<1>2. CASE t.row # Height
  BY <1>1, <1>2 DEF AfterRowCheck
<1>3. CASE t.row = Height
  <2> DEFINE b == [i \in Cells |-> IF i < Width * (Height - 1) THEN t.buffer[i + Width]
                                   ELSE IF i < Width * Height THEN Blank ELSE t.buffer[i]]
  <2>1. b \in [Cells -> Characters]
    <3>1. ASSUME NEW i \in Cells PROVE b[i] \in Characters
      <4>1. Width * (Height - 1) = Width * Height - Width
        BY ScreenConstants
      <4>2. i < Width * (Height - 1) => i + Width \in Cells
        BY <4>1, ScreenConstants DEF Cells
      <4>3. Blank \in Characters
        BY DEF Characters
      <4>4. QED
        BY <1>1, <4>2, <4>3
    <3>2. QED
      BY <3>1
  <2>2. AfterRowCheck(t) = [t EXCEPT !.buffer = b, !.row = t.row - 1]
    BY <1>3 DEF AfterRowCheck, Scrolled
  <2> HIDE DEF b
  <2>3. t.row - 1 \in 0 .. Height /\ t.row - 1 < Height /\ t.row - 1 = Height - 1
    BY <1>1, <1>3
  <2>4. QED
    BY <1>3, <2>1, <2>2, <2>3 DEF TerminalType
<1>4. QED
  BY <1>2, <1>3

LEMMA NewlineType ==
  ASSUME NEW t \in TerminalType, t.row < Height
  PROVE  AfterNewline(t) \in TerminalType /\ AfterNewline(t).column = 0
         /\ AfterNewline(t).fault = t.fault /\ AfterNewline(t).row = t.row + 1
<1>1. t.row + 1 \in 0 .. Height /\ 0 \in 0 .. PageCells + 2
  BY ScreenConstants DEF TerminalType
<1>2. QED
  BY <1>1 DEF AfterNewline, TerminalType

(* A character of the handler's text, whatever kernel_main() is at: a row  *)
(* behind the last one is left at once, or there is no cell.               *)
LEMMA PutcharType ==
  ASSUME NEW t \in TerminalType, ~ t.fault, t.column <= PageCells + 1,
         NEW c \in Characters, c # Newline
  PROVE  LET r == AfterPutchar(t, c)
         IN  /\ r \in TerminalType
             /\ r.row = Height => t.row = Height
             /\ t.row >= Height - 1 => r.row >= Height - 1
             /\ ~ r.fault => r.row < Height /\ r.column <= PageCells
<1> DEFINE put == [AfterPutEntryAt(t, c, t.column, t.row) EXCEPT !.column = t.column + 1]
<1>1. t.column \in 0 .. PageCells + 1 /\ t.row \in 0 .. Height /\ Height \in Nat
  BY ScreenConstants DEF TerminalType
<1>2. /\ put \in TerminalType /\ put.row = t.row /\ put.column = t.column + 1
      /\ ~ put.fault => put.column <= PageCells
      /\ ~ put.fault => put.row < Height \/ t.column + 1 < Width
  BY <1>1, PutEntryType
<1>3. AfterPutchar(t, c) = IF put.fault THEN put
                           ELSE AfterRowCheck(IF put.column = Width THEN AfterNewline(put) ELSE put)
  BY DEF AfterPutchar
<1> HIDE DEF put
<1>4. CASE put.fault
  BY <1>1, <1>2, <1>3, <1>4
<1>5. CASE ~ put.fault /\ put.column = Width
  <2> DEFINE n == AfterNewline(put)
  <2>1. put.row < Height
    BY <1>1, <1>2, <1>5, ScreenConstants
  <2>2. n \in TerminalType /\ n.column = 0 /\ n.row = t.row + 1
    BY <1>2, <2>1, NewlineType
  <2> HIDE DEF n
  <2>3. /\ AfterRowCheck(n) \in TerminalType /\ AfterRowCheck(n).row < Height
        /\ AfterRowCheck(n).row = IF n.row = Height THEN Height - 1 ELSE n.row
        /\ AfterRowCheck(n).column = 0
    BY <2>2, RowCheckType
  <2>4. AfterPutchar(t, c) = AfterRowCheck(n)
    BY <1>3, <1>5 DEF n
  <2>5. 0 <= PageCells
    BY ScreenConstants
  <2>6. QED
    BY <1>1, <2>2, <2>3, <2>4, <2>5
<1>6. CASE ~ put.fault /\ put.column # Width
  <2>1. /\ AfterRowCheck(put) \in TerminalType /\ AfterRowCheck(put).row < Height
        /\ AfterRowCheck(put).row = IF put.row = Height THEN Height - 1 ELSE put.row
        /\ AfterRowCheck(put).column = put.column
    BY <1>2, RowCheckType
  <2>2. AfterPutchar(t, c) = AfterRowCheck(put)
    BY <1>3, <1>6
  <2>3. QED
    BY <1>1, <1>2, <1>6, <2>1, <2>2
<1>7. QED
  BY <1>4, <1>5, <1>6

-----------------------------------------------------------------------------
(* The text on the screen: at most as many lines as it has, none of them   *)
(* too long, and room in the last one.                                     *)
Line == Seq(Characters)

IsText(lines) ==
  /\ lines \in Seq(Line) /\ Len(lines) \in 1 .. Height
  /\ \A i \in 1 .. Len(lines) : Len(lines[i]) <= Width
  /\ Len(Last(lines)) < Width

(* The same inside terminal_putchar(): the last line may be full, or an    *)
(* empty one behind the screen.                                            *)
IsUnscrolled(lines) ==
  /\ lines \in Seq(Line) /\ Len(lines) \in 1 .. Height + 1
  /\ \A i \in 1 .. Len(lines) : Len(lines[i]) <= Width
  /\ Len(lines) = Height + 1 => Last(lines) = << >>

WithLast(lines, c) == Append(Front(lines), Append(Last(lines), c))
WithEmpty(lines)   == Append(lines, << >>)

LEMMA LastIs ==
  ASSUME NEW S, NEW s \in Seq(S), Len(s) >= 1
  PROVE  /\ Last(s) = s[Len(s)] /\ Last(s) \in S
         /\ Front(s) \in Seq(S) /\ Len(Front(s)) = Len(s) - 1
         /\ \A i \in 1 .. Len(s) - 1 : Front(s)[i] = s[i]
<1>1. Len(s) \in Nat /\ \A i \in 1 .. Len(s) : s[i] \in S
  BY LenProperties, ElementOfSeq
<1>2. \A i \in 1 .. Len(s) - 1 : s[i] \in S
  BY <1>1
<1>3. /\ SubSeq(s, 1, Len(s) - 1) \in Seq(S)
      /\ Len(SubSeq(s, 1, Len(s) - 1)) = IF 1 <= Len(s) - 1 THEN Len(s) - 1 - 1 + 1 ELSE 0
      /\ \A i \in 1 .. Len(s) - 1 - 1 + 1 : SubSeq(s, 1, Len(s) - 1)[i] = s[1 + i - 1]
  BY <1>1, <1>2, SubSeqProperties
<1> DEFINE f == SubSeq(s, 1, Len(s) - 1)
<1>4. f \in Seq(S) /\ Len(f) = Len(s) - 1
  <2>1. f \in Seq(S) /\ Len(f) = IF 1 <= Len(s) - 1 THEN Len(s) - 1 - 1 + 1 ELSE 0
    BY <1>3
  <2> HIDE DEF f
  <2> DEFINE n == Len(s)
  <2>2. n \in Nat /\ n >= 1 /\ Len(f) = IF 1 <= n - 1 THEN n - 1 - 1 + 1 ELSE 0
    BY <1>1, <2>1
  <2> HIDE DEF n
  <2>3. Len(f) = n - 1
    BY <2>2
  <2>4. QED
    BY <2>1, <2>3 DEF n
<1>5. ASSUME NEW i \in 1 .. Len(s) - 1 PROVE f[i] = s[i]
  <2>1. i \in 1 .. Len(s) - 1 - 1 + 1 /\ 1 + i - 1 = i
    BY <1>1
  <2>2. f[i] = s[1 + i - 1]
    BY <1>3, <2>1
  <2>3. QED
    BY <2>1, <2>2
<1>6. s[Len(s)] \in S
  <2>1. Len(s) \in 1 .. Len(s)
    BY <1>1
  <2>2. QED
    BY <1>1, <2>1
<1>7. Front(s) = f /\ Last(s) = s[Len(s)]
  BY DEF Front, Last
<1> HIDE DEF f
<1>8. QED
  BY <1>4, <1>5, <1>6, <1>7

LEMMA WithLastIs ==
  ASSUME NEW lines, IsText(lines), NEW c \in Characters
  PROVE  LET new == WithLast(lines, c)
         IN  /\ IsUnscrolled(new) /\ Len(new) = Len(lines)
             /\ \A i \in 1 .. Len(lines) - 1 : new[i] = lines[i]
             /\ Last(new) = new[Len(lines)] /\ Last(new) = Append(Last(lines), c)
             /\ Len(Last(new)) = Len(Last(lines)) + 1
             /\ \A i \in 1 .. Len(Last(lines)) : Last(new)[i] = Last(lines)[i]
             /\ Last(new)[Len(Last(lines)) + 1] = c
<1> DEFINE new == WithLast(lines, c)
           last == Append(Last(lines), c)
<1>1. /\ lines \in Seq(Line) /\ Len(lines) \in 1 .. Height /\ Len(lines) \in Nat /\ Len(lines) >= 1
      /\ Height \in Nat /\ Width \in Nat
  BY ScreenConstants DEF IsText
<1>2. /\ Last(lines) \in Line
      /\ Front(lines) \in Seq(Line) /\ Len(Front(lines)) = Len(lines) - 1
      /\ \A i \in 1 .. Len(lines) - 1 : Front(lines)[i] = lines[i]
  BY <1>1, LastIs
<1>3. Len(Last(lines)) \in Nat
  BY <1>2, LenProperties DEF Line
<1>4. /\ last \in Line /\ Len(last) = Len(Last(lines)) + 1
      /\ \A i \in 1 .. Len(Last(lines)) : last[i] = Last(lines)[i]
      /\ last[Len(Last(lines)) + 1] = c
  BY <1>2, <1>3, AppendProperties DEF Line
<1> HIDE DEF last
<1>5. /\ Append(Front(lines), last) \in Seq(Line)
      /\ Len(Append(Front(lines), last)) = Len(lines)
      /\ \A i \in 1 .. Len(lines) - 1 : Append(Front(lines), last)[i] = lines[i]
      /\ Append(Front(lines), last)[Len(lines)] = last
  BY <1>1, <1>2, <1>4, AppendProperties
<1>6. new = Append(Front(lines), last)
  BY DEF WithLast, last
<1> HIDE DEF new
<1>7. /\ new \in Seq(Line) /\ Len(new) = Len(lines) /\ Last(new) = new[Len(lines)]
      /\ Last(new) = last
      /\ \A i \in 1 .. Len(lines) - 1 : new[i] = lines[i]
  BY <1>1, <1>5, <1>6 DEF Last
<1>8. ASSUME NEW i \in 1 .. Len(lines) PROVE Len(new[i]) <= Width
  <2>1. CASE i = Len(lines)
    <3>1. Len(last) <= Width
      BY <1>1, <1>3, <1>4 DEF IsText
    <3>2. QED
      BY <1>7, <2>1, <3>1
  <2>2. CASE i # Len(lines)
    BY <1>1, <1>7, <2>2 DEF IsText
  <2>3. QED
    BY <2>1, <2>2
<1>9. IsUnscrolled(new)
  BY <1>1, <1>7, <1>8 DEF IsUnscrolled
<1>10. QED
  BY <1>4, <1>7, <1>9 DEF new, last

LEMMA WithEmptyIs ==
  ASSUME NEW lines, IsUnscrolled(lines), Len(lines) <= Height
  PROVE  LET new == WithEmpty(lines)
         IN  /\ IsUnscrolled(new) /\ Len(new) = Len(lines) + 1
             /\ \A i \in 1 .. Len(lines) : new[i] = lines[i]
             /\ Last(new) = << >> /\ Len(Last(new)) = 0 /\ new[Len(lines) + 1] = << >>
<1> DEFINE new == WithEmpty(lines)
<1>1. /\ lines \in Seq(Line) /\ Len(lines) \in Nat /\ Len(lines) >= 1
      /\ Height \in Nat /\ Width \in Nat
      /\ << >> \in Line /\ Len(<< >>) = 0
  BY ScreenConstants, EmptySeq DEF IsUnscrolled, Line
<1>2. /\ new \in Seq(Line) /\ Len(new) = Len(lines) + 1
      /\ \A i \in 1 .. Len(lines) : new[i] = lines[i]
      /\ new[Len(lines) + 1] = << >>
  BY <1>1, AppendProperties DEF WithEmpty
<1> HIDE DEF new
<1>3. Last(new) = << >>
  BY <1>2 DEF Last
<1>4. ASSUME NEW i \in 1 .. Len(new) PROVE Len(new[i]) <= Width
  BY <1>1, <1>2 DEF IsUnscrolled
<1>5. IsUnscrolled(new)
  BY <1>1, <1>2, <1>3, <1>4 DEF IsUnscrolled
<1>6. QED
  BY <1>1, <1>2, <1>3, <1>5 DEF new

LEMMA TextUnscrolled ==
  ASSUME NEW lines, IsText(lines)
  PROVE  IsUnscrolled(lines) /\ Len(lines) <= Height
<1>1. Len(lines) \in 1 .. Height /\ Height \in Nat
  BY ScreenConstants DEF IsText
<1>2. QED
  BY <1>1 DEF IsText, IsUnscrolled

(* What scrolls off is the first line.                                     *)
LEMMA LastLinesIs ==
  ASSUME NEW lines, IsUnscrolled(lines), Len(Last(lines)) < Width
  PROVE  LET new == LastLines(lines)
         IN  /\ IsText(new) /\ Last(new) = Last(lines)
             /\ Len(lines) <= Height => new = lines
             /\ Len(lines) = Height + 1 =>
                  Len(new) = Height /\ \A i \in 1 .. Height : new[i] = lines[i + 1]
<1> DEFINE new == LastLines(lines)
<1>1. /\ lines \in Seq(Line) /\ Len(lines) \in Nat /\ Len(lines) >= 1 /\ Len(lines) <= Height + 1
      /\ Height \in Nat /\ Height >= 2
  BY ScreenConstants DEF IsUnscrolled
<1>2. CASE Len(lines) <= Height
  <2>1. new = lines
    <3>1. ~ (Len(lines) > Height)
      BY <1>1, <1>2
    <3>2. new = SubSeq(lines, 1, Len(lines))
      BY <3>1 DEF LastLines
    <3>3. QED
      BY <1>1, <3>2, SubSeqFull
  <2>2. IsText(lines)
    BY <1>1, <1>2 DEF IsText, IsUnscrolled
  <2> HIDE DEF new
  <2>3. ~ (Len(lines) = Height + 1)
    BY <1>1, <1>2
  <2>4. QED
    BY <2>1, <2>2, <2>3 DEF new
<1>3. CASE Len(lines) = Height + 1
  <2> DEFINE n == Height + 1
  <2>1. new = SubSeq(lines, 2, n)
    BY <1>1, <1>3 DEF LastLines
  <2>2. n \in Int /\ 2 \in Int /\ n >= 2 /\ n - 2 + 1 = Height
    BY <1>1
  <2>3. \A i \in 2 .. n : lines[i] \in Line
    BY <1>1, <1>3, ElementOfSeq
  <2> HIDE DEF new, n
  <2>4. /\ SubSeq(lines, 2, n) \in Seq(Line)
        /\ Len(SubSeq(lines, 2, n)) = IF 2 <= n THEN n - 2 + 1 ELSE 0
        /\ \A i \in 1 .. n - 2 + 1 : SubSeq(lines, 2, n)[i] = lines[2 + i - 1]
    BY <1>1, <2>2, <2>3, SubSeqProperties
  <2>5. new \in Seq(Line) /\ Len(new) = Height /\ \A i \in 1 .. Height : new[i] = lines[i + 1]
    <3>1. new \in Seq(Line) /\ Len(new) = Height /\ \A i \in 1 .. Height : new[i] = lines[2 + i - 1]
      BY <2>1, <2>2, <2>4
    <3>2. \A i \in 1 .. Height : 2 + i - 1 = i + 1
      BY <1>1
    <3>3. QED
      BY <3>1, <3>2
  <2>6. Last(new) = Last(lines)
    BY <1>1, <1>3, <2>5 DEF Last
  <2>7. \A i \in 1 .. Height : Len(new[i]) <= Width
    BY <1>1, <1>3, <2>5 DEF IsUnscrolled
  <2>8. IsText(new)
    BY <1>1, <2>5, <2>6, <2>7 DEF IsText
  <2>9. ~ (Len(lines) <= Height)
    BY <1>1, <1>3
  <2>10. QED
    BY <2>5, <2>6, <2>8, <2>9 DEF new
<1>4. QED
  BY <1>1, <1>2, <1>3

(* The text after a character, by the steps of terminal_putchar().         *)
LEMMA TextAfterIs ==
  ASSUME NEW lines, IsText(lines), NEW c \in Characters
  PROVE  TextAfter(lines, c) =
           IF c = Newline THEN LastLines(WithEmpty(lines))
           ELSE IF Len(Last(lines)) + 1 = Width THEN LastLines(WithEmpty(WithLast(lines, c)))
           ELSE LastLines(WithLast(lines, c))
<1> DEFINE last == Append(Last(lines), c)
<1>1. /\ lines \in Seq(Line) /\ Len(lines) >= 1
      /\ Last(lines) \in Line /\ Front(lines) \in Seq(Line)
  BY ScreenConstants, LastIs DEF IsText
<1>2. last \in Line /\ Len(last) = Len(Last(lines)) + 1
  BY <1>1, AppendProperties DEF Line
<1> HIDE DEF last
<1>3. Front(lines) \o <<last, << >> >> = Append(Append(Front(lines), last), << >>)
  <2> DEFINE f == Front(lines)
             a == Append(f, last)
  <2>1. << >> \in Line /\ Len(f) \in Nat
    BY <1>1, EmptySeq, LenProperties DEF Line
  <2>2. /\ a \in Seq(Line) /\ Len(a) = Len(f) + 1
        /\ \A i \in 1 .. Len(f) : a[i] = f[i]
        /\ a[Len(f) + 1] = last
    BY <1>1, <1>2, AppendProperties
  <2> HIDE DEF a
  <2>3. /\ Append(a, << >>) \in Seq(Line) /\ Len(Append(a, << >>)) = Len(f) + 2
        /\ \A i \in 1 .. Len(f) + 1 : Append(a, << >>)[i] = a[i]
        /\ Append(a, << >>)[Len(f) + 2] = << >>
    BY <2>1, <2>2, AppendProperties
  <2>4. /\ <<last, << >> >> \in Seq(Line) /\ Len(<<last, << >> >>) = 2
        /\ <<last, << >> >>[1] = last /\ <<last, << >> >>[2] = << >>
    BY <1>2, <2>1
  <2>5. /\ f \o <<last, << >> >> \in Seq(Line) /\ Len(f \o <<last, << >> >>) = Len(f) + 2
        /\ \A i \in 1 .. Len(f) + 2 :
             (f \o <<last, << >> >>)[i] = IF i <= Len(f) THEN f[i] ELSE <<last, << >> >>[i - Len(f)]
    BY <1>1, <2>4, ConcatProperties
  <2> DEFINE u == f \o <<last, << >> >>
             v == Append(a, << >>)
  <2>6. ASSUME NEW i \in 1 .. Len(u) PROVE u[i] = v[i]
    <3>1. CASE i <= Len(f)
      BY <2>1, <2>2, <2>3, <2>5, <3>1
    <3>2. CASE i = Len(f) + 1
      BY <2>1, <2>2, <2>3, <2>4, <2>5, <3>2
    <3>3. CASE i = Len(f) + 2
      BY <2>1, <2>2, <2>3, <2>4, <2>5, <3>3
    <3>4. i \in Nat /\ i <= Len(f) + 2
      BY <2>1, <2>5
    <3>5. i <= Len(f) \/ i = Len(f) + 1 \/ i = Len(f) + 2
      BY <2>1, <3>4
    <3>6. QED
      BY <3>1, <3>2, <3>3, <3>5
  <2>7. u = v
    <3>1. u \in Seq(Line) /\ v \in Seq(Line) /\ Len(u) = Len(v)
      BY <2>3, <2>5
    <3> HIDE DEF u, v
    <3>2. QED
      BY <3>1, <2>6, SeqEqual
  <2>8. QED
    BY <2>7 DEF a
<1>4. TextAfter(lines, c) = LastLines(IF c = Newline THEN Append(lines, << >>)
                                      ELSE IF Len(last) = Width THEN Front(lines) \o <<last, << >> >>
                                      ELSE Append(Front(lines), last))
  BY DEF TextAfter, last
<1>5. WithLast(lines, c) = Append(Front(lines), last)
  BY DEF WithLast, last
<1>6. QED
  BY <1>2, <1>3, <1>4, <1>5 DEF WithEmpty

-----------------------------------------------------------------------------
(* What the terminal's functions show.                                     *)
LEMMA LineLengths ==
  ASSUME NEW lines, IsUnscrolled(lines)
  PROVE  /\ Len(lines) \in Nat /\ Len(lines) >= 1 /\ Len(lines) <= Height + 1
         /\ \A i \in 1 .. Len(lines) : Len(lines[i]) \in Nat /\ Len(lines[i]) <= Width
         /\ Last(lines) = lines[Len(lines)] /\ Len(Last(lines)) \in Nat
<1>1. /\ lines \in Seq(Line) /\ Len(lines) \in Nat /\ Len(lines) >= 1 /\ Len(lines) <= Height + 1
  BY ScreenConstants DEF IsUnscrolled
<1>2. \A i \in 1 .. Len(lines) : lines[i] \in Line
  BY <1>1, ElementOfSeq
<1>3. \A s \in Line : Len(s) \in Nat
  BY LenProperties DEF Line
<1>4. \A i \in 1 .. Len(lines) : Len(lines[i]) \in Nat
  BY <1>2, <1>3
<1>5. Last(lines) = lines[Len(lines)] /\ Last(lines) \in Line
  BY <1>1, LastIs
<1>6. QED
  BY <1>1, <1>3, <1>4, <1>5 DEF IsUnscrolled

(* The character at the cursor.                                            *)
LEMMA ShowsCharacter ==
  ASSUME NEW t \in TerminalType, NEW lines, IsText(lines), Shows(t, lines), NEW c \in Characters
  PROVE  LET put == [AfterPutEntryAt(t, c, t.column, t.row) EXCEPT !.column = t.column + 1]
         IN  Shows(put, WithLast(lines, c)) /\ put.column = Len(Last(WithLast(lines, c)))
<1> DEFINE put == [AfterPutEntryAt(t, c, t.column, t.row) EXCEPT !.column = t.column + 1]
           new == WithLast(lines, c)
           n == Len(lines)
           w == Len(Last(lines))
           index == t.row * Width + t.column
<1>1. /\ n \in Nat /\ n >= 1 /\ n <= Height /\ w \in Nat /\ w < Width /\ Last(lines) = lines[n]
      /\ \A i \in 1 .. n : Len(lines[i]) \in Nat
  <2>1. IsUnscrolled(lines) /\ n <= Height
    BY TextUnscrolled
  <2>2. QED
    BY <2>1, LineLengths DEF IsText
<1>2. t.row = n - 1 /\ t.column = w /\ ~ t.fault
  BY DEF Shows
<1>3. /\ Len(new) = n /\ \A i \in 1 .. n - 1 : new[i] = lines[i]
      /\ Last(new) = new[n] /\ Len(new[n]) = w + 1
      /\ \A i \in 1 .. w : new[n][i] = lines[n][i]
      /\ new[n][w + 1] = c
  BY <1>1, WithLastIs
<1>4. n - 1 \in 0 .. Height - 1 /\ w \in 0 .. Width - 1
  BY <1>1, ScreenConstants
<1>5. index \in Cells
  BY <1>2, <1>4, CellOnScreen
<1>6. /\ put.row = n - 1 /\ put.column = w + 1 /\ ~ put.fault
      /\ put.buffer = [t.buffer EXCEPT ![index] = c]
  <2> DEFINE b == [t.buffer EXCEPT ![index] = c]
  <2>1. put = [t EXCEPT !.buffer = b, !.column = t.column + 1]
    BY <1>5 DEF AfterPutEntryAt
  <2> HIDE DEF put, b
  <2>2. put.row = t.row /\ put.column = t.column + 1 /\ put.fault = t.fault /\ put.buffer = b
    BY <2>1 DEF TerminalType
  <2>3. QED
    BY <1>2, <2>2 DEF b
<1>7. t.buffer \in [Cells -> Characters]
  BY DEF TerminalType
<1> HIDE DEF put, new
<1>8. ASSUME NEW y \in 0 .. Height - 1, NEW x \in 0 .. Width - 1
      PROVE  put.buffer[y * Width + x] =
               IF y < Len(new) /\ x < Len(new[y + 1]) THEN new[y + 1][x + 1] ELSE Blank
  <2> DEFINE i == y * Width + x
  <2>1. y \in Nat /\ x \in Nat /\ y < Height /\ x < Width /\ i \in Cells
    BY CellOnScreen, ScreenConstants
  <2>2. t.buffer[i] = IF y < n /\ x < Len(lines[y + 1]) THEN lines[y + 1][x + 1] ELSE Blank
    BY DEF Shows
  <2>3. i = index <=> y = n - 1 /\ x = w
    BY <1>1, <1>2, <1>4, <2>1, CellOf
  <2>4. put.buffer[i] = IF i = index THEN c ELSE t.buffer[i]
    BY <1>6, <1>7, <2>1
  <2> HIDE DEF i, index
  <2>5. CASE y # n - 1
    <3>1. put.buffer[i] = t.buffer[i]
      BY <2>3, <2>4, <2>5
    <3>2. y < n => y + 1 \in 1 .. n - 1
      BY <1>1, <2>1, <2>5
    <3>3. y < n => new[y + 1] = lines[y + 1]
      BY <1>3, <3>2
    <3>4. QED
      BY <1>3, <2>2, <3>1, <3>3 DEF i
  <2>6. CASE y = n - 1 /\ x = w
    <3>1. put.buffer[i] = c /\ y + 1 = n /\ y < n /\ x < w + 1
      BY <1>1, <2>3, <2>4, <2>6
    <3>2. QED
      BY <1>3, <2>6, <3>1 DEF i
  <2>7. CASE y = n - 1 /\ x # w
    <3>1. put.buffer[i] = t.buffer[i] /\ y + 1 = n /\ y < n
      BY <1>1, <2>3, <2>4, <2>7
    <3>2. x < w + 1 <=> x < w
      BY <1>1, <2>1, <2>7
    <3>3. x < w => x + 1 \in 1 .. w
      BY <1>1, <2>1
    <3>4. Len(lines[n]) = w /\ Len(new[n]) = w + 1 /\ Len(new) = n
      BY <1>1, <1>3
    <3>5. x < w => new[n][x + 1] = lines[n][x + 1]
      BY <1>3, <3>3
    <3>6. QED
      BY <2>2, <3>1, <3>2, <3>4, <3>5 DEF i
  <2>8. QED
    BY <2>5, <2>6, <2>7
<1>9. Shows(put, new)
  BY <1>3, <1>6, <1>8 DEF Shows
<1>10. QED
  BY <1>3, <1>6, <1>9 DEF put, new

(* An empty line below the others.                                         *)
LEMMA ShowsNewline ==
  ASSUME NEW t \in TerminalType, NEW lines, IsUnscrolled(lines), Len(lines) <= Height,
         Shows(t, lines)
  PROVE  Shows(AfterNewline(t), WithEmpty(lines))
<1> DEFINE new == WithEmpty(lines)
           n == Len(lines)
           r == AfterNewline(t)
<1>1. n \in Nat /\ n >= 1
  BY LineLengths
<1>2. /\ Len(new) = n + 1 /\ \A i \in 1 .. n : new[i] = lines[i]
      /\ Len(Last(new)) = 0 /\ Len(new[n + 1]) = 0
  BY WithEmptyIs
<1>3. t.row = n - 1 /\ ~ t.fault
  BY DEF Shows
<1>4. r.row = n /\ r.column = 0 /\ ~ r.fault /\ r.buffer = t.buffer
  <2>1. r.row = t.row + 1 /\ r.column = 0 /\ r.fault = t.fault /\ r.buffer = t.buffer
    BY DEF AfterNewline, TerminalType
  <2>2. QED
    BY <1>1, <1>3, <2>1
<1> HIDE DEF new, r
<1>5. ASSUME NEW y \in 0 .. Height - 1, NEW x \in 0 .. Width - 1
      PROVE  r.buffer[y * Width + x] =
               IF y < Len(new) /\ x < Len(new[y + 1]) THEN new[y + 1][x + 1] ELSE Blank
  <2> DEFINE i == y * Width + x
  <2>1. y \in Nat /\ x \in Nat
    BY ScreenConstants
  <2>2. r.buffer[i] = IF y < n /\ x < Len(lines[y + 1]) THEN lines[y + 1][x + 1] ELSE Blank
    BY <1>4 DEF Shows
  <2> HIDE DEF i
  <2>3. CASE y < n
    <3>1. y + 1 \in 1 .. n /\ y < n + 1
      BY <1>1, <2>1, <2>3
    <3>2. new[y + 1] = lines[y + 1]
      BY <1>2, <3>1
    <3>3. QED
      BY <1>2, <2>2, <2>3, <3>1, <3>2 DEF i
  <2>4. CASE y = n
    <3>1. ~ (y < n) /\ ~ (x < 0) /\ Len(new[y + 1]) = 0
      BY <1>1, <1>2, <2>1, <2>4
    <3>2. QED
      BY <2>2, <3>1 DEF i
  <2>5. CASE y > n
    <3>1. ~ (y < n) /\ ~ (y < n + 1)
      BY <1>1, <2>1, <2>5
    <3>2. QED
      BY <1>2, <2>2, <3>1 DEF i
  <2>6. QED
    BY <1>1, <2>1, <2>3, <2>4, <2>5
<1>6. n = Len(new) - 1
  BY <1>1, <1>2
<1>7. Shows(r, new)
  BY <1>2, <1>4, <1>5, <1>6 DEF Shows
<1>8. QED
  BY <1>7 DEF r, new

(* A line behind the screen makes the first one scroll off.                *)
LEMMA ShowsRowCheck ==
  ASSUME NEW t \in TerminalType, NEW lines, IsUnscrolled(lines), Len(Last(lines)) < Width,
         Shows(t, lines)
  PROVE  Shows(AfterRowCheck(t), LastLines(lines))
<1> DEFINE new == LastLines(lines)
           r == AfterRowCheck(t)
           n == Len(lines)
<1>1. /\ n \in Nat /\ n >= 1 /\ n <= Height + 1 /\ Height \in Nat /\ Height >= 2
      /\ Width \in Nat /\ Width >= 1
      /\ \A i \in 1 .. n : Len(lines[i]) \in Nat
      /\ Last(lines) = lines[n]
  BY LineLengths, ScreenConstants
<1>2. t.row = n - 1 /\ ~ t.fault /\ t.column = Len(Last(lines))
  BY DEF Shows
<1>3. CASE n <= Height
  <2>1. new = lines
    BY <1>3, LastLinesIs
  <2>2. r = t
    BY <1>1, <1>2, <1>3 DEF AfterRowCheck
  <2> HIDE DEF new, r
  <2>3. Shows(r, new)
    BY <2>1, <2>2
  <2>4. QED
    BY <2>3 DEF new, r
<1>4. CASE n = Height + 1
  <2>1. /\ Last(new) = Last(lines) /\ Len(new) = Height
        /\ \A i \in 1 .. Height : new[i] = lines[i + 1]
    BY <1>4, LastLinesIs
  <2> DEFINE b == [i \in Cells |-> IF i < Width * (Height - 1) THEN t.buffer[i + Width]
                                   ELSE IF i < Width * Height THEN Blank ELSE t.buffer[i]]
  <2>2. t.row = Height
    BY <1>1, <1>2, <1>4
  <2>3. r.row = Height - 1 /\ r.column = t.column /\ r.fault = t.fault /\ r.buffer = b
    <3>1. r = [t EXCEPT !.buffer = b, !.row = t.row - 1]
      BY <2>2 DEF AfterRowCheck, Scrolled
    <3> HIDE DEF b, r
    <3>2. QED
      BY <2>2, <3>1 DEF TerminalType
  <2>4. Len(lines[n]) = 0
    <3>1. Last(lines) = << >>
      BY <1>4 DEF IsUnscrolled
    <3>2. QED
      BY <1>1, <3>1, EmptySeq
  <2> HIDE DEF new, r
  <2>5. ASSUME NEW y \in 0 .. Height - 1, NEW x \in 0 .. Width - 1
        PROVE  r.buffer[y * Width + x] =
                 IF y < Len(new) /\ x < Len(new[y + 1]) THEN new[y + 1][x + 1] ELSE Blank
    <3> DEFINE i == y * Width + x
    <3>1. y \in Nat /\ x \in Nat /\ y < Height /\ x < Width /\ i \in Cells /\ i < Width * Height
          /\ i \in Nat
      BY <1>1, CellOnScreen DEF Cells
    <3>2. y + 1 \in 1 .. Height /\ new[y + 1] = lines[y + 2]
      <4>1. y + 1 \in 1 .. Height /\ (y + 1) + 1 = y + 2
        BY <1>1, <3>1
      <4>2. QED
        BY <2>1, <4>1
    <3>3. Width * (Height - 1) = Width * Height - Width
      BY <1>1
    <3>4. CASE y < Height - 1
      <4>1. y + 1 \in 0 .. Height - 1
        BY <1>1, <3>1, <3>4
      <4>2. (y + 1) * Width + x < Width * Height
        BY <4>1, CellOnScreen
      <4>3. (y + 1) * Width + x = i + Width
        BY <1>1, <3>1
      <4>4. i < Width * (Height - 1)
        <5> DEFINE a == Width * Height
        <5>1. a \in Nat /\ i + Width < a /\ Width * (Height - 1) = a - Width
          BY <3>3, <4>2, <4>3, ScreenConstants
        <5> HIDE DEF a, i
        <5>2. QED
          BY <1>1, <3>1, <5>1
      <4>5. b[i] = t.buffer[(y + 1) * Width + x]
        <5> HIDE DEF i
        <5>1. b[i] = t.buffer[i + Width]
          BY <3>1, <4>4
        <5> HIDE DEF b
        <5>2. QED
          BY <4>3, <5>1
      <4>6. t.buffer[(y + 1) * Width + x] =
              IF y + 1 < n /\ x < Len(lines[(y + 1) + 1]) THEN lines[(y + 1) + 1][x + 1] ELSE Blank
        BY <4>1 DEF Shows
      <4> HIDE DEF b, i
      <4>7. (y + 1) + 1 = y + 2 /\ y + 1 < n
        BY <1>1, <1>4, <3>1
      <4>8. b[i] = IF x < Len(lines[y + 2]) THEN lines[y + 2][x + 1] ELSE Blank
        BY <4>5, <4>6, <4>7
      <4>9. QED
        BY <2>1, <2>3, <3>1, <3>2, <4>8 DEF i
    <3>5. CASE y = Height - 1
      <4>1. y * Width = Width * (Height - 1)
        BY <1>1, <3>5
      <4>2. ~ (i < Width * (Height - 1))
        <5> DEFINE a == Width * (Height - 1)
        <5>1. a \in Int /\ i = a + x
          BY <1>1, <4>1
        <5> HIDE DEF a, i
        <5>2. ~ (i < a)
          BY <3>1, <5>1
        <5>3. QED
          BY <5>2 DEF a
      <4> HIDE DEF i
      <4>3. b[i] = Blank
        BY <3>1, <4>2
      <4> HIDE DEF b
      <4>4. y + 2 = n /\ ~ (x < 0)
        BY <1>1, <1>4, <3>1, <3>5
      <4>5. Len(new[y + 1]) = 0
        BY <2>4, <3>2, <4>4
      <4>6. QED
        BY <2>3, <4>3, <4>4, <4>5 DEF i
    <3> HIDE DEF i, b
    <3>6. QED
      BY <1>1, <3>1, <3>4, <3>5
  <2>6. Shows(r, new)
    BY <1>2, <2>1, <2>3, <2>5 DEF Shows
  <2>7. QED
    BY <2>6 DEF new, r
<1>5. QED
  BY <1>1, <1>3, <1>4

(* terminal_putchar() from its first step to its last.                     *)
LEMMA ShowsPutchar ==
  ASSUME NEW t \in TerminalType, NEW lines, IsText(lines), Shows(t, lines), NEW c \in Characters
  PROVE  IsText(TextAfter(lines, c)) /\ Shows(AfterPutchar(t, c), TextAfter(lines, c))
<1>1. /\ IsUnscrolled(lines) /\ Len(lines) <= Height /\ Len(lines) \in Nat /\ ~ t.fault
      /\ Len(Last(lines)) \in Nat /\ Len(Last(lines)) < Width /\ t.row = Len(lines) - 1
      /\ t.column = Len(Last(lines))
  BY TextUnscrolled, LineLengths DEF Shows, IsText
<1>2. ASSUME NEW u \in TerminalType, NEW ls, IsUnscrolled(ls), Len(ls) <= Height, Shows(u, ls)
      PROVE  /\ IsText(LastLines(WithEmpty(ls)))
             /\ Shows(AfterRowCheck(AfterNewline(u)), LastLines(WithEmpty(ls)))
  <2>1. IsUnscrolled(WithEmpty(ls)) /\ Len(Last(WithEmpty(ls))) < Width
    BY <1>2, WithEmptyIs, ScreenConstants
  <2>2. Shows(AfterNewline(u), WithEmpty(ls))
    BY <1>2, ShowsNewline
  <2>3. AfterNewline(u) \in TerminalType
    <3>1. u.row = Len(ls) - 1 /\ Len(ls) \in Nat
      BY <1>2, LineLengths DEF Shows
    <3>2. u.row < Height
      BY <1>2, <3>1, ScreenConstants
    <3>3. QED
      BY <3>2, NewlineType
  <2>4. QED
    BY <2>1, <2>2, <2>3, LastLinesIs, ShowsRowCheck
<1>3. CASE c = Newline
  <2>1. TextAfter(lines, c) = LastLines(WithEmpty(lines))
    BY <1>3, TextAfterIs
  <2>2. AfterPutchar(t, c) = AfterRowCheck(AfterNewline(t))
    BY <1>1, <1>3 DEF AfterPutchar
  <2>3. QED
    BY <1>1, <1>2, <2>1, <2>2
<1>4. CASE c # Newline
  <2> DEFINE put == [AfterPutEntryAt(t, c, t.column, t.row) EXCEPT !.column = t.column + 1]
             new == WithLast(lines, c)
  <2>1. Shows(put, new) /\ put.column = Len(Last(new))
    BY ShowsCharacter
  <2>2. put \in TerminalType
    <3>1. t.column \in 0 .. PageCells + 1
      BY <1>1, ScreenConstants
    <3>2. QED
      BY <1>1, <3>1, PutEntryType
  <2>3. ~ put.fault
    BY <2>1 DEF Shows
  <2>4. AfterPutchar(t, c) = AfterRowCheck(IF put.column = Width THEN AfterNewline(put) ELSE put)
    BY <1>1, <1>4, <2>3 DEF AfterPutchar
  <2>5. IsUnscrolled(new) /\ Len(new) = Len(lines) /\ Len(Last(new)) = Len(Last(lines)) + 1
    BY WithLastIs
  <2> HIDE DEF put, new
  <2>6. TextAfter(lines, c) = IF put.column = Width THEN LastLines(WithEmpty(new))
                              ELSE LastLines(new)
    BY <1>4, <2>1, <2>5, TextAfterIs DEF new
  <2>7. CASE put.column = Width
    BY <1>1, <1>2, <2>1, <2>2, <2>4, <2>5, <2>6, <2>7
  <2>8. CASE put.column # Width
    <3>1. Len(Last(new)) < Width
      BY <1>1, <2>1, <2>5, <2>8, ScreenConstants
    <3>2. QED
      BY <2>1, <2>2, <2>4, <2>5, <2>6, <2>8, <3>1, LastLinesIs, ShowsRowCheck
  <2>9. QED
    BY <2>7, <2>8
<1>5. QED
  BY <1>3, <1>4

-----------------------------------------------------------------------------
(* The terminal between any two instructions.                              *)
MainType ==
  [stage : {"gdt", "terminal", "idt", "pic"} \union AfterIcw1,
   at : {"ready", "column", "next column", "cell", "width", "newline",
         "column left", "row left", "height", "scroll", "delete", "lower"},
   char : Letters \union {Newline}, row : 0 .. Height, column : 0 .. PageCells,
   cell : 0 .. Width * Height]

(* The column runs at most one behind the page until there is no cell.     *)
ColumnInv ==
  ~ terminal.fault =>
    \/ terminal.column <= PageCells
    \/ main.at = "cell" /\ main.column = PageCells /\ terminal.column = PageCells + 1

CellInv ==
  /\ main.at = "scroll" => main.cell + Width < Width * Height
  /\ main.at = "delete" => main.cell + Width >= Width * Height /\ main.cell < Width * Height
  /\ main.at \notin {"scroll", "delete", "lower"} => main.cell = 0

(* Only kernel_main() leaves the row behind the last one, between its      *)
(* terminal_row++ and its terminal_row--; it scrolls if its register or    *)
(* the variable says so, and then the other one is at most one row above:  *)
(* where the handler leaves it, which scrolled too.                        *)
RowInv ==
  /\ terminal.row = Height => main.at \in {"column left", "height", "scroll", "delete", "lower"}
  /\ main.row = Height => main.at \in {"column left", "height", "scroll", "delete", "lower"}
  /\ main.at \in {"column left", "height"} =>
       (main.row = Height => terminal.row >= Height - 1) /\ (terminal.row = Height => main.row = Height)
  /\ main.at \in {"scroll", "delete", "lower"} =>
       terminal.row >= Height - 1 /\ main.row >= Height - 1

TerminalInv ==
  terminal \in TerminalType /\ main \in MainType /\ ColumnInv /\ CellInv /\ RowInv

(* The fields, apart from the product in the last one's range.             *)
LEMMA MainFields ==
  ASSUME main \in MainType
  PROVE  /\ main.char \in Letters \union {Newline} /\ main.row \in 0 .. Height
         /\ main.column \in 0 .. PageCells /\ main.cell \in 0 .. Width * Height
<1> DEFINE S == {"gdt", "terminal", "idt", "pic"} \union AfterIcw1
           A == {"ready", "column", "next column", "cell", "width", "newline",
                 "column left", "row left", "height", "scroll", "delete", "lower"}
           L == Letters \union {Newline}
           R == 0 .. Height
           C == 0 .. PageCells
           I == 0 .. Width * Height
<1>1. main \in [stage : S, at : A, char : L, row : R, column : C, cell : I]
  BY DEF MainType
<1> HIDE DEF S, A, L, R, C, I
<1>2. main.char \in L /\ main.row \in R /\ main.column \in C /\ main.cell \in I
  BY <1>1
<1>3. QED
  BY <1>2 DEF L, R, C, I

LEMMA ClearedType ==
  ASSUME NEW t \in TerminalType
  PROVE  /\ Cleared(t) \in TerminalType /\ Cleared(t).row = 0 /\ Cleared(t).column = 0
         /\ Cleared(t).fault = t.fault
<1>1. Blank \in Characters /\ 0 \in 0 .. Height /\ 0 \in 0 .. PageCells + 2
  BY ScreenConstants DEF Characters
<1>2. [i \in Cells |-> IF i < Width * Height THEN Blank ELSE t.buffer[i]] \in [Cells -> Characters]
  BY <1>1 DEF TerminalType
<1>3. QED
  BY <1>1, <1>2 DEF Cleared, TerminalType

LEMMA InitTerminalInv == Init => TerminalInv
<1> SUFFICES ASSUME Init PROVE TerminalInv
  OBVIOUS
<1>1. /\ 0 \in 0 .. PageCells /\ 0 \in 0 .. PageCells + 2 /\ 0 <= PageCells /\ 0 # Height
      /\ 0 \in 0 .. Height /\ 0 \in 0 .. Width * Height
  BY ScreenConstants
<1>2. Firmware \in [Cells -> Characters]
  BY FirmwareAssumption DEF Characters
<1>3. terminal \in TerminalType /\ terminal.row = 0 /\ terminal.column = 0
  BY <1>1, <1>2 DEF Init, TerminalType
<1>4. /\ main \in MainType /\ main.at = "ready" /\ main.row = 0 /\ main.cell = 0
  BY <1>1 DEF Init, MainType
<1>5. QED
  BY <1>1, <1>3, <1>4 DEF TerminalInv, ColumnInv, CellInv, RowInv

(* Between two characters kernel_main() holds nothing.                     *)
LEMMA ReadyInv ==
  ASSUME terminal \in TerminalType, terminal' \in TerminalType, main \in MainType,
         main' = AtReady, terminal'.row < Height, terminal'.column <= PageCells
  PROVE  TerminalInv'
<1>1. /\ 0 \in 0 .. PageCells /\ 0 # Height /\ 0 \in 0 .. Height /\ 0 \in 0 .. Width * Height
  BY ScreenConstants
<1>2. /\ main' \in MainType /\ main'.at = "ready" /\ main'.row = 0 /\ main'.cell = 0
  BY <1>1 DEF AtReady, MainType
<1>3. terminal'.row # Height
  BY ScreenConstants DEF TerminalType
<1>4. QED
  BY <1>1, <1>2, <1>3 DEF TerminalInv, ColumnInv, CellInv, RowInv

LEMMA PrintsTerminalInv ==
  ASSUME TerminalInv, Prints
  PROVE  TerminalInv'
<1>1. /\ terminal \in TerminalType /\ ~ terminal.fault /\ main \in MainType
      /\ ColumnInv /\ CellInv /\ RowInv
  BY DEF TerminalInv, Prints, MainRuns
<1>2. /\ Width \in Nat /\ Width >= 1 /\ Width * Height \in Nat /\ Width * Height <= PageCells
       /\ PageCells \in Nat /\ Width * (Height - 1) = Width * Height - Width
       /\ Width < Width * Height
  <2>1. Width + Width <= Width * Height
    <3>1. \A h \in Nat : h >= 2 => Width * 2 <= Width * h
      BY ScreenConstants
    <3>2. QED
      BY <3>1, ScreenConstants
  <2>2. QED
    BY <2>1, ScreenConstants
<1>3. Height \in Nat /\ Height >= 2
  BY ScreenConstants
<1>4. /\ terminal.row \in 0 .. Height /\ main.row \in 0 .. Height /\ Height \in Nat /\ Height >= 2
      /\ main.column \in 0 .. PageCells /\ PageCells \in Nat /\ terminal.column \in Nat
      /\ main.char \in Characters /\ terminal.buffer \in [Cells -> Characters]
  <2>1. main.row \in 0 .. Height /\ main.column \in 0 .. PageCells /\ main.char \in Characters
    BY <1>1, MainFields DEF Characters
  <2>2. terminal.row \in 0 .. Height /\ terminal.buffer \in [Cells -> Characters]
        /\ terminal.column \in 0 .. PageCells + 2
    BY <1>1 DEF TerminalType
  <2>3. QED
    BY <1>2, <1>3, <2>1, <2>2
<1>5. main.cell \in Nat /\ main.cell <= Width * Height
  BY <1>1, <1>2, MainFields
<1>6. SUFFICES terminal' \in TerminalType /\ main' \in MainType /\ ColumnInv' /\ CellInv' /\ RowInv'
  BY DEF TerminalInv
<1>7. CASE \E c \in Letters \union {Newline} : Putchar(c)
  <2>1. PICK c \in Letters \union {Newline} : Putchar(c)
    BY <1>7
  <2>2. main' = [main EXCEPT !.char = c, !.row = terminal.row,
                             !.at = IF c = Newline THEN "newline" ELSE "column"]
        /\ terminal' = terminal /\ main.at = "ready"
    BY <2>1 DEF Putchar
  <2>3. /\ main' \in MainType /\ main'.at \in {"newline", "column"} /\ main'.row = terminal.row
        /\ main'.cell = main.cell
    BY <1>1, <1>4, <2>2 DEF MainType
  <2>4. QED
    BY <1>1, <2>2, <2>3 DEF ColumnInv, CellInv, RowInv
<1>8. CASE LoadRow
  <2>1. main' = [main EXCEPT !.row = terminal.row] /\ terminal' = terminal
        /\ main.at \notin {"ready", "scroll"}
    BY <1>8 DEF LoadRow
  <2>2. /\ main' \in MainType /\ main'.at = main.at /\ main'.row = terminal.row
        /\ main'.cell = main.cell /\ main'.column = main.column
    BY <1>1, <1>4, <2>1 DEF MainType
  <2>3. QED
    BY <1>1, <1>4, <2>1, <2>2 DEF ColumnInv, CellInv, RowInv
<1>9. CASE LoadColumn
  <2>1. /\ main' = [main EXCEPT !.column = terminal.column, !.at = "next column"]
        /\ terminal' = terminal /\ main.at = "column"
    BY <1>9 DEF LoadColumn
  <2>2. terminal.column \in 0 .. PageCells
    BY <1>1, <1>4, <2>1 DEF ColumnInv
  <2>3. /\ main' \in MainType /\ main'.at = "next column" /\ main'.row = main.row
        /\ main'.cell = main.cell
    BY <1>1, <2>1, <2>2 DEF MainType
  <2>4. QED
    BY <1>1, <2>1, <2>2, <2>3 DEF ColumnInv, CellInv, RowInv
<1>10. CASE NextColumn
  <2>1. /\ terminal' = [terminal EXCEPT !.column = main.column + 1]
        /\ main' = [main EXCEPT !.at = "cell"] /\ main.at = "next column"
    BY <1>10 DEF NextColumn
  <2>2. main.column + 1 \in 0 .. PageCells + 2
    BY <1>4
  <2>3. terminal' \in TerminalType /\ terminal'.row = terminal.row
        /\ terminal'.column = main.column + 1
    BY <1>1, <2>1, <2>2 DEF TerminalType
  <2>4. /\ main' \in MainType /\ main'.at = "cell" /\ main'.row = main.row
        /\ main'.cell = main.cell /\ main'.column = main.column
    BY <1>1, <2>1 DEF MainType
  <2>5. ColumnInv'
    BY <1>4, <2>3, <2>4 DEF ColumnInv
  <2>6. QED
    BY <1>1, <2>1, <2>3, <2>4, <2>5 DEF CellInv, RowInv
<1>11. CASE PutEntry
  <2> DEFINE r == AfterPutEntryAt(terminal, main.char, main.column, main.row)
  <2>1. terminal' = r /\ main' = [main EXCEPT !.at = "width"] /\ main.at = "cell"
    BY <1>11 DEF PutEntry
  <2>2. /\ r \in TerminalType /\ r.row = terminal.row /\ r.column = terminal.column
        /\ ~ r.fault => main.column < PageCells
    BY <1>1, <1>4, PutType
  <2> HIDE DEF r
  <2>3. /\ main' \in MainType /\ main'.at = "width" /\ main'.row = main.row
        /\ main'.cell = main.cell
    BY <1>1, <2>1 DEF MainType
  <2>4. ColumnInv'
    BY <1>1, <1>4, <2>1, <2>2, <2>3 DEF ColumnInv
  <2>5. QED
    BY <1>1, <2>1, <2>2, <2>3, <2>4 DEF CellInv, RowInv
<1>12. CASE CompareWidth
  <2>1. terminal' = terminal /\ main.at = "width"
        /\ \E a \in {"newline", "height"} : main' = [main EXCEPT !.at = a]
    BY <1>12 DEF CompareWidth
  <2>2. /\ main' \in MainType /\ main'.at \in {"newline", "height"} /\ main'.row = main.row
        /\ main'.cell = main.cell
    BY <1>1, <2>1 DEF MainType
  <2>3. QED
    BY <1>1, <1>4, <2>1, <2>2 DEF ColumnInv, CellInv, RowInv
<1>13. CASE NewRow
  <2>1. /\ terminal' = [terminal EXCEPT !.row = main.row + 1]
        /\ main.at \in {"newline", "row left"}
        /\ \E a \in {"column left", "height"} :
             main' = [main EXCEPT !.row = main.row + 1, !.at = a]
    BY <1>1, <1>13 DEF NewRow, MainType
  <2>2. main.row # Height /\ main.row + 1 \in 0 .. Height
    <3>1. main.row # Height
      BY <1>1, <2>1 DEF RowInv
    <3>2. QED
      BY <1>4, <3>1
  <2>3. terminal' \in TerminalType /\ terminal'.column = terminal.column
        /\ terminal'.row = main.row + 1 /\ terminal'.fault = terminal.fault
    BY <1>1, <2>1, <2>2 DEF TerminalType
  <2>4. /\ main' \in MainType /\ main'.at \in {"column left", "height"}
        /\ main'.row = main.row + 1 /\ main'.cell = main.cell
    BY <1>1, <2>1, <2>2 DEF MainType
  <2>5. RowInv'
    <3>1. terminal'.row = main'.row /\ terminal'.row \in 0 .. Height
      BY <2>2, <2>3, <2>4
    <3>2. main'.at \in {"column left", "height"}
      BY <2>4
    <3>3. main'.row = Height => terminal'.row >= Height - 1
      BY <1>3, <3>1
    <3>4. main'.at \notin {"scroll", "delete", "lower"}
      BY <3>2
    <3>5. QED
      BY <3>1, <3>2, <3>3, <3>4 DEF RowInv
  <2>6. QED
    BY <1>1, <2>1, <2>3, <2>4, <2>5 DEF ColumnInv, CellInv
<1>14. CASE FirstColumn
  <2>1. /\ terminal' = [terminal EXCEPT !.column = 0]
        /\ \/ main.at = "newline" /\ main' = [main EXCEPT !.at = "row left"]
           \/ main.at = "column left" /\ main' = [main EXCEPT !.at = "height"]
    BY <1>1, <1>14 DEF FirstColumn, MainType
  <2>2. 0 \in 0 .. PageCells + 2 /\ 0 <= PageCells
    BY <1>4
  <2>3. terminal' \in TerminalType /\ terminal'.column = 0 /\ terminal'.row = terminal.row
    BY <1>1, <2>1, <2>2 DEF TerminalType
  <2>4. /\ main' \in MainType /\ main'.row = main.row /\ main'.cell = main.cell
        /\ \/ main.at = "newline" /\ main'.at = "row left"
           \/ main.at = "column left" /\ main'.at = "height"
    BY <1>1, <2>1 DEF MainType
  <2>5. RowInv'
    BY <1>1, <2>3, <2>4 DEF RowInv
  <2>6. QED
    BY <1>1, <2>2, <2>3, <2>4, <2>5 DEF ColumnInv, CellInv
<1>15. CASE CompareHeight
  <2>1. /\ terminal' = terminal /\ main.at = "height"
        /\ main' = IF main.row = Height THEN [main EXCEPT !.at = "scroll"] ELSE AtReady
    BY <1>15 DEF CompareHeight
  <2>2. terminal.column <= PageCells
    BY <1>1, <2>1 DEF ColumnInv
  <2>3. CASE main.row = Height
    <3>1. /\ main' \in MainType /\ main'.at = "scroll" /\ main'.row = Height /\ main'.cell = 0
      BY <1>1, <2>1, <2>3 DEF MainType, CellInv
    <3>2. 0 + Width < Width * Height
      BY <1>2
    <3>3. QED
      BY <1>1, <1>4, <2>1, <2>2, <2>3, <3>1, <3>2 DEF ColumnInv, CellInv, RowInv
  <2>4. CASE main.row # Height
    <3>1. terminal.row < Height
      BY <1>1, <1>4, <2>1, <2>4 DEF RowInv
    <3>2. TerminalInv'
      BY <1>1, <2>1, <2>2, <2>4, <3>1, ReadyInv
    <3>3. QED
      BY <3>2 DEF TerminalInv
  <2>5. QED
    BY <2>3, <2>4
<1>16. CASE ScrollCell \/ DeleteCell
  <2>1. /\ main.at \in {"scroll", "delete"}
        /\ \E c \in Characters : terminal' = [terminal EXCEPT !.buffer[main.cell] = c]
    <3>1. CASE ScrollCell
      <4>1. main.at = "scroll" /\ main.cell + Width \in Cells
        BY <1>1, <1>2, <1>5, <3>1 DEF ScrollCell, CellInv, Cells
      <4>2. QED
        BY <1>4, <3>1, <4>1 DEF ScrollCell
    <3>2. CASE DeleteCell
      BY <3>2 DEF DeleteCell, Characters
    <3>3. QED
      BY <1>16, <3>1, <3>2
  <2>2. /\ terminal' \in TerminalType /\ terminal'.row = terminal.row
        /\ terminal'.column = terminal.column
    <3>1. PICK c \in Characters : terminal' = [terminal EXCEPT !.buffer[main.cell] = c]
      BY <2>1
    <3> DEFINE b == [terminal.buffer EXCEPT ![main.cell] = c]
    <3>2. b \in [Cells -> Characters] /\ terminal' = [terminal EXCEPT !.buffer = b]
      BY <1>4, <3>1
    <3> HIDE DEF b
    <3>3. QED
      BY <1>1, <3>2 DEF TerminalType
  <2>3. terminal.column <= PageCells
    BY <1>1, <2>1 DEF ColumnInv
  <2>4. main.cell < Width * Height
    BY <1>1, <1>2, <1>5, <2>1 DEF CellInv
  <2>5. main.cell + 1 \in 0 .. Width * Height
    BY <1>2, <1>5, <2>4
  <2>6. CASE ScrollCell
    <3>1. main.at = "scroll"
      BY <2>6 DEF ScrollCell
    <3>2. CASE main.cell + 1 < Width * (Height - 1)
      <4>1. main' = [main EXCEPT !.cell = main.cell + 1]
        BY <2>6, <3>2 DEF ScrollCell
      <4>2. /\ main' \in MainType /\ main'.at = "scroll" /\ main'.row = main.row
            /\ main'.cell = main.cell + 1
        BY <1>1, <2>5, <3>1, <4>1 DEF MainType
      <4>3. main.cell + 1 + Width < Width * Height
        BY <1>2, <1>5, <3>2
      <4>4. QED
        BY <1>1, <2>2, <2>3, <3>1, <4>2, <4>3 DEF ColumnInv, CellInv, RowInv
    <3>3. CASE ~ (main.cell + 1 < Width * (Height - 1))
      <4>1. main' = [main EXCEPT !.cell = main.cell + 1, !.row = terminal.row, !.at = "delete"]
        BY <2>6, <3>3 DEF ScrollCell
      <4>2. /\ main' \in MainType /\ main'.at = "delete" /\ main'.row = terminal.row
            /\ main'.cell = main.cell + 1
        BY <1>1, <1>4, <2>5, <4>1 DEF MainType
      <4>3. main.cell + Width < Width * Height
        BY <1>1, <3>1 DEF CellInv
      <4>4. main.cell + 1 + Width >= Width * Height /\ main.cell + 1 < Width * Height
        BY <1>2, <1>5, <3>3, <4>3
      <4>5. QED
        BY <1>1, <2>2, <2>3, <3>1, <4>2, <4>4 DEF ColumnInv, CellInv, RowInv
    <3>4. QED
      BY <3>2, <3>3
  <2>7. CASE DeleteCell
    <3>1. main.at = "delete"
          /\ main' = [main EXCEPT !.cell = main.cell + 1,
                                  !.at = IF main.cell + 1 < Width * Height THEN "delete" ELSE "lower"]
      BY <2>7 DEF DeleteCell
    <3>2. /\ main' \in MainType /\ main'.row = main.row /\ main'.cell = main.cell + 1
          /\ main'.at = IF main.cell + 1 < Width * Height THEN "delete" ELSE "lower"
      BY <1>1, <2>5, <3>1 DEF MainType
    <3>3. main.cell + 1 + Width >= Width * Height
      BY <1>1, <1>2, <1>5, <3>1 DEF CellInv
    <3>4. CellInv'
      BY <3>2, <3>3 DEF CellInv
    <3>5. QED
      BY <1>1, <2>2, <2>3, <3>1, <3>2, <3>4 DEF ColumnInv, RowInv
  <2>8. QED
    BY <1>16, <2>6, <2>7
<1>17. CASE LowerRow
  <2>1. /\ terminal' = [terminal EXCEPT !.row = main.row - 1] /\ main' = AtReady
        /\ main.at = "lower"
    BY <1>17 DEF LowerRow
  <2>2. main.row - 1 \in 0 .. Height /\ main.row - 1 < Height
    BY <1>1, <1>4, <2>1 DEF RowInv
  <2>3. terminal' \in TerminalType /\ terminal'.row = main.row - 1
        /\ terminal'.column = terminal.column
    BY <1>1, <2>1, <2>2 DEF TerminalType
  <2>4. terminal.column <= PageCells
    BY <1>1, <2>1 DEF ColumnInv
  <2>5. TerminalInv'
    BY <1>1, <2>1, <2>2, <2>3, <2>4, ReadyInv
  <2>6. QED
    BY <2>5 DEF TerminalInv
<1>18. QED
  BY <1>7, <1>8, <1>9, <1>10, <1>11, <1>12, <1>13, <1>14, <1>15, <1>16, <1>17 DEF Prints

LEMMA HandlerTerminalInv ==
  ASSUME ConsoleInv, TerminalInv, HandlerPrint
  PROVE  TerminalInv'
<1>1. /\ terminal \in TerminalType /\ ~ terminal.fault /\ ColumnInv /\ CellInv /\ RowInv
      /\ terminal' = AfterPutchar(terminal, Pressed[cpu.next]) /\ main' = main
      /\ main \in MainType
  BY DEF TerminalInv, HandlerPrint
<1>2. cpu.next \in DOMAIN Pressed
  BY DEF ConsoleInv, ControlTypes
<1>3. terminal.column <= PageCells + 1 /\ terminal.row \in 0 .. Height /\ Height \in Nat
  BY <1>1, ScreenConstants DEF ColumnInv, TerminalType
<1>4. /\ terminal' \in TerminalType
      /\ terminal'.row = Height => terminal.row = Height
      /\ terminal.row >= Height - 1 => terminal'.row >= Height - 1
      /\ ~ terminal'.fault => terminal'.column <= PageCells
  BY <1>1, <1>2, <1>3, PressedText, PutcharType
<1>5. RowInv'
  BY <1>1, <1>3, <1>4 DEF RowInv
<1>6. QED
  BY <1>1, <1>4, <1>5 DEF TerminalInv, ColumnInv, CellInv

LEMMA NextTerminalInv == ConsoleInv /\ TerminalInv /\ [Next]_vars => TerminalInv'
<1> SUFFICES ASSUME ConsoleInv, TerminalInv, [Next]_vars PROVE TerminalInv'
  OBVIOUS
<1>1. CASE StartUp
  <2>1. terminal' \in {terminal, Cleared(terminal)} /\ main.at = "ready"
    BY <1>1 DEF StartUp, LoadInitialGdt, TerminalInitialize, LoadInitialIdt, PicIcw1, PicIcw2,
                PicMask, Sti
  <2>2. \E s \in {"gdt", "terminal", "idt", "pic"} \union AfterIcw1 :
          main' = [main EXCEPT !.stage = s]
    BY <1>1 DEF StartUp, LoadInitialGdt, TerminalInitialize, LoadInitialIdt, PicIcw1, PicIcw2,
                PicMask, Sti, AfterIcw1
  <2>3. /\ main' \in MainType /\ main'.at = main.at /\ main'.row = main.row
        /\ main'.cell = main.cell
    BY <2>2 DEF TerminalInv, MainType
  <2>4. 0 # Height /\ 0 <= PageCells
    BY ScreenConstants
  <2>5. /\ terminal' \in TerminalType /\ terminal'.row \in {terminal.row, 0}
        /\ terminal'.column \in {terminal.column, 0} /\ terminal'.fault = terminal.fault
    BY <2>1, ClearedType DEF TerminalInv
  <2>6. QED
    BY <2>1, <2>3, <2>4, <2>5 DEF TerminalInv, ColumnInv, CellInv, RowInv
<1>2. CASE Prints
  BY <1>2, PrintsTerminalInv
<1>3. CASE Delivers
  BY <1>3 DEF Delivers, Deliver, TerminalInv, ColumnInv, CellInv, RowInv
<1>4. CASE HandlerPrint
  BY <1>4, HandlerTerminalInv
<1>5. CASE HandlerRead \/ HandlerEoi \/ KeyEvent \/ TimerTick \/ UNCHANGED vars
  BY <1>5 DEF HandlerRead, HandlerEoi, KeyEvent, TimerTick, vars, TerminalInv, ColumnInv, CellInv,
              RowInv
<1>6. QED
  BY <1>1, <1>2, <1>3, <1>4, <1>5 DEF Next, Processor, PageFault

LEMMA TerminalInvariant == Spec => [](ConsoleInv /\ TerminalInv)
BY InitConsoleInv, InitTerminalInv, NextConsoleInv, NextTerminalInv, PTL DEF Spec

(* Every variable keeps its type; the column, which may run past the       *)
(* width, stops behind the page.                                           *)
THEOREM TypeCorrect == Spec => []TypeOK
<1>1. ConsoleInv /\ TerminalInv => TypeOK
  <2> SUFFICES ASSUME ConsoleInv, TerminalInv PROVE TypeOK
    OBVIOUS
  <2>1. /\ terminal \in [row : 0 .. Height, column : 0 .. PageCells + 2, fault : BOOLEAN,
                         buffer : [Cells -> Characters]]
        /\ main \in [stage : {"gdt", "terminal", "idt", "pic", "icw2", "mask", "sti", "on"},
                     at : {"ready", "column", "next column", "cell", "width", "newline",
                           "column left", "row left", "height", "scroll", "delete", "lower"},
                     char : Letters \union {Newline}, row : 0 .. Height, column : 0 .. PageCells,
                     cell : 0 .. Width * Height]
    BY DEF TerminalInv, TerminalType, MainType, AfterIcw1
  <2>2. /\ cpu.enabled \in BOOLEAN /\ cpu.handler \in {"none"} \union Handlers
        /\ cpu.next \in DOMAIN Pressed
    BY DEF ConsoleInv, ControlTypes, Handlers
  <2>3. /\ pic \in [offset : {BiosOffset, PicOffset1}, mask : SUBSET Lines, request : SUBSET Lines,
                    service : SUBSET Lines]
        /\ keyboard \in {"empty", "full", "early"}
    BY DEF ConsoleInv, ControlTypes
  <2>4. QED
    BY <2>1, <2>2, <2>3 DEF TypeOK
<1>2. QED
  BY <1>1, TerminalInvariant, PTL

(* Wherever in terminal_putchar() the handler comes, in the scrolling too, *)
(* and wherever LoadRow loads the row again: the row is on the screen      *)
(* between two characters, and is never lowered below the first line.      *)
THEOREM RowStays == Spec => []RowStaysOnScreen
<1>1. TerminalInv => RowStaysOnScreen
  <2> SUFFICES ASSUME TerminalInv PROVE RowStaysOnScreen
    OBVIOUS
  <2>1. terminal.row \in 0 .. Height /\ Height \in Nat
    BY ScreenConstants DEF TerminalInv, TerminalType
  <2>2. terminal.row >= Height - 1 => terminal.row \in {Height - 1, Height}
    BY <2>1
  <2>3. RowInv
    BY DEF TerminalInv
  <2>4. QED
    BY <2>1, <2>2, <2>3 DEF RowInv, RowStaysOnScreen
<1>2. QED
  BY <1>1, TerminalInvariant, PTL

-----------------------------------------------------------------------------
(* The end of terminal_putchar() after a character is put.                 *)
AfterWidthCheck(t) == AfterRowCheck(IF t.column = Width THEN AfterNewline(t) ELSE t)

(* Scrolled as far as cell k; the rest of the scrolling makes this of it.  *)
ScrolledFrom(t, k) ==
  [t EXCEPT !.row = t.row - 1,
            !.buffer = [i \in Cells |-> IF i < k THEN t.buffer[i] ELSE Scrolled(t).buffer[i]]]

(* The terminal as it will be when kernel_main() is through with its       *)
(* terminal_putchar(), if no interrupt comes.                              *)
Finished ==
  CASE main.at \in {"column", "next column"} -> AfterPutchar(terminal, main.char)
    [] main.at = "cell" ->
         AfterWidthCheck(AfterPutEntryAt(terminal, main.char, main.column, main.row))
    [] main.at = "width" -> AfterWidthCheck(terminal)
    [] main.at = "newline" -> AfterRowCheck(AfterNewline(terminal))
    [] main.at = "column left" -> AfterRowCheck([terminal EXCEPT !.column = 0])
    [] main.at = "row left" -> AfterRowCheck([terminal EXCEPT !.row = terminal.row + 1])
    [] main.at = "height" -> AfterRowCheck(terminal)
    [] main.at \in {"scroll", "delete"} -> ScrolledFrom(terminal, main.cell)
    [] main.at = "lower" -> [terminal EXCEPT !.row = terminal.row - 1]
    [] OTHER -> terminal

(* While no interrupt has come inside terminal_putchar() the registers     *)
(* agree with the variables.                                               *)
RegistersAgree ==
  /\ main.at # "ready" => main.row = terminal.row
  /\ main.at \in {"column", "next column"} => main.char # Newline
  /\ main.at = "next column" => main.column = terminal.column
  /\ main.at \in {"cell", "width"} => main.column + 1 = terminal.column
  /\ main.at \in {"scroll", "delete", "lower"} => terminal.row = Height

Untorn ==
  /\ ~ terminal.fault /\ IsText(text)
  /\ cpu.handler # "none" => main.at = "ready"
  /\ main.stage \in {"gdt", "terminal"} => text = NoText /\ main.at = "ready"
  /\ main.stage \notin {"gdt", "terminal"} => Shows(Finished, text)
  /\ RegistersAgree

ScreenInv == ~ torn => Untorn

LEMMA NoTextIs ==
  IsText(NoText) /\ Len(NoText) = 1 /\ NoText[1] = << >> /\ Last(NoText) = << >> /\ Len(<< >>) = 0
<1>1. /\ << >> \in Line /\ Len(<< >>) = 0
  BY EmptySeq DEF Line
<1>2. /\ NoText \in Seq(Line) /\ Len(NoText) = 1 /\ NoText[1] = << >>
  BY <1>1 DEF NoText
<1>3. Last(NoText) = << >>
  BY <1>2 DEF Last
<1>4. QED
  BY <1>1, <1>2, <1>3, ScreenConstants DEF IsText

(* terminal_initialize() clears the screen, whatever was there.            *)
LEMMA NothingShown ==
  ASSUME NEW t \in TerminalType, ~ t.fault
  PROVE  Shows(Cleared(t), NoText)
<1> DEFINE r == Cleared(t)
<1>1. /\ r.row = 0 /\ r.column = 0 /\ ~ r.fault
      /\ r.buffer = [i \in Cells |-> IF i < Width * Height THEN Blank ELSE t.buffer[i]]
  BY DEF Cleared
<1> HIDE DEF r
<1>2. ASSUME NEW y \in 0 .. Height - 1, NEW x \in 0 .. Width - 1
      PROVE  /\ r.buffer[y * Width + x] = Blank
             /\ ~ (y < 1 /\ x < Len(NoText[y + 1]))
  <2>1. r.buffer[y * Width + x] = Blank
    BY <1>1, CellOnScreen
  <2>2. ~ (y < 1 /\ x < Len(NoText[y + 1]))
    <3>1. y < 1 => y + 1 = 1
      BY ScreenConstants
    <3>2. ~ (x < 0)
      BY ScreenConstants
    <3>3. QED
      BY NoTextIs, <3>1, <3>2
  <2>3. QED
    BY <2>1, <2>2
<1>3. r.row = Len(NoText) - 1 /\ r.column = Len(Last(NoText))
  BY <1>1, NoTextIs
<1>4. Shows(r, NoText)
  BY NoTextIs, <1>1, <1>2, <1>3 DEF Shows
<1>5. QED
  BY <1>4 DEF r

LEMMA InitScreenInv == Init => ScreenInv
<1> SUFFICES ASSUME Init PROVE ScreenInv
  OBVIOUS
<1>1. /\ ~ terminal.fault /\ main.stage = "gdt" /\ main.at = "ready" /\ text = NoText
      /\ cpu.handler = "none"
  BY DEF Init
<1>2. QED
  BY <1>1, NoTextIs DEF ScreenInv, Untorn, RegistersAgree

(* The column may be stored before the character is, and the page fault    *)
(* of a character outside the page is not undone.                          *)
LEMMA PutFinishes ==
  ASSUME NEW t \in TerminalType, ~ t.fault, NEW c \in Characters, c # Newline,
         ~ AfterPutchar(t, c).fault
  PROVE  AfterPutchar(t, c) =
           AfterWidthCheck(AfterPutEntryAt([t EXCEPT !.column = t.column + 1], c, t.column, t.row))
<1> DEFINE index == t.row * Width + t.column
           next == [t EXCEPT !.column = t.column + 1]
           put == [AfterPutEntryAt(t, c, t.column, t.row) EXCEPT !.column = t.column + 1]
<1>1. AfterPutEntryAt(next, c, t.column, t.row) = put
  <2>1. CASE index \in Cells
    <3> DEFINE b == [t.buffer EXCEPT ![index] = c]
    <3>1. AfterPutEntryAt(t, c, t.column, t.row) = [t EXCEPT !.buffer = b]
      BY <2>1 DEF AfterPutEntryAt
    <3>2. next.buffer = t.buffer
      BY DEF TerminalType
    <3>3. AfterPutEntryAt(next, c, t.column, t.row) = [next EXCEPT !.buffer = b]
      BY <2>1, <3>2 DEF AfterPutEntryAt
    <3> HIDE DEF b
    <3>4. QED
      BY <3>1, <3>3 DEF TerminalType
  <2>2. CASE index \notin Cells
    <3>1. /\ AfterPutEntryAt(t, c, t.column, t.row) = [t EXCEPT !.fault = TRUE]
          /\ AfterPutEntryAt(next, c, t.column, t.row) = [next EXCEPT !.fault = TRUE]
      BY <2>2 DEF AfterPutEntryAt
    <3>2. QED
      BY <3>1 DEF TerminalType
  <2>3. QED
    BY <2>1, <2>2
<1>2. AfterPutchar(t, c) = IF put.fault THEN put ELSE AfterWidthCheck(put)
  BY DEF AfterPutchar, AfterWidthCheck
<1> HIDE DEF put
<1>3. QED
  BY <1>1, <1>2

LEMMA WidthCheckFault ==
  ASSUME NEW t \in TerminalType
  PROVE  AfterWidthCheck(t).fault = t.fault
<1> DEFINE n == IF t.column = Width THEN AfterNewline(t) ELSE t
<1>1. DOMAIN n = {"row", "column", "fault", "buffer"} /\ n.fault = t.fault
  BY DEF AfterNewline, TerminalType
<1> HIDE DEF n
<1>2. AfterRowCheck(n).fault = n.fault
  BY <1>1 DEF AfterRowCheck, Scrolled
<1>3. QED
  BY <1>1, <1>2 DEF AfterWidthCheck, n

(* The scrolling, cell by cell.                                            *)
LEMMA ScrollStarts ==
  ASSUME NEW t \in TerminalType, t.row = Height
  PROVE  ScrolledFrom(t, 0) = AfterRowCheck(t)
<1> DEFINE b == [i \in Cells |-> IF i < Width * (Height - 1) THEN t.buffer[i + Width]
                                 ELSE IF i < Width * Height THEN Blank ELSE t.buffer[i]]
<1>1. Scrolled(t) = [t EXCEPT !.buffer = b] /\ Scrolled(t).buffer = b
  BY DEF Scrolled, TerminalType
<1>2. [i \in Cells |-> IF i < 0 THEN t.buffer[i] ELSE b[i]] = b
  <2>1. \A i \in Cells : ~ (i < 0)
    BY ScreenConstants DEF Cells
  <2>2. QED
    BY <2>1
<1> HIDE DEF b
<1>3. QED
  BY <1>1, <1>2 DEF ScrolledFrom, AfterRowCheck, TerminalType

LEMMA ScrollContinues ==
  ASSUME NEW t \in TerminalType, NEW k \in Nat, k < Width * Height
  PROVE  LET c == IF k + Width < Width * Height THEN t.buffer[k + Width] ELSE Blank
         IN  ScrolledFrom([t EXCEPT !.buffer[k] = c], k + 1) = ScrolledFrom(t, k)
<1> DEFINE c == IF k + Width < Width * Height THEN t.buffer[k + Width] ELSE Blank
           b == [t.buffer EXCEPT ![k] = c]
           r == [t EXCEPT !.buffer = b]
           Up(f) == [i \in Cells |-> IF i < Width * (Height - 1) THEN f[i + Width]
                                     ELSE IF i < Width * Height THEN Blank ELSE f[i]]
<1>1. /\ Scrolled(t).buffer = Up(t.buffer) /\ Scrolled(r).buffer = Up(b) /\ r.buffer = b
      /\ r.row = t.row
  BY DEF Scrolled, TerminalType
<1>2. /\ k \in Cells /\ Width * (Height - 1) = Width * Height - Width /\ Width \in Nat /\ Width >= 1
      /\ Width * Height \in Nat /\ Width * Height <= PageCells /\ PageCells \in Nat
  BY ScreenConstants DEF Cells
<1>3. /\ b[k] = c /\ \A i \in Cells : i # k => b[i] = t.buffer[i]
      /\ t.buffer \in [Cells -> Characters]
  BY <1>2 DEF TerminalType
<1>4. ASSUME NEW i \in Cells
      PROVE  (IF i < k + 1 THEN b[i] ELSE Up(b)[i]) = (IF i < k THEN t.buffer[i] ELSE Up(t.buffer)[i])
  <2>1. i \in Nat /\ i < PageCells
    BY <1>2 DEF Cells
  <2>2. CASE i < k
    BY <1>3, <2>1, <2>2
  <2>3. CASE i = k
    <3>1. Up(t.buffer)[k] = c
      BY <1>2
    <3>2. QED
      BY <1>3, <2>1, <2>3, <3>1
  <2>4. CASE i > k
    <3>1. i < Width * (Height - 1) => i + Width \in Cells /\ i + Width # k
      BY <1>2, <2>1, <2>4 DEF Cells
    <3>2. Up(b)[i] = Up(t.buffer)[i]
      BY <1>3, <2>4, <3>1
    <3>3. QED
      BY <2>1, <2>4, <3>2
  <2>5. QED
    BY <2>1, <2>2, <2>3, <2>4
<1>5. [i \in Cells |-> IF i < k + 1 THEN b[i] ELSE Up(b)[i]] =
        [i \in Cells |-> IF i < k THEN t.buffer[i] ELSE Up(t.buffer)[i]]
  BY <1>4
<1> DEFINE left  == [i \in Cells |-> IF i < k + 1 THEN b[i] ELSE Up(b)[i]]
           right == [i \in Cells |-> IF i < k THEN t.buffer[i] ELSE Up(t.buffer)[i]]
<1>6. left = right
  BY <1>5
<1> HIDE DEF b, Up
<1>7. ScrolledFrom(t, k) = [t EXCEPT !.row = t.row - 1, !.buffer = right]
  BY <1>1 DEF ScrolledFrom
<1>8. ScrolledFrom(r, k + 1) = [r EXCEPT !.row = t.row - 1, !.buffer = left]
  <2> HIDE DEF r
  <2>1. r.row = t.row /\ r.buffer = b /\ Scrolled(r).buffer = Up(b)
    BY <1>1
  <2>2. QED
    BY <2>1 DEF ScrolledFrom
<1> HIDE DEF left, right
<1>9. ScrolledFrom(r, k + 1) = ScrolledFrom(t, k)
  BY <1>6, <1>7, <1>8 DEF TerminalType
<1>10. QED
  BY <1>9 DEF b

LEMMA ScrollEnds ==
  ASSUME NEW t \in TerminalType
  PROVE  ScrolledFrom(t, Width * Height) = [t EXCEPT !.row = t.row - 1]
<1> DEFINE b == [i \in Cells |-> IF i < Width * Height THEN t.buffer[i] ELSE Scrolled(t).buffer[i]]
<1>1. ASSUME NEW i \in Cells
      PROVE  Scrolled(t).buffer[i] =
               IF i < Width * (Height - 1) THEN t.buffer[i + Width]
               ELSE IF i < Width * Height THEN Blank ELSE t.buffer[i]
  BY DEF Scrolled, TerminalType
<1>2. \A i \in Cells : ~ (i < Width * Height) => ~ (i < Width * (Height - 1))
  <2>1. Width * (Height - 1) = Width * Height - Width
    BY ScreenConstants
  <2>2. QED
    BY <2>1, ScreenConstants DEF Cells
<1>3. b = t.buffer
  BY <1>1, <1>2 DEF TerminalType
<1>4. ScrolledFrom(t, Width * Height) = [t EXCEPT !.row = t.row - 1, !.buffer = b]
  BY DEF ScrolledFrom
<1> HIDE DEF b
<1>5. QED
  BY <1>3, <1>4 DEF TerminalType

(* Each access of terminal_putchar() brings it nearer to the same end.     *)
LEMMA PrintsScreenInv ==
  ASSUME ConsoleInv, TerminalInv, Untorn, Prints, ~ torn
  PROVE  Untorn'
<1>1. /\ terminal \in TerminalType /\ ~ terminal.fault /\ cpu' = cpu /\ cpu.handler = "none"
      /\ main \in MainType /\ IsText(text) /\ CellInv
  BY DEF TerminalInv, Prints, MainRuns, Untorn
<1>2. Height \in Nat /\ PageCells \in Nat
  BY ScreenConstants
<1>3. /\ main.char \in Characters /\ main.row \in 0 .. Height /\ main.column \in 0 .. PageCells
       /\ terminal.row \in 0 .. Height /\ terminal.row \in Nat /\ terminal.column \in Nat
  <2>1. main.char \in Characters /\ main.row \in 0 .. Height /\ main.column \in 0 .. PageCells
    BY <1>1, MainFields DEF Characters
  <2>2. terminal.row \in 0 .. Height /\ terminal.column \in 0 .. PageCells + 2
    BY <1>1 DEF TerminalType
  <2>3. QED
    BY <1>2, <2>1, <2>2
<1>4. main.at # "ready" => main.stage \notin {"gdt", "terminal"} /\ Shows(Finished, text)
  BY DEF Untorn
<1>5. RegistersAgree
  BY DEF Untorn
<1>6. ASSUME main.stage \notin {"gdt", "terminal"}, main'.stage = main.stage, ~ terminal'.fault,
             IsText(text'), Shows(Finished', text'), RegistersAgree'
      PROVE  Untorn'
  BY <1>1, <1>6 DEF Untorn
<1>7. CASE \E c \in Letters \union {Newline} : Putchar(c)
  <2>1. PICK c \in Letters \union {Newline} : Putchar(c)
    BY <1>7
  <2>2. /\ main' = [main EXCEPT !.char = c, !.row = terminal.row,
                                !.at = IF c = Newline THEN "newline" ELSE "column"]
        /\ terminal' = terminal /\ text' = TextAfter(text, c)
        /\ main.at = "ready" /\ main.stage \notin {"gdt", "terminal"}
    BY <2>1 DEF Putchar
  <2>3. c \in Characters /\ Shows(terminal, text)
    BY <2>2 DEF Untorn, Characters, Finished
  <2>4. IsText(text') /\ Shows(AfterPutchar(terminal, c), text')
    BY <1>1, <2>2, <2>3, ShowsPutchar
  <2>5. /\ main'.stage = main.stage /\ main'.char = c /\ main'.row = terminal.row
        /\ main'.at = IF c = Newline THEN "newline" ELSE "column"
    BY <1>1, <2>2 DEF MainType
  <2>6. Finished' = AfterPutchar(terminal, c)
    <3>1. CASE c = Newline
      <4>1. AfterPutchar(terminal, c) = AfterRowCheck(AfterNewline(terminal))
        BY <1>1, <3>1 DEF AfterPutchar
      <4>2. main'.at = "newline"
        BY <2>5, <3>1
      <4>3. QED
        BY <2>2, <4>1, <4>2 DEF Finished
    <3>2. CASE c # Newline
      <4>1. main'.at = "column"
        BY <2>5, <3>2
      <4>2. QED
        BY <2>2, <2>5, <4>1 DEF Finished
    <3>3. QED
      BY <3>1, <3>2
  <2>7. RegistersAgree'
    BY <2>2, <2>5 DEF RegistersAgree
  <2>8. QED
    BY <1>1, <1>6, <2>2, <2>4, <2>5, <2>6, <2>7
<1>8. CASE LoadRow
  <2>1. main' = [main EXCEPT !.row = terminal.row] /\ terminal' = terminal /\ text' = text
        /\ main.at # "ready"
    BY <1>8 DEF LoadRow
  <2>2. main' = main
    BY <1>1, <1>5, <2>1 DEF MainType, RegistersAgree
  <2>3. Finished' = Finished /\ RegistersAgree'
    BY <1>5, <2>1, <2>2 DEF Finished, RegistersAgree
  <2>4. QED
    BY <1>1, <1>4, <1>6, <2>1, <2>2, <2>3
<1>9. CASE LoadColumn
  <2>1. /\ main' = [main EXCEPT !.column = terminal.column, !.at = "next column"]
        /\ terminal' = terminal /\ main.at = "column" /\ text' = text
    BY <1>9 DEF LoadColumn
  <2>2. /\ main'.stage = main.stage /\ main'.at = "next column" /\ main'.row = main.row
        /\ main'.char = main.char /\ main'.column = terminal.column
    BY <1>1, <2>1 DEF MainType
  <2>3. Finished' = Finished
    BY <2>1, <2>2 DEF Finished
  <2>4. RegistersAgree'
    BY <1>5, <2>1, <2>2 DEF RegistersAgree
  <2>5. QED
    BY <1>1, <1>4, <1>6, <2>1, <2>2, <2>3, <2>4
<1>10. CASE NextColumn
  <2>1. /\ terminal' = [terminal EXCEPT !.column = main.column + 1] /\ text' = text
        /\ main' = [main EXCEPT !.at = "cell"] /\ main.at = "next column"
    BY <1>10 DEF NextColumn
  <2>2. /\ main'.stage = main.stage /\ main'.at = "cell" /\ main'.row = main.row
        /\ main'.char = main.char /\ main'.column = main.column
    BY <1>1, <2>1 DEF MainType
  <2>3. main.column = terminal.column /\ main.row = terminal.row /\ main.char # Newline
    BY <1>5, <2>1 DEF RegistersAgree
  <2>4. /\ terminal'.row = terminal.row /\ ~ terminal'.fault
        /\ terminal'.column = main.column + 1
    BY <1>1, <2>1 DEF TerminalType
  <2>5. Finished = AfterPutchar(terminal, main.char)
    BY <2>1 DEF Finished
  <2>6. ~ AfterPutchar(terminal, main.char).fault
    BY <1>4, <2>1, <2>5 DEF Shows
  <2>7. Finished' = AfterWidthCheck(AfterPutEntryAt(terminal', main.char, main.column, main.row))
    BY <2>2 DEF Finished
  <2>8. Finished' = Finished
    BY <1>1, <1>3, <2>1, <2>3, <2>5, <2>6, <2>7, PutFinishes
  <2>9. RegistersAgree'
    BY <2>2, <2>3, <2>4 DEF RegistersAgree
  <2>10. QED
    BY <1>1, <1>4, <1>6, <2>1, <2>2, <2>4, <2>8, <2>9
<1>11. CASE PutEntry
  <2> DEFINE r == AfterPutEntryAt(terminal, main.char, main.column, main.row)
  <2>1. /\ terminal' = r /\ main' = [main EXCEPT !.at = "width"] /\ main.at = "cell"
        /\ text' = text
    BY <1>11 DEF PutEntry
  <2>2. /\ main'.stage = main.stage /\ main'.at = "width" /\ main'.row = main.row
        /\ main'.column = main.column
    BY <1>1, <2>1 DEF MainType
  <2>3. r \in TerminalType /\ r.row = terminal.row /\ r.column = terminal.column
    BY <1>1, <1>3, PutType
  <2>4. Finished = AfterWidthCheck(r)
    BY <2>1 DEF Finished
  <2> HIDE DEF r
  <2>5. Finished' = Finished
    BY <2>1, <2>2, <2>4 DEF Finished
  <2>6. ~ terminal'.fault
    <3>1. ~ Finished.fault
      BY <1>4, <2>1 DEF Shows
    <3>2. QED
      BY <2>1, <2>3, <2>4, <3>1, WidthCheckFault
  <2>7. RegistersAgree'
    BY <1>5, <2>1, <2>2, <2>3 DEF RegistersAgree
  <2>8. QED
    BY <1>1, <1>4, <1>6, <2>1, <2>2, <2>5, <2>6, <2>7
<1>12. CASE CompareWidth
  <2>1. PICK column \in {terminal.column, main.column + 1} :
          main' = [main EXCEPT !.at = IF column = Width THEN "newline" ELSE "height"]
    BY <1>12 DEF CompareWidth
  <2>2. main.at = "width" /\ terminal' = terminal /\ text' = text
    BY <1>12 DEF CompareWidth
  <2>3. column = terminal.column /\ main.row = terminal.row
    BY <1>5, <2>1, <2>2 DEF RegistersAgree
  <2>4. /\ main'.stage = main.stage /\ main'.row = main.row
        /\ main'.at = IF terminal.column = Width THEN "newline" ELSE "height"
    BY <1>1, <2>1, <2>3 DEF MainType
  <2>5. Finished = AfterWidthCheck(terminal)
    BY <2>2 DEF Finished
  <2>6. Finished' = Finished
    <3>1. CASE terminal.column = Width
      <4>1. main'.at = "newline"
        BY <2>4, <3>1
      <4>2. QED
        BY <2>2, <2>5, <3>1, <4>1 DEF Finished, AfterWidthCheck
    <3>2. CASE terminal.column # Width
      <4>1. main'.at = "height"
        BY <2>4, <3>2
      <4>2. QED
        BY <2>2, <2>5, <3>2, <4>1 DEF Finished, AfterWidthCheck
    <3>3. QED
      BY <3>1, <3>2
  <2>7. RegistersAgree'
    BY <2>2, <2>3, <2>4 DEF RegistersAgree
  <2>8. QED
    BY <1>1, <1>4, <1>6, <2>2, <2>4, <2>6, <2>7
<1>13. CASE NewRow
  <2>1. /\ terminal' = [terminal EXCEPT !.row = main.row + 1] /\ text' = text
        /\ \/ main.at = "newline" /\ main' = [main EXCEPT !.row = main.row + 1, !.at = "column left"]
           \/ main.at = "row left" /\ main' = [main EXCEPT !.row = main.row + 1, !.at = "height"]
    BY <1>1, <1>13 DEF NewRow, MainType
  <2>2. main.row = terminal.row
    BY <1>5, <2>1 DEF RegistersAgree
  <2>3. /\ main'.stage = main.stage /\ main'.row = terminal.row + 1
        /\ \/ main.at = "newline" /\ main'.at = "column left"
           \/ main.at = "row left" /\ main'.at = "height"
    BY <1>1, <2>1, <2>2 DEF MainType
  <2>4. terminal'.row = terminal.row + 1 /\ ~ terminal'.fault
    BY <1>1, <2>1, <2>2 DEF TerminalType
  <2>5. Finished' = Finished
    <3>1. CASE main.at = "newline" /\ main'.at = "column left"
      <4>1. [terminal' EXCEPT !.column = 0] = AfterNewline(terminal)
        BY <1>1, <2>1, <2>2 DEF AfterNewline, TerminalType
      <4>2. Finished' = AfterRowCheck([terminal' EXCEPT !.column = 0])
        BY <3>1 DEF Finished
      <4>3. Finished = AfterRowCheck(AfterNewline(terminal))
        BY <3>1 DEF Finished
      <4>4. QED
        BY <4>1, <4>2, <4>3
    <3>2. CASE main.at = "row left" /\ main'.at = "height"
      BY <2>1, <2>2, <3>2 DEF Finished
    <3>3. QED
      BY <2>3, <3>1, <3>2
  <2>6. RegistersAgree'
    BY <2>3, <2>4 DEF RegistersAgree
  <2>7. QED
    BY <1>1, <1>4, <1>6, <2>1, <2>3, <2>4, <2>5, <2>6
<1>14. CASE FirstColumn
  <2>1. /\ terminal' = [terminal EXCEPT !.column = 0] /\ text' = text
        /\ \/ main.at = "newline" /\ main' = [main EXCEPT !.at = "row left"]
           \/ main.at = "column left" /\ main' = [main EXCEPT !.at = "height"]
    BY <1>1, <1>14 DEF FirstColumn, MainType
  <2>2. main.row = terminal.row
    BY <1>5, <2>1 DEF RegistersAgree
  <2>3. /\ main'.stage = main.stage /\ main'.row = main.row
        /\ \/ main.at = "newline" /\ main'.at = "row left"
           \/ main.at = "column left" /\ main'.at = "height"
    BY <1>1, <2>1 DEF MainType
  <2>4. terminal'.row = terminal.row /\ ~ terminal'.fault
    BY <1>1, <2>1 DEF TerminalType
  <2>5. Finished' = Finished
    <3>1. CASE main.at = "newline" /\ main'.at = "row left"
      <4>1. [terminal' EXCEPT !.row = terminal'.row + 1] = AfterNewline(terminal)
        BY <1>1, <2>1, <2>4 DEF AfterNewline, TerminalType
      <4>2. Finished' = AfterRowCheck([terminal' EXCEPT !.row = terminal'.row + 1])
        BY <3>1 DEF Finished
      <4>3. Finished = AfterRowCheck(AfterNewline(terminal))
        BY <3>1 DEF Finished
      <4>4. QED
        BY <4>1, <4>2, <4>3
    <3>2. CASE main.at = "column left" /\ main'.at = "height"
      BY <2>1, <3>2 DEF Finished
    <3>3. QED
      BY <2>3, <3>1, <3>2
  <2>6. RegistersAgree'
    BY <2>2, <2>3, <2>4 DEF RegistersAgree
  <2>7. QED
    BY <1>1, <1>4, <1>6, <2>1, <2>3, <2>4, <2>5, <2>6
<1>15. CASE CompareHeight
  <2>1. /\ terminal' = terminal /\ main.at = "height" /\ text' = text
        /\ main' = IF main.row = Height THEN [main EXCEPT !.at = "scroll"] ELSE AtReady
    BY <1>15 DEF CompareHeight
  <2>2. main.row = terminal.row /\ main.cell = 0
    BY <1>1, <1>5, <2>1 DEF RegistersAgree, CellInv
  <2>3. Finished = AfterRowCheck(terminal)
    BY <2>1 DEF Finished
  <2>4. CASE terminal.row = Height
    <3>1. /\ main'.at = "scroll" /\ main'.row = terminal.row /\ main'.cell = 0
          /\ main'.stage = main.stage
      BY <1>1, <2>1, <2>2, <2>4 DEF MainType
    <3>2. Finished' = ScrolledFrom(terminal, 0)
      BY <2>1, <3>1 DEF Finished
    <3>3. Finished' = Finished
      BY <1>1, <2>3, <2>4, <3>2, ScrollStarts
    <3>4. RegistersAgree'
      BY <2>1, <2>4, <3>1 DEF RegistersAgree
    <3>5. QED
      BY <1>1, <1>4, <1>6, <2>1, <3>1, <3>3, <3>4
  <2>5. CASE terminal.row # Height
    <3>1. main'.at = "ready" /\ main'.stage = main.stage
      BY <1>1, <2>1, <2>2, <2>5 DEF AtReady, MainType
    <3>2. Finished' = terminal
      BY <2>1, <3>1 DEF Finished
    <3>3. Finished' = Finished
      BY <2>3, <2>5, <3>2 DEF AfterRowCheck
    <3>4. RegistersAgree'
      BY <3>1 DEF RegistersAgree
    <3>5. QED
      BY <1>1, <1>4, <1>6, <2>1, <3>1, <3>3, <3>4
  <2>6. QED
    BY <2>4, <2>5
<1>16. CASE ScrollCell \/ DeleteCell
  <2> DEFINE k == main.cell
             c == IF k + Width < Width * Height THEN terminal.buffer[k + Width] ELSE Blank
  <2>1. /\ Width * (Height - 1) = Width * Height - Width /\ Width \in Nat /\ Width >= 1
        /\ Width * Height \in Nat /\ k \in Nat
        /\ k < Width * Height /\ ~ (k + 1 < Width * Height) => k + 1 = Width * Height
    <3>1. Width * (Height - 1) = Width * Height - Width /\ Width \in Nat /\ Width >= 1
          /\ Width * Height \in Nat
      BY ScreenConstants
    <3>2. k \in Nat
      BY <1>1, <3>1, MainFields
    <3>3. \A n \in Nat : k < n /\ ~ (k + 1 < n) => k + 1 = n
      BY <3>2
    <3>4. QED
      BY <3>1, <3>2, <3>3
  <2>2. /\ main.at \in {"scroll", "delete"} /\ text' = text /\ k < Width * Height
        /\ terminal' = [terminal EXCEPT !.buffer[k] = c]
    <3>1. CASE ScrollCell
      <4>1. main.at = "scroll" /\ k + Width < Width * Height
        BY <1>1, <3>1 DEF ScrollCell, CellInv
      <4>2. QED
        BY <2>1, <3>1, <4>1 DEF ScrollCell
    <3>2. CASE DeleteCell
      <4>1. main.at = "delete" /\ ~ (k + Width < Width * Height) /\ k < Width * Height
        BY <1>1, <2>1, <3>2 DEF DeleteCell, CellInv
      <4>2. QED
        BY <3>2, <4>1 DEF DeleteCell
    <3>3. QED
      BY <1>16, <3>1, <3>2
  <2>3. main.row = terminal.row /\ terminal.row = Height
    BY <1>5, <2>2 DEF RegistersAgree
  <2>4. terminal'.row = terminal.row /\ ~ terminal'.fault /\ terminal' \in TerminalType
    <3> DEFINE b == [terminal.buffer EXCEPT ![k] = c]
    <3>1. terminal' = [terminal EXCEPT !.buffer = b]
      BY <2>2
    <3>2. terminal' \in TerminalType
      BY NextTerminalInv DEF Next, Processor, TerminalInv
    <3> HIDE DEF b
    <3>3. QED
      BY <1>1, <3>1, <3>2 DEF TerminalType
  <2>5. /\ main'.stage = main.stage /\ main'.cell = k + 1 /\ main'.row = terminal.row
        /\ \/ main'.at \in {"scroll", "delete"}
           \/ main'.at = "lower" /\ k + 1 = Width * Height
    <3>1. CASE ScrollCell
      BY <1>1, <2>3, <3>1 DEF ScrollCell, MainType
    <3>2. CASE DeleteCell
      BY <1>1, <2>1, <2>2, <2>3, <3>2 DEF DeleteCell, MainType
    <3>3. QED
      BY <1>16, <3>1, <3>2
  <2>6. Finished = ScrolledFrom(terminal, k)
    BY <2>2 DEF Finished
  <2>7. ScrolledFrom(terminal', k + 1) = ScrolledFrom(terminal, k)
    BY <1>1, <2>1, <2>2, ScrollContinues
  <2>8. Finished' = ScrolledFrom(terminal', k + 1)
    <3>1. CASE main'.at \in {"scroll", "delete"}
      BY <2>5, <3>1 DEF Finished
    <3>2. CASE main'.at = "lower" /\ k + 1 = Width * Height
      <4>1. Finished' = [terminal' EXCEPT !.row = terminal'.row - 1]
        BY <3>2 DEF Finished
      <4>2. QED
        BY <2>4, <3>2, <4>1, ScrollEnds
    <3>3. QED
      BY <2>5, <3>1, <3>2
  <2>9. RegistersAgree'
    BY <2>3, <2>4, <2>5 DEF RegistersAgree
  <2> HIDE DEF c, k
  <2>10. QED
    BY <1>1, <1>4, <1>6, <2>2, <2>4, <2>5, <2>6, <2>7, <2>8, <2>9
<1>17. CASE LowerRow
  <2>1. /\ terminal' = [terminal EXCEPT !.row = main.row - 1] /\ main' = AtReady
        /\ main.at = "lower" /\ text' = text
    BY <1>17 DEF LowerRow
  <2>2. main.row = terminal.row
    BY <1>5, <2>1 DEF RegistersAgree
  <2>3. main'.at = "ready" /\ main'.stage = main.stage
    BY <1>1, <2>1 DEF AtReady, MainType
  <2>4. Finished' = Finished
    BY <2>1, <2>2, <2>3 DEF Finished
  <2>5. ~ terminal'.fault
    BY <1>1, <2>1 DEF TerminalType
  <2>6. RegistersAgree'
    BY <2>3 DEF RegistersAgree
  <2>7. QED
    BY <1>1, <1>4, <1>6, <2>1, <2>3, <2>4, <2>5, <2>6
<1>18. QED
  BY <1>7, <1>8, <1>9, <1>10, <1>11, <1>12, <1>13, <1>14, <1>15, <1>16, <1>17 DEF Prints

LEMMA NextScreenInv == ConsoleInv /\ TerminalInv /\ ScreenInv /\ [Next]_vars => ScreenInv'
<1> SUFFICES ASSUME ConsoleInv, TerminalInv, ScreenInv, [Next]_vars, ~ torn' PROVE Untorn'
  BY DEF ScreenInv
<1>1. CASE StartUp
  <2>1. torn' = torn /\ text' = text /\ main.at = "ready" /\ cpu.handler = "none"
    BY <1>1 DEF StartUp, MainRuns
  <2>2. Untorn /\ terminal \in TerminalType
    BY <2>1 DEF ScreenInv, TerminalInv
  <2>3. \/ /\ terminal' = terminal
           /\ main'.stage \in {"gdt", "terminal"} <=> main.stage \in {"gdt", "terminal"}
        \/ terminal' = Cleared(terminal) /\ main.stage = "terminal" /\ main'.stage = "idt"
    BY <1>1 DEF StartUp, LoadInitialGdt, TerminalInitialize, LoadInitialIdt, PicIcw1, PicIcw2,
                PicMask, Sti, TerminalInv, MainType
  <2>4. main'.at = "ready"
    BY <1>1, <2>1 DEF StartUp, LoadInitialGdt, TerminalInitialize, LoadInitialIdt, PicIcw1, PicIcw2,
                PicMask, Sti, TerminalInv, MainType
  <2>5. Finished = terminal /\ Finished' = terminal' /\ RegistersAgree'
    BY <2>1, <2>4 DEF Finished, RegistersAgree
  <2>6. CASE terminal' = Cleared(terminal) /\ main.stage = "terminal" /\ main'.stage = "idt"
    <3>1. text' = NoText /\ ~ terminal.fault
      BY <2>1, <2>2, <2>6 DEF Untorn
    <3>2. Shows(terminal', NoText)
      BY <2>2, <2>6, <3>1, NothingShown
    <3>3. ~ terminal'.fault
      BY <3>2 DEF Shows
    <3>4. QED
      BY <2>4, <2>5, <2>6, <3>1, <3>2, <3>3, NoTextIs DEF Untorn
  <2>7. CASE /\ terminal' = terminal
             /\ main'.stage \in {"gdt", "terminal"} <=> main.stage \in {"gdt", "terminal"}
    BY <2>1, <2>2, <2>4, <2>5, <2>7 DEF Untorn
  <2>8. QED
    BY <2>3, <2>6, <2>7
<1>2. CASE Prints
  <2>1. ~ torn
    BY <1>2 DEF Prints
  <2>2. QED
    BY <1>2, <2>1, PrintsScreenInv DEF ScreenInv
<1>3. CASE Delivers
  <2>1. /\ ~ torn /\ main.at = "ready" /\ text' = text /\ terminal' = terminal /\ main' = main
    BY <1>3 DEF Delivers, Deliver
  <2>2. Finished' = Finished
    BY <2>1 DEF Finished
  <2>3. QED
    BY <2>1, <2>2 DEF ScreenInv, Untorn, RegistersAgree
<1>4. CASE HandlerPrint
  <2>1. /\ ~ torn /\ cpu.handler = "keyboard" /\ main' = main
        /\ terminal' = AfterPutchar(terminal, Pressed[cpu.next])
        /\ text' = TextAfter(text, Pressed[cpu.next])
    BY <1>4 DEF HandlerPrint
  <2>2. cpu.next \in DOMAIN Pressed /\ main.stage = "on"
    BY <2>1 DEF ConsoleInv, ControlTypes, OneAtATime
  <2>3. terminal \in TerminalType /\ IsText(text) /\ main.at = "ready" /\ Shows(terminal, text)
    BY <2>1, <2>2 DEF TerminalInv, ScreenInv, Untorn, Finished
  <2>4. IsText(text') /\ Shows(terminal', text')
    BY <2>1, <2>2, <2>3, PressedText, ShowsPutchar
  <2>5. ~ terminal'.fault
    BY <2>4 DEF Shows
  <2>6. Finished' = terminal' /\ RegistersAgree'
    BY <2>1, <2>3 DEF Finished, RegistersAgree
  <2>7. QED
    BY <2>1, <2>2, <2>3, <2>4, <2>5, <2>6 DEF Untorn
<1>5. CASE HandlerRead \/ HandlerEoi \/ KeyEvent \/ TimerTick \/ UNCHANGED vars
  <2>1. /\ terminal' = terminal /\ main' = main /\ text' = text /\ torn' = torn
        /\ cpu'.handler # "none" => cpu.handler # "none"
    BY <1>5 DEF HandlerRead, HandlerEoi, KeyEvent, TimerTick, vars, ConsoleInv, ControlTypes
  <2>2. Finished' = Finished /\ (RegistersAgree => RegistersAgree')
    BY <2>1 DEF Finished, RegistersAgree
  <2>3. QED
    BY <2>1, <2>2 DEF ScreenInv, Untorn
<1>6. QED
  BY <1>1, <1>2, <1>3, <1>4, <1>5 DEF Next, Processor, PageFault

LEMMA ScreenInvariant == Spec => []ScreenInv
<1>1. ConsoleInv /\ TerminalInv /\ ScreenInv /\ [Next]_vars => ScreenInv'
  BY NextScreenInv
<1>2. QED
  BY <1>1, InitScreenInv, TerminalInvariant, PTL DEF Spec

(* Unless an interrupt comes inside terminal_putchar(), the screen shows   *)
(* the last lines of what kernel_main() and the handler printed whenever   *)
(* kernel_main() is between two characters, whatever the firmware left     *)
(* there, and nothing is written outside the page.                         *)
THEOREM ScreenShows == Spec => []ScreenShowsText
<1>1. ScreenInv => ScreenShowsText
  BY DEF ScreenInv, Untorn, ScreenShowsText, Finished
<1>2. QED
  BY <1>1, ScreenInvariant, PTL
=============================================================================
