------------------------------ MODULE Console -------------------------------
(***************************************************************************)
(* kernel_main() and the interrupts: the start-up order of segments,       *)
(* terminal, interrupt table, interrupt controller and sti (kernel.c),     *)
(* terminal_putchar() (tty.c) one access to its variables at a time,       *)
(* keyboard_handler() (interrupts.c), and the first interrupt controller   *)
(* as pic.c programs it, with the timer on its line 0 and the keyboard on  *)
(* line 1.                                                                 *)
(*                                                                         *)
(* There is one processor.  When interrupts are enabled it takes one       *)
(* before its next instruction, through the gate and the segment that the  *)
(* tables of module Descriptors name.  Before the mask is written          *)
(* interrupts are disabled; after that nothing else comes: the other lines *)
(* are masked, but for line 2, where the second controller is, which has   *)
(* all its lines masked.                                                   *)
(***************************************************************************)
EXTENDS Terminal

CONSTANTS
  Letters,   (* the characters kernel_main() prints, without the newline   *)
  Pressed,   (* the text "pressed", a sequence of characters               *)
  Firmware,  (* what the firmware left in the VGA buffer                   *)
  Address    (* the addresses of the handlers' wrappers, as words          *)

ASSUME LettersAssumption == Blank \notin Letters /\ Newline \notin Letters
ASSUME PressedAssumption ==
  /\ Pressed \in Seq({Pressed[i] : i \in DOMAIN Pressed}) \ {<< >>}
  /\ \A i \in DOMAIN Pressed : Pressed[i] # Newline

ASSUME FirmwareAssumption == Firmware \in [Cells -> {Firmware[i] : i \in Cells}]

D == INSTANCE Descriptors

(* The wrappers of isr_wrappers.S; those of the exceptions, which never    *)
(* come, go by one name.                                                   *)

Handlers == {"exception", "pit", "keyboard"}

ASSUME AddressAssumption ==
  /\ Address \in [Handlers -> SUBSET D!AllOnes]
  /\ \A h, k \in Handlers : Address[h] = Address[k] => h = k

VARIABLES
  terminal,  (* the variables of tty.c                                     *)
  main,      (* kernel_main(): the next start-up step, where it is in      *)
             (* terminal_putchar(), its character, the row and the column  *)
             (* that it holds in registers, and the cell it scrolls next   *)
  cpu,       (* interrupts enabled, are gdt and idt loaded, and the        *)
             (* handler that runs with the statement it is at and the      *)
             (* character of its text that is next                         *)
  pic,       (* the interrupt controller: vector of line 0, and the lines  *)
             (* masked, requested and in service                           *)
  keyboard,  (* its output buffer: "empty", "full", or "early" if the byte *)
             (* came before pic_init() reset the controller                *)
  text,      (* the lines printed so far, as long as not torn              *)
  torn       (* did an interrupt come inside a terminal_putchar()?         *)

vars == <<terminal, main, cpu, pic, keyboard, text, torn>>

TimerLine    == 0
KeyboardLine == 1
Lines        == {TimerLine, KeyboardLine}
BiosOffset   == 8      \* where the firmware left the vectors
PicOffset1   == 32

(* The gates load_initial_idt() installs.                                  *)
InitialIdt ==
  [v \in 0 .. 33 |->
     D!IdtEntry(Address[CASE v = 33 -> "keyboard" [] v = 32 -> "pit" [] OTHER -> "exception"],
                D!KernelCs, D!InterruptGate)]

Init ==
  /\ terminal = [row |-> 0, column |-> 0, fault |-> FALSE, buffer |-> Firmware]
  /\ main = [stage |-> "gdt", at |-> "ready", char |-> Newline, row |-> 0, column |-> 0,
             cell |-> 0]
  /\ cpu = [enabled |-> FALSE, gdt |-> FALSE, idt |-> FALSE, handler |-> "none", at |-> "print",
            next |-> 1]
  /\ pic = [offset |-> BiosOffset, mask |-> {}, request |-> {}, service |-> {}]
  /\ keyboard = "empty"
  /\ text = NoText
  /\ torn = FALSE

-----------------------------------------------------------------------------
(* The controller offers its lowest requested line that is not masked,     *)
(* unless one as low is in service; the processor takes it before its next *)
(* instruction.                                                            *)
Offered ==
  {l \in pic.request \ pic.mask :
     /\ \A s \in pic.service : l < s
     /\ \A k \in pic.request \ pic.mask : l <= k}

Interrupted == cpu.enabled /\ Offered # {}

MainRuns == ~ terminal.fault /\ cpu.handler = "none" /\ ~ Interrupted

(* load_initial_gdt(): the processor takes segments 0x10 and 0x08, or      *)
(* faults.                                                                 *)
LoadInitialGdt ==
  /\ main.stage = "gdt"
  /\ cpu' = [cpu EXCEPT !.gdt = TRUE,
                        !.handler = IF /\ D!IsFlatData(D!Selected(D!InitialGdt, D!KernelDs))
                                       /\ D!IsFlatCode(D!Selected(D!InitialGdt, D!KernelCs))
                                    THEN "none" ELSE "exception"]
  /\ main' = [main EXCEPT !.stage = "terminal"]
  /\ UNCHANGED <<terminal, pic>>

(* pic_map(): ICW1 forgets requests and masks, and the controller wants a  *)
(* new edge of each line; ...                                              *)
PicIcw1 ==
  /\ main.stage = "pic"
  /\ main' = [main EXCEPT !.stage = "icw2"]
  /\ pic' = [pic EXCEPT !.mask = {}, !.request = {}, !.service = {}]
  /\ UNCHANGED <<terminal, cpu>>

(* Mutant: the controller keeps the firmware's vectors.                    *)
PicIcw2Skipped ==
  /\ main.stage = "icw2"
  /\ main' = [main EXCEPT !.stage = "mask"]
  /\ UNCHANGED <<terminal, cpu, pic>>

(* ... ICW2 sets the vectors; ...                                          *)
PicIcw2 ==
  /\ main.stage = "icw2"
  /\ main' = [main EXCEPT !.stage = "mask"]
  /\ pic' = [pic EXCEPT !.offset = PicOffset1]
  /\ UNCHANGED <<terminal, cpu>>

(* ... and the mask 0b11111001 that pic_init() gives lets the keyboard's   *)
(* line pass.                                                              *)
PicMask ==
  /\ main.stage = "mask"
  /\ main' = [main EXCEPT !.stage = "sti"]
  /\ pic' = [pic EXCEPT !.mask = {TimerLine}]
  /\ UNCHANGED <<terminal, cpu>>

(* terminal_initialize(); load_initial_idt(); sti.                         *)
TerminalInitialize ==
  /\ main.stage = "terminal"
  /\ terminal' = Cleared(terminal)
  /\ main' = [main EXCEPT !.stage = "idt"]
  /\ UNCHANGED <<cpu, pic>>

LoadInitialIdt ==
  /\ main.stage = "idt"
  /\ cpu' = [cpu EXCEPT !.idt = TRUE]
  /\ main' = [main EXCEPT !.stage = "pic"]
  /\ UNCHANGED <<terminal, pic>>

Sti ==
  /\ main.stage = "sti"
  /\ cpu' = [cpu EXCEPT !.enabled = TRUE]
  /\ main' = [main EXCEPT !.stage = "on"]
  /\ UNCHANGED <<terminal, pic>>

(* kernel_main() goes on with its start-up between two characters.         *)
StartUp ==
  /\ MainRuns /\ main.at = "ready"
  /\ \/ LoadInitialGdt \/ TerminalInitialize \/ LoadInitialIdt
     \/ PicIcw1 \/ PicIcw2 \/ PicMask \/ Sti
  /\ UNCHANGED <<keyboard, text, torn>>

-----------------------------------------------------------------------------
(* terminal_putchar() of kernel_main(), one access to terminal_row,        *)
(* terminal_column or a cell at a time.  Neither variable is volatile: the *)
(* compiled code may load the row at the beginning and keep it in a        *)
(* register, load it anew at any later point, or increment it in memory    *)
(* (LoadRow at once followed by the store), and it may store row and       *)
(* column in either order at the end of a line.                            *)
Putchar(c) ==
  /\ main.at = "ready" /\ main.stage \in {"idt", "pic", "sti", "on"}
  /\ main' = [main EXCEPT !.char = c, !.row = terminal.row,
                          !.at = IF c = Newline THEN "newline" ELSE "column"]
  /\ text' = IF torn THEN text ELSE TextAfter(text, c)
  /\ UNCHANGED terminal

LoadRow ==
  /\ main.at \notin {"ready", "scroll"}
  /\ main' = [main EXCEPT !.row = terminal.row]
  /\ UNCHANGED <<terminal, text>>

(* terminal_column++ is a load and a store; the character goes to the cell *)
(* of the value before, in the row of the register.                        *)
LoadColumn ==
  /\ main.at = "column"
  /\ main' = [main EXCEPT !.column = terminal.column, !.at = "next column"]
  /\ UNCHANGED <<terminal, text>>

NextColumn ==
  /\ main.at = "next column"
  /\ terminal' = [terminal EXCEPT !.column = main.column + 1]
  /\ main' = [main EXCEPT !.at = "cell"]
  /\ UNCHANGED text

PutEntry ==
  /\ main.at = "cell"
  /\ terminal' = AfterPutEntryAt(terminal, main.char, main.column, main.row)
  /\ main' = [main EXCEPT !.at = "width"]
  /\ UNCHANGED text

(* terminal_column == VGA_WIDTH: of the variable, or of the register that  *)
(* still holds its value.                                                  *)
CompareWidth ==
  /\ main.at = "width"
  /\ \E column \in {terminal.column, main.column + 1} :
       main' = [main EXCEPT !.at = IF column = Width THEN "newline" ELSE "height"]
  /\ UNCHANGED <<terminal, text>>

(* terminal_row++ and terminal_column = 0                                  *)
NewRow ==
  /\ main.at \in {"newline", "row left"}
  /\ terminal' = [terminal EXCEPT !.row = main.row + 1]
  /\ main' = [main EXCEPT !.row = @ + 1,
                          !.at = IF main.at = "newline" THEN "column left" ELSE "height"]
  /\ UNCHANGED text

FirstColumn ==
  /\ main.at \in {"newline", "column left"}
  /\ terminal' = [terminal EXCEPT !.column = 0]
  /\ main' = [main EXCEPT !.at = IF main.at = "newline" THEN "row left" ELSE "height"]
  /\ UNCHANGED text

(* Between two characters kernel_main() holds nothing of the terminal.     *)
AtReady == [main EXCEPT !.at = "ready", !.char = Newline, !.row = 0, !.column = 0, !.cell = 0]

(* Mutant: no scrolling behind the last row.                               *)
CompareNothing ==
  /\ main.at = "height"
  /\ main' = AtReady
  /\ UNCHANGED <<terminal, text>>

CompareHeight ==
  /\ main.at = "height"
  /\ main' = IF main.row = Height THEN [main EXCEPT !.at = "scroll"] ELSE AtReady
  /\ UNCHANGED <<terminal, text>>

(* terminal_scroll(), one cell at a time.  Behind the last memcpy() the    *)
(* row has to be loaded again: as far as the compiler knows, the copy may  *)
(* have gone there.                                                        *)
ScrollCell ==
  /\ main.at = "scroll"
  /\ terminal' = [terminal EXCEPT !.buffer[main.cell] = terminal.buffer[main.cell + Width]]
  /\ main' = IF main.cell + 1 < Width * (Height - 1) THEN [main EXCEPT !.cell = @ + 1]
             ELSE [main EXCEPT !.cell = @ + 1, !.row = terminal.row, !.at = "delete"]
  /\ UNCHANGED text

(* terminal_delete_last_line()                                             *)
DeleteCell ==
  /\ main.at = "delete"
  /\ terminal' = [terminal EXCEPT !.buffer[main.cell] = Blank]
  /\ main' = [main EXCEPT !.cell = @ + 1,
                          !.at = IF main.cell + 1 < Width * Height THEN "delete" ELSE "lower"]
  /\ UNCHANGED text

(* Mutant: the row stays behind the last one.                              *)
LowerNothing ==
  /\ main.at = "lower"
  /\ main' = AtReady
  /\ UNCHANGED <<terminal, text>>

(* terminal_row--                                                          *)
LowerRow ==
  /\ main.at = "lower"
  /\ terminal' = [terminal EXCEPT !.row = main.row - 1]
  /\ main' = AtReady
  /\ UNCHANGED text

Prints ==
  /\ MainRuns
  /\ \/ \E c \in Letters \union {Newline} : Putchar(c)
     \/ LoadRow \/ LoadColumn \/ NextColumn \/ PutEntry \/ CompareWidth
     \/ NewRow \/ FirstColumn \/ CompareHeight \/ ScrollCell \/ DeleteCell \/ LowerRow
  /\ UNCHANGED <<cpu, pic, keyboard, torn>>

-----------------------------------------------------------------------------
(* Where the tables lead a vector; a gate that is not there, or does not   *)
(* enter the kernel's code, is an exception.                               *)
HandlerAt(vector) ==
  IF /\ cpu.gdt /\ cpu.idt /\ vector \in DOMAIN InitialIdt
     /\ D!EntersCode(D!InitialGdt, InitialIdt[vector])
     /\ \E h \in Handlers : Address[h] = D!EntryPoint(InitialIdt[vector])
  THEN CHOOSE h \in Handlers : Address[h] = D!EntryPoint(InitialIdt[vector])
  ELSE "exception"

(* The processor acknowledges an interrupt and enters the handler of its   *)
(* vector.                                                                 *)
Deliver(line) ==
  LET vector == pic.offset + line
  IN  /\ ~ terminal.fault /\ cpu.handler = "none" /\ cpu.enabled /\ line \in Offered
      /\ cpu' = [cpu EXCEPT !.handler = HandlerAt(vector), !.at = "print",
                            !.enabled = ~ D!DisablesInterrupts(InitialIdt[vector])]
      /\ pic' = [pic EXCEPT !.request = @ \ {line}, !.service = @ \union {line}]
      /\ torn' = (torn \/ main.at # "ready")
      /\ text' = IF torn' THEN NoText ELSE text
      /\ UNCHANGED <<terminal, main, keyboard>>

(* keyboard_handler(): terminal_writestring("pressed"), one character per  *)
(* step; ...                                                               *)
HandlerPrint ==
  /\ cpu.handler = "keyboard" /\ cpu.at = "print" /\ ~ terminal.fault
  /\ terminal' = AfterPutchar(terminal, Pressed[cpu.next])
  /\ text' = IF torn THEN text ELSE TextAfter(text, Pressed[cpu.next])
  /\ cpu' = IF cpu.next < Len(Pressed) THEN [cpu EXCEPT !.next = @ + 1]
            ELSE [cpu EXCEPT !.at = "read", !.next = 1]
  /\ UNCHANGED <<main, pic, keyboard, torn>>

(* Mutant: the byte is not read.                                           *)
HandlerReadNothing ==
  /\ cpu.handler = "keyboard" /\ cpu.at = "read" /\ ~ terminal.fault
  /\ cpu' = [cpu EXCEPT !.at = "eoi"]
  /\ UNCHANGED <<terminal, main, pic, keyboard, text, torn>>

(* ... inb(0x60), which empties the buffer and lowers the line, ...        *)
HandlerRead ==
  /\ cpu.handler = "keyboard" /\ cpu.at = "read" /\ ~ terminal.fault
  /\ keyboard' = "empty"
  /\ cpu' = [cpu EXCEPT !.at = "eoi"]
  /\ UNCHANGED <<terminal, main, pic, text, torn>>

(* Mutant: no end of interrupt.                                            *)
HandlerReturn ==
  /\ cpu.handler = "keyboard" /\ cpu.at = "eoi" /\ ~ terminal.fault
  /\ cpu' = [cpu EXCEPT !.enabled = TRUE, !.handler = "none", !.at = "print"]
  /\ UNCHANGED <<terminal, main, pic, keyboard, text, torn>>

(* ... pic_send_eoi(1), and iret.                                          *)
HandlerEoi ==
  /\ cpu.handler = "keyboard" /\ cpu.at = "eoi" /\ ~ terminal.fault
  /\ pic' = [pic EXCEPT !.service = {}]
  /\ cpu' = [cpu EXCEPT !.enabled = TRUE, !.handler = "none", !.at = "print"]
  /\ UNCHANGED <<terminal, main, keyboard, text, torn>>

(* page_fault_handler() prints to the same place and never returns.        *)
PageFault == terminal.fault /\ UNCHANGED vars

(* A key is pressed or released: the byte waits in the buffer and the line *)
(* rises.  While the buffer is full the keyboard keeps further bytes.      *)
KeyEvent ==
  /\ keyboard = "empty"
  /\ keyboard' = IF main.stage \in {"icw2", "mask", "sti", "on"} THEN "full" ELSE "early"
  /\ pic' = [pic EXCEPT !.request = @ \union {KeyboardLine}]
  /\ UNCHANGED <<terminal, main, cpu, text, torn>>

(* The timer, which runs since the firmware started it.                    *)
TimerTick ==
  /\ TimerLine \notin pic.request
  /\ pic' = [pic EXCEPT !.request = @ \union {TimerLine}]
  /\ UNCHANGED <<terminal, main, cpu, keyboard, text, torn>>

-----------------------------------------------------------------------------
Delivers == \E line \in Lines : Deliver(line)

Processor == StartUp \/ Prints \/ Delivers \/ HandlerPrint \/ HandlerRead \/ HandlerEoi

Next == Processor \/ KeyEvent \/ TimerTick \/ PageFault

(* The processor executes instructions, and every text kernel_main()       *)
(* prints during its start-up is finite; nobody has to press a key.        *)
Fairness == WF_vars(Processor) /\ SF_vars(StartUp)

Spec == Init /\ [][Next]_vars /\ Fairness

-----------------------------------------------------------------------------
Characters ==
  Letters \union {Blank, Newline} \union {Pressed[i] : i \in DOMAIN Pressed}
          \union {Firmware[i] : i \in Cells}

(* The types of the state.  The column may run past the width, but not     *)
(* further than two behind the page.                                       *)
TypeOK ==
  /\ terminal \in [row : 0 .. Height, column : 0 .. PageCells + 2, fault : BOOLEAN,
                   buffer : [Cells -> Characters]]
  /\ main \in [stage : {"gdt", "terminal", "idt", "pic", "icw2", "mask", "sti", "on"},
               at : {"ready", "column", "next column", "cell", "width", "newline",
                     "column left", "row left", "height", "scroll", "delete", "lower"},
               char : Letters \union {Newline}, row : 0 .. Height, column : 0 .. PageCells,
               cell : 0 .. Width * Height]
  /\ cpu.enabled \in BOOLEAN /\ cpu.handler \in {"none"} \union Handlers
  /\ cpu.next \in DOMAIN Pressed
  /\ pic \in [offset : {BiosOffset, PicOffset1}, mask : SUBSET Lines, request : SUBSET Lines,
              service : SUBSET Lines]
  /\ keyboard \in {"empty", "full", "early"}

(* Wherever interrupts fall in terminal_putchar(), in each of the orders   *)
(* of its loads and stores above: the row is on the screen between         *)
(* two characters of kernel_main(), it is behind the last line only from   *)
(* terminal_row++ to terminal_row--, and while kernel_main() scrolls it    *)
(* is never so far up that the handler's own scrolling and this            *)
(* terminal_row-- could take it below the first line, where a size_t wraps *)
(* around.                                                                 *)
RowStaysOnScreen ==
  /\ terminal.row \in 0 .. Height
  /\ terminal.row = Height => main.at \in {"column left", "height", "scroll", "delete", "lower"}
  /\ main.at \in {"scroll", "delete", "lower"} => terminal.row \in {Height - 1, Height}

(* Between two characters of kernel_main() the screen shows the last lines *)
(* that were printed, by it and by the handler, with the cursor at their   *)
(* end: as long as no interrupt came in the middle of terminal_putchar(),  *)
(* the two users of the terminal do not disturb each other, and nothing is *)
(* written outside the page.  What the firmware left is gone.              *)
ScreenShowsText ==
  ~ torn => /\ ~ terminal.fault
            /\ main.at = "ready" /\ main.stage \notin {"gdt", "terminal"} => Shows(terminal, text)

(* An interrupt reaches its own handler and no exception: interrupts are   *)
(* not enabled before the segments and the table are loaded, the vectors   *)
(* are moved from the firmware's, which are those of exceptions, and the   *)
(* timer is masked; and while the handler runs the line is in service and  *)
(* interrupts stay disabled.                                               *)
InterruptsReachTheirHandler ==
  /\ cpu.handler \in {"none", "keyboard"}
  /\ cpu.handler = "keyboard" => ~ cpu.enabled
  /\ cpu.enabled => pic.service = {} /\ cpu.handler = "none"
  /\ main.stage = "on" =>
       pic.service = IF cpu.handler = "keyboard" THEN {KeyboardLine} ELSE {}

(* A byte of the keyboard that is not read yet is known to the controller: *)
(* the request is pending, or its handler has yet to read the byte.        *)
KeysAreRequested ==
  keyboard = "full" =>
    KeyboardLine \in pic.request \/ (cpu.handler = "keyboard" /\ cpu.at \in {"print", "read"})

(* A key is eventually read, however the printing of kernel_main() goes    *)
(* on, unless the terminal has faulted, or a byte from before pic_init()   *)
(* is still in the buffer: then it will be there for ever.                 *)
KeysAreServed ==
  keyboard = "full" ~> (keyboard # "full" \/ terminal.fault)
=============================================================================
