------------------------------ MODULE Terminal ------------------------------
(***************************************************************************)
(* The terminal of kernel/arch/i386/tty.c as pure operators: a cursor and  *)
(* the cells of the VGA buffer, of which one page is mapped.  The screen   *)
(* takes the first Width * Height cells of the page; a cell behind the     *)
(* page is not mapped, and writing it is a page fault.  Colours are left   *)
(* out: nothing calls terminal_setcolor().                                 *)
(***************************************************************************)
EXTENDS Integers, Sequences, SequencesExt

CONSTANTS
  Width,      (* VGA_WIDTH, 80                                             *)
  Height,     (* VGA_HEIGHT, 25                                            *)
  PageCells,  (* the cells in a page, 2048                                 *)
  Blank,      (* the character ' '                                         *)
  Newline     (* the character '\n'                                        *)

ASSUME ScreenAssumption == Width \in Nat \ {0} /\ Height \in Nat \ {0, 1}
ASSUME PageAssumption   == PageCells \in Width * Height .. Width * (Height + 1) - 1

Cells == 0 .. PageCells - 1

(* terminal_initialize(); the cells behind the screen stay as they are.    *)
Cleared(t) ==
  [row |-> 0, column |-> 0, fault |-> t.fault,
   buffer |-> [i \in Cells |-> IF i < Width * Height THEN Blank ELSE t.buffer[i]]]

(* terminal_putentryat()                                                   *)
AfterPutEntryAt(t, c, x, y) ==
  LET index == y * Width + x
  IN  IF index \in Cells THEN [t EXCEPT !.buffer[index] = c] ELSE [t EXCEPT !.fault = TRUE]

(* Mutant: the last line is not deleted.                                   *)
ScrolledWithLastLine(t) ==
  [t EXCEPT !.buffer = [i \in Cells |->
     IF i < Width * (Height - 1) THEN t.buffer[i + Width] ELSE t.buffer[i]]]

(* terminal_scroll() and terminal_delete_last_line()                       *)
Scrolled(t) ==
  [t EXCEPT !.buffer = [i \in Cells |->
     IF i < Width * (Height - 1) THEN t.buffer[i + Width]
     ELSE IF i < Width * Height THEN Blank ELSE t.buffer[i]]]

(* The end of terminal_putchar(): a row behind the last one scrolls.       *)
AfterRowCheck(t) ==
  IF t.row = Height THEN [Scrolled(t) EXCEPT !.row = t.row - 1] ELSE t

AfterNewline(t) == [t EXCEPT !.row = t.row + 1, !.column = 0]

(* terminal_putchar(), uninterrupted.                                      *)
AfterPutchar(t, c) ==
  IF t.fault THEN t
  ELSE IF c = Newline THEN AfterRowCheck(AfterNewline(t))
  ELSE LET put == [AfterPutEntryAt(t, c, t.column, t.row) EXCEPT !.column = t.column + 1]
       IN  IF put.fault THEN put
           ELSE AfterRowCheck(IF put.column = Width THEN AfterNewline(put) ELSE put)

-----------------------------------------------------------------------------
(* What a terminal promises: it shows the last lines of the text, broken   *)
(* at Width characters, with the cursor behind the last character.  The    *)
(* lines are a sequence of sequences of characters.                        *)
NoText == << << >> >>

LastLines(lines) == SubSeq(lines, IF Len(lines) > Height THEN Len(lines) - Height + 1 ELSE 1, Len(lines))

TextAfter(lines, c) ==
  LET last == Append(Last(lines), c)
  IN  LastLines(IF c = Newline THEN Append(lines, << >>)
                ELSE IF Len(last) = Width THEN Front(lines) \o <<last, << >> >>
                ELSE Append(Front(lines), last))

Shows(t, lines) ==
  /\ ~ t.fault
  /\ t.row = Len(lines) - 1 /\ t.column = Len(Last(lines))
  /\ \A y \in 0 .. Height - 1, x \in 0 .. Width - 1 :
       t.buffer[y * Width + x] =
         IF y < Len(lines) /\ x < Len(lines[y + 1]) THEN lines[y + 1][x + 1] ELSE Blank
=============================================================================
