-------------------------- MODULE TerminalConsole --------------------------
(***************************************************************************)
(* The text screen behind the window (app/src/terminal_console.cpp): a     *)
(* grid of cells, a cursor, and a parser of control sequences. A character *)
(* is one of a few classes; numbers of a sequence are digits below         *)
(* DigitBase.                                                              *)
(***************************************************************************)
EXTENDS Integers, Sequences

CONSTANTS
  Columns, Rows,   \* 80 by 30
  TabStop,         \* 8
  DigitBase,       \* 10
  MaxParameter,    \* 9999
  ParameterCount   \* 4

ASSUME TerminalAssumption ==
  /\ Columns \in Nat \ {0} /\ Rows \in Nat \ {0} /\ TabStop \in Nat \ {0}
  /\ DigitBase \in Nat \ {0, 1} /\ MaxParameter \in Nat \ {0}
  /\ ParameterCount \in Nat \ {0, 1}

Blank == " "
Printable == {Blank, "x"}
Digit == 0 .. DigitBase - 1
Commands == {"A", "B", "C", "D", "G", "d", "H", "J", "K", "m", "[", "x"}
Characters == Printable \cup Commands \cup {"ESC", ";", "?", "CR", "LF", "BS", "TAB"}

Cells == 0 .. Columns * Rows - 1

VARIABLES
  cells, cursor,   \* cursor is its column and its row
  parser,          \* its state, and the parameters so far: absent ones are zero
  terminal_dirty

terminal == <<cells, cursor, parser, terminal_dirty>>

Parameters == 0 .. ParameterCount - 1

NoSequence == [state |-> "Normal", index |-> 0, values |-> [i \in Parameters |-> 0]]

TerminalInit ==
  /\ cells = [i \in Cells |-> Blank]
  /\ cursor = [column |-> 0, row |-> 0]
  /\ parser = NoSequence
  /\ terminal_dirty = TRUE

Lesser(a, b) == IF a < b THEN a ELSE b

CursorCell == cursor.row * Columns + cursor.column

-----------------------------------------------------------------------------
(* Characters outside a sequence. *)

scroll(grid) ==
  [i \in Cells |-> IF i + Columns \in Cells THEN grid[i + Columns] ELSE Blank]

\* The cursor goes down a line, or the grid goes up.
line_feed(grid, column) ==
  IF cursor.row + 1 = Rows
  THEN cells' = scroll(grid) /\ cursor' = [column |-> column, row |-> Rows - 1]
  ELSE cells' = grid /\ cursor' = [column |-> column, row |-> cursor.row + 1]

put_character(character) ==
  LET grid == [cells EXCEPT ![CursorCell] = character] IN
  IF cursor.column + 1 = Columns
  THEN line_feed(grid, 0)
  ELSE cells' = grid /\ cursor' = [cursor EXCEPT !.column = @ + 1]

NextTab == Lesser(((cursor.column + TabStop) \div TabStop) * TabStop, Columns - 1)

Plain(character) ==
  /\ parser.state = "Normal" /\ parser' = parser
  /\ \/ /\ character \in Printable \cup Commands \cup {";", "?"}
        /\ put_character(IF character = Blank THEN Blank ELSE "x")
        /\ terminal_dirty' = TRUE
     \/ /\ character = "LF" /\ line_feed(cells, cursor.column)
        /\ terminal_dirty' = TRUE
     \/ /\ character = "CR" /\ cursor' = [cursor EXCEPT !.column = 0]
        /\ terminal_dirty' = TRUE /\ UNCHANGED cells
     \/ /\ character = "TAB" /\ cursor' = [cursor EXCEPT !.column = NextTab]
        /\ terminal_dirty' = TRUE /\ UNCHANGED cells
     \/ /\ character = "BS" /\ cursor.column > 0
        /\ cursor' = [cursor EXCEPT !.column = @ - 1]
        /\ terminal_dirty' = TRUE /\ UNCHANGED cells
     \/ /\ character = "BS" /\ cursor.column = 0
        /\ UNCHANGED <<cells, cursor, terminal_dirty>>

-----------------------------------------------------------------------------
(* Control sequences. *)

StartEscape ==
  /\ parser.state = "Normal"
  /\ parser' = [parser EXCEPT !.state = "Escape"]
  /\ UNCHANGED <<cells, cursor, terminal_dirty>>

\* After an escape, anything but a bracket is dropped.
Escape(character) ==
  /\ parser.state = "Escape"
  /\ parser' = IF character = "[" THEN [NoSequence EXCEPT !.state = "Control"]
               ELSE [parser EXCEPT !.state = "Normal"]
  /\ UNCHANGED <<cells, cursor, terminal_dirty>>

SequenceDigit(digit) ==
  /\ parser.state = "Control"
  /\ parser' = [parser EXCEPT
       !.values[parser.index] = Lesser(MaxParameter, @ * DigitBase + digit)]
  /\ UNCHANGED <<cells, cursor, terminal_dirty>>

SequenceSeparator ==
  /\ parser.state = "Control"
  /\ parser' = [parser EXCEPT !.index = IF @ + 1 \in Parameters THEN @ + 1 ELSE @]
  /\ UNCHANGED <<cells, cursor, terminal_dirty>>

\* A parameter that is absent or zero counts as one.
parameter(index) == IF parser.values[index] = 0 THEN 1 ELSE parser.values[index]

clamp(one_based, size) == Lesser(one_based - 1, size - 1)

Mode == parser.values[0]

Erased(command) ==
  CASE command = "J" /\ Mode \in {2, 3} -> Cells
    [] command = "J" /\ Mode = 1 -> 0 .. CursorCell
    [] command = "J" /\ Mode \notin 1 .. 3 -> CursorCell .. Columns * Rows - 1
    [] command = "K" /\ Mode = 2 -> cursor.row * Columns .. (cursor.row + 1) * Columns - 1
    [] command = "K" /\ Mode = 1 -> cursor.row * Columns .. CursorCell
    [] command = "K" /\ Mode \notin 1 .. 2 -> CursorCell .. (cursor.row + 1) * Columns - 1
    [] OTHER -> {}

Moved(command) ==
  CASE command = "A" -> [cursor EXCEPT !.row = @ - Lesser(@, parameter(0))]
    [] command = "B" -> [cursor EXCEPT !.row = Lesser(Rows - 1, @ + parameter(0))]
    [] command = "C" -> [cursor EXCEPT !.column = Lesser(Columns - 1, @ + parameter(0))]
    [] command = "D" -> [cursor EXCEPT !.column = @ - Lesser(@, parameter(0))]
    [] command = "G" -> [cursor EXCEPT !.column = clamp(parameter(0), Columns)]
    [] command = "d" -> [cursor EXCEPT !.row = clamp(parameter(0), Rows)]
    [] command = "H" -> [row |-> clamp(parameter(0), Rows), column |-> clamp(parameter(1), Columns)]
    [] command = "J" /\ Mode \in {2, 3} -> [row |-> 0, column |-> 0]
    [] OTHER -> cursor

\* The parameters mean nothing until the next sequence, which resets them.
finish_control_sequence(command) ==
  /\ parser.state = "Control"
  /\ cells' = [i \in Cells |-> IF i \in Erased(command) THEN Blank ELSE cells[i]]
  /\ cursor' = Moved(command)
  /\ terminal_dirty' = TRUE
  /\ parser' = NoSequence

\* A character of the guest's output. Control characters and question marks
\* inside a sequence are dropped.
consume(character) ==
  \/ Plain(character)
  \/ character = "ESC" /\ StartEscape
  \/ Escape(character)
  \/ character = ";" /\ SequenceSeparator
  \/ character \in Commands /\ finish_control_sequence(character)

Output ==
  \/ \E character \in Characters : consume(character)
  \/ \E digit \in Digit : SequenceDigit(digit)

clear_terminal_dirty == terminal_dirty' = FALSE /\ UNCHANGED <<cells, cursor, parser>>
=============================================================================
