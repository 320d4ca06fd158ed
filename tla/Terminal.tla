------------------------------ MODULE Terminal ------------------------------
(***************************************************************************)
(* The terminal: the write side of tty_handler puts the output into the    *)
(* ring tty_buffer, render_terminal of tty.c chooses from where on it is   *)
(* shown, and kputc of vga.c lays it out on the screen.  The output is the *)
(* shell's: prompts, echoed keys, and a backspace only for a key of the    *)
(* line that is still there.                                               *)
(*                                                                         *)
(* terminal_column is a size_t; below 0 it wraps, and so does the cell     *)
(* number computed from it: the cell meant is the one a negative column    *)
(* means.  Colours and the hardware cursor are left out.                   *)
(***************************************************************************)
EXTENDS Integers, Sequences, SequencesExt, FiniteSetsExt

CONSTANTS BufferSize,  \* TERMINAL_BUFFER_SIZE
          Height,      \* TERMINAL_HEIGHT, the lines to be shown
          Ten,         \* the 10 of render_terminal
          Width, Rows, \* VGA_WIDTH, VGA_HEIGHT
          Outputs,     \* texts that a command writes at once: one character by cat,
                       \* a line with its zero, all lines by ls
          MaxOut       \* bound: characters written

NewLine == "newline"
Back    == "backspace"
Glyphs  == {NewLine, Back, "x", "$", "0"}      \* "0" for the zeroes of the empty ring

ASSUME TerminalAssumption ==
    /\ BufferSize \in Nat \ {0} /\ Width \in Nat \ {0} /\ Rows \in Nat
    /\ Ten \in Nat /\ Ten > 1 /\ Height = 2 * Ten
    /\ Outputs \subseteq Seq(Glyphs) /\ MaxOut \in Nat

VARIABLES tty_buffer, index, base_index,     \* term
          terminal_row, terminal_column,
          screen,                            \* cells of the screen that are not blank
          stray,                             \* cells outside the screen that were written to
          busy,                              \* the shell runs a command
          typed,                             \* curr_command.len of the shell
          out                                \* history: everything written

term == <<tty_buffer, index, base_index>>
vga  == <<terminal_row, terminal_column, screen, stray>>
termVars == <<term, vga, busy, typed, out>>

Places  == 0 .. (BufferSize - 1)
Cells   == 0 .. (Width * Rows - 1)
Blank   == " "

-----------------------------------------------------------------------------
(* vga.c *)

Cleared == [row |-> 0, column |-> 0, cells |-> [cell \in Cells |-> Blank], out |-> {}]

PutEntryAt(v, ch) ==
    LET cell == v.row * Width + v.column
    IN  IF cell \in Cells THEN [v EXCEPT !.cells[cell] = ch]
                          ELSE [v EXCEPT !.out = @ \cup {cell}]

\* A bug the properties must notice: a backspace that does not erase.
KputcNoErase(v, ch) ==
    IF ch = NewLine THEN [v EXCEPT !.column = 0, !.row = @ + 1]
    ELSE IF ch = Back THEN [v EXCEPT !.column = @ - 1]
    ELSE [PutEntryAt(v, ch) EXCEPT !.column = @ + 1]

Kputc(v, ch) ==
    IF ch = NewLine THEN [v EXCEPT !.column = 0, !.row = @ + 1]
    ELSE IF ch = Back THEN PutEntryAt([v EXCEPT !.column = @ - 1], Blank)
    ELSE LET w == PutEntryAt(v, ch)
         IN  IF w.column + 1 # Width THEN [w EXCEPT !.column = @ + 1]
             ELSE [w EXCEPT !.column = 0, !.row = IF @ + 1 = Rows THEN 0 ELSE @ + 1]

Kwrite(v, text) ==
    LET after[n \in 0 .. Len(text)] == IF n = 0 THEN v ELSE Kputc(after[n - 1], text[n])
    IN  after[Len(text)]

-----------------------------------------------------------------------------
(* tty.c *)

\* The characters of b from position lo up to but not including hi.
Piece(b, lo, hi) == [k \in 1 .. (hi - lo) |-> b[lo + k - 1]]

\* A bug the properties must notice: the place of the newline, not the one behind.
LineEnds(b, base, i) == {p \in base .. (i - 1) : b[p] = NewLine}

\* The places behind the newlines from base up to i; none if the text wraps.
LineStarts(b, base, i) == {p \in (base + 1) .. i : b[p - 1] = NewLine}

\* lines when p is entered.
LinesAt(starts, p) == Cardinality({q \in starts : q <= p})

\* lines_indices[k] once all newlines are entered: the last that went there.
LinesIndices(starts, k) ==
    LET entered == {p \in starts : LinesAt(starts, p) % Height = k}
    IN  IF entered = {} THEN 0 ELSE Max(entered)

\* A bug the properties must notice: a line too many before it scrolls.
BaseIndexLate(b, base, i) ==
    LET starts == LineStarts(b, base, i)
        lines  == Cardinality(starts)
    IN  IF lines > Height THEN LinesIndices(starts, (lines + 1) % Ten) ELSE base

\* Newlines are counted only while the text does not wrap around the ring.
BaseIndex(b, base, i) ==
    LET starts == LineStarts(b, base, i)
        lines  == Cardinality(starts)
    IN  IF lines >= Height THEN LinesIndices(starts, (lines + 1) % Ten) ELSE base

\* A bug the properties must notice: the two parts of a text that wraps are swapped.
ShownSwapped(b, base, i) ==
    IF base < i THEN Piece(b, base, i) ELSE Piece(b, 0, i) \o Piece(b, base, BufferSize)

Shown(b, base, i) ==
    IF base < i THEN Piece(b, base, i) ELSE Piece(b, base, BufferSize) \o Piece(b, 0, i)

-----------------------------------------------------------------------------
(* tty_handler, write *)

TermInit ==
    /\ tty_buffer = [k \in Places |-> "0"] /\ index = 0 /\ base_index = 0
    /\ terminal_row = 0 /\ terminal_column = 0
    /\ screen = [cell \in Cells |-> Blank] /\ stray = {}
    /\ busy = TRUE /\ typed = 0 /\ out = <<>>

Advance(i, n) == (i + n) % BufferSize

\* The ring once the text is in it, character after character from index on.
Stored(text) ==
    [k \in Places |->
        LET at == {n \in 1 .. Len(text) : Advance(index, n - 1) = k}
        IN  IF at = {} THEN tty_buffer[k] ELSE text[Max(at)]]

\* The text goes into the ring, and the whole screen is rendered again.
Write(text) ==
    LET b    == Stored(text)
        i    == Advance(index, Len(text))
        base == BaseIndex(b, base_index, i)
        v    == Kwrite(Cleared, Shown(b, base, i))
    IN  /\ Len(out) + Len(text) <= MaxOut
        /\ tty_buffer' = b /\ index' = i /\ base_index' = base
        /\ terminal_row' = v.row /\ terminal_column' = v.column
        /\ screen' = v.cells /\ stray' = v.out
        /\ out' = out \o text

\* What the shell writes: the echo of a key, a backspace for a character of the
\* line, a newline; what a command writes; the prompt after it.
Echo      == ~ busy /\ Write(<<"x">>) /\ typed' = typed + 1 /\ UNCHANGED busy
Backspace == ~ busy /\ typed > 0 /\ Write(<<Back>>) /\ typed' = typed - 1 /\ UNCHANGED busy
Enter     == ~ busy /\ Write(<<NewLine>>) /\ busy' = TRUE /\ UNCHANGED typed
Output    == busy /\ typed > 0 /\ (\E text \in Outputs : Write(text)) /\ UNCHANGED <<busy, typed>>

\* The line is reset; after a redirection that failed it is kept, and one longer
\* by the zero that ended it.
Prompt ==
    /\ busy /\ Write(IF out = <<>> THEN <<"$">> ELSE <<NewLine, "$">>) /\ busy' = FALSE
    /\ typed' \in IF typed = 0 THEN {0} ELSE {0, typed + 1}

TermNext == Echo \/ Backspace \/ Enter \/ Output \/ Prompt

TermSpec == TermInit /\ [][TermNext]_termVars

-----------------------------------------------------------------------------
ShownText == Shown(tty_buffer, base_index, index)

NewLines(text) == Cardinality({k \in 1 .. Len(text) : text[k] = NewLine})

\* What is shown is the end of what was written, also when the ring wraps and
\* when the index runs past base_index: never old text, never a gap.
ShowsTail == out # <<>> => ShownText # <<>> /\ IsSuffix(ShownText, out)

\* tty.c:23, as far as the code keeps it: while the text does not wrap around the
\* ring, fewer newlines than TERMINAL_HEIGHT are shown.
ShowsHeight == base_index < index => NewLines(ShownText) < Height

\* Until the ring is used a second time, scrolling cuts at the start of a line
\* and never into the line being edited.
CutsAtLine ==
    Len(out) < BufferSize =>
        LET cut == Len(out) - Len(ShownText)
        IN  out # <<>> => cut = 0 \/ out[cut] = NewLine

\* The lines of text as a reader expects them: split at newlines, backspace
\* takes the last character away.  plain: every line stays within the width, and
\* a backspace within its line.
EditedBy(t, ch) ==
    LET n == Len(t.lines)
    IN  IF ch = NewLine THEN [t EXCEPT !.lines = Append(@, <<>>)]
        ELSE IF ch # Back
        THEN [t EXCEPT !.lines[n] = Append(@, ch),
                       !.plain = @ /\ Len(t.lines[n]) + 1 < Width]
        ELSE IF t.lines[n] # <<>> THEN [t EXCEPT !.lines[n] = Front(@)]
        ELSE [t EXCEPT !.plain = FALSE]

Edited(text) ==
    LET after[n \in 0 .. Len(text)] == IF n = 0 THEN [lines |-> << <<>> >>, plain |-> TRUE]
                                       ELSE EditedBy(after[n - 1], text[n])
    IN  after[Len(text)]

\* The screen shows exactly the lines of the text, the erased keys gone, whenever
\* they fit: kputc and the repeated rendering leave nothing behind and write no
\* cell outside the screen.
ScreenIsText ==
    LET t == Edited(ShownText)
    IN  out # <<>> /\ t.plain /\ Len(t.lines) <= Rows =>
          /\ stray = {}
          /\ \A row \in 0 .. (Rows - 1), column \in 0 .. (Width - 1) :
                screen[row * Width + column] =
                   IF row < Len(t.lines) /\ column < Len(t.lines[row + 1])
                   THEN t.lines[row + 1][column + 1] ELSE Blank
=============================================================================
