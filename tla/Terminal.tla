------------------------------ MODULE Terminal ------------------------------
(***************************************************************************)
(* The text terminal of drivers/vga.c and the threads of Kernel.c that     *)
(* call print and print_at.  Nothing excludes two of them from one         *)
(* another: a step is one access of a shared variable, in the order in     *)
(* which the code, compiled without optimisation, makes them, and threads  *)
(* may be switched between any two steps.                                  *)
(*                                                                         *)
(* Text is given as the characters it puts on the terminal (see Format).   *)
(* Colours and the hardware cursor are left out: terminal_setcolor reads   *)
(* and writes back each character.  The copying of lines in                *)
(* terminal_scroll is one step.                                            *)
(***************************************************************************)
EXTENDS Integers, Sequences

CONSTANTS Threads,
          VGA_WIDTH, VGA_HEIGHT,
          Calls,                 \* the calls each thread may make
          Painters,              \* the threads that call terminal_setcolor
          WordSize,              \* of a u32: 2^32 in the code
          blank, newline,        \* the two characters that matter
          MaxCalls,              \* bound: how many calls there are in all
          NULL                   \* no text is due

ASSUME SizeAssumption == /\ VGA_WIDTH \in Nat \ {0}
                         /\ VGA_HEIGHT \in Nat \ {0, 1}
                         /\ WordSize \in Nat
                         /\ VGA_WIDTH < WordSize /\ VGA_HEIGHT < WordSize

Cells == 0 .. VGA_WIDTH * VGA_HEIGHT - 1
Columns == 0 .. VGA_WIDTH - 1
Rows == 0 .. VGA_HEIGHT - 1

\* print continues where the position is, print_at has a position of its own.
CallType == [at : BOOLEAN, x : Columns, y : Rows, text : Seq(STRING)]
ASSUME CallsAssumption == Calls \in [Threads -> SUBSET CallType]

VARIABLES terminal_pos_row, terminal_pos_col,
          screen,                \* the characters at terminal_mem
          pc,                    \* where each thread is
          job,                   \* its call, with the text that is left
          saved,                 \* print_at's _x and _y
          reg,                   \* what it has loaded last: a row, a column
          due,                   \* what a call that was alone from its start must show
          made,                  \* calls so far
          paint,                 \* terminal_setcolor's cell and the character it has read
          torn                   \* a thread was interrupted while the position was out of bounds

position == <<terminal_pos_row, terminal_pos_col>>
locals == <<job, saved, reg>>
calls == <<due, made, paint>>
vars == <<position, screen, pc, locals, calls, torn>>

\* The locals of a thread that is in no call.
NoCall == [at |-> FALSE, x |-> 0, y |-> 0, text |-> <<>>]
NotSaved == [x |-> 0, y |-> 0]
NotLoaded == [row |-> 0, col |-> 0]
NotPainting == [cell |-> 0, char |-> blank]

Places ==
    {"idle", "get_x", "get_y", "pos_col", "pos_row", "char", "load_entry", "store_entry",
     "load_col", "store_col", "test_col", "reset_col", "load_row", "store_row", "test_row",
     "scroll", "scroll_col", "load_back", "store_back", "restore_col", "restore_row",
     "load_cell", "store_cell"}

TypeOK ==
    /\ terminal_pos_row \in 0 .. WordSize - 1
    /\ terminal_pos_col \in 0 .. WordSize - 1
    /\ pc \in [Threads -> Places]
    /\ job \in [Threads -> CallType]
    /\ saved \in [Threads -> [x : 0 .. WordSize - 1, y : 0 .. WordSize - 1]]
    /\ reg \in [Threads -> [row : 0 .. WordSize - 1, col : 0 .. WordSize - 1]]
    /\ torn \in BOOLEAN

Init ==
    /\ terminal_pos_row = 0
    /\ terminal_pos_col = 0
    /\ screen = [i \in Cells |-> blank]
    /\ pc = [t \in Threads |-> "idle"]
    /\ job = [t \in Threads |-> NoCall]
    /\ saved = [t \in Threads |-> NotSaved]
    /\ reg = [t \in Threads |-> NotLoaded]
    /\ due = NULL
    /\ made = 0
    /\ paint = [t \in Threads |-> NotPainting]
    /\ torn = FALSE

-----------------------------------------------------------------------------
\* Where each of n characters goes on a page without an end, and the position after them.
Placed(x, y, text) ==
    LET at[k \in 0 .. Len(text)] ==
            IF k = 0 THEN [row |-> y, col |-> x]
            ELSE LET p == at[k - 1] IN
                 IF text[k] = newline \/ p.col = VGA_WIDTH - 1
                 THEN [row |-> p.row + 1, col |-> 0]
                 ELSE [p EXCEPT !.col = @ + 1]
    IN  at

(* What a screen shows once text is put at (x, y): the page's first line,   *)
(* and below it as many of its last lines as there is room for.             *)
LaidOut(old, x, y, text) ==
    LET place == Placed(x, y, text)
        end == place[Len(text)]
        gone == IF end.row >= VGA_HEIGHT THEN end.row - VGA_HEIGHT + 1 ELSE 0
        page(row, col) ==
            LET here == {k \in 1 .. Len(text) : place[k - 1] = [row |-> row, col |-> col]
                                                 /\ text[k] # newline}
            IN  IF here # {} THEN text[CHOOSE k \in here : TRUE]
                ELSE IF row < VGA_HEIGHT THEN old[row * VGA_WIDTH + col] ELSE blank
    IN  [screen |-> [i \in Cells |-> LET row == i \div VGA_WIDTH IN
                        page(IF row = 0 THEN 0 ELSE row + gone, i % VGA_WIDTH)],
         row |-> end.row - gone, col |-> end.col]

-----------------------------------------------------------------------------
\* The places of a thread that has itself put the column, or the row, out of bounds.
ColOut(t) ==
    \/ pc[t] = "test_col" /\ reg[t].col + 1 >= VGA_WIDTH
    \/ pc[t] = "reset_col"
RowOut(t) ==
    \/ pc[t] = "test_row" /\ reg[t].row + 1 >= VGA_HEIGHT
    \/ pc[t] \in {"scroll", "scroll_col", "load_back", "store_back"}

Step(t, from, to) ==
    /\ pc[t] = from
    /\ pc' = [pc EXCEPT ![t] = to]
    /\ torn' = (torn \/ \E u \in Threads \ {t} : ColOut(u) \/ RowOut(u))

\* One access of the position: a store of the column or the row, a load of either.
SetCol(t, from, to, value) ==
    /\ Step(t, from, to)
    /\ terminal_pos_col' = value
    /\ UNCHANGED <<terminal_pos_row, screen, locals, calls>>
SetRow(t, from, to, value) ==
    /\ Step(t, from, to)
    /\ terminal_pos_row' = value
    /\ UNCHANGED <<terminal_pos_col, screen, calls>>
LoadCol(t, from, to) ==
    /\ Step(t, from, to)
    /\ reg' = [reg EXCEPT ![t].col = terminal_pos_col]
    /\ UNCHANGED <<position, screen, job, saved, calls>>
LoadRow(t, from, to) ==
    /\ Step(t, from, to)
    /\ reg' = [reg EXCEPT ![t].row = terminal_pos_row]
    /\ UNCHANGED <<position, screen, job, saved, calls>>

\* What was loaded has been used; a character is done; a call returns.
Used(t) == reg' = [reg EXCEPT ![t] = NotLoaded]
CharacterDone(t) == job' = [job EXCEPT ![t].text = Tail(@)] /\ Used(t) /\ UNCHANGED saved
Return(t) ==
    /\ job' = [job EXCEPT ![t] = NoCall]
    /\ saved' = [saved EXCEPT ![t] = NotSaved]
    /\ Used(t)

-----------------------------------------------------------------------------
Alone == ~torn /\ \A u \in Threads : pc[u] = "idle"

\* A call begins.  Alone, it must end with its text on the screen.
Call(t) ==
    \E c \in Calls[t] :
        /\ Step(t, "idle", IF c.at THEN "get_x" ELSE "char")
        /\ made < MaxCalls /\ made' = made + 1
        /\ job' = [job EXCEPT ![t] = c]
        /\ due' = IF ~Alone THEN NULL
                  ELSE IF c.at THEN [screen |-> LaidOut(screen, c.x, c.y, c.text).screen,
                                     row |-> terminal_pos_row, col |-> terminal_pos_col]
                  ELSE LaidOut(screen, terminal_pos_col, terminal_pos_row, c.text)
        /\ UNCHANGED <<position, screen, saved, reg, paint>>

\* terminal_setcolor: cell by cell, the character is read and written back.
SetColor(t) ==
    /\ t \in Painters
    /\ Step(t, "idle", "load_cell")
    /\ made < MaxCalls /\ made' = made + 1
    /\ due' = IF ~Alone THEN NULL
              ELSE [screen |-> screen, row |-> terminal_pos_row, col |-> terminal_pos_col]
    /\ UNCHANGED <<position, screen, locals, paint>>
LoadCell(t) ==
    /\ Step(t, "load_cell", "store_cell")
    /\ paint' = [paint EXCEPT ![t].char = screen[paint[t].cell]]
    /\ UNCHANGED <<position, screen, locals, due, made>>
StoreCell(t) ==
    LET more == paint[t].cell + 1 \in Cells IN
    /\ Step(t, "store_cell", IF more THEN "load_cell" ELSE "idle")
    /\ screen' = [screen EXCEPT ![paint[t].cell] = paint[t].char]
    /\ paint' = IF more THEN [paint EXCEPT ![t].cell = @ + 1]
                ELSE [paint EXCEPT ![t] = NotPainting]
    /\ UNCHANGED <<position, locals, due, made>>

\* print_at: the position is remembered, moved, and at the end put back.
GetX(t) ==
    /\ Step(t, "get_x", "get_y")
    /\ saved' = [saved EXCEPT ![t].x = terminal_pos_col]
    /\ UNCHANGED <<position, screen, job, reg, calls>>
GetY(t) ==
    /\ Step(t, "get_y", "pos_col")
    /\ saved' = [saved EXCEPT ![t].y = terminal_pos_row]
    /\ UNCHANGED <<position, screen, job, reg, calls>>
PosCol(t) == SetCol(t, "pos_col", "pos_row", job[t].x)
PosRow(t) == SetRow(t, "pos_row", "char", job[t].y) /\ UNCHANGED locals
RestoreCol(t) == SetCol(t, "restore_col", "restore_row", saved[t].x)
RestoreRow(t) == SetRow(t, "restore_row", "idle", saved[t].y) /\ Return(t)

-----------------------------------------------------------------------------
\* terminal_putc's newline, and the end of the text.
EndText(t) ==
    /\ job[t].text = <<>>
    /\ Step(t, "char", IF job[t].at THEN "restore_col" ELSE "idle")
    /\ IF job[t].at THEN UNCHANGED locals ELSE Return(t)
    /\ UNCHANGED <<position, screen, calls>>
PutNewline(t) ==
    /\ job[t].text # <<>> /\ Head(job[t].text) = newline
    /\ SetCol(t, "char", "load_row", 0)

\* entry_at: row and column are read one after the other.  What becomes of a cell
\* that is not on the screen is left open.
PutEntry(t) ==
    /\ job[t].text # <<>> /\ Head(job[t].text) # newline
    /\ LoadRow(t, "char", "load_entry")
LoadEntry(t) == LoadCol(t, "load_entry", "store_entry")
StoreEntry(t) ==
    /\ Step(t, "store_entry", "load_col")
    /\ LET cell == reg[t].row * VGA_WIDTH + reg[t].col IN
       screen' = IF cell \in Cells THEN [screen EXCEPT ![cell] = Head(job[t].text)] ELSE screen
    /\ Used(t)
    /\ UNCHANGED <<position, job, saved, calls>>

\* The column is incremented, and reset at the end of a line.
ReadCol(t) == LoadCol(t, "load_col", "store_col")
StoreCol(t) == SetCol(t, "store_col", "test_col", (reg[t].col + 1) % WordSize)

\* Slip: a full line is taken to have room for one more.
ColFitsLate(t) ==
    /\ terminal_pos_col <= VGA_WIDTH
    /\ Step(t, "test_col", "char") /\ CharacterDone(t)
    /\ UNCHANGED <<position, screen, calls>>

ColFits(t) ==
    /\ terminal_pos_col < VGA_WIDTH
    /\ Step(t, "test_col", "char") /\ CharacterDone(t)
    /\ UNCHANGED <<position, screen, calls>>
ColIsFull(t) ==
    /\ terminal_pos_col >= VGA_WIDTH
    /\ Step(t, "test_col", "reset_col")
    /\ UNCHANGED <<position, screen, locals, calls>>
ResetCol(t) == SetCol(t, "reset_col", "load_row", 0)

\* The row is incremented, after a newline or a full line.
ReadRow(t) == LoadRow(t, "load_row", "store_row")
StoreRow(t) == SetRow(t, "store_row", "test_row", (reg[t].row + 1) % WordSize) /\ UNCHANGED locals
RowFits(t) ==
    /\ terminal_pos_row < VGA_HEIGHT
    /\ Step(t, "test_row", "char") /\ CharacterDone(t)
    /\ UNCHANGED <<position, screen, calls>>
RowIsFull(t) ==
    /\ terminal_pos_row >= VGA_HEIGHT
    /\ Step(t, "test_row", "scroll")
    /\ UNCHANGED <<position, screen, locals, calls>>

\* Slip: the last line moves up and stays as well.
ScrollKeepsLast(t) ==
    /\ Step(t, "scroll", "scroll_col")
    /\ screen' = [i \in Cells |->
           IF i \in VGA_WIDTH .. VGA_WIDTH * (VGA_HEIGHT - 1) - 1 THEN screen[i + VGA_WIDTH]
           ELSE screen[i]]
    /\ UNCHANGED <<position, locals, calls>>

\* terminal_scroll: all lines but the first move up, the last becomes blank.
Scroll(t) ==
    /\ Step(t, "scroll", "scroll_col")
    /\ screen' = [i \in Cells |->
           IF i < VGA_WIDTH THEN screen[i]
           ELSE IF i < VGA_WIDTH * (VGA_HEIGHT - 1) THEN screen[i + VGA_WIDTH] ELSE blank]
    /\ UNCHANGED <<position, locals, calls>>
ScrollCol(t) == SetCol(t, "scroll_col", "load_back", 0)
LoadBack(t) == LoadRow(t, "load_back", "store_back")
StoreBack(t) == SetRow(t, "store_back", "char", (reg[t].row - 1) % WordSize) /\ CharacterDone(t)

-----------------------------------------------------------------------------
TerminalSetColor(t) == SetColor(t) \/ LoadCell(t) \/ StoreCell(t)
PrintAt(t) == GetX(t) \/ GetY(t) \/ PosCol(t) \/ PosRow(t) \/ RestoreCol(t) \/ RestoreRow(t)
Putc(t) == EndText(t) \/ PutNewline(t) \/ PutEntry(t) \/ LoadEntry(t) \/ StoreEntry(t)
NextCol(t) == ReadCol(t) \/ StoreCol(t) \/ ColFits(t) \/ ColIsFull(t) \/ ResetCol(t)
NextRow(t) == ReadRow(t) \/ StoreRow(t) \/ RowFits(t) \/ RowIsFull(t)
TerminalScroll(t) == Scroll(t) \/ ScrollCol(t) \/ LoadBack(t) \/ StoreBack(t)

Next == \E t \in Threads :
            \/ Call(t) \/ PrintAt(t) \/ Putc(t) \/ NextCol(t) \/ NextRow(t)
            \/ TerminalScroll(t) \/ TerminalSetColor(t)

Spec == Init /\ [][Next]_vars

-----------------------------------------------------------------------------
(* A character is only ever put into a cell of the screen, as long as no    *)
(* thread was interrupted with the position out of bounds: in terminal_putc *)
(* from the increment to the reset of the column, or to the end of          *)
(* terminal_scroll for the row.  Every other preemption of threads that     *)
(* print is harmless in this respect.                                       *)
StaysOnScreen ==
    TypeOK /\ (~torn => \A t \in Threads :
        pc[t] = "store_entry" => reg[t].row \in Rows /\ reg[t].col \in Columns)

(* A call that nobody printed beside has put its text where a page without  *)
(* an end would have it, scrolled up by as many lines as it lacks (the      *)
(* first line stays), and print_at has put the position back.               *)
TextIsShown ==
    (due # NULL /\ \A t \in Threads : pc[t] = "idle") =>
        due = [screen |-> screen, row |-> terminal_pos_row, col |-> terminal_pos_col]

=============================================================================
