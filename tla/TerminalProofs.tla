--------------------------- MODULE TerminalProofs ---------------------------
(***************************************************************************)
(* Whatever the size of the screen, the threads and what they print: as    *)
(* long as no thread was interrupted with the position out of bounds,      *)
(* every character goes into a cell of the screen.                         *)
(* A call that nobody prints beside leaves on the screen what a page       *)
(* without an end would show.                                              *)
(***************************************************************************)
EXTENDS Terminal, SequenceTheorems, WellFoundedInduction, TLAPS

\* The places in the middle of a character.
InCharacter ==
    {"load_entry", "store_entry", "load_col", "store_col", "test_col", "reset_col",
     "load_row", "store_row", "test_row", "scroll", "scroll_col", "load_back", "store_back"}

HasCharacter(t) == pc[t] \in InCharacter => job[t].text # <<>>

\* What thread t has loaded or saved is in bounds where it will be used, and the row is
\* one too many exactly where t takes it back.
LoadedInBounds(t) ==
    /\ saved[t].x < VGA_WIDTH /\ saved[t].y < VGA_HEIGHT
    /\ pc[t] \in {"load_entry", "store_entry", "store_row", "test_row"} => reg[t].row < VGA_HEIGHT
    /\ pc[t] \in {"store_entry", "store_col", "test_col"} => reg[t].col < VGA_WIDTH
    /\ RowOut(t) => terminal_pos_row = VGA_HEIGHT
    /\ pc[t] = "store_back" => reg[t].row = VGA_HEIGHT

PositionInBounds ==
    /\ terminal_pos_col < VGA_WIDTH \/ \E t \in Threads : ColOut(t)
    /\ terminal_pos_row < VGA_HEIGHT \/ \E t \in Threads : RowOut(t)

IInv ==
    /\ TypeOK
    /\ \A t \in Threads : HasCharacter(t)
    /\ ~torn => PositionInBounds /\ \A t \in Threads : LoadedInBounds(t)

-----------------------------------------------------------------------------
\* Thread t keeps its part of the invariant.
Settled(t) ==
    /\ HasCharacter(t)
    /\ ~torn => /\ LoadedInBounds(t)
                /\ terminal_pos_col < VGA_WIDTH \/ ColOut(t)
                /\ terminal_pos_row < VGA_HEIGHT \/ RowOut(t)

\* What a step of t leaves to the other threads.
OthersKeep(t) ==
    \A u \in Threads \ {t} :
        /\ pc'[u] = pc[u] /\ job'[u] = job[u]
        /\ saved'[u] = saved[u] /\ reg'[u] = reg[u]

\* A step while no other thread has the position out of bounds finds it in bounds, but
\* for what the thread itself has done.
LEMMA NobodyElseOut ==
    ASSUME IInv, NEW t \in Threads, ~torn',
           torn' = (torn \/ \E u \in Threads \ {t} : ColOut(u) \/ RowOut(u))
    PROVE  /\ ~torn
           /\ \A u \in Threads \ {t} : ~ColOut(u) /\ ~RowOut(u)
           /\ Settled(t)
    BY DEF IInv, PositionInBounds, Settled

LEMMA OneSettles ==
    ASSUME IInv, NEW t \in Threads, OthersKeep(t), TypeOK', Settled(t)',
           torn' = (torn \/ \E u \in Threads \ {t} : ColOut(u) \/ RowOut(u))
    PROVE  IInv'
<1>1. ASSUME NEW u \in Threads PROVE HasCharacter(u)'
  <2>1. CASE u = t
      BY <2>1 DEF Settled
  <2>2. CASE u # t
      BY <2>2 DEF OthersKeep, IInv, HasCharacter
  <2>. QED BY <2>1, <2>2
<1>2. ASSUME ~torn', NEW u \in Threads PROVE LoadedInBounds(u)'
  <2>1. CASE u = t
      BY <1>2, <2>1 DEF Settled
  <2>2. CASE u # t
    <3>1. ~RowOut(u) /\ LoadedInBounds(u)
        BY <1>2, <2>2, NobodyElseOut DEF IInv
    <3>2. pc'[u] = pc[u] /\ saved'[u] = saved[u] /\ reg'[u] = reg[u]
        BY <2>2 DEF OthersKeep
    <3>. QED BY <3>1, <3>2 DEF LoadedInBounds, RowOut
  <2>. QED BY <2>1, <2>2
<1>3. ASSUME ~torn' PROVE PositionInBounds'
    BY <1>3 DEF Settled, PositionInBounds
<1>. QED BY <1>1, <1>2, <1>3 DEF IInv

\* terminal_pos_row and terminal_pos_col are u32.
LEMMA WordsWrap ==
    /\ \A n \in Int : n % WordSize \in 0 .. WordSize - 1
    /\ \A n \in 0 .. WordSize - 1 : n % WordSize = n
<1> WordSize \in Nat /\ WordSize > 0
    BY SizeAssumption
<1>. QED OBVIOUS

LEMMA InitIInv == Init => IInv
<1> SUFFICES ASSUME Init PROVE IInv
    OBVIOUS
<1>1. NoCall \in CallType
    BY SizeAssumption DEF NoCall, CallType, Columns, Rows
<1>2. TypeOK
  <2>1. 0 \in 0 .. WordSize - 1
      BY SizeAssumption
  <2>2. NotSaved \in [x : 0 .. WordSize - 1, y : 0 .. WordSize - 1]
      BY <2>1 DEF NotSaved
  <2>3. NotLoaded \in [row : 0 .. WordSize - 1, col : 0 .. WordSize - 1]
      BY <2>1 DEF NotLoaded
  <2>. QED BY <1>1, <2>1, <2>2, <2>3 DEF Init, TypeOK, Places
<1>3. ASSUME NEW t \in Threads PROVE HasCharacter(t) /\ LoadedInBounds(t)
  <2>1. pc[t] = "idle" /\ saved[t].x = 0 /\ saved[t].y = 0
      BY DEF Init, NotSaved
  <2>. QED BY <2>1, SizeAssumption DEF HasCharacter, InCharacter, LoadedInBounds, RowOut
<1>4. PositionInBounds
    BY SizeAssumption DEF Init, PositionInBounds
<1>. QED BY <1>2, <1>3, <1>4 DEF IInv

-----------------------------------------------------------------------------
\* Which step it is, is one lemma per function of the code.
LEMMA CallKeeps == ASSUME IInv, NEW t \in Threads, Call(t) PROVE IInv'
<1>1. PICK c \in Calls[t] :
          /\ Step(t, "idle", IF c.at THEN "get_x" ELSE "char")
          /\ job' = [job EXCEPT ![t] = c]
          /\ UNCHANGED <<position, screen, saved, reg>>
    BY DEF Call
<1>2. c \in CallType
    BY CallsAssumption
<1>3. TypeOK'
    BY <1>1, <1>2 DEF IInv, TypeOK, Step, position, Places
<1>4. OthersKeep(t)
    BY <1>1 DEF IInv, TypeOK, Step, OthersKeep
<1>5. pc'[t] \in {"get_x", "char"}
    BY <1>1 DEF IInv, TypeOK, Step
<1>6. Settled(t)'
  <2>1. HasCharacter(t)'
      BY <1>5 DEF HasCharacter, InCharacter
  <2>2. ASSUME ~torn'
        PROVE  LoadedInBounds(t)' /\ terminal_pos_col' < VGA_WIDTH /\ terminal_pos_row' < VGA_HEIGHT
      BY <1>1, <1>5, <2>2, NobodyElseOut DEF Step, Settled, LoadedInBounds, ColOut, RowOut, position
  <2>. QED BY <2>1, <2>2 DEF Settled
<1>. QED BY <1>1, <1>3, <1>4, <1>6, OneSettles DEF Step

LEMMA StepMoves ==
    ASSUME IInv, NEW t \in Threads, NEW from, NEW to \in Places, Step(t, from, to)
    PROVE  /\ pc[t] = from /\ pc'[t] = to
           /\ \A u \in Threads \ {t} : pc'[u] = pc[u]
           /\ pc' \in [Threads -> Places]
           /\ torn' \in BOOLEAN
           /\ torn' = (torn \/ \E u \in Threads \ {t} : ColOut(u) \/ RowOut(u))
    BY DEF IInv, TypeOK, Step

\* A call that returns leaves nothing of the thread's behind.
Returned(t) ==
    /\ job' \in [Threads -> CallType]
    /\ saved' \in [Threads -> [x : 0 .. WordSize - 1, y : 0 .. WordSize - 1]]
    /\ reg' \in [Threads -> [row : 0 .. WordSize - 1, col : 0 .. WordSize - 1]]
    /\ saved'[t].x = 0 /\ saved'[t].y = 0
    /\ \A u \in Threads \ {t} : job'[u] = job[u] /\ saved'[u] = saved[u] /\ reg'[u] = reg[u]

\* Used leaves registers of the right type.
LEMMA UsedKeeps ==
    ASSUME IInv, NEW t \in Threads, Used(t)
    PROVE  /\ reg' \in [Threads -> [row : 0 .. WordSize - 1, col : 0 .. WordSize - 1]]
           /\ \A u \in Threads \ {t} : reg'[u] = reg[u]
<1>1. NotLoaded \in [row : 0 .. WordSize - 1, col : 0 .. WordSize - 1]
    BY SizeAssumption DEF NotLoaded
<1>. QED BY <1>1 DEF IInv, TypeOK, Used

LEMMA ReturnKeeps == ASSUME IInv, NEW t \in Threads, Return(t) PROVE Returned(t)
<1>1. NoCall \in CallType
    BY SizeAssumption DEF NoCall, CallType, Columns, Rows
<1>2. NotSaved \in [x : 0 .. WordSize - 1, y : 0 .. WordSize - 1]
    BY SizeAssumption DEF NotSaved
<1>3. NotSaved.x = 0 /\ NotSaved.y = 0
    BY DEF NotSaved
<1>. QED BY <1>1, <1>2, <1>3, UsedKeeps DEF IInv, TypeOK, Return, Returned

\* print_at's own steps (print.c:117-124, 219-221).
LEMMA PrintAtKeeps == ASSUME IInv, NEW t \in Threads, PrintAt(t) PROVE IInv'
<1>1. CASE GetX(t)
  <2>1. /\ pc[t] = "get_x" /\ pc'[t] = "get_y" /\ pc' \in [Threads -> Places] /\ torn' \in BOOLEAN
        /\ saved' = [saved EXCEPT ![t].x = terminal_pos_col]
        /\ UNCHANGED <<terminal_pos_col, terminal_pos_row, job, reg>>
      BY <1>1, StepMoves DEF GetX, Places, position
  <2>2. TypeOK'
      BY <2>1 DEF IInv, TypeOK
  <2>3. OthersKeep(t)
      BY <1>1, <2>1 DEF IInv, TypeOK, GetX, Step, OthersKeep
  <2>4. HasCharacter(t)'
      BY <2>1 DEF HasCharacter, InCharacter
  <2>5. ASSUME ~torn' PROVE Settled(t)'
      BY <1>1, <2>1, <2>4, <2>5, NobodyElseOut
      DEF IInv, TypeOK, GetX, Step, Settled, LoadedInBounds, ColOut, RowOut
  <2>. QED BY <1>1, <2>2, <2>3, <2>4, <2>5, OneSettles DEF GetX, Step, Settled
<1>2. CASE GetY(t)
  <2>1. /\ pc[t] = "get_y" /\ pc'[t] = "pos_col" /\ pc' \in [Threads -> Places] /\ torn' \in BOOLEAN
        /\ saved' = [saved EXCEPT ![t].y = terminal_pos_row]
        /\ UNCHANGED <<terminal_pos_col, terminal_pos_row, job, reg>>
      BY <1>2, StepMoves DEF GetY, Places, position
  <2>2. TypeOK'
      BY <2>1 DEF IInv, TypeOK
  <2>3. OthersKeep(t)
      BY <1>2, <2>1 DEF IInv, TypeOK, GetY, Step, OthersKeep
  <2>4. HasCharacter(t)'
      BY <2>1 DEF HasCharacter, InCharacter
  <2>5. ASSUME ~torn' PROVE Settled(t)'
      BY <1>2, <2>1, <2>4, <2>5, NobodyElseOut
      DEF IInv, TypeOK, GetY, Step, Settled, LoadedInBounds, ColOut, RowOut
  <2>. QED BY <1>2, <2>2, <2>3, <2>4, <2>5, OneSettles DEF GetY, Step, Settled
<1>3. CASE PosCol(t)
  <2>1. /\ pc[t] = "pos_col" /\ pc'[t] = "pos_row" /\ pc' \in [Threads -> Places] /\ torn' \in BOOLEAN
        /\ terminal_pos_col' = job[t].x
        /\ UNCHANGED <<terminal_pos_row, job, saved, reg>>
      BY <1>3, StepMoves DEF PosCol, SetCol, Places, locals
  <2>2. job[t].x \in 0 .. WordSize - 1 /\ job[t].x < VGA_WIDTH
      BY SizeAssumption DEF IInv, TypeOK, CallType, Columns
  <2>3. TypeOK'
      BY <2>1, <2>2 DEF IInv, TypeOK
  <2>4. OthersKeep(t)
      BY <1>3, <2>1 DEF IInv, TypeOK, PosCol, SetCol, Step, OthersKeep
  <2>5. HasCharacter(t)'
      BY <2>1 DEF HasCharacter, InCharacter
  <2>6. ASSUME ~torn' PROVE Settled(t)'
      BY <1>3, <2>1, <2>2, <2>5, <2>6, NobodyElseOut
      DEF PosCol, SetCol, Step, Settled, LoadedInBounds, ColOut, RowOut
  <2>. QED BY <1>3, <2>3, <2>4, <2>5, <2>6, OneSettles DEF PosCol, SetCol, Step, Settled
<1>4. CASE PosRow(t)
  <2>1. /\ pc[t] = "pos_row" /\ pc'[t] = "char" /\ pc' \in [Threads -> Places] /\ torn' \in BOOLEAN
        /\ terminal_pos_row' = job[t].y
        /\ UNCHANGED <<terminal_pos_col, job, saved, reg>>
      BY <1>4, StepMoves DEF PosRow, SetRow, Places, locals
  <2>2. job[t].y \in 0 .. WordSize - 1 /\ job[t].y < VGA_HEIGHT
      BY SizeAssumption DEF IInv, TypeOK, CallType, Rows
  <2>3. TypeOK'
      BY <2>1, <2>2 DEF IInv, TypeOK
  <2>4. OthersKeep(t)
      BY <1>4, <2>1 DEF IInv, TypeOK, PosRow, SetRow, Step, OthersKeep
  <2>5. HasCharacter(t)'
      BY <2>1 DEF HasCharacter, InCharacter
  <2>6. ASSUME ~torn' PROVE Settled(t)'
      BY <1>4, <2>1, <2>2, <2>5, <2>6, NobodyElseOut
      DEF PosRow, SetRow, Step, Settled, LoadedInBounds, ColOut, RowOut
  <2>. QED BY <1>4, <2>3, <2>4, <2>5, <2>6, OneSettles DEF PosRow, SetRow, Step, Settled
<1>5. CASE RestoreCol(t)
  <2>1. /\ pc[t] = "restore_col" /\ pc'[t] = "restore_row" /\ pc' \in [Threads -> Places] /\ torn' \in BOOLEAN
        /\ terminal_pos_col' = saved[t].x
        /\ UNCHANGED <<terminal_pos_row, job, saved, reg>>
      BY <1>5, StepMoves DEF RestoreCol, SetCol, Places, locals
  <2>2. TypeOK'
      BY <2>1 DEF IInv, TypeOK
  <2>3. OthersKeep(t)
      BY <1>5, <2>1 DEF IInv, TypeOK, RestoreCol, SetCol, Step, OthersKeep
  <2>4. HasCharacter(t)'
      BY <2>1 DEF HasCharacter, InCharacter
  <2>5. ASSUME ~torn' PROVE Settled(t)'
      BY <1>5, <2>1, <2>4, <2>5, NobodyElseOut
      DEF RestoreCol, SetCol, Step, Settled, LoadedInBounds, ColOut, RowOut
  <2>. QED BY <1>5, <2>2, <2>3, <2>4, <2>5, OneSettles DEF RestoreCol, SetCol, Step, Settled
<1>6. CASE RestoreRow(t)
  <2>1. /\ pc[t] = "restore_row" /\ pc'[t] = "idle" /\ pc' \in [Threads -> Places] /\ torn' \in BOOLEAN
        /\ terminal_pos_row' = saved[t].y
        /\ UNCHANGED terminal_pos_col
      BY <1>6, StepMoves DEF RestoreRow, SetRow, Places
  <2>2. Returned(t)
      BY <1>6, ReturnKeeps DEF RestoreRow
  <2>3. TypeOK'
      BY <2>1, <2>2 DEF IInv, TypeOK, Returned
  <2>4. OthersKeep(t)
      BY <1>6, <2>2 DEF IInv, TypeOK, RestoreRow, SetRow, Step, OthersKeep, Returned
  <2>5. HasCharacter(t)'
      BY <2>1 DEF HasCharacter, InCharacter
  <2>6. ASSUME ~torn' PROVE Settled(t)'
      BY <1>6, <2>1, <2>2, <2>5, <2>6, NobodyElseOut, SizeAssumption
      DEF RestoreRow, SetRow, Step, Settled, LoadedInBounds, ColOut, RowOut, Returned
  <2>. QED BY <1>6, <2>3, <2>4, <2>5, <2>6, OneSettles DEF RestoreRow, SetRow, Step, Settled
<1>. QED BY <1>1, <1>2, <1>3, <1>4, <1>5, <1>6 DEF PrintAt

\* A character is done.
Advanced(t) ==
    /\ job' \in [Threads -> CallType]
    /\ saved' = saved
    /\ reg' \in [Threads -> [row : 0 .. WordSize - 1, col : 0 .. WordSize - 1]]
    /\ \A u \in Threads \ {t} : job'[u] = job[u] /\ reg'[u] = reg[u]

LEMMA AdvanceKeeps ==
    ASSUME IInv, NEW t \in Threads, pc[t] \in InCharacter, CharacterDone(t)
    PROVE  Advanced(t)
<1>1. job[t].text # <<>> /\ job[t].text \in Seq(STRING)
    BY DEF IInv, TypeOK, HasCharacter, CallType
<1>2. Tail(job[t].text) \in Seq(STRING)
    BY <1>1, HeadTailProperties, Zenon
<1>3. job' \in [Threads -> CallType]
    BY <1>2 DEF IInv, TypeOK, CharacterDone, CallType
<1>. QED BY <1>3, UsedKeeps DEF IInv, TypeOK, CharacterDone, Advanced

\* terminal_putc up to entry_at (vga.c:86-104).
LEMMA PutcKeeps == ASSUME IInv, NEW t \in Threads, Putc(t) PROVE IInv'
<1>1. CASE EndText(t)
  <2>1. /\ pc[t] = "char" /\ pc'[t] \in {"restore_col", "idle"}
        /\ pc' \in [Threads -> Places] /\ torn' \in BOOLEAN
        /\ UNCHANGED <<terminal_pos_col, terminal_pos_row>>
      BY <1>1 DEF IInv, TypeOK, EndText, Step, Places, position
  <2>2. Returned(t) \/ UNCHANGED <<job, saved, reg>>
      BY <1>1, ReturnKeeps DEF EndText, locals
  <2>3. TypeOK'
      BY <2>1, <2>2 DEF IInv, TypeOK, Returned
  <2>4. OthersKeep(t)
      BY <1>1, <2>2 DEF IInv, TypeOK, EndText, Step, OthersKeep, Returned
  <2>5. HasCharacter(t)'
      BY <2>1 DEF HasCharacter, InCharacter
  <2>6. ASSUME ~torn' PROVE Settled(t)'
      BY <1>1, <2>1, <2>2, <2>5, <2>6, NobodyElseOut, SizeAssumption
      DEF EndText, Step, Settled, LoadedInBounds, ColOut, RowOut, Returned
  <2>. QED BY <1>1, <2>3, <2>4, <2>5, <2>6, OneSettles DEF EndText, Step, Settled
<1>2. CASE PutNewline(t)
  <2>1. /\ pc[t] = "char" /\ pc'[t] = "load_row" /\ pc' \in [Threads -> Places] /\ torn' \in BOOLEAN
        /\ terminal_pos_col' = 0
        /\ UNCHANGED <<terminal_pos_row, job, saved, reg>>
      BY <1>2, StepMoves DEF PutNewline, SetCol, Places, position, locals
  <2>2. 0 \in 0 .. WordSize - 1 /\ 0 < VGA_WIDTH
      BY SizeAssumption
  <2>3. TypeOK'
      BY <2>1, <2>2 DEF IInv, TypeOK
  <2>4. OthersKeep(t)
      BY <1>2, <2>1 DEF IInv, TypeOK, PutNewline, SetCol, Step, OthersKeep
  <2>5. HasCharacter(t)'
      BY <1>2, <2>1 DEF PutNewline, HasCharacter
  <2>6. ASSUME ~torn' PROVE Settled(t)'
      BY <1>2, <2>1, <2>5, <2>6, NobodyElseOut, <2>2
      DEF PutNewline, SetCol, Step, Settled, LoadedInBounds, ColOut, RowOut
  <2>. QED BY <1>2, <2>3, <2>4, <2>5, <2>6, OneSettles DEF PutNewline, SetCol, Step, Settled
<1>3. CASE PutEntry(t)
  <2>1. /\ pc[t] = "char" /\ pc'[t] = "load_entry" /\ pc' \in [Threads -> Places] /\ torn' \in BOOLEAN
        /\ reg' = [reg EXCEPT ![t].row = terminal_pos_row]
        /\ UNCHANGED <<terminal_pos_col, terminal_pos_row, job, saved>>
      BY <1>3, StepMoves DEF PutEntry, LoadRow, Places, position, locals
  <2>3. TypeOK'
      BY <2>1 DEF IInv, TypeOK
  <2>4. OthersKeep(t)
      BY <1>3, <2>1 DEF IInv, TypeOK, PutEntry, LoadRow, Step, OthersKeep
  <2>5. HasCharacter(t)'
      BY <1>3, <2>1 DEF PutEntry, HasCharacter
  <2>6. ASSUME ~torn' PROVE Settled(t)'
    <3>1. ~torn /\ Settled(t)
      <4>1. torn' = (torn \/ \E u \in Threads \ {t} : ColOut(u) \/ RowOut(u))
          BY <1>3 DEF PutEntry, LoadRow, Step
      <4>. QED BY <2>6, <4>1, NobodyElseOut
    <3>2. terminal_pos_col < VGA_WIDTH /\ terminal_pos_row < VGA_HEIGHT
        BY <2>1, <3>1 DEF Settled, ColOut, RowOut
    <3>3. reg'[t].row = terminal_pos_row
        BY <2>1 DEF IInv, TypeOK
    <3>4. LoadedInBounds(t)'
        BY <2>1, <3>1, <3>2, <3>3 DEF Settled, LoadedInBounds, RowOut
    <3>. QED BY <2>1, <2>5, <3>2, <3>4 DEF Settled
  <2>. QED BY <1>3, <2>3, <2>4, <2>5, <2>6, OneSettles DEF PutEntry, LoadRow, Step, Settled
<1>4. CASE LoadEntry(t)
  <2>1. /\ pc[t] = "load_entry" /\ pc'[t] = "store_entry" /\ pc' \in [Threads -> Places] /\ torn' \in BOOLEAN
        /\ reg' = [reg EXCEPT ![t].col = terminal_pos_col]
        /\ UNCHANGED <<terminal_pos_col, terminal_pos_row, job, saved>>
      BY <1>4, StepMoves DEF LoadEntry, LoadCol, Places, position, locals
  <2>3. TypeOK'
      BY <2>1 DEF IInv, TypeOK
  <2>4. OthersKeep(t)
      BY <1>4, <2>1 DEF IInv, TypeOK, LoadEntry, LoadCol, Step, OthersKeep
  <2>5. HasCharacter(t)'
      BY <2>1 DEF IInv, HasCharacter, InCharacter
  <2>6. ASSUME ~torn' PROVE Settled(t)'
      BY <1>4, <2>1, <2>5, <2>6, NobodyElseOut
      DEF LoadEntry, LoadCol, Step, Settled, LoadedInBounds, ColOut, RowOut, IInv, TypeOK
  <2>. QED BY <1>4, <2>3, <2>4, <2>5, <2>6, OneSettles DEF LoadEntry, LoadCol, Step, Settled
<1>5. CASE StoreEntry(t)
  <2>1. /\ pc[t] = "store_entry" /\ pc'[t] = "load_col" /\ pc' \in [Threads -> Places] /\ torn' \in BOOLEAN
        /\ UNCHANGED <<terminal_pos_col, terminal_pos_row, job, saved>>
      BY <1>5, StepMoves DEF StoreEntry, Places, position, locals
  <2>2. /\ reg' \in [Threads -> [row : 0 .. WordSize - 1, col : 0 .. WordSize - 1]]
        /\ \A u \in Threads \ {t} : reg'[u] = reg[u]
      BY <1>5, UsedKeeps DEF StoreEntry
  <2>3. TypeOK'
      BY <2>1, <2>2 DEF IInv, TypeOK
  <2>4. OthersKeep(t)
      BY <1>5, <2>1, <2>2 DEF IInv, TypeOK, StoreEntry, Step, OthersKeep
  <2>5. HasCharacter(t)'
      BY <2>1 DEF IInv, HasCharacter, InCharacter
  <2>6. ASSUME ~torn' PROVE Settled(t)'
      BY <1>5, <2>1, <2>5, <2>6, NobodyElseOut
      DEF StoreEntry, Step, Settled, LoadedInBounds, ColOut, RowOut
  <2>. QED BY <1>5, <2>3, <2>4, <2>5, <2>6, OneSettles DEF StoreEntry, Step, Settled
<1>. QED BY <1>1, <1>2, <1>3, <1>4, <1>5 DEF Putc

\* The column (vga.c:106-108).
LEMMA NextColKeeps == ASSUME IInv, NEW t \in Threads, NextCol(t) PROVE IInv'
<1>1. CASE ReadCol(t)
  <2>1. /\ pc[t] = "load_col" /\ pc'[t] = "store_col" /\ pc' \in [Threads -> Places] /\ torn' \in BOOLEAN
        /\ reg' = [reg EXCEPT ![t].col = terminal_pos_col]
        /\ UNCHANGED <<terminal_pos_col, terminal_pos_row, job, saved>>
      BY <1>1, StepMoves DEF ReadCol, LoadCol, Places, position, locals
  <2>3. TypeOK'
      BY <2>1 DEF IInv, TypeOK
  <2>4. OthersKeep(t)
      BY <1>1, <2>1 DEF IInv, TypeOK, ReadCol, LoadCol, Step, OthersKeep
  <2>5. HasCharacter(t)'
      BY <2>1 DEF IInv, HasCharacter, InCharacter
  <2>6. ASSUME ~torn' PROVE Settled(t)'
      BY <1>1, <2>1, <2>5, <2>6, NobodyElseOut
      DEF ReadCol, LoadCol, Step, Settled, LoadedInBounds, ColOut, RowOut, IInv, TypeOK
  <2>. QED BY <1>1, <2>3, <2>4, <2>5, <2>6, OneSettles DEF ReadCol, LoadCol, Step, Settled
<1>2. CASE StoreCol(t)
  <2>1. /\ pc[t] = "store_col" /\ pc'[t] = "test_col" /\ pc' \in [Threads -> Places] /\ torn' \in BOOLEAN
        /\ terminal_pos_col' = (reg[t].col + 1) % WordSize
        /\ UNCHANGED <<terminal_pos_row, job, saved, reg>>
      BY <1>2, StepMoves DEF StoreCol, SetCol, Places, position, locals
  <2>2. /\ (reg[t].col + 1) % WordSize \in 0 .. WordSize - 1
        /\ reg[t].col < VGA_WIDTH => (reg[t].col + 1) % WordSize = reg[t].col + 1
    <3>1. reg[t].col \in 0 .. WordSize - 1
        BY DEF IInv, TypeOK
    <3>2. reg[t].col < VGA_WIDTH => reg[t].col + 1 \in 0 .. WordSize - 1
        BY <3>1, SizeAssumption
    <3>. QED BY <3>1, <3>2, WordsWrap
  <2>3. TypeOK'
      BY <2>1, <2>2 DEF IInv, TypeOK
  <2>4. OthersKeep(t)
      BY <1>2, <2>1 DEF IInv, TypeOK, StoreCol, SetCol, Step, OthersKeep
  <2>5. HasCharacter(t)'
      BY <2>1 DEF IInv, HasCharacter, InCharacter
  <2>6. ASSUME ~torn' PROVE Settled(t)'
      BY <1>2, <2>1, <2>5, <2>6, NobodyElseOut, <2>2, SizeAssumption
      DEF StoreCol, SetCol, Step, Settled, LoadedInBounds, ColOut, RowOut, IInv, TypeOK
  <2>. QED BY <1>2, <2>3, <2>4, <2>5, <2>6, OneSettles DEF StoreCol, SetCol, Step, Settled
<1>3. CASE ColFits(t)
  <2>1. /\ pc[t] = "test_col" /\ pc'[t] = "char" /\ pc' \in [Threads -> Places] /\ torn' \in BOOLEAN
        /\ UNCHANGED <<terminal_pos_col, terminal_pos_row>>
      BY <1>3, StepMoves DEF ColFits, Places, position, locals
  <2>2. Advanced(t)
      BY <1>3, <2>1, AdvanceKeeps DEF InCharacter, ColFits
  <2>3. TypeOK'
      BY <2>1, <2>2 DEF IInv, TypeOK, Advanced
  <2>4. OthersKeep(t)
      BY <1>3, <2>1, <2>2 DEF IInv, TypeOK, ColFits, Step, OthersKeep, Advanced
  <2>5. HasCharacter(t)'
      BY <2>1 DEF HasCharacter, InCharacter
  <2>6. ASSUME ~torn' PROVE Settled(t)'
      BY <1>3, <2>1, <2>5, <2>6, NobodyElseOut, <2>2
      DEF ColFits, Step, Settled, LoadedInBounds, ColOut, RowOut, Advanced
  <2>. QED BY <1>3, <2>3, <2>4, <2>5, <2>6, OneSettles DEF ColFits, Step, Settled
<1>4. CASE ColIsFull(t)
  <2>1. /\ pc[t] = "test_col" /\ pc'[t] = "reset_col" /\ pc' \in [Threads -> Places] /\ torn' \in BOOLEAN
        /\ UNCHANGED <<terminal_pos_col, terminal_pos_row, job, saved, reg>>
      BY <1>4, StepMoves DEF ColIsFull, Places, position, locals
  <2>3. TypeOK'
      BY <2>1 DEF IInv, TypeOK
  <2>4. OthersKeep(t)
      BY <1>4, <2>1 DEF IInv, TypeOK, ColIsFull, Step, OthersKeep
  <2>5. HasCharacter(t)'
      BY <2>1 DEF IInv, HasCharacter, InCharacter
  <2>6. ASSUME ~torn' PROVE Settled(t)'
      BY <1>4, <2>1, <2>5, <2>6, NobodyElseOut, SizeAssumption
      DEF ColIsFull, Step, Settled, LoadedInBounds, ColOut, RowOut, IInv, TypeOK
  <2>. QED BY <1>4, <2>3, <2>4, <2>5, <2>6, OneSettles DEF ColIsFull, Step, Settled
<1>5. CASE ResetCol(t)
  <2>1. /\ pc[t] = "reset_col" /\ pc'[t] = "load_row" /\ pc' \in [Threads -> Places] /\ torn' \in BOOLEAN
        /\ terminal_pos_col' = 0
        /\ UNCHANGED <<terminal_pos_row, job, saved, reg>>
      BY <1>5, StepMoves DEF ResetCol, SetCol, Places, position, locals
  <2>2. 0 \in 0 .. WordSize - 1 /\ 0 < VGA_WIDTH
      BY SizeAssumption
  <2>3. TypeOK'
      BY <2>1, <2>2 DEF IInv, TypeOK
  <2>4. OthersKeep(t)
      BY <1>5, <2>1 DEF IInv, TypeOK, ResetCol, SetCol, Step, OthersKeep
  <2>5. HasCharacter(t)'
      BY <2>1 DEF IInv, HasCharacter, InCharacter
  <2>6. ASSUME ~torn' PROVE Settled(t)'
      BY <1>5, <2>1, <2>5, <2>6, NobodyElseOut, <2>2
      DEF ResetCol, SetCol, Step, Settled, LoadedInBounds, ColOut, RowOut
  <2>. QED BY <1>5, <2>3, <2>4, <2>5, <2>6, OneSettles DEF ResetCol, SetCol, Step, Settled
<1>. QED BY <1>1, <1>2, <1>3, <1>4, <1>5 DEF NextCol

\* The row (vga.c:99, 109).
LEMMA NextRowKeeps == ASSUME IInv, NEW t \in Threads, NextRow(t) PROVE IInv'
<1>1. CASE ReadRow(t)
  <2>1. /\ pc[t] = "load_row" /\ pc'[t] = "store_row" /\ pc' \in [Threads -> Places] /\ torn' \in BOOLEAN
        /\ reg' = [reg EXCEPT ![t].row = terminal_pos_row]
        /\ UNCHANGED <<terminal_pos_col, terminal_pos_row, job, saved>>
      BY <1>1, StepMoves DEF ReadRow, LoadRow, Places, position, locals
  <2>3. TypeOK'
      BY <2>1 DEF IInv, TypeOK
  <2>4. OthersKeep(t)
      BY <1>1, <2>1 DEF IInv, TypeOK, ReadRow, LoadRow, Step, OthersKeep
  <2>5. HasCharacter(t)'
      BY <2>1 DEF IInv, HasCharacter, InCharacter
  <2>6. ASSUME ~torn' PROVE Settled(t)'
      BY <1>1, <2>1, <2>5, <2>6, NobodyElseOut
      DEF ReadRow, LoadRow, Step, Settled, LoadedInBounds, ColOut, RowOut, IInv, TypeOK
  <2>. QED BY <1>1, <2>3, <2>4, <2>5, <2>6, OneSettles DEF ReadRow, LoadRow, Step, Settled
<1>2. CASE StoreRow(t)
  <2>1. /\ pc[t] = "store_row" /\ pc'[t] = "test_row" /\ pc' \in [Threads -> Places] /\ torn' \in BOOLEAN
        /\ terminal_pos_row' = (reg[t].row + 1) % WordSize
        /\ UNCHANGED <<terminal_pos_col, job, saved, reg>>
      BY <1>2, StepMoves DEF StoreRow, SetRow, Places, position, locals
  <2>2. /\ (reg[t].row + 1) % WordSize \in 0 .. WordSize - 1
        /\ reg[t].row < VGA_HEIGHT => (reg[t].row + 1) % WordSize = reg[t].row + 1
    <3>1. reg[t].row \in 0 .. WordSize - 1
        BY DEF IInv, TypeOK
    <3>2. reg[t].row < VGA_HEIGHT => reg[t].row + 1 \in 0 .. WordSize - 1
        BY <3>1, SizeAssumption
    <3>. QED BY <3>1, <3>2, WordsWrap
  <2>3. TypeOK'
      BY <2>1, <2>2 DEF IInv, TypeOK
  <2>4. OthersKeep(t)
      BY <1>2, <2>1 DEF IInv, TypeOK, StoreRow, SetRow, Step, OthersKeep
  <2>5. HasCharacter(t)'
      BY <2>1 DEF IInv, HasCharacter, InCharacter
  <2>6. ASSUME ~torn' PROVE Settled(t)'
    <3>1. Settled(t) /\ ~torn
        BY <1>2, <2>6, NobodyElseOut DEF StoreRow, SetRow, Step
    <3>2. /\ reg[t].row < VGA_HEIGHT /\ saved[t].x < VGA_WIDTH /\ saved[t].y < VGA_HEIGHT
          /\ terminal_pos_col < VGA_WIDTH
        BY <2>1, <3>1 DEF Settled, LoadedInBounds, ColOut
    <3>3. terminal_pos_row' = reg[t].row + 1 /\ reg[t].row \in Nat
        BY <2>1, <2>2, <3>2 DEF IInv, TypeOK
    <3>4. RowOut(t)' <=> reg[t].row + 1 >= VGA_HEIGHT
        BY <2>1 DEF RowOut
    <3>5. /\ terminal_pos_row' < VGA_HEIGHT \/ RowOut(t)'
          /\ RowOut(t)' => terminal_pos_row' = VGA_HEIGHT
        BY <3>2, <3>3, <3>4, SizeAssumption
    <3>. QED BY <2>1, <2>5, <3>2, <3>5 DEF Settled, LoadedInBounds
  <2>. QED BY <1>2, <2>3, <2>4, <2>5, <2>6, OneSettles DEF StoreRow, SetRow, Step, Settled
<1>3. CASE RowFits(t)
  <2>1. /\ pc[t] = "test_row" /\ pc'[t] = "char" /\ pc' \in [Threads -> Places] /\ torn' \in BOOLEAN
        /\ UNCHANGED <<terminal_pos_col, terminal_pos_row>>
      BY <1>3, StepMoves DEF RowFits, Places, position, locals
  <2>2. Advanced(t)
      BY <1>3, <2>1, AdvanceKeeps DEF InCharacter, RowFits
  <2>3. TypeOK'
      BY <2>1, <2>2 DEF IInv, TypeOK, Advanced
  <2>4. OthersKeep(t)
      BY <1>3, <2>1, <2>2 DEF IInv, TypeOK, RowFits, Step, OthersKeep, Advanced
  <2>5. HasCharacter(t)'
      BY <2>1 DEF HasCharacter, InCharacter
  <2>6. ASSUME ~torn' PROVE Settled(t)'
      BY <1>3, <2>1, <2>5, <2>6, NobodyElseOut, <2>2
      DEF RowFits, Step, Settled, LoadedInBounds, ColOut, RowOut, Advanced
  <2>. QED BY <1>3, <2>3, <2>4, <2>5, <2>6, OneSettles DEF RowFits, Step, Settled
<1>4. CASE RowIsFull(t)
  <2>1. /\ pc[t] = "test_row" /\ pc'[t] = "scroll" /\ pc' \in [Threads -> Places] /\ torn' \in BOOLEAN
        /\ UNCHANGED <<terminal_pos_col, terminal_pos_row, job, saved, reg>>
      BY <1>4, StepMoves DEF RowIsFull, Places, position, locals
  <2>3. TypeOK'
      BY <2>1 DEF IInv, TypeOK
  <2>4. OthersKeep(t)
      BY <1>4, <2>1 DEF IInv, TypeOK, RowIsFull, Step, OthersKeep
  <2>5. HasCharacter(t)'
      BY <2>1 DEF IInv, HasCharacter, InCharacter
  <2>6. ASSUME ~torn' PROVE Settled(t)'
      BY <1>4, <2>1, <2>5, <2>6, NobodyElseOut, SizeAssumption
      DEF RowIsFull, Step, Settled, LoadedInBounds, ColOut, RowOut, IInv, TypeOK
  <2>. QED BY <1>4, <2>3, <2>4, <2>5, <2>6, OneSettles DEF RowIsFull, Step, Settled
<1>. QED BY <1>1, <1>2, <1>3, <1>4 DEF NextRow

\* terminal_scroll (vga.c:67-78).
LEMMA TerminalScrollKeeps == ASSUME IInv, NEW t \in Threads, TerminalScroll(t) PROVE IInv'
<1>1. CASE Scroll(t)
  <2>1. /\ pc[t] = "scroll" /\ pc'[t] = "scroll_col" /\ pc' \in [Threads -> Places] /\ torn' \in BOOLEAN
        /\ UNCHANGED <<terminal_pos_col, terminal_pos_row, job, saved, reg>>
      BY <1>1, StepMoves DEF Scroll, Places, position, locals
  <2>3. TypeOK'
      BY <2>1 DEF IInv, TypeOK
  <2>4. OthersKeep(t)
      BY <1>1, <2>1 DEF IInv, TypeOK, Scroll, Step, OthersKeep
  <2>5. HasCharacter(t)'
      BY <2>1 DEF IInv, HasCharacter, InCharacter
  <2>6. ASSUME ~torn' PROVE Settled(t)'
      BY <1>1, <2>1, <2>5, <2>6, NobodyElseOut, SizeAssumption
      DEF Scroll, Step, Settled, LoadedInBounds, ColOut, RowOut, IInv, TypeOK
  <2>. QED BY <1>1, <2>3, <2>4, <2>5, <2>6, OneSettles DEF Scroll, Step, Settled
<1>2. CASE ScrollCol(t)
  <2>1. /\ pc[t] = "scroll_col" /\ pc'[t] = "load_back" /\ pc' \in [Threads -> Places] /\ torn' \in BOOLEAN
        /\ terminal_pos_col' = 0
        /\ UNCHANGED <<terminal_pos_row, job, saved, reg>>
      BY <1>2, StepMoves DEF ScrollCol, SetCol, Places, position, locals
  <2>2. 0 \in 0 .. WordSize - 1 /\ 0 < VGA_WIDTH
      BY SizeAssumption
  <2>3. TypeOK'
      BY <2>1, <2>2 DEF IInv, TypeOK
  <2>4. OthersKeep(t)
      BY <1>2, <2>1 DEF IInv, TypeOK, ScrollCol, SetCol, Step, OthersKeep
  <2>5. HasCharacter(t)'
      BY <2>1 DEF IInv, HasCharacter, InCharacter
  <2>6. ASSUME ~torn' PROVE Settled(t)'
      BY <1>2, <2>1, <2>5, <2>6, NobodyElseOut, <2>2
      DEF ScrollCol, SetCol, Step, Settled, LoadedInBounds, ColOut, RowOut
  <2>. QED BY <1>2, <2>3, <2>4, <2>5, <2>6, OneSettles DEF ScrollCol, SetCol, Step, Settled
<1>3. CASE LoadBack(t)
  <2>1. /\ pc[t] = "load_back" /\ pc'[t] = "store_back" /\ pc' \in [Threads -> Places] /\ torn' \in BOOLEAN
        /\ reg' = [reg EXCEPT ![t].row = terminal_pos_row]
        /\ UNCHANGED <<terminal_pos_col, terminal_pos_row, job, saved>>
      BY <1>3, StepMoves DEF LoadBack, LoadRow, Places, position, locals
  <2>3. TypeOK'
      BY <2>1 DEF IInv, TypeOK
  <2>4. OthersKeep(t)
      BY <1>3, <2>1 DEF IInv, TypeOK, LoadBack, LoadRow, Step, OthersKeep
  <2>5. HasCharacter(t)'
      BY <2>1 DEF IInv, HasCharacter, InCharacter
  <2>6. ASSUME ~torn' PROVE Settled(t)'
      BY <1>3, <2>1, <2>5, <2>6, NobodyElseOut
      DEF LoadBack, LoadRow, Step, Settled, LoadedInBounds, ColOut, RowOut, IInv, TypeOK
  <2>. QED BY <1>3, <2>3, <2>4, <2>5, <2>6, OneSettles DEF LoadBack, LoadRow, Step, Settled
<1>4. CASE StoreBack(t)
  <2>1. /\ pc[t] = "store_back" /\ pc'[t] = "char" /\ pc' \in [Threads -> Places] /\ torn' \in BOOLEAN
        /\ terminal_pos_row' = (reg[t].row - 1) % WordSize
        /\ UNCHANGED terminal_pos_col
      BY <1>4, StepMoves DEF StoreBack, SetRow, Places, position, locals
  <2>2. Advanced(t)
      BY <1>4, <2>1, AdvanceKeeps DEF InCharacter, StoreBack
  <2>7. /\ (reg[t].row - 1) % WordSize \in 0 .. WordSize - 1
        /\ reg[t].row = VGA_HEIGHT => (reg[t].row - 1) % WordSize = VGA_HEIGHT - 1
    <3>1. reg[t].row \in 0 .. WordSize - 1
        BY DEF IInv, TypeOK
    <3>2. reg[t].row = VGA_HEIGHT => reg[t].row - 1 \in 0 .. WordSize - 1
        BY <3>1, SizeAssumption
    <3>. QED BY <3>1, <3>2, WordsWrap
  <2>3. TypeOK'
      BY <2>1, <2>2, <2>7 DEF IInv, TypeOK, Advanced
  <2>4. OthersKeep(t)
      BY <1>4, <2>1, <2>2 DEF IInv, TypeOK, StoreBack, SetRow, Step, OthersKeep, Advanced
  <2>5. HasCharacter(t)'
      BY <2>1 DEF HasCharacter, InCharacter
  <2>6. ASSUME ~torn' PROVE Settled(t)'
      BY <1>4, <2>1, <2>5, <2>6, NobodyElseOut, <2>2, <2>7, SizeAssumption
      DEF StoreBack, SetRow, Step, Settled, LoadedInBounds, ColOut, RowOut, Advanced
  <2>. QED BY <1>4, <2>3, <2>4, <2>5, <2>6, OneSettles DEF StoreBack, SetRow, Step, Settled
<1>. QED BY <1>1, <1>2, <1>3, <1>4 DEF TerminalScroll

\* terminal_setcolor touches nothing but the screen (vga.c:79-85).
LEMMA TerminalSetColorKeeps ==
    ASSUME IInv, NEW t \in Threads, TerminalSetColor(t) PROVE IInv'
<1>1. PICK from \in {"idle", "load_cell", "store_cell"}, to \in {"idle", "load_cell", "store_cell"} :
          /\ Step(t, from, to)
          /\ UNCHANGED <<terminal_pos_col, terminal_pos_row, job, saved, reg>>
    BY Zenon DEF TerminalSetColor, SetColor, LoadCell, StoreCell, position, locals
<1>2. /\ pc[t] = from /\ pc'[t] = to
      /\ pc' \in [Threads -> Places] /\ torn' \in BOOLEAN
    BY <1>1, StepMoves DEF Places
<1>3. TypeOK'
    BY <1>1, <1>2 DEF IInv, TypeOK
<1>4. OthersKeep(t)
    BY <1>1 DEF IInv, TypeOK, Step, OthersKeep
<1>5. HasCharacter(t)'
    BY <1>2 DEF HasCharacter, InCharacter
<1>6. ASSUME ~torn' PROVE Settled(t)'
    BY <1>1, <1>2, <1>5, <1>6, NobodyElseOut DEF Step, Settled, LoadedInBounds, ColOut, RowOut
<1>. QED BY <1>1, <1>3, <1>4, <1>5, <1>6, OneSettles DEF Step, Settled

-----------------------------------------------------------------------------
LEMMA NextIInv == ASSUME IInv, [Next]_vars PROVE IInv'
<1>1. ASSUME NEW t \in Threads,
             \/ Call(t) \/ PrintAt(t) \/ Putc(t) \/ NextCol(t) \/ NextRow(t)
             \/ TerminalScroll(t) \/ TerminalSetColor(t)
      PROVE  IInv'
    BY <1>1, CallKeeps, PrintAtKeeps, PutcKeeps, NextColKeeps, NextRowKeeps, TerminalScrollKeeps,
       TerminalSetColorKeeps
<1>2. CASE UNCHANGED vars
    BY <1>2 DEF vars, position, locals, calls, IInv, TypeOK, HasCharacter, LoadedInBounds,
                PositionInBounds, ColOut, RowOut
<1>. QED BY <1>1, <1>2 DEF Next

\* Threads that print may be interrupted anywhere but between a count past the edge and
\* what takes it back, and still no character misses the screen (vga.c:67-114).
THEOREM NothingMissesTheScreen == Spec => []StaysOnScreen
<1>1. ASSUME IInv PROVE StaysOnScreen
  <2> SUFFICES ASSUME ~torn, NEW t \in Threads, pc[t] = "store_entry"
               PROVE  reg[t].row \in Rows /\ reg[t].col \in Columns
      BY <1>1 DEF StaysOnScreen, IInv
  <2>1. reg[t].row < VGA_HEIGHT /\ reg[t].col < VGA_WIDTH
      BY <1>1 DEF IInv, LoadedInBounds
  <2>2. reg[t].row \in 0 .. WordSize - 1 /\ reg[t].col \in 0 .. WordSize - 1
      BY <1>1 DEF IInv, TypeOK
  <2>. QED BY <2>1, <2>2, SizeAssumption DEF Rows, Columns
<1>. QED BY <1>1, InitIInv, NextIInv, PTL DEF Spec

-----------------------------------------------------------------------------
(* Rows and columns of a cell *)

LEMMA Division ==
    ASSUME NEW w \in Nat \ {0}, NEW q \in Int, NEW r \in 0 .. w - 1
    PROVE  (q * w + r) \div w = q /\ (q * w + r) % w = r
<1> DEFINE n == q * w + r
           d == n \div w
           m == n % w
<1>1. q * w \in Int /\ n \in Int
    OBVIOUS
<1>2. d \in Int /\ m \in 0 .. w - 1 /\ n = w * d + m
    BY <1>1
<1>3. (q - d) * w = m - r
  <2>1. (q - d) * w = q * w - d * w /\ w * d = d * w
      BY <1>2
  <2>. QED BY <1>1, <1>2, <2>1
<1> HIDE DEF n, d, m
<1>4. m - r < w /\ m - r > 0 - w
    BY <1>2
<1>5. q - d \in Int
    BY <1>2
<1>6. ASSUME NEW e \in Int, e >= 1 PROVE e * w >= w
    BY <1>6
<1>7. ASSUME NEW e \in Int, e <= -1 PROVE e * w <= 0 - w
  <2>1. (0 - e) * w >= w
      BY <1>6, <1>7
  <2>. QED BY <2>1
<1>8. q - d = 0
    BY <1>3, <1>4, <1>5, <1>6, <1>7
<1>9. d = q /\ m = r
    BY <1>2, <1>3, <1>8
<1>. QED BY <1>9 DEF d, m, n

LEMMA ScreenSize ==
    /\ VGA_WIDTH \in Nat /\ VGA_WIDTH >= 1 /\ VGA_HEIGHT \in Nat /\ VGA_HEIGHT >= 2
    /\ VGA_WIDTH * VGA_HEIGHT \in Nat
    /\ VGA_WIDTH * (VGA_HEIGHT - 1) = VGA_WIDTH * VGA_HEIGHT - VGA_WIDTH
    BY SizeAssumption

\* The cell in a row and column.
LEMMA CellAt ==
    ASSUME NEW r \in Rows, NEW c \in Columns
    PROVE  /\ r * VGA_WIDTH + c \in Cells
           /\ (r * VGA_WIDTH + c) \div VGA_WIDTH = r
           /\ (r * VGA_WIDTH + c) % VGA_WIDTH = c
           /\ r * VGA_WIDTH + c < VGA_WIDTH <=> r = 0
           /\ r * VGA_WIDTH + c < VGA_WIDTH * (VGA_HEIGHT - 1) <=> r < VGA_HEIGHT - 1
<1> DEFINE w == VGA_WIDTH
           h == VGA_HEIGHT
<1>1. w \in Nat /\ w >= 1 /\ h \in Nat /\ r \in 0 .. h - 1 /\ c \in 0 .. w - 1
    BY ScreenSize DEF Rows, Columns
<1> HIDE DEF w, h
<1>2. ASSUME NEW a \in Int, NEW b \in Int, a <= b PROVE a * w <= b * w
    BY <1>1, <1>2
<1>3. r * w \in Nat /\ h * w \in Nat /\ (r + 1) * w = r * w + w /\ w * h = h * w
      /\ (h - 1) * w = h * w - w /\ w * (h - 1) = (h - 1) * w /\ 1 * w = w /\ 0 * w = 0
    BY <1>1
<1>4. (r + 1) * w <= h * w
    BY <1>1, <1>2
<1>5. r * w + c \in 0 .. w * h - 1
    BY <1>1, <1>3, <1>4
<1>6. (r * w + c) \div w = r /\ (r * w + c) % w = c
    BY <1>1, Division
<1>7. r # 0 => r * w >= w
    BY <1>1, <1>2, <1>3
<1>8. r < h - 1 => (r + 1) * w <= (h - 1) * w
    BY <1>1, <1>2
<1>9. r >= h - 1 => (h - 1) * w <= r * w
    BY <1>1, <1>2
<1>10. r * w + c < w <=> r = 0
    BY <1>1, <1>3, <1>7
<1>11. r * w + c < w * (h - 1) <=> r < h - 1
    BY <1>1, <1>3, <1>8, <1>9
<1>. QED BY <1>5, <1>6, <1>10, <1>11 DEF w, h, Cells

\* A cell is in one row and one column.
LEMMA CellHasPlace ==
    ASSUME NEW i \in Cells
    PROVE  \E r \in Rows, c \in Columns : i = r * VGA_WIDTH + c
<1> DEFINE w == VGA_WIDTH
           h == VGA_HEIGHT
           r == i \div w
           c == i % w
<1>1. w \in Nat /\ w >= 1 /\ h \in Nat /\ w * h \in Nat /\ i \in Nat /\ i < w * h
    BY ScreenSize DEF Cells
<1>2. r \in Int /\ c \in 0 .. w - 1 /\ i = w * r + c
    BY <1>1
<1> HIDE DEF w, h, r, c
<1>3. ASSUME NEW a \in Int, NEW b \in Int, a <= b PROVE w * a <= w * b
    BY <1>1, <1>3
<1>4. r < h
  <2> SUFFICES ASSUME h <= r PROVE FALSE
      BY <1>1, <1>2
  <2>1. w * h <= w * r
      BY <1>1, <1>2, <1>3
  <2>. QED BY <1>1, <1>2, <2>1
<1>5. r >= 0
  <2> SUFFICES ASSUME r <= -1 PROVE FALSE
      BY <1>1, <1>2
  <2>1. w * r <= w * (-1) /\ w * (-1) = 0 - w
      BY <1>1, <1>2, <1>3
  <2>. QED BY <1>1, <1>2, <2>1
<1>6. r \in Rows /\ c \in Columns
    BY <1>1, <1>2, <1>4, <1>5 DEF Rows, Columns, w, h
<1>7. i = r * VGA_WIDTH + c
    BY <1>1, <1>2 DEF w
<1>. QED BY <1>6, <1>7

-----------------------------------------------------------------------------
(* Where characters go on a page without an end *)

\* The position after a character.
Onward(p, c) ==
    IF c = newline \/ p.col = VGA_WIDTH - 1
    THEN [row |-> p.row + 1, col |-> 0]
    ELSE [p EXCEPT !.col = @ + 1]

\* place gives text's positions one by one, from a first one.
Flows(place, first, text) ==
    /\ place[0] = first
    /\ \A k \in 1 .. Len(text) : place[k] = Onward(place[k - 1], text[k])

LEMMA SmallestExists ==
    ASSUME NEW T, T \subseteq Nat, T # {}
    PROVE  \E x \in T : \A y \in T : x <= y
<1>1. PICK x \in T : \A y \in T : ~(<<y, x>> \in OpToRel(<, Nat))
    BY NatLessThanWellFounded, WFMin, Zenon
<1>2. ASSUME NEW y \in T PROVE x <= y
  <2> DEFINE pair == <<y, x>>
  <2>1. pair \in Nat \X Nat /\ pair[1] = y /\ pair[2] = x /\ x \in Nat /\ y \in Nat
      OBVIOUS
  <2>2. pair \notin {ss \in Nat \X Nat : ss[1] < ss[2]}
      BY <1>1 DEF OpToRel
  <2> HIDE DEF pair
  <2>. QED BY <2>1, <2>2
<1>. QED BY <1>2

\* Placed is such a sequence of positions: its recursion has a solution.
LEMMA PlacedFlows ==
    ASSUME NEW x, NEW y, NEW text \in Seq(STRING)
    PROVE  Flows(Placed(x, y, text), [row |-> y, col |-> x], text)
<1> DEFINE N == Len(text)
           first == [row |-> y, col |-> x]
           Solves(f, n) == f = [k \in 0 .. n |-> IF k = 0 THEN first ELSE Onward(f[k - 1], text[k])]
<1>1. N \in Nat
    OBVIOUS
<1>2. ASSUME NEW n \in Nat, NEW f, Solves(f, n) PROVE \E g : Solves(g, n + 1)
  <2> DEFINE last == Onward(f[n], text[n + 1])
             g == [k \in 0 .. n + 1 |-> IF k <= n THEN f[k] ELSE last]
  <2> SUFFICES Solves(g, n + 1)
      OBVIOUS
  <2> HIDE DEF last
  <2>1. ASSUME NEW k \in 0 .. n + 1
        PROVE  g[k] = IF k = 0 THEN first ELSE Onward(g[k - 1], text[k])
    <3>1. CASE k = n + 1
      <4>1. k # 0 /\ ~(k <= n) /\ k - 1 = n /\ n \in 0 .. n + 1 /\ n <= n
          BY <3>1
      <4>. QED BY <4>1, <3>1 DEF last
    <3>2. CASE k = 0
        BY <1>2, <3>2
    <3>3. CASE k # 0 /\ k <= n
      <4>1. k \in 0 .. n /\ k - 1 \in 0 .. n + 1 /\ k - 1 <= n
          BY <3>3
      <4>2. f[k] = Onward(f[k - 1], text[k])
          BY <1>2, <3>3, <4>1
      <4>. QED BY <3>3, <4>1, <4>2
    <3>. QED BY <3>1, <3>2, <3>3
  <2> HIDE DEF g
  <2>2. g = [k \in 0 .. n + 1 |-> g[k]]
      BY DEF g
  <2>. QED BY <2>1, <2>2
<1>3. \E f : Solves(f, 0)
  <2> DEFINE f == [k \in 0 .. 0 |-> first]
  <2>1. Solves(f, 0)
      OBVIOUS
  <2>. QED BY <2>1
<1>4. \E f : Solves(f, N)
  <2> DEFINE without == {n \in Nat : ~ \E f : Solves(f, n)}
  <2>1. SUFFICES ASSUME without # {} PROVE FALSE
      BY <1>1
  <2> HIDE DEF Solves
  <2>2. PICK n \in without : \A j \in without : n <= j
      BY <2>1, SmallestExists
  <2>3. n \in Nat /\ n # 0
      BY <1>3, <2>2
  <2>4. n - 1 \in Nat /\ (n - 1) + 1 = n /\ ~(n <= n - 1)
      BY <2>3
  <2>5. n - 1 \notin without
      BY <2>2, <2>4
  <2>6. PICK f : Solves(f, n - 1)
      BY <2>4, <2>5
  <2>7. \E g : Solves(g, (n - 1) + 1)
      BY <1>2, <2>4, <2>6
  <2>8. \E g : Solves(g, n)
      BY <2>4, <2>7
  <2>. QED BY <2>8
<1> DEFINE at[k \in 0 .. N] ==
               IF k = 0 THEN first
               ELSE LET p == at[k - 1] IN
                    IF text[k] = newline \/ p.col = VGA_WIDTH - 1
                    THEN [row |-> p.row + 1, col |-> 0]
                    ELSE [p EXCEPT !.col = @ + 1]
<1>5. Solves(at, N)
    BY <1>4 DEF at, Onward
<1>6. Placed(x, y, text) = at
    BY DEF Placed, at
<1> HIDE DEF at, first
<1>7. \A k \in 0 .. N : at[k] = IF k = 0 THEN first ELSE Onward(at[k - 1], text[k])
    BY <1>5
<1>8. at[0] = first
    BY <1>1, <1>7
<1>9. \A k \in 1 .. N : at[k] = Onward(at[k - 1], text[k])
    BY <1>1, <1>7
<1>. QED BY <1>6, <1>8, <1>9 DEF Flows, first

\* One place comes before another on the page.
Before(p, q) ==
    \/ p.row < q.row
    \/ p.row = q.row /\ p.col < q.col

\* No two characters come to the same place, and nothing is below the last.
Onwards(place, text) ==
    \A k \in 0 .. Len(text) :
        /\ place[k] \in [row : Nat, col : Columns]
        /\ \A j \in 0 .. k - 1 : Before(place[j], place[k])

LEMMA FlowsOnwards ==
    ASSUME NEW place, NEW first \in [row : Nat, col : Columns], NEW text \in Seq(STRING),
           Flows(place, first, text)
    PROVE  Onwards(place, text)
<1> DEFINE N == Len(text)
           Fine(k) == /\ place[k] \in [row : Nat, col : Columns]
                      /\ \A j \in 0 .. k - 1 : Before(place[j], place[k])
           wrong == {k \in 0 .. N : ~Fine(k)}
<1>1. N \in Nat
    OBVIOUS
<1>2. Fine(0)
    BY DEF Flows
<1>3. ASSUME NEW k \in Nat, k < N, Fine(k), \A j \in 0 .. k : place[j] \in [row : Nat, col : Columns]
      PROVE  Fine(k + 1)
  <2>1. k + 1 \in 1 .. N /\ (k + 1) - 1 = k
      BY <1>1, <1>3
  <2>2. place[k + 1] = Onward(place[k], text[k + 1])
      BY <2>1 DEF Flows
  <2>3. PICK r \in Nat, c \in Columns : place[k] = [row |-> r, col |-> c]
      BY <1>3
  <2>4. /\ place[k + 1] \in [row : Nat, col : Columns]
        /\ Before(place[k], place[k + 1])
    <3>1. CASE text[k + 1] = newline \/ c = VGA_WIDTH - 1
      <4>1. place[k + 1] = [row |-> r + 1, col |-> 0]
          BY <2>2, <2>3, <3>1 DEF Onward
      <4>2. 0 \in Columns /\ r + 1 \in Nat /\ r < r + 1
          BY ScreenSize DEF Columns
      <4>3. place[k + 1] \in [row : Nat, col : Columns]
          BY <4>1, <4>2
      <4>4. place[k].row = r /\ place[k + 1].row = r + 1
          BY <2>3, <4>1
      <4>5. Before(place[k], place[k + 1])
          BY <2>3, <4>2, <4>4 DEF Before
      <4>. QED BY <4>3, <4>5
    <3>2. CASE ~(text[k + 1] = newline \/ c = VGA_WIDTH - 1)
      <4>1. place[k + 1] = [row |-> r, col |-> c + 1]
          BY <2>2, <2>3, <3>2 DEF Onward
      <4>2. c + 1 \in Columns /\ c < c + 1
          BY <3>2, ScreenSize DEF Columns
      <4>. QED BY <2>3, <4>1, <4>2 DEF Before
    <3>. QED BY <3>1, <3>2
  <2>5. ASSUME NEW j \in 0 .. k PROVE Before(place[j], place[k + 1])
    <3>1. CASE j = k
        BY <2>4, <3>1
    <3>2. CASE j # k
      <4>1. Before(place[j], place[k])
          BY <1>3, <3>2
      <4>2. PICK a \in Nat, b \in Columns : place[j] = [row |-> a, col |-> b]
          BY <1>3
      <4>3. PICK d \in Nat, e \in Columns : place[k + 1] = [row |-> d, col |-> e]
          BY <2>4
      <4>4. b \in Nat /\ c \in Nat /\ e \in Nat
          BY DEF Columns
      <4>. QED BY <2>3, <2>4, <4>1, <4>2, <4>3, <4>4 DEF Before
    <3>. QED BY <3>1, <3>2
  <2>. QED BY <2>4, <2>5
<1>4. SUFFICES ASSUME wrong # {} PROVE FALSE
    BY DEF Onwards
<1> HIDE DEF Fine
<1>5. PICK k \in wrong : \A j \in wrong : k <= j
  <2>1. wrong \subseteq Nat
      BY <1>1
  <2> HIDE DEF wrong
  <2>. QED BY <1>4, <2>1, SmallestExists
<1>6. k \in 0 .. N /\ ~Fine(k) /\ k # 0
    BY <1>2
<1>7. k - 1 \in Nat /\ k - 1 < N /\ (k - 1) + 1 = k
    BY <1>1, <1>6
<1>8. \A j \in 0 .. k - 1 : Fine(j)
  <2> TAKE j \in 0 .. k - 1
  <2>1. j \in 0 .. N /\ ~(k <= j)
      BY <1>1, <1>6
  <2>. QED BY <1>5, <2>1
<1>9. Fine(k - 1) /\ \A j \in 0 .. k - 1 : place[j] \in [row : Nat, col : Columns]
    BY <1>7, <1>8 DEF Fine
<1>10. Fine((k - 1) + 1)
    BY <1>3, <1>7, <1>9
<1>. QED BY <1>6, <1>7, <1>10

-----------------------------------------------------------------------------
(* What a page and the part of it on the screen show *)

Characters == STRING \cup {blank}

\* Which of the first k characters of text are shown in a row and column of the page,
\* and what that page shows there.
Here(place, text, k, row, col) ==
    {j \in 1 .. k : place[j - 1] = [row |-> row, col |-> col] /\ text[j] # newline}

AnyOf(S) == CHOOSE j \in S : TRUE

Page(old, place, text, k, row, col) ==
    LET here == Here(place, text, k, row, col)
    IN  IF here # {} THEN text[AnyOf(here)]
        ELSE IF row < VGA_HEIGHT THEN old[row * VGA_WIDTH + col] ELSE blank

\* How many lines are gone when the last one is row, and the row of the page in a
\* row of the screen.
Gone(row) == IF row >= VGA_HEIGHT THEN row - VGA_HEIGHT + 1 ELSE 0
PageRow(row, gone) == IF row = 0 THEN 0 ELSE row + gone

Window(old, place, text, k, gone) ==
    [i \in Cells |->
        Page(old, place, text, k, PageRow(i \div VGA_WIDTH, gone), i % VGA_WIDTH)]

\* What LaidOut says, in these terms.
LEMMA LaidOutIs ==
    ASSUME NEW old, NEW x, NEW y, NEW text
    PROVE  LET place == Placed(x, y, text)
               end == place[Len(text)]
               gone == Gone(end.row)
           IN  LaidOut(old, x, y, text) =
                   [screen |-> Window(old, place, text, Len(text), gone),
                    row |-> end.row - gone, col |-> end.col]
    BY Zenon DEF LaidOut, Window, Page, Here, AnyOf, PageRow, Gone

LEMMA WindowAt ==
    ASSUME NEW old, NEW place, NEW text, NEW k, NEW gone, NEW r \in Rows, NEW c \in Columns
    PROVE  Window(old, place, text, k, gone)[r * VGA_WIDTH + c]
               = Page(old, place, text, k, PageRow(r, gone), c)
    BY CellAt DEF Window

\* A newline shows nothing.
LEMMA NewlineShowsNothing ==
    ASSUME NEW old, NEW place, NEW text, NEW k \in Nat, NEW gone, text[k + 1] = newline
    PROVE  Window(old, place, text, k + 1, gone) = Window(old, place, text, k, gone)
<1>1. ASSUME NEW row, NEW col
      PROVE  Here(place, text, k + 1, row, col) = Here(place, text, k, row, col)
  <2>1. \A j \in 1 .. k + 1 : j \in 1 .. k \/ j = k + 1
      OBVIOUS
  <2>2. 1 .. k \subseteq 1 .. k + 1
      OBVIOUS
  <2>. QED BY <2>1, <2>2 DEF Here
<1>2. ASSUME NEW row, NEW col
      PROVE  Page(old, place, text, k + 1, row, col) = Page(old, place, text, k, row, col)
    BY <1>1, Zenon DEF Page
<1>. QED BY <1>2, Zenon DEF Window

\* Any other character shows in its place, and nowhere else.
LEMMA CharacterShows ==
    ASSUME NEW old, NEW place, NEW text \in Seq(STRING), NEW k \in Nat, k + 1 <= Len(text),
           Onwards(place, text), text[k + 1] # newline, NEW row, NEW col
    PROVE  Page(old, place, text, k + 1, row, col) =
               IF place[k] = [row |-> row, col |-> col] THEN text[k + 1]
               ELSE Page(old, place, text, k, row, col)
<1> DEFINE here(n) == Here(place, text, n, row, col)
<1>1. Len(text) \in Nat /\ k \in 0 .. Len(text) /\ k + 1 \in 1 .. k + 1 /\ (k + 1) - 1 = k
    OBVIOUS
<1>2. CASE place[k] = [row |-> row, col |-> col]
  <2>1. k + 1 \in here(k + 1)
      BY <1>1, <1>2 DEF Here
  <2>2. ASSUME NEW j \in here(k + 1), j # k + 1 PROVE FALSE
    <3>1. j \in 1 .. k /\ j - 1 \in 0 .. k - 1
        BY <2>2 DEF Here
    <3>2. Before(place[j - 1], place[k]) /\ place[j - 1] = place[k]
          /\ place[k] \in [row : Nat, col : Columns]
        BY <1>1, <1>2, <2>2, <3>1 DEF Onwards, Here
    <3>3. place[k].row \in Nat /\ place[k].col \in Nat
        BY <3>2 DEF Columns
    <3>. QED BY <3>2, <3>3 DEF Before
  <2>3. here(k + 1) = {k + 1}
      BY <2>1, <2>2
  <2>4. AnyOf({k + 1}) = k + 1
      BY DEF AnyOf
  <2>. QED BY <1>2, <2>3, <2>4, Zenon DEF Page
<1>3. CASE place[k] # [row |-> row, col |-> col]
  <2>1. here(k + 1) = here(k)
    <3>1. \A j \in 1 .. k + 1 : j \in 1 .. k \/ j = k + 1
        OBVIOUS
    <3>2. 1 .. k \subseteq 1 .. k + 1
        OBVIOUS
    <3>. QED BY <1>1, <1>3, <3>1, <3>2 DEF Here
  <2>. QED BY <1>3, <2>1, Zenon DEF Page
<1>. QED BY <1>2, <1>3

\* Below the place of the last character the page is blank.
LEMMA BlankBelow ==
    ASSUME NEW old, NEW place, NEW text \in Seq(STRING), NEW k \in Nat, k + 1 <= Len(text),
           Onwards(place, text),
           NEW row \in Nat, NEW col, row > place[k].row, row >= VGA_HEIGHT
    PROVE  Page(old, place, text, k + 1, row, col) = blank
<1> DEFINE here == Here(place, text, k + 1, row, col)
<1>1. Len(text) \in Nat /\ k \in 0 .. Len(text)
    OBVIOUS
<1>2. ASSUME NEW j \in here PROVE FALSE
  <2>1. j - 1 = k \/ j - 1 \in 0 .. k - 1
      BY DEF Here
  <2>2. j - 1 = k \/ Before(place[j - 1], place[k])
      BY <1>1, <2>1 DEF Onwards
  <2>3. place[j - 1].row = row /\ place[k].row \in Nat
      BY <1>1 DEF Onwards, Here
  <2>. QED BY <2>2, <2>3 DEF Before
<1>3. here = {}
    BY <1>2
<1>4. ~(row < VGA_HEIGHT)
    BY ScreenSize
<1>. QED BY <1>3, <1>4, Zenon DEF Page

\* The row of the screen in which line row of the page is, and back.
LEMMA LastLines ==
    ASSUME NEW row \in Nat
    PROVE  /\ Gone(row) \in Nat /\ row - Gone(row) \in Rows
           /\ PageRow(row - Gone(row), Gone(row)) = row
           /\ \A r \in Rows : PageRow(r, Gone(row)) = row => r = row - Gone(row)
    BY ScreenSize DEF Gone, PageRow, Rows

\* What becomes of a screen: a character is written into a cell; terminal_scroll.
Written(window, cell, c) == [window EXCEPT ![cell] = c]
Scrolled(window) ==
    [i \in Cells |->
        IF i < VGA_WIDTH THEN window[i]
        ELSE IF i < VGA_WIDTH * (VGA_HEIGHT - 1) THEN window[i + VGA_WIDTH] ELSE blank]

\* A character is written into its place.
LEMMA WindowTakesCharacter ==
    ASSUME NEW old, NEW place, NEW text \in Seq(STRING), NEW k \in Nat, k + 1 <= Len(text),
           Onwards(place, text), text[k + 1] # newline
    PROVE  LET gone == Gone(place[k].row)
               cell == (place[k].row - gone) * VGA_WIDTH + place[k].col
           IN  /\ cell \in Cells
               /\ Window(old, place, text, k + 1, gone)
                      = Written(Window(old, place, text, k, gone), cell, text[k + 1])
<1> DEFINE gone == Gone(place[k].row)
           row == place[k].row - gone
           col == place[k].col
           cell == row * VGA_WIDTH + col
           before == Window(old, place, text, k, gone)
           after == Window(old, place, text, k + 1, gone)
<1>1. place[k] \in [row : Nat, col : Columns]
  <2>1. k \in 0 .. Len(text)
      OBVIOUS
  <2>. QED BY <2>1 DEF Onwards
<1>2. /\ row \in Rows /\ col \in Columns /\ gone \in Nat
      /\ PageRow(row, gone) = place[k].row
      /\ \A r \in Rows : PageRow(r, gone) = place[k].row => r = row
  <2>1. place[k].row \in Nat /\ place[k].col \in Columns
      BY <1>1
  <2>. QED BY <2>1, LastLines
<1>3. cell \in Cells
    BY <1>2, CellAt
<1>4. place[k] = [row |-> place[k].row, col |-> col]
    BY <1>1
<1> HIDE DEF gone, row, col
<1>5. ASSUME NEW r \in Rows, NEW c \in Columns
      PROVE  /\ r * VGA_WIDTH + c = cell <=> r = row /\ c = col
             /\ after[r * VGA_WIDTH + c] = IF r = row /\ c = col THEN text[k + 1]
                                           ELSE before[r * VGA_WIDTH + c]
  <2>1. r * VGA_WIDTH + c = cell <=> r = row /\ c = col
    <3>1. (r * VGA_WIDTH + c) \div VGA_WIDTH = r /\ (r * VGA_WIDTH + c) % VGA_WIDTH = c
        BY CellAt
    <3>2. cell \div VGA_WIDTH = row /\ cell % VGA_WIDTH = col
        BY <1>2, CellAt
    <3> HIDE DEF cell
    <3>3. r = row /\ c = col => r * VGA_WIDTH + c = cell
        BY DEF cell
    <3>. QED BY <3>1, <3>2, <3>3
  <2>2. place[k] = [row |-> PageRow(r, gone), col |-> c] <=> r = row /\ c = col
    <3>1. place[k] = [row |-> PageRow(r, gone), col |-> c]
              <=> place[k].row = PageRow(r, gone) /\ col = c
        BY <1>4
    <3>. QED BY <3>1, <1>2
  <2>3. after[r * VGA_WIDTH + c] = Page(old, place, text, k + 1, PageRow(r, gone), c)
        /\ before[r * VGA_WIDTH + c] = Page(old, place, text, k, PageRow(r, gone), c)
      BY WindowAt
  <2>. QED BY <2>1, <2>2, <2>3, CharacterShows
<1>6. ASSUME NEW i \in Cells PROVE after[i] = IF i = cell THEN text[k + 1] ELSE before[i]
  <2>1. PICK r \in Rows, c \in Columns : i = r * VGA_WIDTH + c
      BY CellHasPlace
  <2> HIDE DEF cell, before, after
  <2>. QED BY <1>5, <2>1
<1>7. DOMAIN before = Cells /\ before = [i \in Cells |-> before[i]]
      /\ after = [i \in Cells |-> after[i]]
    BY DEF Window
<1> HIDE DEF cell, before, after
<1>8. [before EXCEPT ![cell] = text[k + 1]] = after
    BY <1>3, <1>6, <1>7
<1>. QED BY <1>3, <1>8 DEF cell, before, after, gone, row, col, Written

\* Once the page has one line too many terminal_scroll moves the window down by one.
LEMMA WindowScrolls ==
    ASSUME NEW old, NEW place, NEW text \in Seq(STRING), NEW k \in Nat, k + 1 <= Len(text),
           Onwards(place, text)
    PROVE  LET gone == Gone(place[k].row)
           IN  place[k].row - gone + 1 = VGA_HEIGHT =>
                   Window(old, place, text, k + 1, gone + 1)
                       = Scrolled(Window(old, place, text, k + 1, gone))
<1> DEFINE gone == Gone(place[k].row)
<1> SUFFICES ASSUME place[k].row - gone + 1 = VGA_HEIGHT
             PROVE  Window(old, place, text, k + 1, gone + 1)
                        = Scrolled(Window(old, place, text, k + 1, gone))
    OBVIOUS
<1> DEFINE window == Window(old, place, text, k + 1, gone)
           scrolled == Scrolled(window)
           after == Window(old, place, text, k + 1, gone + 1)
<1>1. place[k].row \in Nat /\ gone \in Nat
  <2>1. k \in 0 .. Len(text)
      OBVIOUS
  <2>2. place[k].row \in Nat
      BY <2>1 DEF Onwards
  <2>. QED BY <2>2, LastLines
<1> HIDE DEF gone
<1>2. ASSUME NEW r \in Rows, NEW c \in Columns
      PROVE  scrolled[r * VGA_WIDTH + c] = after[r * VGA_WIDTH + c]
  <2>1. r * VGA_WIDTH + c \in Cells
        /\ (r * VGA_WIDTH + c < VGA_WIDTH <=> r = 0)
        /\ (r * VGA_WIDTH + c < VGA_WIDTH * (VGA_HEIGHT - 1) <=> r < VGA_HEIGHT - 1)
      BY CellAt
  <2>2. after[r * VGA_WIDTH + c] = Page(old, place, text, k + 1, PageRow(r, gone + 1), c)
      BY WindowAt
  <2>3. window[r * VGA_WIDTH + c] = Page(old, place, text, k + 1, PageRow(r, gone), c)
      BY WindowAt
  <2> HIDE DEF window
  <2>4. r \in Nat /\ r < VGA_HEIGHT /\ VGA_HEIGHT \in Nat /\ VGA_HEIGHT >= 2
      BY ScreenSize DEF Rows
  <2> HIDE DEF after
  <2>5. CASE r = 0
    <3>1. PageRow(r, gone + 1) = PageRow(r, gone)
        BY <2>5 DEF PageRow
    <3>. QED BY <2>1, <2>2, <2>3, <2>5, <3>1 DEF Scrolled
  <2>6. CASE r # 0 /\ r < VGA_HEIGHT - 1
    <3>1. r + 1 \in Rows
        BY <2>4, <2>6 DEF Rows
    <3>2. window[(r + 1) * VGA_WIDTH + c]
              = Page(old, place, text, k + 1, PageRow(r + 1, gone), c)
        BY <3>1, WindowAt DEF window
    <3>3. (r + 1) * VGA_WIDTH + c = r * VGA_WIDTH + c + VGA_WIDTH
        BY <2>4, ScreenSize DEF Columns
    <3>4. PageRow(r, gone + 1) = PageRow(r + 1, gone)
        BY <1>1, <2>4, <2>6 DEF PageRow
    <3>5. scrolled[r * VGA_WIDTH + c] = window[r * VGA_WIDTH + c + VGA_WIDTH]
        BY <2>1, <2>6 DEF Scrolled
    <3>. QED BY <2>2, <3>2, <3>3, <3>4, <3>5
  <2>7. CASE r # 0 /\ ~(r < VGA_HEIGHT - 1)
    <3>1. scrolled[r * VGA_WIDTH + c] = blank
        BY <2>1, <2>7 DEF Scrolled
    <3>2. PageRow(r, gone + 1) = place[k].row + 1
      <4>1. r = VGA_HEIGHT - 1 /\ PageRow(r, gone + 1) = r + (gone + 1)
          BY <2>4, <2>7 DEF PageRow
      <4>2. place[k].row - gone + 1 = VGA_HEIGHT
          OBVIOUS
      <4>3. ASSUME NEW row \in Nat, NEW g \in Nat, row - g + 1 = VGA_HEIGHT
            PROVE  (VGA_HEIGHT - 1) + (g + 1) = row + 1
          BY <2>4, <4>3
      <4>. QED BY <1>1, <4>1, <4>2, <4>3
    <3>3. place[k].row + 1 \in Nat /\ place[k].row + 1 > place[k].row
          /\ place[k].row + 1 >= VGA_HEIGHT
        BY <1>1, <2>4
    <3>4. Page(old, place, text, k + 1, place[k].row + 1, c) = blank
        BY <3>3, BlankBelow
    <3>. QED BY <2>2, <3>1, <3>2, <3>4
  <2>. QED BY <2>5, <2>6, <2>7
<1>3. ASSUME NEW i \in Cells PROVE scrolled[i] = after[i]
  <2>1. PICK r \in Rows, c \in Columns : i = r * VGA_WIDTH + c
      BY CellHasPlace
  <2> HIDE DEF scrolled, after
  <2>. QED BY <1>2, <2>1
<1>4. scrolled = [i \in Cells |-> scrolled[i]] /\ after = [i \in Cells |-> after[i]]
    BY DEF Window, Scrolled
<1> HIDE DEF scrolled, after
<1>5. scrolled = after
    BY <1>3, <1>4
<1>. QED BY <1>5 DEF scrolled, after, window

\* Before the first character the window shows what the screen did.
LEMMA WindowAtFirst ==
    ASSUME NEW old \in [Cells -> Characters], NEW place, NEW text
    PROVE  Window(old, place, text, 0, 0) = old
<1>1. ASSUME NEW row, NEW col PROVE Here(place, text, 0, row, col) = {}
  <2>1. 1 .. 0 = {}
      OBVIOUS
  <2>. QED BY <2>1 DEF Here
<1>2. ASSUME NEW i \in Cells PROVE Window(old, place, text, 0, 0)[i] = old[i]
  <2>1. PICK r \in Rows, c \in Columns : i = r * VGA_WIDTH + c
      BY CellHasPlace
  <2>2. Window(old, place, text, 0, 0)[i] = Page(old, place, text, 0, PageRow(r, 0), c)
      BY <2>1, WindowAt
  <2>3. PageRow(r, 0) = r /\ r < VGA_HEIGHT
      BY ScreenSize DEF PageRow, Rows
  <2>. QED BY <1>1, <2>1, <2>2, <2>3 DEF Page
<1>3. Window(old, place, text, 0, 0) = [i \in Cells |-> Window(old, place, text, 0, 0)[i]]
    BY DEF Window
<1>. QED BY <1>2, <1>3

-----------------------------------------------------------------------------
(* How far a call that nobody prints beside has come *)

Moving == {"get_x", "get_y", "pos_col", "pos_row"}
Restoring == {"restore_col", "restore_row"}
Painting == {"load_cell", "store_cell"}
AtEntry == {"char", "load_entry", "store_entry"}
AtColumn == {"load_col", "store_col", "test_col", "reset_col"}
AtRow == {"load_row", "store_row", "test_row", "scroll"}
AtScroll == {"scroll_col", "load_back", "store_back"}

\* Character c goes to a row and column of the screen: what the screen shows before and
\* after that, and after a scroll if there is one.
Turn(row, col, c, before, after, scrolled) ==
    /\ row \in Rows /\ col \in Columns
    /\ c = newline => after = before
    /\ c # newline => /\ row * VGA_WIDTH + col \in Cells
                      /\ after = Written(before, row * VGA_WIDTH + col, c)
    /\ row + 1 = VGA_HEIGHT => scrolled = Scrolled(after)

\* Thread t is about to put it there, or has done so in part.
Stage(t, row, col, c, before, after, scrolled) ==
    /\ pc[t] \in AtEntry =>
           screen = before /\ terminal_pos_row = row /\ terminal_pos_col = col
    /\ pc[t] \in {"load_entry", "store_entry"} => reg[t].row = row /\ c # newline
    /\ pc[t] = "store_entry" => reg[t].col = col
    /\ pc[t] \in AtColumn => screen = after /\ terminal_pos_row = row /\ c # newline
    /\ pc[t] \in {"load_col", "store_col"} => terminal_pos_col = col
    /\ pc[t] = "store_col" => reg[t].col = col
    /\ pc[t] = "test_col" => terminal_pos_col = col + 1
    /\ pc[t] = "reset_col" => col = VGA_WIDTH - 1
    /\ pc[t] \in AtRow => screen = after
    /\ pc[t] \in AtRow \cup AtScroll =>
           terminal_pos_col = 0 /\ (c = newline \/ col = VGA_WIDTH - 1)
    /\ pc[t] \in {"load_row", "store_row"} => terminal_pos_row = row
    /\ pc[t] = "store_row" => reg[t].row = row
    /\ pc[t] = "test_row" => terminal_pos_row = row + 1
    /\ pc[t] \in {"scroll"} \cup AtScroll => terminal_pos_row = VGA_HEIGHT /\ row + 1 = VGA_HEIGHT
    /\ pc[t] \in AtScroll => screen = scrolled
    /\ pc[t] = "store_back" => reg[t].row = VGA_HEIGHT

\* The rest of a text after its first k characters.
Remains(rest, text, k) ==
    /\ rest \in Seq(STRING) /\ Len(rest) = Len(text) - k
    /\ \A j \in 1 .. Len(rest) : rest[j] = text[k + j]

\* Thread t is putting text on the page that began as old: k characters are done.
Job(t, old, place, text, k) ==
    /\ old \in [Cells -> Characters] /\ text \in Seq(STRING) /\ k \in 0 .. Len(text)
    /\ Onwards(place, text)
    /\ \A j \in 1 .. Len(text) : place[j] = Onward(place[j - 1], text[j])
    /\ Remains(job[t].text, text, k)
    /\ due = [screen |-> due.screen, row |-> due.row, col |-> due.col]
    /\ LET end == place[Len(text)]
           gone == Gone(end.row)
       IN  /\ due.screen = Window(old, place, text, Len(text), gone)
           /\ ~job[t].at => due.row = end.row - gone /\ due.col = end.col

\* print_at's own part: it has remembered where the position was, and will put it back.
PutsBack(t, old, place, k) ==
    /\ pc[t] \in Moving \cup Restoring => job[t].at
    /\ pc[t] \in Moving => /\ k = 0 /\ screen = old
                           /\ place[0] = [row |-> job[t].y, col |-> job[t].x]
    /\ pc[t] \in {"get_x", "get_y"} => terminal_pos_col = due.col /\ terminal_pos_row = due.row
    /\ pc[t] = "pos_row" => terminal_pos_col = job[t].x
    /\ job[t].at /\ pc[t] # "get_x" => saved[t].x = due.col
    /\ job[t].at /\ pc[t] \notin {"get_x", "get_y"} => saved[t].y = due.row
    /\ pc[t] \in Restoring => screen = due.screen
    /\ pc[t] = "restore_row" => terminal_pos_col = due.col

Prints(t, old, place, text, k) ==
    /\ Job(t, old, place, text, k)
    /\ PutsBack(t, old, place, k)
    /\ LET p == place[k]
           gone == Gone(p.row)
       IN  Stage(t, p.row - gone, p.col, text[k + 1], Window(old, place, text, k, gone),
                 Window(old, place, text, k + 1, gone), Window(old, place, text, k + 1, gone + 1))

Shown == due = [screen |-> screen, row |-> terminal_pos_row, col |-> terminal_pos_col]

\* terminal_setcolor writes back what is there.
Paints(t) == Shown /\ (pc[t] = "store_cell" => paint[t].char = screen[paint[t].cell])

Progress(t) ==
    IF pc[t] = "idle" THEN Shown
    ELSE IF pc[t] \in Painting THEN Paints(t)
    ELSE \E old, place, text, k : Prints(t, old, place, text, k)

\* Typed: what TypeOK leaves out.
Typed == /\ screen \in [Cells -> Characters]
         /\ paint \in [Threads -> [cell : Cells, char : Characters]]

\* The invariant: while something is due at most one thread is in a call, and it is on
\* the way to show it.
ShowInv ==
    /\ Typed
    /\ due # NULL => /\ \A t, u \in Threads : pc[t] # "idle" /\ pc[u] # "idle" => t = u
                     /\ \A t \in Threads : pc[t] # "idle" => Progress(t)
                     /\ (\A t \in Threads : pc[t] = "idle") => Shown

-----------------------------------------------------------------------------
LEMMA TurnHolds ==
    ASSUME NEW t \in Threads, NEW old, NEW place, NEW text, NEW k, Job(t, old, place, text, k),
           k < Len(text)
    PROVE  LET p == place[k]
               gone == Gone(p.row)
           IN  Turn(p.row - gone, p.col, text[k + 1], Window(old, place, text, k, gone),
                    Window(old, place, text, k + 1, gone), Window(old, place, text, k + 1, gone + 1))
<1> DEFINE gone == Gone(place[k].row)
           after == Window(old, place, text, k + 1, gone)
<1>1. text \in Seq(STRING) /\ k \in Nat /\ k + 1 <= Len(text) /\ Onwards(place, text)
      /\ k \in 0 .. Len(text)
    BY DEF Job
<1>2. place[k].row \in Nat /\ place[k].col \in Columns
    BY <1>1 DEF Onwards
<1>3. place[k].row - gone \in Rows
    BY <1>2, LastLines
<1>4. text[k + 1] = newline => after = Window(old, place, text, k, gone)
    BY <1>1, NewlineShowsNothing
<1>5. text[k + 1] # newline =>
          /\ (place[k].row - gone) * VGA_WIDTH + place[k].col \in Cells
          /\ after = Written(Window(old, place, text, k, gone),
                             (place[k].row - gone) * VGA_WIDTH + place[k].col, text[k + 1])
    BY <1>1, WindowTakesCharacter
<1>6. ASSUME place[k].row - gone + 1 = VGA_HEIGHT
      PROVE  Window(old, place, text, k + 1, gone + 1) = Scrolled(after)
    BY <1>1, <1>6, WindowScrolls
<1> HIDE DEF gone, after
<1>. QED BY <1>2, <1>3, <1>4, <1>5, <1>6 DEF Turn, gone, after

\* The line after the last takes its place, or scrolls the window by one line.
LEMMA NextLine ==
    ASSUME NEW row \in Nat
    PROVE  /\ row - Gone(row) + 1 < VGA_HEIGHT => Gone(row + 1) = Gone(row)
           /\ row - Gone(row) + 1 = VGA_HEIGHT => Gone(row + 1) = Gone(row) + 1
    BY ScreenSize DEF Gone

LEMMA RemainsHead ==
    ASSUME NEW rest, NEW text \in Seq(STRING), NEW k \in 0 .. Len(text), Remains(rest, text, k)
    PROVE  /\ rest = <<>> <=> k = Len(text)
           /\ rest # <<>> => /\ k < Len(text) /\ Head(rest) = text[k + 1]
                             /\ Remains(Tail(rest), text, k + 1)
<1>1. /\ rest \in Seq(STRING) /\ Len(rest) = Len(text) - k /\ Len(rest) \in Nat
      /\ \A j \in 1 .. Len(rest) : rest[j] = text[k + j]
    BY DEF Remains
<1>2. rest = <<>> <=> Len(rest) = 0
    BY <1>1, EmptySeq
<1>3. rest = <<>> <=> k = Len(text)
    BY <1>1, <1>2
<1>4. ASSUME rest # <<>>
      PROVE  k < Len(text) /\ Head(rest) = text[k + 1] /\ Remains(Tail(rest), text, k + 1)
  <2>1. k < Len(text) /\ Len(rest) >= 1
      BY <1>1, <1>2, <1>4
  <2>2. Head(rest) = rest[1] /\ rest[1] = text[k + 1]
      BY <1>1, <2>1
  <2>3. /\ Tail(rest) \in Seq(STRING) /\ Len(Tail(rest)) = Len(rest) - 1
        /\ \A j \in 1 .. Len(rest) - 1 : Tail(rest)[j] = rest[j + 1]
      BY <1>1, <1>4, HeadTailProperties
  <2>4. ASSUME NEW j \in 1 .. Len(Tail(rest)) PROVE Tail(rest)[j] = text[(k + 1) + j]
    <3>1. j \in 1 .. Len(rest) - 1 /\ j + 1 \in 1 .. Len(rest) /\ k + (j + 1) = (k + 1) + j
        BY <1>1, <2>3
    <3>2. Tail(rest)[j] = rest[j + 1] /\ rest[j + 1] = text[k + (j + 1)]
        BY <1>1, <2>3, <3>1
    <3>. QED BY <3>1, <3>2
  <2>5. Len(Tail(rest)) = Len(text) - (k + 1)
      BY <1>1, <2>3
  <2>6. Remains(Tail(rest), text, k + 1)
      BY <2>3, <2>4, <2>5 DEF Remains
  <2>. QED BY <2>1, <2>2, <2>6
<1>. QED BY <1>3, <1>4

\* The steps of putting one character, up to the last.
WithinCharacter(t) ==
    \/ PutNewline(t) \/ PutEntry(t) \/ LoadEntry(t) \/ StoreEntry(t)
    \/ ReadCol(t) \/ StoreCol(t) \/ ColIsFull(t) \/ ResetCol(t)
    \/ ReadRow(t) \/ StoreRow(t) \/ RowIsFull(t)
    \/ Scroll(t) \/ ScrollCol(t) \/ LoadBack(t)

LEMMA StageKeeps ==
    ASSUME IInv, NEW t \in Threads, WithinCharacter(t),
           NEW row, NEW col, NEW c, NEW before, NEW after, NEW scrolled,
           Turn(row, col, c, before, after, scrolled),
           Stage(t, row, col, c, before, after, scrolled),
           Head(job[t].text) = c
    PROVE  Stage(t, row, col, c, before, after, scrolled)'
<1>1. /\ row \in Nat /\ row < VGA_HEIGHT /\ col \in Nat /\ col < VGA_WIDTH
      /\ VGA_WIDTH \in Nat /\ VGA_HEIGHT \in Nat
    BY ScreenSize DEF Turn, Rows, Columns
<1>2. (row + 1) % WordSize = row + 1 /\ (col + 1) % WordSize = col + 1
  <2>1. row + 1 \in 0 .. WordSize - 1 /\ col + 1 \in 0 .. WordSize - 1
      BY <1>1, SizeAssumption
  <2>. QED BY <2>1, WordsWrap
<1>3. /\ terminal_pos_row \in Nat /\ terminal_pos_col \in Nat
      /\ reg \in [Threads -> [row : 0 .. WordSize - 1, col : 0 .. WordSize - 1]]
    BY SizeAssumption DEF IInv, TypeOK
<1>4. CASE PutNewline(t)
  <2>1. /\ pc[t] = "char" /\ pc'[t] = "load_row" /\ c = newline
        /\ terminal_pos_col' = 0 /\ UNCHANGED <<terminal_pos_row, screen, reg>>
      BY <1>4, StepMoves DEF PutNewline, SetCol, Places, locals
  <2>. QED BY <2>1 DEF Turn, Stage, AtEntry, AtColumn, AtRow, AtScroll
<1>5. CASE PutEntry(t)
  <2>1. /\ pc[t] = "char" /\ pc'[t] = "load_entry" /\ c # newline
        /\ UNCHANGED <<terminal_pos_col, terminal_pos_row, screen>>
        /\ reg'[t].row = terminal_pos_row
      BY <1>3, <1>5, StepMoves DEF PutEntry, LoadRow, Places, position
  <2>. QED BY <2>1 DEF Stage, AtEntry, AtColumn, AtRow, AtScroll
<1>6. CASE LoadEntry(t)
  <2>1. /\ pc[t] = "load_entry" /\ pc'[t] = "store_entry"
        /\ UNCHANGED <<terminal_pos_col, terminal_pos_row, screen>>
        /\ reg'[t].row = reg[t].row /\ reg'[t].col = terminal_pos_col
      BY <1>3, <1>6, StepMoves DEF LoadEntry, LoadCol, Places, position
  <2>. QED BY <2>1 DEF Stage, AtEntry, AtColumn, AtRow, AtScroll
<1>7. CASE StoreEntry(t)
  <2>1. /\ pc[t] = "store_entry" /\ pc'[t] = "load_col"
        /\ UNCHANGED <<terminal_pos_col, terminal_pos_row>>
        /\ reg[t].row * VGA_WIDTH + reg[t].col \in Cells =>
               screen' = Written(screen, reg[t].row * VGA_WIDTH + reg[t].col, c)
      BY <1>7, StepMoves DEF StoreEntry, Places, position, Written
  <2>2. c # newline /\ screen = before /\ reg[t].row = row /\ reg[t].col = col
        /\ terminal_pos_row = row /\ terminal_pos_col = col
      BY <2>1 DEF Stage, AtEntry
  <2>3. screen' = after
      BY <2>1, <2>2 DEF Turn
  <2>. QED BY <2>1, <2>2, <2>3 DEF Stage, AtEntry, AtColumn, AtRow, AtScroll
<1>8. CASE ReadCol(t)
  <2>1. /\ pc[t] = "load_col" /\ pc'[t] = "store_col"
        /\ UNCHANGED <<terminal_pos_col, terminal_pos_row, screen>>
        /\ reg'[t].col = terminal_pos_col
      BY <1>3, <1>8, StepMoves DEF ReadCol, LoadCol, Places, position
  <2>. QED BY <2>1 DEF Stage, AtEntry, AtColumn, AtRow, AtScroll
<1>9. CASE StoreCol(t)
  <2>1. /\ pc[t] = "store_col" /\ pc'[t] = "test_col"
        /\ UNCHANGED <<terminal_pos_row, screen>>
        /\ terminal_pos_col' = (reg[t].col + 1) % WordSize
      BY <1>9, StepMoves DEF StoreCol, SetCol, Places
  <2>. QED BY <1>2, <2>1 DEF Stage, AtEntry, AtColumn, AtRow, AtScroll
<1>10. CASE ColIsFull(t)
  <2>1. /\ pc[t] = "test_col" /\ pc'[t] = "reset_col" /\ terminal_pos_col >= VGA_WIDTH
        /\ UNCHANGED <<terminal_pos_col, terminal_pos_row, screen>>
      BY <1>10, StepMoves DEF ColIsFull, Places, position
  <2>2. terminal_pos_col = col + 1
      BY <2>1 DEF Stage
  <2>3. col = VGA_WIDTH - 1
      BY <1>1, <2>1, <2>2
  <2>. QED BY <2>1, <2>3 DEF Stage, AtEntry, AtColumn, AtRow, AtScroll
<1>11. CASE ResetCol(t)
  <2>1. /\ pc[t] = "reset_col" /\ pc'[t] = "load_row"
        /\ terminal_pos_col' = 0 /\ UNCHANGED <<terminal_pos_row, screen>>
      BY <1>11, StepMoves DEF ResetCol, SetCol, Places
  <2>. QED BY <2>1 DEF Stage, AtEntry, AtColumn, AtRow, AtScroll
<1>12. CASE ReadRow(t)
  <2>1. /\ pc[t] = "load_row" /\ pc'[t] = "store_row"
        /\ UNCHANGED <<terminal_pos_col, terminal_pos_row, screen>>
        /\ reg'[t].row = terminal_pos_row
      BY <1>3, <1>12, StepMoves DEF ReadRow, LoadRow, Places, position
  <2>. QED BY <2>1 DEF Stage, AtEntry, AtColumn, AtRow, AtScroll
<1>13. CASE StoreRow(t)
  <2>1. /\ pc[t] = "store_row" /\ pc'[t] = "test_row"
        /\ UNCHANGED <<terminal_pos_col, screen>>
        /\ terminal_pos_row' = (reg[t].row + 1) % WordSize
      BY <1>13, StepMoves DEF StoreRow, SetRow, Places
  <2>. QED BY <1>2, <2>1 DEF Stage, AtEntry, AtColumn, AtRow, AtScroll
<1>14. CASE RowIsFull(t)
  <2>1. /\ pc[t] = "test_row" /\ pc'[t] = "scroll" /\ terminal_pos_row >= VGA_HEIGHT
        /\ UNCHANGED <<terminal_pos_col, terminal_pos_row, screen>>
      BY <1>14, StepMoves DEF RowIsFull, Places, position
  <2>2. terminal_pos_row = row + 1
      BY <2>1 DEF Stage
  <2>3. terminal_pos_row = VGA_HEIGHT /\ row + 1 = VGA_HEIGHT
      BY <1>1, <2>1, <2>2
  <2>. QED BY <2>1, <2>3 DEF Stage, AtEntry, AtColumn, AtRow, AtScroll
<1>15. CASE Scroll(t)
  <2>1. /\ pc[t] = "scroll" /\ pc'[t] = "scroll_col"
        /\ UNCHANGED <<terminal_pos_col, terminal_pos_row>>
        /\ screen' = Scrolled(screen)
      BY <1>15, StepMoves DEF Scroll, Places, position, Scrolled
  <2>. QED BY <2>1 DEF Turn, Stage, AtEntry, AtColumn, AtRow, AtScroll
<1>16. CASE ScrollCol(t)
  <2>1. /\ pc[t] = "scroll_col" /\ pc'[t] = "load_back"
        /\ terminal_pos_col' = 0 /\ UNCHANGED <<terminal_pos_row, screen>>
      BY <1>16, StepMoves DEF ScrollCol, SetCol, Places
  <2>. QED BY <2>1 DEF Stage, AtEntry, AtColumn, AtRow, AtScroll
<1>17. CASE LoadBack(t)
  <2>1. /\ pc[t] = "load_back" /\ pc'[t] = "store_back"
        /\ UNCHANGED <<terminal_pos_col, terminal_pos_row, screen>>
        /\ reg'[t].row = terminal_pos_row
      BY <1>3, <1>17, StepMoves DEF LoadBack, LoadRow, Places, position
  <2>. QED BY <2>1 DEF Stage, AtEntry, AtColumn, AtRow, AtScroll
<1>. QED BY <1>4, <1>5, <1>6, <1>7, <1>8, <1>9, <1>10, <1>11, <1>12, <1>13, <1>14, <1>15,
             <1>16, <1>17 DEF WithinCharacter

\* Such a step leaves the call where it is.
LEMMA WithinMoves ==
    ASSUME IInv, NEW t \in Threads, WithinCharacter(t)
    PROVE  /\ pc[t] \in InCharacter \cup {"char"} /\ pc'[t] \in InCharacter
           /\ job[t].text # <<>>
           /\ UNCHANGED <<job, saved, due, paint>>
           /\ \A u \in Threads \ {t} : pc'[u] = pc[u]
<1>1. /\ \E from \in InCharacter \cup {"char"}, to \in InCharacter : Step(t, from, to)
      /\ UNCHANGED <<job, saved, due, paint>>
      /\ pc[t] = "char" => job[t].text # <<>>
    BY DEF WithinCharacter, PutNewline, PutEntry, LoadEntry, StoreEntry, ReadCol, StoreCol,
           ColIsFull, ResetCol, ReadRow, StoreRow, RowIsFull, Scroll, ScrollCol, LoadBack,
           SetCol, SetRow, LoadCol, LoadRow, locals, calls, InCharacter, Step
<1>2. PICK from \in InCharacter \cup {"char"}, to \in InCharacter : Step(t, from, to)
    BY <1>1
<1>3. to \in Places
    BY DEF InCharacter, Places
<1>4. pc[t] = from /\ pc'[t] = to /\ \A u \in Threads \ {t} : pc'[u] = pc[u]
    BY <1>2, <1>3, StepMoves
<1>. QED BY <1>1, <1>4 DEF IInv, HasCharacter

LEMMA WithinKeeps ==
    ASSUME IInv, NEW t \in Threads, WithinCharacter(t), Progress(t)
    PROVE  Progress(t)'
<1>1. /\ pc[t] \in InCharacter \cup {"char"} /\ pc'[t] \in InCharacter
      /\ job[t].text # <<>> /\ UNCHANGED <<job, saved, due, paint>>
    BY WithinMoves
<1>2. /\ pc[t] # "idle" /\ pc[t] \notin Painting \cup Moving \cup Restoring
      /\ pc'[t] # "idle" /\ pc'[t] \notin Painting \cup Moving \cup Restoring
    BY <1>1 DEF InCharacter, Painting, Moving, Restoring
<1>3. PICK old, place, text, k : Prints(t, old, place, text, k)
    BY <1>2 DEF Progress
<1> DEFINE gone == Gone(place[k].row)
           row == place[k].row - gone
           col == place[k].col
           c == text[k + 1]
           before == Window(old, place, text, k, gone)
           after == Window(old, place, text, k + 1, gone)
           scrolled == Window(old, place, text, k + 1, gone + 1)
<1>4. Job(t, old, place, text, k) /\ PutsBack(t, old, place, k)
      /\ Stage(t, row, col, c, before, after, scrolled)
    BY <1>3 DEF Prints
<1>5. k < Len(text) /\ Head(job[t].text) = c
    BY <1>1, <1>4, RemainsHead DEF Job
<1>6. Turn(row, col, c, before, after, scrolled)
    BY <1>4, <1>5, TurnHolds
<1>7. Stage(t, row, col, c, before, after, scrolled)'
  <2> HIDE DEF gone, row, col, c, before, after, scrolled
  <2>. QED BY <1>4, <1>5, <1>6, StageKeeps
<1>8. Job(t, old, place, text, k)'
    BY <1>1, <1>4 DEF Job
<1>9. PutsBack(t, old, place, k)'
    BY <1>1, <1>2, <1>4 DEF PutsBack, Moving, Restoring
<1>10. Prints(t, old, place, text, k)'
    BY <1>7, <1>8, <1>9 DEF Prints
<1>. QED BY <1>2, <1>10 DEF Progress

-----------------------------------------------------------------------------
\* The position and the screen are those for the next character.
LEMMA CharacterDoneKeeps ==
    ASSUME IInv, NEW t \in Threads, ColFits(t) \/ RowFits(t) \/ StoreBack(t), Progress(t)
    PROVE  Progress(t)'
<1>1. /\ pc[t] \in {"test_col", "test_row", "store_back"} /\ pc'[t] = "char"
      /\ UNCHANGED <<screen, due>> /\ CharacterDone(t)
    BY StepMoves DEF ColFits, RowFits, StoreBack, SetRow, Places, calls
<1>2. /\ job \in [Threads -> CallType] /\ job[t].text # <<>>
      /\ terminal_pos_row \in Nat /\ terminal_pos_col \in Nat
    BY <1>1, SizeAssumption DEF IInv, TypeOK, HasCharacter, InCharacter
<1>3. saved' = saved /\ job'[t].at = job[t].at /\ job'[t].text = Tail(job[t].text)
    BY <1>1, <1>2 DEF CharacterDone
<1>4. PICK old, place, text, k : Prints(t, old, place, text, k)
    BY <1>1 DEF Progress, Painting
<1> DEFINE gone == Gone(place[k].row)
           row == place[k].row - gone
           col == place[k].col
           c == text[k + 1]
           before == Window(old, place, text, k, gone)
           after == Window(old, place, text, k + 1, gone)
           scrolled == Window(old, place, text, k + 1, gone + 1)
           next == Gone(place[k + 1].row)
<1>5. Job(t, old, place, text, k) /\ PutsBack(t, old, place, k)
      /\ Stage(t, row, col, c, before, after, scrolled)
    BY <1>4 DEF Prints
<1>6. k < Len(text) /\ Remains(Tail(job[t].text), text, k + 1) /\ k \in 0 .. Len(text)
      /\ Len(text) \in Nat
  <2>1. text \in Seq(STRING) /\ k \in 0 .. Len(text) /\ Remains(job[t].text, text, k)
      BY <1>5 DEF Job
  <2>2. k < Len(text) /\ Remains(Tail(job[t].text), text, k + 1)
      BY <1>2, <2>1, RemainsHead
  <2>. QED BY <2>1, <2>2
<1>7. k + 1 \in 0 .. Len(text) /\ k + 1 \in 1 .. Len(text) /\ (k + 1) - 1 = k
    BY <1>6
<1>8. Job(t, old, place, text, k + 1)'
    BY <1>1, <1>3, <1>5, <1>6, <1>7 DEF Job
<1>9. PutsBack(t, old, place, k + 1)'
    BY <1>1, <1>3, <1>5 DEF PutsBack, Moving, Restoring
<1>10. /\ place[k] \in [row : Nat, col : Columns]
       /\ place[k + 1] = Onward(place[k], c)
    BY <1>5, <1>6, <1>7 DEF Job, Onwards
<1>11. place[k].row \in Nat /\ gone \in Nat /\ row \in Rows /\ col \in Columns
    BY <1>10, LastLines
<1>12. /\ screen' = Window(old, place, text, k + 1, next)
       /\ terminal_pos_row' = place[k + 1].row - next
       /\ terminal_pos_col' = place[k + 1].col
  <2>1. CASE ColFits(t)
    <3>1. /\ pc[t] = "test_col" /\ terminal_pos_col < VGA_WIDTH
          /\ UNCHANGED <<terminal_pos_row, terminal_pos_col>>
        BY <2>1 DEF ColFits, Step, position
    <3>2. screen = after /\ terminal_pos_row = row /\ c # newline /\ terminal_pos_col = col + 1
        BY <1>5, <3>1 DEF Stage, AtColumn
    <3>3. col # VGA_WIDTH - 1
        BY <1>11, <3>1, <3>2, ScreenSize DEF Columns
    <3>4. place[k + 1].row = place[k].row /\ place[k + 1].col = col + 1
        BY <1>10, <3>2, <3>3 DEF Onward
    <3>. QED BY <1>1, <3>1, <3>2, <3>4
  <2>2. CASE RowFits(t) \/ StoreBack(t)
    <3>1. pc[t] \in {"test_row", "store_back"}
        BY <2>2 DEF RowFits, StoreBack, SetRow, Step
    <3>2. terminal_pos_col = 0 /\ (c = newline \/ col = VGA_WIDTH - 1)
        BY <1>5, <3>1 DEF Stage, AtRow, AtScroll
    <3>3. place[k + 1].row = place[k].row + 1 /\ place[k + 1].col = 0
        BY <1>10, <3>2 DEF Onward
    <3>4. /\ row + 1 < VGA_HEIGHT => next = gone
          /\ row + 1 = VGA_HEIGHT => next = gone + 1
        BY <1>11, <3>3, NextLine
    <3>5. CASE RowFits(t)
      <4>1. /\ pc[t] = "test_row" /\ terminal_pos_row < VGA_HEIGHT
            /\ UNCHANGED <<terminal_pos_row, terminal_pos_col>>
          BY <3>5 DEF RowFits, Step, position
      <4>2. screen = after /\ terminal_pos_row = row + 1
          BY <1>5, <4>1 DEF Stage, AtRow
      <4> HIDE DEF next, gone
      <4>3. next = gone
          BY <3>4, <4>1, <4>2
      <4>. QED BY <1>1, <1>11, <3>2, <3>3, <4>1, <4>2, <4>3
    <3>6. CASE StoreBack(t)
      <4>1. /\ pc[t] = "store_back" /\ terminal_pos_row' = (reg[t].row - 1) % WordSize
            /\ UNCHANGED terminal_pos_col
          BY <3>6 DEF StoreBack, SetRow, Step
      <4>2. screen = scrolled /\ reg[t].row = VGA_HEIGHT /\ row + 1 = VGA_HEIGHT
          BY <1>5, <4>1 DEF Stage, AtScroll
      <4>3. (VGA_HEIGHT - 1) % WordSize = VGA_HEIGHT - 1
        <5>1. VGA_HEIGHT - 1 \in 0 .. WordSize - 1
            BY SizeAssumption
        <5>. QED BY <5>1, WordsWrap
      <4>4. terminal_pos_row' = row
          BY <1>11, <4>1, <4>2, <4>3, ScreenSize DEF Rows
      <4> HIDE DEF next, gone
      <4>5. next = gone + 1
          BY <3>4, <4>2
      <4>6. place[k + 1].row - next = row
          BY <1>11, <3>3, <4>5
      <4>. QED BY <1>1, <3>2, <3>3, <4>1, <4>2, <4>4, <4>5, <4>6
    <3>. QED BY <2>2, <3>5, <3>6
  <2>. QED BY <2>1, <2>2
<1>13. Stage(t, place[k + 1].row - next, place[k + 1].col, text[(k + 1) + 1],
             Window(old, place, text, k + 1, next),
             Window(old, place, text, (k + 1) + 1, next),
             Window(old, place, text, (k + 1) + 1, next + 1))'
  <2> HIDE DEF next
  <2>. QED BY <1>1, <1>12 DEF Stage, AtEntry, AtColumn, AtRow, AtScroll
<1>14. Prints(t, old, place, text, k + 1)'
    BY <1>8, <1>9, <1>13 DEF Prints
<1>. QED BY <1>1, <1>14 DEF Progress, Painting

\* A call has shown its text, and returns or puts the position back.
LEMMA EndTextKeeps ==
    ASSUME IInv, NEW t \in Threads, EndText(t), Progress(t)
    PROVE  Progress(t)'
<1>1. /\ pc[t] = "char" /\ job[t].text = <<>>
      /\ pc'[t] = IF job[t].at THEN "restore_col" ELSE "idle"
      /\ UNCHANGED <<screen, due, terminal_pos_row, terminal_pos_col>>
      /\ job[t].at => UNCHANGED <<job, saved>>
    BY DEF IInv, TypeOK, EndText, Step, position, calls, locals
<1>2. PICK old, place, text, k : Prints(t, old, place, text, k)
    BY <1>1 DEF Progress, Painting
<1>3. Job(t, old, place, text, k) /\ PutsBack(t, old, place, k) /\ k = Len(text)
    BY <1>1, <1>2, RemainsHead DEF Prints, Job
<1>4. /\ screen = Window(old, place, text, k, Gone(place[k].row))
      /\ terminal_pos_row = place[k].row - Gone(place[k].row) /\ terminal_pos_col = place[k].col
    BY <1>1, <1>2 DEF Prints, Stage, AtEntry
<1>5. screen = due.screen
    BY <1>3, <1>4 DEF Job
<1>6. CASE ~job[t].at
  <2>1. Shown
      BY <1>3, <1>4, <1>5, <1>6 DEF Job, Shown
  <2>. QED BY <1>1, <1>6, <2>1 DEF Progress, Shown
<1>7. CASE job[t].at
  <2>1. Job(t, old, place, text, k)'
      BY <1>1, <1>3, <1>7 DEF Job
  <2>2. PutsBack(t, old, place, k)'
      BY <1>1, <1>3, <1>5, <1>7 DEF PutsBack, Moving, Restoring
  <2>3. Prints(t, old, place, text, k)'
      BY <1>1, <1>7, <2>1, <2>2 DEF Prints, Stage, AtEntry, AtColumn, AtRow, AtScroll
  <2>. QED BY <1>1, <1>7, <2>3 DEF Progress, Painting
<1>. QED BY <1>6, <1>7

\* print_at's own steps.
LEMMA PutsBackKeeps ==
    ASSUME IInv, NEW t \in Threads, PrintAt(t), Progress(t)
    PROVE  Progress(t)'
<1>1. /\ saved \in [Threads -> [x : 0 .. WordSize - 1, y : 0 .. WordSize - 1]]
      /\ job \in [Threads -> CallType]
    BY DEF IInv, TypeOK
<1>2. pc[t] \in Moving \cup Restoring
    BY DEF PrintAt, GetX, GetY, PosCol, PosRow, RestoreCol, RestoreRow, SetCol, SetRow, Step,
           Moving, Restoring
<1>3. PICK old, place, text, k : Prints(t, old, place, text, k)
    BY <1>2 DEF Progress, Painting, Moving, Restoring
<1>4. Job(t, old, place, text, k) /\ PutsBack(t, old, place, k)
    BY <1>3 DEF Prints
<1>5. ASSUME pc'[t] \in {"get_y", "pos_col", "pos_row", "restore_row"},
             UNCHANGED <<job, due>>, PutsBack(t, old, place, k)'
      PROVE  Progress(t)'
  <2>1. Job(t, old, place, text, k)'
      BY <1>4, <1>5 DEF Job
  <2>2. Prints(t, old, place, text, k)'
      BY <1>5, <2>1 DEF Prints, Stage, AtEntry, AtColumn, AtRow, AtScroll
  <2>. QED BY <1>5, <2>2 DEF Progress, Painting
<1>6. CASE GetX(t)
  <2>1. /\ pc[t] = "get_x" /\ pc'[t] = "get_y" /\ saved'[t].x = terminal_pos_col
        /\ UNCHANGED <<terminal_pos_col, terminal_pos_row, screen, job, due>>
      BY <1>1, <1>6, StepMoves DEF GetX, Places, position, calls
  <2>2. PutsBack(t, old, place, k)'
      BY <1>4, <2>1 DEF PutsBack, Moving, Restoring
  <2>. QED BY <1>5, <2>1, <2>2
<1>7. CASE GetY(t)
  <2>1. /\ pc[t] = "get_y" /\ pc'[t] = "pos_col"
        /\ saved'[t].x = saved[t].x /\ saved'[t].y = terminal_pos_row
        /\ UNCHANGED <<terminal_pos_col, terminal_pos_row, screen, job, due>>
      BY <1>1, <1>7, StepMoves DEF GetY, Places, position, calls
  <2>2. PutsBack(t, old, place, k)'
      BY <1>4, <2>1 DEF PutsBack, Moving, Restoring
  <2>. QED BY <1>5, <2>1, <2>2
<1>8. CASE PosCol(t)
  <2>1. /\ pc[t] = "pos_col" /\ pc'[t] = "pos_row" /\ terminal_pos_col' = job[t].x
        /\ UNCHANGED <<terminal_pos_row, screen, job, saved, due>>
      BY <1>8, StepMoves DEF PosCol, SetCol, Places, calls, locals
  <2>2. PutsBack(t, old, place, k)'
      BY <1>4, <2>1 DEF PutsBack, Moving, Restoring
  <2>. QED BY <1>5, <2>1, <2>2
<1>9. CASE PosRow(t)
  <2>1. /\ pc[t] = "pos_row" /\ pc'[t] = "char" /\ terminal_pos_row' = job[t].y
        /\ UNCHANGED <<terminal_pos_col, screen, job, saved, due>>
      BY <1>9, StepMoves DEF PosRow, SetRow, Places, calls, locals
  <2>2. k = 0 /\ screen = old /\ place[0] = [row |-> job[t].y, col |-> job[t].x]
        /\ terminal_pos_col = job[t].x
      BY <1>4, <2>1 DEF PutsBack, Moving
  <2>3. job[t].y \in Nat /\ job[t].y < VGA_HEIGHT
      BY <1>1, ScreenSize DEF CallType, Rows
  <2>4. Gone(place[k].row) = 0
      BY <2>2, <2>3, ScreenSize DEF Gone
  <2>5. Window(old, place, text, 0, 0) = old
      BY <1>4, WindowAtFirst DEF Job
  <2>6. Job(t, old, place, text, k)'
      BY <1>4, <2>1 DEF Job
  <2>7. PutsBack(t, old, place, k)'
      BY <1>4, <2>1 DEF PutsBack, Moving, Restoring
  <2>8. place[k].row - Gone(place[k].row) = job[t].y /\ place[k].col = job[t].x
        /\ Window(old, place, text, k, Gone(place[k].row)) = screen
      BY <2>2, <2>3, <2>4, <2>5
  <2>9. Prints(t, old, place, text, k)'
      BY <2>1, <2>2, <2>6, <2>7, <2>8 DEF Prints, Stage, AtEntry, AtColumn, AtRow, AtScroll
  <2>. QED BY <2>1, <2>9 DEF Progress, Painting
<1>10. CASE RestoreCol(t)
  <2>1. /\ pc[t] = "restore_col" /\ pc'[t] = "restore_row" /\ terminal_pos_col' = saved[t].x
        /\ UNCHANGED <<terminal_pos_row, screen, job, saved, due>>
      BY <1>10, StepMoves DEF RestoreCol, SetCol, Places, calls, locals
  <2>2. PutsBack(t, old, place, k)'
      BY <1>4, <2>1 DEF PutsBack, Moving, Restoring
  <2>. QED BY <1>5, <2>1, <2>2
<1>11. CASE RestoreRow(t)
  <2>1. /\ pc[t] = "restore_row" /\ pc'[t] = "idle" /\ terminal_pos_row' = saved[t].y
        /\ UNCHANGED <<terminal_pos_col, screen, due>>
      BY <1>11, StepMoves DEF RestoreRow, SetRow, Places, calls
  <2>2. screen = due.screen /\ terminal_pos_col = due.col /\ saved[t].y = due.row
      BY <1>4, <2>1 DEF PutsBack, Restoring
  <2>. QED BY <1>4, <2>1, <2>2 DEF Progress, Shown, Job
<1>. QED BY <1>6, <1>7, <1>8, <1>9, <1>10, <1>11 DEF PrintAt

-----------------------------------------------------------------------------
\* What terminal_setcolor does to a screen at rest.
LEMMA PaintKeeps ==
    ASSUME Typed, IInv, NEW t \in Threads, LoadCell(t) \/ StoreCell(t), Progress(t)
    PROVE  Progress(t)'
<1>1. /\ pc[t] \in Painting /\ UNCHANGED <<terminal_pos_col, terminal_pos_row, due>>
    BY DEF LoadCell, StoreCell, Step, Painting, position
<1>2. Paints(t)
    BY <1>1 DEF Progress, Painting
<1>3. CASE LoadCell(t)
  <2>1. /\ pc'[t] = "store_cell" /\ screen' = screen
        /\ paint'[t].char = screen[paint[t].cell] /\ paint'[t].cell = paint[t].cell
      BY <1>3, StepMoves DEF Typed, LoadCell, Places
  <2>. QED BY <1>1, <1>2, <2>1 DEF Progress, Painting, Paints, Shown
<1>4. CASE StoreCell(t)
  <2>1. /\ pc[t] = "store_cell" /\ pc'[t] \in {"load_cell", "idle"}
        /\ screen' = [screen EXCEPT ![paint[t].cell] = paint[t].char]
      BY <1>4 DEF IInv, TypeOK, StoreCell, Step
  <2>2. screen' = screen
      BY <1>2, <2>1 DEF Paints, Typed
  <2>. QED BY <1>1, <1>2, <2>1, <2>2 DEF Progress, Painting, Paints, Shown
<1>. QED BY <1>3, <1>4

\* A call that begins while nobody prints is on the way to what it must show.
LEMMA CallStarts ==
    ASSUME IInv, Typed, NEW t \in Threads, Call(t), Alone
    PROVE  Progress(t)'
<1>1. PICK c \in Calls[t] :
          /\ Step(t, "idle", IF c.at THEN "get_x" ELSE "char")
          /\ job' = [job EXCEPT ![t] = c]
          /\ due' = IF ~Alone THEN NULL
                    ELSE IF c.at THEN [screen |-> LaidOut(screen, c.x, c.y, c.text).screen,
                                       row |-> terminal_pos_row, col |-> terminal_pos_col]
                    ELSE LaidOut(screen, terminal_pos_col, terminal_pos_row, c.text)
          /\ UNCHANGED <<position, screen, saved>>
    BY DEF Call
<1>2. /\ c.at \in BOOLEAN /\ c.x \in Columns /\ c.y \in Rows /\ c.text \in Seq(STRING)
      /\ job'[t] = c /\ job'[t].at = c.at /\ job'[t].text = c.text
      /\ UNCHANGED <<terminal_pos_row, terminal_pos_col, screen>>
      /\ pc'[t] = IF c.at THEN "get_x" ELSE "char"
  <2>1. c \in CallType
      BY CallsAssumption
  <2>2. c.at \in BOOLEAN /\ c.x \in Columns /\ c.y \in Rows /\ c.text \in Seq(STRING)
      BY <2>1 DEF CallType
  <2>3. job'[t] = c
      BY <1>1 DEF IInv, TypeOK
  <2>4. pc'[t] = IF c.at THEN "get_x" ELSE "char"
      BY <1>1 DEF IInv, TypeOK, Step
  <2>. QED BY <1>1, <2>2, <2>3, <2>4 DEF position
<1>3. terminal_pos_row \in Rows /\ terminal_pos_col \in Columns
  <2>1. terminal_pos_row < VGA_HEIGHT /\ terminal_pos_col < VGA_WIDTH
      BY DEF Alone, IInv, PositionInBounds, ColOut, RowOut
  <2>. QED BY <2>1, SizeAssumption DEF IInv, TypeOK, Rows, Columns
<1> PICK old, row, col : old = screen /\ row = terminal_pos_row /\ col = terminal_pos_col
    OBVIOUS
<1> DEFINE text == c.text
           x == IF c.at THEN c.x ELSE col
           y == IF c.at THEN c.y ELSE row
           place == Placed(x, y, text)
           end == place[Len(text)]
           shown == Window(old, place, text, Len(text), Gone(end.row))
<1>4. x \in Columns /\ y \in Rows /\ y \in Nat
    BY <1>2, <1>3 DEF Rows
<1>5. LaidOut(old, x, y, text) =
          [screen |-> shown, row |-> end.row - Gone(end.row), col |-> end.col]
    BY LaidOutIs, Zenon
<1>6. due' = [screen |-> shown,
              row |-> IF c.at THEN row ELSE end.row - Gone(end.row),
              col |-> IF c.at THEN col ELSE end.col]
  <2>1. CASE c.at
    <3>1. due' = [screen |-> LaidOut(old, x, y, text).screen, row |-> row, col |-> col]
        BY <1>1, <2>1
    <3> HIDE DEF shown, end, place, text, x, y
    <3>. QED BY <1>5, <2>1, <3>1
  <2>2. CASE ~c.at
    <3>1. due' = LaidOut(old, x, y, text)
        BY <1>1, <2>2
    <3> HIDE DEF shown, end, place, text, x, y
    <3>. QED BY <1>5, <2>2, <3>1
  <2>. QED BY <1>2, <2>1, <2>2
<1>7. Flows(place, [row |-> y, col |-> x], text)
    BY <1>2, PlacedFlows
<1>8. Onwards(place, text)
  <2> HIDE DEF place, x, y
  <2>1. [row |-> y, col |-> x] \in [row : Nat, col : Columns]
      BY <1>4
  <2>. QED BY <1>2, <1>7, <2>1, FlowsOnwards
<1> HIDE DEF place, shown, text, end
<1>9. /\ place[0] = [row |-> y, col |-> x]
      /\ \A j \in 1 .. Len(text) : place[j] = Onward(place[j - 1], text[j])
    BY <1>7 DEF Flows
<1>10. Remains(text, text, 0)
    BY <1>2 DEF Remains, text
<1>11. Job(t, old, place, text, 0)'
  <2>1. /\ due'.screen = shown
        /\ ~c.at => due'.row = end.row - Gone(end.row) /\ due'.col = end.col
        /\ due' = [screen |-> due'.screen, row |-> due'.row, col |-> due'.col]
      BY <1>6
  <2>2. old \in [Cells -> Characters] /\ text \in Seq(STRING) /\ 0 \in 0 .. Len(text)
      BY <1>2 DEF Typed, text
  <2>. QED BY <1>2, <1>8, <1>9, <1>10, <2>1, <2>2 DEF Job, shown, end, text
<1>12. PutsBack(t, old, place, 0)'
    BY <1>2, <1>6, <1>9 DEF PutsBack, Moving, Restoring
<1>13. Prints(t, old, place, text, 0)'
  <2>1. CASE c.at
      BY <1>2, <1>11, <1>12, <2>1 DEF Prints, Stage, AtEntry, AtColumn, AtRow, AtScroll
  <2>2. CASE ~c.at
    <3>1. place[0].row = row /\ place[0].col = col
        BY <1>9, <2>2
    <3>2. Gone(row) = 0 /\ row - 0 = row
        BY <1>3, ScreenSize DEF Gone, Rows
    <3>3. Window(old, place, text, 0, 0) = old
        BY WindowAtFirst DEF Typed
    <3>. QED BY <1>2, <1>11, <1>12, <2>2, <3>1, <3>2, <3>3
             DEF Prints, Stage, AtEntry, AtColumn, AtRow, AtScroll
  <2>. QED BY <1>2, <2>1, <2>2
<1>. QED BY <1>2, <1>13 DEF Progress, Painting

-----------------------------------------------------------------------------
LEMMA TypedKeeps == ASSUME IInv, Typed, [Next]_vars PROVE Typed'
<1>1. CASE UNCHANGED vars
    BY <1>1 DEF vars, calls, Typed
<1> SUFFICES ASSUME NEW t \in Threads,
                    \/ Call(t) \/ PrintAt(t) \/ Putc(t) \/ NextCol(t) \/ NextRow(t)
                    \/ TerminalScroll(t) \/ TerminalSetColor(t)
             PROVE  Typed'
    BY <1>1 DEF Next
<1>2. CASE StoreEntry(t)
  <2>1. job[t].text \in Seq(STRING) /\ job[t].text # <<>>
      BY <1>2 DEF IInv, TypeOK, CallType, HasCharacter, InCharacter, StoreEntry, Step
  <2>2. Head(job[t].text) \in Characters
      BY <2>1, HeadTailProperties DEF Characters
  <2>. QED BY <1>2, <2>2 DEF StoreEntry, calls, Typed
<1>3. CASE Scroll(t)
  <2>1. ASSUME NEW i \in Cells, i < VGA_WIDTH * (VGA_HEIGHT - 1) PROVE i + VGA_WIDTH \in Cells
      BY <2>1, ScreenSize DEF Cells
  <2>2. screen' = Scrolled(screen)
      BY <1>3 DEF Scroll, Scrolled
  <2>3. Scrolled(screen) \in [Cells -> Characters]
      BY <2>1 DEF Typed, Scrolled, Characters
  <2>. QED BY <1>3, <2>2, <2>3 DEF Scroll, calls, Typed
<1>4. CASE LoadCell(t)
    BY <1>4 DEF LoadCell, Typed
<1>5. CASE StoreCell(t)
  <2>1. NotPainting \in [cell : Cells, char : Characters]
    <3>1. 0 \in Rows /\ 0 \in Columns /\ 0 * VGA_WIDTH + 0 = 0
        BY ScreenSize DEF Rows, Columns
    <3>2. 0 \in Cells
        BY <3>1, CellAt
    <3>. QED BY <3>2 DEF NotPainting, Characters
  <2>2. screen' \in [Cells -> Characters]
      BY <1>5 DEF StoreCell, Typed
  <2>3. paint' \in [Threads -> [cell : Cells, char : Characters]]
    <3>1. CASE paint[t].cell + 1 \in Cells
        BY <1>5, <3>1 DEF StoreCell, Typed
    <3>2. CASE paint[t].cell + 1 \notin Cells
      <4>1. paint' = [paint EXCEPT ![t] = NotPainting]
          BY <1>5, <3>2 DEF StoreCell
      <4>. QED BY <2>1, <4>1 DEF Typed
    <3>. QED BY <3>1, <3>2
  <2>. QED BY <2>2, <2>3 DEF Typed
<1>6. CASE ~(StoreEntry(t) \/ Scroll(t) \/ LoadCell(t) \/ StoreCell(t))
  <2>1. UNCHANGED <<screen, paint>>
      BY <1>6, Zenon DEF Call, PrintAt, GetX, GetY, PosCol, PosRow, RestoreCol, RestoreRow,
             Putc, EndText, PutNewline, PutEntry, LoadEntry, NextCol, ReadCol, StoreCol, ColFits,
             ColIsFull, ResetCol, NextRow, ReadRow, StoreRow, RowFits, RowIsFull, TerminalScroll,
             ScrollCol, LoadBack, StoreBack, TerminalSetColor, SetColor, SetCol, SetRow, LoadCol,
             LoadRow, calls
  <2>. QED BY <2>1 DEF Typed
<1>. QED BY <1>2, <1>3, <1>4, <1>5, <1>6

\* A step of a call that has begun.
GoesOn(t) ==
    \/ WithinCharacter(t) \/ ColFits(t) \/ RowFits(t) \/ StoreBack(t) \/ EndText(t)
    \/ PrintAt(t) \/ LoadCell(t) \/ StoreCell(t)

LEMMA GoesOnKeeps ==
    ASSUME IInv, Typed, NEW t \in Threads, GoesOn(t), Progress(t)
    PROVE  Progress(t)'
    BY WithinKeeps, CharacterDoneKeeps, EndTextKeeps, PutsBackKeeps, PaintKeeps DEF GoesOn

LEMMA GoesOnMoves ==
    ASSUME IInv, NEW t \in Threads, GoesOn(t)
    PROVE  /\ pc[t] # "idle" /\ due' = due
           /\ \A u \in Threads \ {t} : pc'[u] = pc[u]
<1>1. CASE WithinCharacter(t)
    BY <1>1, WithinMoves DEF InCharacter
<1>2. CASE ColFits(t) \/ RowFits(t) \/ StoreBack(t) \/ EndText(t)
    BY <1>2 DEF ColFits, RowFits, StoreBack, EndText, SetRow, Step, calls, IInv, TypeOK
<1>3. CASE PrintAt(t)
    BY <1>3 DEF PrintAt, GetX, GetY, PosCol, PosRow, RestoreCol, RestoreRow, SetCol, SetRow,
                Step, calls, IInv, TypeOK
<1>4. CASE LoadCell(t) \/ StoreCell(t)
    BY <1>4 DEF LoadCell, StoreCell, Step, IInv, TypeOK
<1>. QED BY <1>1, <1>2, <1>3, <1>4 DEF GoesOn

LEMMA ShowInvKeeps == ASSUME IInv, ShowInv, [Next]_vars PROVE ShowInv'
<1>1. Typed'
    BY TypedKeeps DEF ShowInv
<1>2. CASE UNCHANGED vars
  <2>1. UNCHANGED <<screen, terminal_pos_row, terminal_pos_col, pc, job, saved, reg, due, paint>>
      BY <1>2 DEF vars, position, locals, calls
  <2>2. ASSUME NEW t \in Threads, Progress(t) PROVE Progress(t)'
    <3>1. ASSUME NEW old, NEW place, NEW text, NEW k, Prints(t, old, place, text, k)
          PROVE  Prints(t, old, place, text, k)'
      <4>1. Job(t, old, place, text, k)' /\ PutsBack(t, old, place, k)'
          BY <2>1, <3>1 DEF Prints, Job, PutsBack
      <4>. QED BY <2>1, <3>1, <4>1 DEF Prints, Stage
    <3>2. Shown => Shown'
        BY <2>1 DEF Shown
    <3>3. Paints(t) => Paints(t)'
        BY <2>1 DEF Paints, Shown
    <3>. QED BY <2>1, <2>2, <3>1, <3>2, <3>3 DEF Progress
  <2>. QED BY <1>1, <2>1, <2>2 DEF ShowInv, Shown
<1> SUFFICES ASSUME NEW t \in Threads, GoesOn(t) \/ Call(t) \/ SetColor(t), due' # NULL
             PROVE  /\ \A u \in Threads \ {t} : pc'[u] = "idle"
                    /\ Progress(t)'
  <2>1. ASSUME NEW t \in Threads, GoesOn(t) \/ Call(t) \/ SetColor(t),
               due' # NULL => /\ \A u \in Threads \ {t} : pc'[u] = "idle"
                              /\ Progress(t)'
        PROVE  ShowInv'
    <3>1. CASE due' = NULL
        BY <1>1, <3>1 DEF ShowInv
    <3>2. CASE due' # NULL
      <4>1. (\A u \in Threads \ {t} : pc'[u] = "idle") /\ Progress(t)'
          BY <2>1, <3>2
      <4>2. pc'[t] = "idle" => Shown'
          BY <4>1 DEF Progress
      <4>3. \A u \in Threads : pc'[u] # "idle" => u = t
          BY <4>1
      <4>. QED BY <1>1, <4>1, <4>2, <4>3 DEF ShowInv
    <3>. QED BY <3>1, <3>2
  <2>2. ASSUME Next
        PROVE  \E t \in Threads : GoesOn(t) \/ Call(t) \/ SetColor(t)
      BY <2>2, Zenon DEF Next, GoesOn, WithinCharacter, Putc, NextCol, NextRow, TerminalScroll,
                         TerminalSetColor
  <2>. QED BY <1>2, <2>1, <2>2
<1>3. CASE GoesOn(t)
  <2>1. pc[t] # "idle" /\ due # NULL /\ \A u \in Threads \ {t} : pc'[u] = pc[u]
      BY <1>3, GoesOnMoves
  <2>2. Progress(t) /\ \A u \in Threads \ {t} : pc[u] = "idle"
      BY <2>1 DEF ShowInv
  <2>. QED BY <1>3, <2>1, <2>2, GoesOnKeeps DEF ShowInv
<1>4. CASE Call(t) \/ SetColor(t)
  <2>1. Alone
      BY <1>4 DEF Call, SetColor
  <2>2. \A u \in Threads \ {t} : pc'[u] = "idle"
      BY <1>4, <2>1 DEF Alone, Call, SetColor, Step, IInv, TypeOK
  <2>3. CASE Call(t)
      BY <2>1, <2>2, <2>3, CallStarts DEF ShowInv
  <2>4. CASE SetColor(t)
    <3>1. pc'[t] = "load_cell" /\ UNCHANGED <<screen, terminal_pos_row, terminal_pos_col>>
          /\ due' = [screen |-> screen, row |-> terminal_pos_row, col |-> terminal_pos_col]
        BY <2>1, <2>4 DEF SetColor, Step, position, IInv, TypeOK
    <3>. QED BY <2>2, <3>1 DEF Progress, Painting, Paints, Shown
  <2>. QED BY <1>4, <2>3, <2>4
<1>. QED BY <1>3, <1>4

\* What a call puts on the terminal while nobody prints beside it is on the screen when it
\* returns, where a page without an end would have it, scrolled by as many lines as the
\* screen lacks, and print_at has put the position back: for a screen of any size and
\* texts of any length (vga.c:67-114, print.c:114-221).
THEOREM PrintShowsText == Spec => []TextIsShown
<1>1. Init => ShowInv
  <2> SUFFICES ASSUME Init PROVE ShowInv
      OBVIOUS
  <2>1. 0 \in Cells
    <3>1. 0 \in Rows /\ 0 \in Columns /\ 0 * VGA_WIDTH + 0 = 0
        BY ScreenSize DEF Rows, Columns
    <3>. QED BY <3>1, CellAt
  <2>2. Typed
      BY <2>1 DEF Init, Typed, NotPainting, Characters
  <2>. QED BY <2>2 DEF Init, ShowInv
<1>2. ShowInv => TextIsShown
    BY DEF ShowInv, TextIsShown, Shown
<1>. QED BY <1>1, <1>2, InitIInv, NextIInv, ShowInvKeeps, PTL DEF Spec

=============================================================================
