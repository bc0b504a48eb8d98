----------------------------- MODULE MCTerminal -----------------------------
(* Terminal with two threads that print what Kernel.c's print, on a small  *)
(* screen: a letter and a number on the last line, a header on the first,  *)
(* and a hexadecimal number sent to the serial port.                       *)
EXTENDS Terminal, Format

CONSTANTS typist, timer

Here(stream, format) ==
    [at |-> FALSE, x |-> 0, y |-> 0, text |-> Output(stream, format, "terminal")]
AtPosition(stream, x, y, format) ==
    [Here(stream, format) EXCEPT !.at = TRUE, !.x = x, !.y = y]

MCCalls ==
    typist :> { AtPosition("terminal", 0, VGA_HEIGHT - 1, << Convert("c", "a"), Literal(<<newline>>) >>),
                AtPosition("terminal", 1, 0, << Convert("s", <<"b", "a">>) >>) }
    @@ timer :> { AtPosition("terminal", VGA_WIDTH - 1, 0, << Convert("d", 1) >>),
                  Here("serial", << Literal(<<"b">>), Convert("x", 1) >>) }

(* Whatever number a thread prints next, what itoa returns for it is that   *)
(* number in its base without a leading zero; a negative one in decimal has *)
(* lost its sign.  All that is written fits i_dec, but for a number in      *)
(* binary with the highest bit set, which takes one byte more.              *)
NumbersReadBack == \A t \in Threads : pc[t] = "idle" => ItoaIsRight

=============================================================================
