------------------------------- MODULE Format -------------------------------
(***************************************************************************)
(* What print and print_at of std/print.c make of a format and its         *)
(* arguments: the characters that go to the terminal and those that go to  *)
(* the serial port.  Numbers are written by itoa and utoa of std/lib.c.    *)
(*                                                                         *)
(* A format is a sequence of items: literal characters, or a conversion    *)
(* with the argument va_arg fetches for it.  Everything here happens in    *)
(* buffers on the caller's stack, so threads do not meet in it.            *)
(***************************************************************************)
EXTENDS Integers, Sequences, SequencesExt

CONSTANT Bits                    \* of an int, and bytes of i_dec: 32 in the code

ASSUME BitsAssumption == Bits \in Nat \ {0}

Words == 0 .. (2 ^ Bits - 1)
Bases == 2 .. 16
Negative(value) == value >= 2 ^ (Bits - 1)

-----------------------------------------------------------------------------
digits == <<"0", "1", "2", "3", "4", "5", "6", "7", "8", "9", "A", "B", "C", "D", "E", "F">>

\* utoa's first loop: the last digit first.
Remainders(base) ==
    LET from[value \in Words] ==
            <<digits[(value % base) + 1]>> \o
            (IF value \div base = 0 THEN <<>> ELSE from[value \div base])
    IN  from

\* Slip: the loop stops one digit early.
UtoaShort(value, base) ==
    LET s == Reverse(Remainders(base)[value]) IN IF Len(s) > 1 THEN Tail(s) ELSE s

\* utoa.
Utoa(value, base) == Reverse(Remainders(base)[value])

\* The magnitude itoa passes on: of negative numbers only in decimal.
Magnitude(value, base) == IF base = 10 /\ Negative(value) THEN 2 ^ Bits - value ELSE value

\* What itoa returns: utoa's pointer, which is behind the sign.
Itoa(value, base) == Utoa(Magnitude(value, base), base)

\* What it writes into the caller's buffer: perhaps a sign, the digits, a zero.
BytesWritten(value, base) ==
    (IF base = 10 /\ Negative(value) THEN 1 ELSE 0) + Len(Itoa(value, base)) + 1

-----------------------------------------------------------------------------
Literal(s) == [conversion |-> "none", arg |-> s]
Convert(c, arg) == [conversion |-> c, arg |-> arg]

\* The switch of print.
Characters(item) ==
    CASE item.conversion = "none" -> item.arg
      [] item.conversion = "c" -> <<item.arg>>
      [] item.conversion = "s" -> item.arg
      [] item.conversion \in {"d", "u"} -> Itoa(item.arg, 10)
      [] item.conversion = "b" -> Itoa(item.arg, 2) \o <<"b">>
      [] item.conversion = "x" -> Itoa(item.arg, 16)
      [] item.conversion = "p" -> <<"0", "x">> \o Itoa(item.arg, 16)
      [] OTHER -> <<"%">>

\* Everything goes to the stream asked for, except that %x goes to the terminal.
Goes(stream, item) == IF item.conversion = "x" THEN "terminal" ELSE stream

\* What reaches one device when a format is printed to a stream.
Output(stream, format, device) ==
    FlattenSeq([i \in DOMAIN format |->
        IF Goes(stream, format[i]) = device THEN Characters(format[i]) ELSE <<>>])

-----------------------------------------------------------------------------
DigitOf(c) == (CHOOSE i \in DOMAIN digits : digits[i] = c) - 1
ReadBack(s, base) == FoldLeft(LAMBDA n, c : n * base + DigitOf(c), 0, s)

\* itoa against what reading its text back gives, for every number in every base.
ItoaIsRight ==
    \A value \in Words, base \in Bases :
        LET s == Itoa(value, base) IN
        /\ ReadBack(s, base) \in {value, 2 ^ Bits - value}
        /\ ReadBack(s, base) # value => base = 10 /\ Negative(value)
        /\ \A i \in DOMAIN s : DigitOf(s[i]) < base
        /\ s[1] = "0" => Len(s) = 1
        /\ BytesWritten(value, base) > Bits => base = 2 /\ Negative(value)

=============================================================================
