------------------------------- MODULE Stdio -------------------------------
(***************************************************************************)
(* Streams (ulibc/stdio.c): characters that are read one at a time into    *)
(* the buffer of a FILE and can be pushed back, and lines of them; scanf   *)
(* of Stdarg reads its characters in this way.                             *)
(***************************************************************************)
EXTENDS Stdarg

CONSTANTS
    Input,              \* what read() of the file gives, a character a time
    FILE_BUFFER_SIZE    \* bound for pushing back the same character, too

NEWLINE == 27

VARIABLE strm   \* [in, buffer, head, tail, size, got]; got: taken for good

StreamInit ==
    strm = [in |-> Input, buffer |-> [i \in 0 .. FILE_BUFFER_SIZE - 1 |-> NUL],
            head |-> 0, tail |-> 0, size |-> 0, got |-> <<>>]

(* The character, and the stream behind it.  At the end of the input the   *)
(* size becomes negative, and stays so.                                    *)
fgetc(s) ==
    LET n == IF s.in = <<>> THEN 0 ELSE 1
        f == IF s.size # 0 THEN s
             ELSE [s EXCEPT !.size = n, !.head = 0, !.tail = n - 1,
                            !.in = SubSeq(@, 1 + n, Len(@)),
                            !.buffer[0] = IF n = 1 THEN Head(s.in) ELSE @]
    IN  [c |-> IF f.size < 1 THEN EOF ELSE f.buffer[f.head],
         s |-> [f EXCEPT !.size = @ - 1, !.head = @ + 1]]

ungetc(c, s) ==
    IF c = EOF \/ s.size >= FILE_BUFFER_SIZE THEN s
    ELSE [s EXCEPT !.size = @ + 1, !.tail = @ + 1, !.buffer[s.tail + 1] = c]

(* The line, without the end of it, and the stream behind it.              *)
fgets(n, s) ==
    LET r[i \in 0 .. n - 1] ==
            IF i = 0 THEN [b |-> <<>>, s |-> s, on |-> TRUE]
            ELSE IF ~r[i - 1].on THEN r[i - 1]
            ELSE LET g == fgetc(r[i - 1].s)
                 IN  [b |-> IF g.c \in {EOF, NEWLINE} THEN r[i - 1].b ELSE Append(r[i - 1].b, g.c),
                      s |-> g.s, on |-> g.c \notin {EOF, NEWLINE}]
    IN  r[n - 1]

(* The stream is not read on behind its end (bound): each time moves head  *)
(* on in the buffer.                                                       *)
Open == strm.size >= 0

GetChar ==
    /\ Open
    /\ strm' = LET g == fgetc(strm)
               IN  [g.s EXCEPT !.got = IF g.c = EOF THEN @ ELSE Append(@, g.c)]

(* Who looks at a character pushes it back.  The buffer's end is not       *)
(* tested, and looking at a character again and again moves tail on.       *)
Peek ==
    LET g == fgetc(strm)
    IN  Open /\ g.c # EOF /\ g.s.tail + 1 < FILE_BUFFER_SIZE /\ strm' = ungetc(g.c, g.s)

GetLine(n) ==
    LET r == fgets(n, strm)
        ended == r.s.size < 0 \/ r.on
    IN  /\ Open
        /\ strm' = [r.s EXCEPT !.got = @ \o r.b \o IF ended THEN <<>> ELSE <<NEWLINE>>]

StreamNext == GetChar \/ Peek \/ \E n \in 2 .. 3 : GetLine(n)

-----------------------------------------------------------------------------
(* Nothing is lost, doubled or moved between what is read and what is      *)
(* pushed back: what was taken, what is in the buffer and what is left of  *)
(* the input are the input.                                                *)
StreamKept ==
    LET kept == [i \in 1 .. Greater(strm.size, 0) |-> strm.buffer[strm.head + i - 1]]
    IN  strm.got \o kept \o strm.in = Input

(* Formatted output, formatted input and the streams below them.           *)
FormatsRight == PrintsRight /\ ReadsBack /\ StreamKept
=============================================================================
