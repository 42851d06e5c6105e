------------------------------ MODULE Stdarg ------------------------------
(***************************************************************************)
(* Formatted output and input (ulibc/stdarg.c; core/libc/stdarg.c has the  *)
(* same code without floating point, character classes and streams).  A    *)
(* character is a number: the digits of base 16 are 0 .. 15, the others    *)
(* are named below.  A double is a whole number of 1 / ONE, with exact     *)
(* arithmetic; infinities, NaNs and the scientific notation of numbers of  *)
(* more than 126 digits are left out.                                      *)
(***************************************************************************)
EXTENDS Integers, Sequences

CONSTANTS
    LongBits, ShortBits, CharBits, LongLongBits,    \* 32, 16, 8, 64
    Formats     \* what is printed: [text, flags, conv, arg]

VARIABLE fmt    \* one of Formats, the pieces printed for it and what was read of them;
                \* conv "none" if there is none

SPACE == 20
MINUS == 21
PLUS  == 22
EX    == 23     \* x
DOT   == 24
EEE   == 14     \* e, also a digit
TEXT  == 25     \* any other character
NUL   == 26
EOF   == -1
ONE   == 2000000

Greater(a, b) == IF a > b THEN a ELSE b
Lower(a, b) == IF a < b THEN a ELSE b
Signed(v, bits) == ((v + 2^(bits - 1)) % 2^bits) - 2^(bits - 1)
Abs(v) == IF v < 0 THEN -v ELSE v

-----------------------------------------------------------------------------
(* The digits of a number, written from the end of the buffer and moved to *)
(* its front; the buffer is large enough.                                  *)
Digits(i, base) ==
    LET n == CHOOSE n \in 1 .. LongLongBits : i < base^n /\ (n = 1 \/ i >= base^(n - 1))
    IN  [k \in 1 .. n |-> (i \div base^(n - k)) % base]
ltostr(i, base) == Digits(i % 2^LongBits, base)
lltostr(i, base) == Digits(i % 2^LongLongBits, base)

(* The first k digits behind the point.                                    *)
Fraction(d, k) ==
    LET rest[i \in 0 .. k] == IF i = 0 THEN d % ONE ELSE (rest[i - 1] * 10) % ONE
    IN  [i \in 1 .. k |-> (rest[i - 1] * 10) \div ONE]

(* A number with prec2 digits behind the point; without prec2, as many as  *)
(* fill up prec characters.  Half a unit of the last digit is added before *)
(* the digits are cut off.                                                 *)
dtostr(d, prec, prec2) ==
    IF d = 0 THEN [i \in 1 .. IF prec2 = 0 THEN 1 ELSE prec2 + 2 |-> IF i = 2 THEN DOT ELSE 0]
    ELSE LET r == Abs(d) + (ONE \div 2) \div 10^prec2
             head == (IF d < 0 THEN <<MINUS>> ELSE <<>>) \o Digits(r \div ONE, 10)
             k == IF prec2 # 0 THEN prec2
                  ELSE IF prec > Len(head) + 1 THEN prec - Len(head) ELSE 0
         IN  head \o (IF k > 0 THEN <<DOT>> \o Fraction(r, k) ELSE <<>>)

write_pad(n, c) == [i \in 1 .. Greater(n, 0) |-> c]

(* The pieces that are written for a text s whose first todo characters    *)
(* are a sign or the mark of a base.                                       *)
print_out(q, s, todo) ==
    LET sign == SubSeq(s, 1, todo)
        body == SubSeq(s, todo + 1, Len(s))
        width == q.width - todo
        vs == Greater(q.preci, Len(body))
        zeros == write_pad(q.preci - Len(body), 0)
    IN  IF q.width = 0 /\ q.preci = 0 THEN <<s>>
        ELSE IF q.left THEN <<sign, zeros, body, write_pad(width - vs, SPACE)>>
        ELSE IF q.dot THEN <<write_pad(width - vs, SPACE), sign, zeros, body>>
        ELSE IF q.zero THEN <<sign, write_pad(width - Len(body), 0), body>>
        ELSE <<write_pad(width - Len(body), SPACE), sign, body>>

(* One character of a directive, or one number in it: v is its value, "0"  *)
(* a number that begins with 0.  A second number after a dot is an error.  *)
Flag(q, f) ==
    CASE f.t = "#" -> [q EXCEPT !.hash = TRUE]
      [] f.t = "h" -> [q EXCEPT !.long = @ - 1]
      [] f.t = "l" -> [q EXCEPT !.long = @ + 1]
      [] f.t = "L" -> [q EXCEPT !.long = @ + 2]
      [] f.t = "-" -> [q EXCEPT !.left = TRUE]
      [] f.t = " " -> [q EXCEPT !.space = TRUE]
      [] f.t = "+" -> [q EXCEPT !.sign = TRUE]
      [] f.t \in {"num", "0"} /\ q.dot -> [q EXCEPT !.bad = TRUE]
      [] f.t = "num" -> [q EXCEPT !.width = f.v]
      [] f.t = "0" -> [q EXCEPT !.width = f.v, !.zero = @ \/ ~q.left]
      [] f.t = "*" -> [q EXCEPT !.width = f.v]
      [] f.t = "." -> [q EXCEPT !.dot = TRUE, !.preci = Greater(f.v, 0)]

NoFlags == [hash |-> FALSE, long |-> 0, left |-> FALSE, space |-> FALSE, sign |-> FALSE,
            zero |-> FALSE, dot |-> FALSE, width |-> 0, preci |-> 0, bad |-> FALSE]
Flags(fs) ==
    LET q[i \in 0 .. Len(fs)] == IF i = 0 THEN NoFlags ELSE Flag(q[i - 1], fs[i]) IN q[Len(fs)]

(* num_printf.  The sign is taken off before the number is cut to a short  *)
(* or a char.                                                              *)
num_printf(q, conv, arg) ==
    LET base == CASE conv \in {"x", "p"} -> 16 [] conv = "o" -> 8 [] conv = "b" -> 2 [] OTHER -> 10
        mark == CASE conv = "p" \/ (conv = "x" /\ q.hash) -> <<0, EX>>
                  [] conv = "o" /\ q.hash -> <<0>> [] OTHER -> <<>>
        long == IF conv = "p" THEN 1 ELSE q.long
        number == Signed(arg, IF long > 1 THEN LongLongBits ELSE LongBits)
        neg == conv = "d" /\ number < 0
        n == IF neg THEN -number ELSE number
        digits == CASE long > 1 -> lltostr(n, base)
                    [] long = -1 -> ltostr(n % 2^ShortBits, base)
                    [] long < -1 -> ltostr(n % 2^CharBits, base)
                    [] OTHER -> ltostr(n, base)
        empty == q.dot /\ digits = <<0>>
        body == IF empty THEN <<>> ELSE mark \o digits
        s == IF neg THEN <<MINUS>>
             ELSE IF conv = "d" /\ q.sign THEN <<PLUS>>
             ELSE IF conv = "d" /\ q.space THEN <<SPACE>> ELSE <<>>
        w == [q EXCEPT !.width = IF conv = "x" THEN Greater(@, q.preci) ELSE @]
    IN  print_out(w, s \o body, IF ~empty /\ mark # <<>> THEN Len(mark) ELSE Len(s))

(* Behind the point; %g drops zeros at the end, and the point if nothing   *)
(* is left behind it.                                                      *)
Short(s) ==
    LET keep == {i \in DOMAIN s : s[i] \notin {0, DOT} \/ ~\E j \in 1 .. i : s[j] = DOT}
    IN  SubSeq(s, 1, CHOOSE i \in keep : \A j \in keep : j <= i)

float_printf(q, conv, d) ==
    LET preci == IF q.dot THEN q.preci ELSE 6
        width == IF q.width = 0 THEN 1 ELSE q.width
        full == dtostr(d, width, preci)
        cut == {i \in DOMAIN full : q.dot /\ preci = 0 /\ full[i] = DOT}
        s == IF cut = {} THEN full ELSE SubSeq(full, 1, (CHOOSE i \in cut : TRUE) - 1)
        g == IF conv = "g" THEN Short(s) ELSE s
        signed == IF (q.sign \/ q.space) /\ d >= 0
                  THEN <<IF q.sign THEN PLUS ELSE SPACE>> \o g ELSE g
        left == IF ~q.dot THEN 6 ELSE Lower(preci, 1)
    IN  print_out([q EXCEPT !.dot = FALSE, !.width = width, !.preci = left], signed,
                  IF q.sign \/ d < 0 THEN 1 ELSE 0)

(* %c and %% do not look at the width.                                     *)
v_printf(f) ==
    LET q == Flags(f.flags)
    IN  <<f.text>> \o
        CASE f.conv = "c" -> << <<f.arg>> >>
          [] f.conv = "s" ->
                 print_out([q EXCEPT !.preci = 0, !.dot = FALSE, !.zero = FALSE],
                           IF q.dot THEN SubSeq(f.arg, 1, Lower(q.preci, Len(f.arg))) ELSE f.arg, 0)
          [] f.conv \in {"f", "g"} -> float_printf(q, f.conv, f.arg)
          [] OTHER -> num_printf(q, f.conv, f.arg)

Flat(pieces) ==
    LET all[i \in 0 .. Len(pieces)] == IF i = 0 THEN <<>> ELSE all[i - 1] \o pieces[i]
    IN  all[Len(pieces)]

-----------------------------------------------------------------------------
(* A piece is added to a buffer with room for size characters and a 0.     *)
(* Slip: the room is not counted down.                                     *)
swrite_Whole(sd, piece) ==
    LET n == Lower(Len(piece), sd.size)
    IN  [sd EXCEPT !.len = @ + n,
                   !.str = [i \in DOMAIN @ |-> IF i \in sd.len .. sd.len + n - 1 THEN piece[i - sd.len + 1]
                                               ELSE IF i = sd.len + n THEN NUL ELSE @[i]]]
swrite(sd, piece) ==
    LET n == Lower(Len(piece), sd.size - sd.len)
    IN  IF sd.size = sd.len THEN sd
        ELSE [sd EXCEPT !.len = @ + n,
                        !.str = [i \in DOMAIN @ |->
                                    IF i \in sd.len .. sd.len + n - 1 THEN piece[i - sd.len + 1]
                                    ELSE IF i = sd.len + n THEN NUL ELSE @[i]]]

(* The memory at str after the pieces of v_printf.                         *)
vsnprintf(str, size, pieces) ==
    LET n == Len(Flat(pieces))
        sd[i \in 0 .. Len(pieces)] ==
            IF i = 0 THEN [str |-> str, len |-> 0, size |-> Greater(size - 1, 0)]
            ELSE swrite(sd[i - 1], pieces[i])
        out == sd[Len(pieces)].str
    IN  IF size = 0 THEN out ELSE [out EXCEPT ![IF n >= size THEN size - 1 ELSE n] = NUL]

-----------------------------------------------------------------------------
(* __v_scanf.  st.pos is the place of the character tpch, which has been   *)
(* taken from the input but not used; st.ret is "" while the scan goes on, *)
(* "n" where the code returns n and "err" where it goes to err_out.        *)
Ch(in, p) == IF p <= Len(in) THEN in[p] ELSE EOF
First(in, p, C) == CHOOSE i \in p .. Len(in) + 1 :     \* the first that is not in C
    Ch(in, i) \notin C /\ \A j \in p .. i - 1 : Ch(in, j) \in C
Begin == [pos |-> 1, n |-> 0, got |-> <<>>, ret |-> ""]
Skip(in, p) == First(in, p, {SPACE})

Stored(st, it, p, v) ==
    IF it.discard THEN [st EXCEPT !.pos = p]
    ELSE [st EXCEPT !.pos = p, !.n = @ + 1, !.got = Append(@, v)]

scan_space(st, in) == [st EXCEPT !.pos = Skip(in, @)]
scan_text(st, in, c) ==
    IF Ch(in, st.pos) = c THEN [st EXCEPT !.pos = @ + 1] ELSE [st EXCEPT !.ret = "err"]

Sign(in, p) == IF Ch(in, p) = MINUS THEN p + 1 ELSE p
Plus(in, p) == IF Ch(in, p) = PLUS THEN p + 1 ELSE p

(* The value of the digits from p to e - 1, as the loop computes it.       *)
Value(in, p, e, base) ==
    LET v[i \in p .. e] ==
            IF i = p THEN 0
            ELSE LET d == (v[i - 1] * base) % 2^LongLongBits
                 IN  IF d < v[i - 1] THEN 2^LongLongBits - 1 ELSE (d + in[i - 1]) % 2^LongLongBits
    IN  v[e]

(* %u and %i find out the base from the number, but not if there is a      *)
(* width: then no digit is one of base 0.  The minus sign counts for %d    *)
(* and %o only, and not for numbers of 2^63 and more.                      *)
scan_int(st, in, it) ==
    LET base == CASE it.conv = "x" -> 16 [] it.conv = "d" -> 10 [] it.conv = "o" -> 8 [] OTHER -> 0
        bits == CASE it.long > 1 -> LongLongBits [] it.long < 0 -> ShortBits [] OTHER -> LongBits
        at[p \in Nat] ==       \* behind the sign
            LET lead == it.width = -1 /\ base \in {0, 16} /\ Ch(in, p) = 0
                hex == lead /\ Ch(in, p + 1) = EX
                b == IF hex THEN 16 ELSE IF lead /\ base = 0 THEN 8
                     ELSE IF base = 0 /\ it.width = -1 THEN 10 ELSE base
            IN  [b |-> b, from |-> IF hex THEN p + 2 ELSE IF lead THEN p + 1 ELSE p]
        end[from \in Nat, b \in Nat] ==
            IF it.width = -1 THEN First(in, from, 0 .. b - 1)
            ELSE Lower(First(in, from, 0 .. b - 1), from + it.width)
        scan[p0 \in Nat] ==
            LET p == Plus(in, Sign(in, p0))
                n == at[p]
                e == end[n.from, n.b]
                v == Value(in, n.from, e, n.b)
            IN  IF Ch(in, p) = EOF \/ e = p THEN [st EXCEPT !.pos = p, !.ret = "n"]
                ELSE Stored(st, it, e, (IF /\ Ch(in, p0) = MINUS /\ it.conv \in {"d", "o"}
                                          /\ v < 2^(LongLongBits - 1)
                                       THEN -v ELSE v) % 2^bits)
    IN  scan[Skip(in, st.pos)]

(* A minus sign is read over, and an exponent without a sign makes the     *)
(* number 0 and is not read.                                               *)
scan_float(st, in, it) ==
    LET digits[p \in Nat] == First(in, p, 0 .. 9)
        num[p \in Nat, dot \in Nat, end \in Nat] ==       \* up to a place before end
            LET d[i \in p .. end] ==
                    IF i = p THEN 0
                    ELSE IF i <= dot THEN d[i - 1] * 10 + in[i - 1] * ONE
                    ELSE IF i = dot + 1 THEN d[i - 1] ELSE d[i - 1] + in[i - 1] * (ONE \div 10^(i - 1 - dot))
            IN  d[end]
        behind[end \in Nat, d \in Nat] ==                   \* the exponent
            LET exp == IF Ch(in, end) = EEE /\ Ch(in, end + 1) \in {PLUS, MINUS} THEN end + 2 ELSE end
                last == digits[exp]
                by == 10 ^ Value(in, exp, last, 10)
            IN  IF exp # end /\ last = exp THEN [st EXCEPT !.pos = last, !.ret = "n"]
                ELSE IF Ch(in, end) # EEE THEN Stored(st, it, end, d)
                ELSE IF exp = end THEN Stored(st, it, end, 0)
                ELSE Stored(st, it, last, IF Ch(in, exp - 1) = PLUS THEN d * by ELSE d \div by)
        scan[p \in Nat] ==
            LET dot == digits[p]
                end == IF Ch(in, dot) = DOT THEN digits[dot + 1] ELSE dot
            IN  IF end = p \/ (Ch(in, dot) = DOT /\ end = p + 1)
                THEN [st EXCEPT !.pos = end, !.ret = "n"]
                ELSE behind[end, num[p, dot, end]]
    IN  scan[Plus(in, Sign(in, Skip(in, st.pos)))]

Cut(st, in, it, e) == IF it.width = -1 THEN e ELSE Lower(e, st.pos + it.width)

scan_chars(st, in, it) ==
    LET e == Lower(st.pos + (IF it.width = -1 THEN 1 ELSE it.width), Len(in) + 1)
    IN  Stored(st, it, e, SubSeq(in, st.pos, e - 1))

scan_string(st, in, it) ==
    LET p == Skip(in, st.pos)
        e == Cut([st EXCEPT !.pos = p], in, it, First(in, p, 0 .. NUL \ {SPACE}))
    IN  IF Ch(in, p) = EOF THEN [st EXCEPT !.pos = p] ELSE Stored(st, it, e, SubSeq(in, p, e - 1))

(* The characters of the set, or those that are not in it.                 *)
scan_set(st, in, it) ==
    LET e == Cut(st, in, it, First(in, st.pos, IF it.without THEN 0 .. NUL \ it.set ELSE it.set))
    IN  Stored(st, it, e, SubSeq(in, st.pos, e - 1))

scan_count(st, in, it) == [st EXCEPT !.got = Append(@, st.pos - 1)]

in_scan(st, in, it) ==
    IF st.ret # "" THEN st
    ELSE IF it.conv = " " THEN scan_space(st, in)
    ELSE IF it.conv = "text" THEN scan_text(st, in, it.arg)
    ELSE IF it.conv = "n" THEN scan_count(st, in, it)
    ELSE IF Ch(in, st.pos) = EOF THEN [st EXCEPT !.ret = "err"]
    ELSE CASE it.conv \in {"x", "d", "o", "u"} -> scan_int(st, in, it)
           [] it.conv \in {"f", "g"} -> scan_float(st, in, it)
           [] it.conv = "c" -> scan_chars(st, in, it)
           [] it.conv = "s" -> scan_string(st, in, it)
           [] it.conv = "[" -> scan_set(st, in, it)

v_scanf(in, items) ==
    LET st[i \in 0 .. Len(items)] == IF i = 0 THEN Begin ELSE in_scan(st[i - 1], in, items[i])
        end == st[Len(items)]
    IN  [got |-> end.got,
         ret |-> IF end.ret # "n" /\ Ch(in, end.pos) = EOF /\ end.n = 0 THEN EOF ELSE end.n]

-----------------------------------------------------------------------------
(* stdlib.c: the number at p and the place behind it (p if there is none). *)
strtoul(in, p, base) ==
    LET p0 == Skip(in, p)
        neg == Ch(in, p0) = MINUS
        orig == IF Ch(in, p0) \in {MINUS, PLUS} THEN p0 + 1 ELSE p0
        lead == base \in {0, 16} /\ Ch(in, orig) = 0
        hex == lead /\ Ch(in, orig + 1) = EX /\ Ch(in, orig + 2) \in 0 .. 15
        b == IF hex THEN 16 ELSE IF base # 0 THEN base ELSE IF lead THEN 8 ELSE 10
        from == IF hex THEN orig + 2 ELSE orig
        end == First(in, from, 0 .. b - 1)
        v[i \in from .. end] == IF i = from THEN 0 ELSE Lower(v[i - 1] * b + in[i - 1], 2^LongBits)
    IN  IF base = 1 \/ base > 36 THEN [v |-> 0, end |-> p]
        ELSE IF end = orig THEN [v |-> 0, end |-> p]
        ELSE [v |-> IF v[end] = 2^LongBits THEN 2^LongBits - 1      \* overflow
                    ELSE (IF neg THEN -v[end] ELSE v[end]) % 2^LongBits, end |-> end]

strtol(in, p, base) ==
    LET p0 == Skip(in, p)
        neg == Ch(in, p0) = MINUS /\ Ch(in, p0 + 1) \notin {EOF, SPACE, MINUS, PLUS, DOT}
        u == strtoul(in, IF neg THEN p0 + 1 ELSE p0, base)
    IN  [v |-> IF u.v >= 2^(LongBits - 1)
               THEN IF neg THEN -(2^(LongBits - 1)) ELSE 2^(LongBits - 1) - 1
               ELSE IF neg THEN -u.v ELSE u.v,
         end |-> IF u.end = (IF neg THEN p0 + 1 ELSE p0) THEN p ELSE u.end]

atoi(in) ==
    LET p == Skip(in, 1)
        from == IF Ch(in, p) \in {MINUS, PLUS} THEN p + 1 ELSE p
        v == Value(in, from, First(in, from, 0 .. 9), 10)
    IN  Signed(IF Ch(in, p) = MINUS THEN -v ELSE v, LongBits)

-----------------------------------------------------------------------------
Item(conv, arg) == [conv |-> conv, arg |-> arg, width |-> -1, discard |-> FALSE,
                    long |-> 0, set |-> {}, without |-> FALSE]
Leading(f) == [i \in DOMAIN f.text |-> Item(IF f.text[i] = SPACE THEN " " ELSE "text", f.text[i])]

(* One of the formats is printed and scanned with the same conversion,     *)
(* followed by %n.                                                         *)
NoFormat == [text |-> <<>>, flags |-> <<>>, conv |-> "none", arg |-> 0, pieces |-> <<>>, read |-> <<>>]
StdInit == fmt = NoFormat
StdNext ==
    /\ fmt = NoFormat
    /\ \E f \in Formats : \E pieces \in {v_printf(f)} :
           LET it == [Item(f.conv, 0) EXCEPT !.long = Flags(f.flags).long]
           IN  fmt' = [text |-> f.text, flags |-> f.flags, conv |-> f.conv, arg |-> f.arg,
                       pieces |-> pieces,
                       read |-> v_scanf(Flat(pieces), Leading(f) \o <<it, Item("n", 0)>>)]

Q == Flags(fmt.flags)
NoWidth(f) == [f EXCEPT !.flags = SelectSeq(@, LAMBDA g : g.t \notin {"num", "0", "*"})]
Out == Flat(fmt.pieces)
Field == Flat(Tail(fmt.pieces))
Only(s, c) == \A i \in DOMAIN s : s[i] = c
Behind(s, n) == SubSeq(s, n + 1, Len(s))
Upto(s, n) == SubSeq(s, 1, n)

(* A width adds nothing but padding to what is printed without it, up to   *)
(* the width: blanks on one side, or zeros behind the sign and the mark of *)
(* the base; and vsnprintf leaves as much of it as fits into the buffer,   *)
(* with a 0 behind it, and writes nothing outside the buffer.              *)
PrintsRight ==
    fmt.conv # "none" =>
      \E core \in {Flat(Tail(v_printf(NoWidth(fmt))))} :
        LET more == Len(Field) - Len(core)
            mem == [i \in 0 .. Len(Out) + 2 |-> TEXT]
        IN  /\ IF fmt.conv = "c" THEN more = 0
               ELSE more = Greater(Q.width - Len(core), 0)
            /\ \/ Q.left /\ Upto(Field, Len(core)) = core /\ Only(Behind(Field, Len(core)), SPACE)
               \/ ~Q.left /\ Behind(Field, more) = core /\ Only(Upto(Field, more), SPACE)
               \/ /\ ~Q.left /\ Q.zero
                  /\ \E k \in 0 .. Lower(2, Len(core)) :
                         Field = Upto(core, k) \o write_pad(more, 0) \o Behind(core, k)
            /\ \A size \in 0 .. Len(Out) + 2 :
                   vsnprintf(mem, size, fmt.pieces) =
                       [i \in DOMAIN mem |->
                           IF i < size - 1 /\ i < Len(Out) THEN Out[i + 1]
                           ELSE IF size > 0 /\ i = Lower(size - 1, Len(Out)) THEN NUL ELSE TEXT]

Shown == IF Q.long > 1 THEN LongLongBits ELSE IF Q.long = -1 THEN ShortBits
         ELSE IF Q.long < -1 THEN CharBits ELSE LongBits
Number == SelectSeq(Field, LAMBDA c : c \in 0 .. 15)

(* scanf reads back what printf printed with the same conversion: integers *)
(* of every size modulo what that size holds, numbers with a fraction up   *)
(* to half a unit of the last digit (and up to their sign, which %f does   *)
(* not read), words and characters; %n counts the characters that were     *)
(* read, and strtol, strtoul and atoi read the same numbers.  Of an        *)
(* unsigned number this holds only if it does not begin with a zero, which *)
(* would make it octal, and of a number with a fraction not for "% 06f",   *)
(* which puts the zeros in front of the blank.                             *)
ReadsBack ==
    /\ fmt.conv \in {"d", "u", "x", "o"} /\ Number # <<>>
          /\ (fmt.conv = "u" => Len(Number) = 1 \/ Number[1] # 0) =>
           LET r == fmt.read
           IN  /\ r.ret = 1 /\ (r.got[1] - fmt.arg) % 2^Shown = 0
               /\ ~Q.left => r.got[2] = Len(Out)
               /\ Q.long = 0 =>
                      \E field \in {Field} :
                          CASE fmt.conv = "x" -> strtoul(field, 1, 16).v = fmt.arg % 2^LongBits
                            [] fmt.conv = "o" -> strtoul(field, 1, 8).v = fmt.arg % 2^LongBits
                            [] fmt.conv = "u" -> strtoul(field, 1, 10).v = fmt.arg % 2^LongBits
                            [] fmt.conv = "d" ->
                                 /\ atoi(field) = Signed(fmt.arg, LongBits)
                                 /\ strtol(field, 1, 10) = [v |-> Signed(fmt.arg, LongBits),
                                                           end |-> r.got[2] - Len(fmt.text) + 1]
    /\ fmt.conv \in {"f", "g"} /\ ~(Q.space /\ Q.zero) =>
           LET unit == ONE \div 10^(IF Q.dot THEN Q.preci ELSE 6)
           IN  fmt.read.ret = 1 /\ 2 * Abs(fmt.read.got[1] - Abs(fmt.arg)) <= unit
    /\ fmt.conv = "s" /\ fmt.arg # <<>> /\ (Q.dot => Q.preci > 0) =>
           LET word == IF Q.dot THEN Upto(fmt.arg, Lower(Q.preci, Len(fmt.arg))) ELSE fmt.arg
               set == [Item("[", 0) EXCEPT !.set = {word[i] : i \in DOMAIN word}]
           IN  /\ fmt.read.ret = 1 /\ fmt.read.got[1] = word
               /\ v_scanf(Field, <<Item(" ", 0), set>>).got = <<word>>
               /\ v_scanf(Field, <<[set EXCEPT !.without = TRUE],
                                   [Item("c", 0) EXCEPT !.width = Len(word)]>>).got[2] = word
    /\ fmt.conv = "c" => fmt.read.got[1] = <<fmt.arg>>
=============================================================================
