------------------------------ MODULE CString ------------------------------
(***************************************************************************)
(* The memory and string functions of the two C libraries (ulibc/string.c, *)
(* core/libc/string.c, whose functions are the same where nothing else is  *)
(* said, and ulibc/libgen.c).  Memory is a function from addresses to      *)
(* characters; 0 ends a string and is the null pointer.  A function that   *)
(* writes is the memory after it, and follows the loop of the code, since  *)
(* its source and destination may overlap.  The loops that only read       *)
(* (strlen, strcmp, strchr, strstr, strspn and the like) are abstracted to *)
(* the place where they stop.                                              *)
(***************************************************************************)
EXTENDS Integers, FiniteSets

CONSTANTS Bytes, Chars      \* addresses 1 .. Bytes, characters; SLASH is 1

VARIABLE mem                \* the contents of the memory, <<>> before it is chosen
SLASH == 1
Addr == DOMAIN mem          \* 1 .. Bytes
NULLP == 0

Least(S) == CHOOSE x \in S : \A y \in S : x <= y
Greatest(S) == CHOOSE x \in S : \A y \in S : y <= x

(* Where the string at s ends; some strings run out of the memory.         *)
Terminator(m, s) == Least({i \in s .. Bytes : m[i] = 0})
Ends(m, s) == \E i \in s .. Bytes : m[i] = 0

strlen(m, s) == Terminator(m, s) - s

Fill(m, d, c, n) == [i \in Addr |-> IF i \in d .. d + n - 1 THEN c ELSE m[i]]
memset(m, d, c, n) == Fill(m, d, c, n)

(* Copying n characters one after the other, upwards or downwards.         *)
Forward(m, d, s, n) ==
    LET after[i \in 0 .. n] == IF i = 0 THEN m
            ELSE [after[i - 1] EXCEPT ![d + i - 1] = after[i - 1][s + i - 1]]
    IN  after[n]
Backward(m, d, s, n) ==
    LET after[i \in 0 .. n] == IF i = 0 THEN m
            ELSE [after[i - 1] EXCEPT ![d + n - i] = after[i - 1][s + n - i]]
    IN  after[n]

memcpy(m, d, s, n) == Forward(m, d, s, n)
(* Slip: always upwards.                                                   *)
memmove_Up(m, d, s, n) == Forward(m, d, s, n)
memmove(m, d, s, n) ==
    IF s = d THEN m ELSE IF s > d THEN Forward(m, d, s, n) ELSE Backward(m, d, s, n)

strcpy(m, d, s) == Forward(m, d, s, strlen(m, s) + 1)
strcat(m, d, s) == Forward(m, Terminator(m, d), s, strlen(m, s) + 1)

(* ulibc: fills with 0 and always ends the copy; n > 0 (for n = 0 it would *)
(* write in front of d).                                                   *)
strncpy(m, d, s, n) ==
    LET k == Least({strlen(m, s), n})
        copy == Forward(Fill(m, d, 0, n), d, s, k)
    IN  IF k >= n THEN [copy EXCEPT ![d + n - 1] = 0] ELSE copy

(* core/libc: copies the end only if it is among the first n.              *)
core_strncpy(m, d, s, n) == Forward(m, d, s, Least({strlen(m, s) + 1, n}))

strncat(m, d, s, n) ==
    LET e == Terminator(m, d)
        k == Least({strlen(m, s), n})
    IN  IF n = 0 THEN m ELSE [Forward(m, e, s, k) EXCEPT ![e + k] = 0]

-----------------------------------------------------------------------------
(* The loops that look for the first place where a condition holds.        *)
FirstDiff(m, a, b, n) ==
    LET D == {i \in 0 .. n - 1 : m[a + i] # m[b + i]} IN IF D = {} THEN n ELSE Least(D)

memcmp(m, a, b, n) ==
    LET i == FirstDiff(m, a, b, n) IN IF i = n THEN 0 ELSE m[a + i] - m[b + i]

StopsAt(m, a, b) ==
    Least({i \in 0 .. Bytes : a + i <= Bytes /\ b + i <= Bytes
                              /\ (m[a + i] # m[b + i] \/ m[a + i] = 0)})
strcmp(m, a, b) == LET i == StopsAt(m, a, b) IN m[a + i] - m[b + i]

strncmp(m, a, b, n) ==
    LET i == StopsAt(m, a, b) IN IF i >= n THEN 0 ELSE m[a + i] - m[b + i]

FirstOf(m, s, e, C) ==
    LET F == {i \in s .. e : m[i] \in C} IN IF F = {} THEN NULLP ELSE Least(F)
strchr(m, s, c) == FirstOf(m, s, Terminator(m, s), {c})
memchr(m, s, c, n) == FirstOf(m, s, s + n - 1, {c})

(* Copies up to and with the first c; the place behind it, or null.        *)
memccpy(m, d, s, c, n) ==
    LET f == FirstOf(m, s, s + n - 1, {c})
    IN  IF f = NULLP THEN <<Forward(m, d, s, n), NULLP>>
        ELSE <<Forward(m, d, s, f - s + 1), d + f - s + 1>>

strrchr(m, s, c) ==
    LET F == {i \in s .. Terminator(m, s) : m[i] = c} IN IF F = {} THEN NULLP ELSE Greatest(F)

strstr(m, h, x) ==
    LET n == strlen(m, x)
        F == {i \in h .. Terminator(m, h) - n : memcmp(m, i, x, n) = 0}
    IN  IF n = 0 THEN h ELSE IF F = {} THEN NULLP ELSE Least(F)

strspn(m, s, C) == Least({i \in s .. Bytes : m[i] \notin C \/ m[i] = 0}) - s
strcspn(m, s, C) == Least({i \in s .. Bytes : m[i] \in C \/ m[i] = 0}) - s

(* The memory, the token (or null) and the place where the next call goes  *)
(* on.                                                                     *)
strtok_r(m, s, C) ==
    LET t == s + strspn(m, s, C)
        e == t + strcspn(m, t, C)
    IN  IF m[t] = 0 THEN <<m, NULLP, t>>
        ELSE IF m[e] = 0 THEN <<m, t, e>> ELSE <<[m EXCEPT ![e] = 0], t, e + 1>>

-----------------------------------------------------------------------------
(* The path without the slashes at its end (a lone slash stays).           *)
NoTail(m, p) ==
    LET c == strrchr(m, p, SLASH)
        stay == {i \in p .. Terminator(m, p) - 1 : m[i] # SLASH}
    IN  IF c = NULLP \/ m[c + 1] # 0 THEN m
        ELSE Fill(m, IF stay = {} THEN p + 1 ELSE Greatest(stay) + 1, 0,
                  IF stay = {} THEN c - p ELSE c - Greatest(stay))

(* <<memory, result>>                                                      *)
basename(m, p) ==
    LET n == NoTail(m, p)
        c == strrchr(n, p, SLASH)
    IN  IF c = NULLP THEN <<n, p>> ELSE IF n[c + 1] = 0 THEN <<n, c>> ELSE <<n, c + 1>>

(* The result is null where the code returns the string ".".               *)
dirname(m, p) ==
    LET n == NoTail(m, p)
        c == strrchr(n, p, SLASH)
        keep == {i \in p .. c : n[i] # SLASH}
    IN  IF c = NULLP THEN <<n, NULLP>>
        ELSE IF c = p THEN <<[n EXCEPT ![p + 1] = 0], p>>
        ELSE <<Fill(n, Greatest(keep) + 1, 0, c - Greatest(keep)), p>>

-----------------------------------------------------------------------------
MemInit == mem = <<>>
MemNext == mem = <<>> /\ mem' \in [1 .. Bytes -> Chars]

Str(m, s) == [i \in 1 .. strlen(m, s) |-> m[s + i - 1]]
Strings(m) == {s \in Addr : Ends(m, s)}
SameBut(m, n, d, k) == \A i \in Addr : i \in d .. d + k - 1 \/ n[i] = m[i]
Apart(a, k, b, n) == a + k <= b \/ b + n <= a
Cat(x, y) == [i \in 1 .. Cardinality(DOMAIN x) + Cardinality(DOMAIN y) |->
                IF i \in DOMAIN x THEN x[i] ELSE y[i - Cardinality(DOMAIN x)]]
Prefix(x, n) == [i \in 1 .. Least({Cardinality(DOMAIN x), n}) |-> x[i]]

(* memmove copies overlapping memory in both directions, and the string    *)
(* functions make the strings that C says, of operands that do not         *)
(* overlap, and write nothing behind the place they may write to.          *)
CopiesRight ==
    /\ \A d, s \in Addr, n \in 0 .. Bytes : d + n <= Bytes + 1 /\ s + n <= Bytes + 1 =>
           /\ memmove(mem, d, s, n) =
                  [i \in Addr |-> IF i \in d .. d + n - 1 THEN mem[s + i - d] ELSE mem[i]]
           /\ Apart(d, n, s, n) => memcpy(mem, d, s, n) = memmove(mem, d, s, n)
    /\ \A s \in Strings(mem), d \in Addr, n \in 1 .. Bytes :
           LET k == strlen(mem, s) + 1
           IN  /\ d + k <= Bytes + 1 /\ Apart(d, k, s, k) =>
                      /\ Str(strcpy(mem, d, s), d) = Str(mem, s)
                      /\ SameBut(mem, strcpy(mem, d, s), d, k)
               /\ d + n <= Bytes + 1 /\ Apart(d, n, s, k) =>
                      /\ Str(strncpy(mem, d, s, n), d) = Prefix(Str(mem, s), n - 1)
                      /\ SameBut(mem, strncpy(mem, d, s, n), d, n)
                      /\ SameBut(mem, core_strncpy(mem, d, s, n), d, n)
    /\ \A s, d \in Strings(mem), n \in 0 .. Bytes :
           LET e == Terminator(mem, d)
               k == strlen(mem, s) + 1
           IN  e + k <= Bytes + 1 /\ Apart(d, e - d + k, s, k) =>
                   /\ Str(strcat(mem, d, s), d) = Cat(Str(mem, d), Str(mem, s))
                   /\ Str(strncat(mem, d, s, n), d) = Cat(Str(mem, d), Prefix(Str(mem, s), n))

(* A token is a longest run without delimiters.                            *)
Tokens(m, s, C) ==
    {<<i, j>> \in Addr \X Addr :
        /\ i \in s .. Terminator(m, s) - 1 /\ j \in i + 1 .. Terminator(m, s)
        /\ \A x \in i .. j - 1 : m[x] \notin C
        /\ i = s \/ m[i - 1] \in C
        /\ m[j] \in C \cup {0}}

(* What strtok_r returns when it is called until it returns NULL.          *)
AllTokens(m, s, C) ==
    LET step[i \in 0 .. Bytes] ==
            IF i = 0 THEN <<strtok_r(m, s, C), {}>>
            ELSE LET b == step[i - 1]
                     r == b[1]
                 IN  IF r[2] = NULLP THEN b
                     ELSE <<strtok_r(r[1], r[3], C), b[2] \cup {<<r[2], Terminator(r[1], r[2])>>}>>
    IN  step[Bytes][2]

Before(x, y) ==     \* x comes before y in a dictionary
    \E n \in 0 .. Bytes :
        /\ Prefix(x, n) = Prefix(y, n) /\ n \in 0 .. Cardinality(DOMAIN x)
        /\ n + 1 \in DOMAIN y /\ (n + 1 \in DOMAIN x => x[n + 1] < y[n + 1])

(* basename and dirname take the path apart: nothing is left of it but     *)
(* slashes between the two, and neither ends in a slash.  (A path that     *)
(* begins with two slashes makes dirname run over the start of the path.)  *)
PathsSplit ==
    \A p \in Strings(mem) : ~(mem[p] = SLASH /\ p < Bytes /\ mem[p + 1] = SLASH) /\ p < Bytes =>
        LET b == basename(mem, p)
            d == dirname(mem, p)
            file == Str(b[1], b[2])
            dir == Str(d[1], d[2])
            Members(x) == {x[i] : i \in DOMAIN x}
            n == Cardinality(DOMAIN file)
        IN  /\ SLASH \in Members(file) => file = <<SLASH>>
            /\ d[2] = NULLP => SLASH \notin Members(Str(NoTail(mem, p), p))
            /\ d[2] # NULLP /\ dir # <<SLASH>> =>
                   /\ dir[Cardinality(DOMAIN dir)] # SLASH
                   /\ Prefix(Str(mem, p), Cardinality(DOMAIN dir)) = dir
                   /\ \A i \in p + Cardinality(DOMAIN dir) .. b[2] - 1 : mem[i] = SLASH
            /\ n > 0 => Prefix(Str(mem, b[2]), n) = file

(* strcmp orders strings as a dictionary does, strncmp compares the first  *)
(* n characters, strstr finds the first place or none, the calls of        *)
(* strtok_r that follow one another return every token and nothing else,   *)
(* and basename and dirname split a path.                                  *)
SearchesRight ==
  /\ PathsSplit
  /\ \A a, b \in Strings(mem) :
        LET x == Str(mem, a)
            y == Str(mem, b)
        IN  /\ (strcmp(mem, a, b) < 0) <=> Before(x, y)
            /\ (strcmp(mem, a, b) = 0) <=> (x = y)
            /\ \A n \in 0 .. Bytes : (strncmp(mem, a, b, n) = 0) <=> (Prefix(x, n) = Prefix(y, n))
            /\ LET pos == strstr(mem, a, b)
               IN  IF pos = NULLP THEN \A i \in a .. Terminator(mem, a) : Prefix(Str(mem, i), strlen(mem, b)) # y
                   ELSE /\ Prefix(Str(mem, pos), strlen(mem, b)) = y
                        /\ \A i \in a .. pos - 1 : Prefix(Str(mem, i), strlen(mem, b)) # y
            /\ \A C \in SUBSET (Chars \ {0}) : AllTokens(mem, a, C) = Tokens(mem, a, C)


(* The string and memory functions: what they copy and what they find.     *)
StringsRight == CopiesRight /\ SearchesRight
=============================================================================
