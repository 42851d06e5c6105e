-------------------------------- MODULE DevFs --------------------------------
(***************************************************************************)
(* Files and devices (port/fs.c, dev.c, dev*.c): the table of open files   *)
(* and the calls on it.  No call is a critical section: another thread may *)
(* run between looking for a free entry and filling it, between a device's *)
(* close and the release of the entry, and between reading the position of *)
(* a file and moving it.                                                   *)
(*                                                                         *)
(* Names are sequences of their parts: "/usr/NOTES" is <<"usr", "NOTES">>, *)
(* "/dev/console/cons" is <<"dev", "console", "cons">>.  Text is counted,  *)
(* not spelt: a file has a length, and a read delivers the offsets read.   *)
(***************************************************************************)
EXTENDS Integers, Sequences, FiniteSets

CONSTANTS
    Clients,    \* the threads that use files
    MAX_FILES,  \* 128 in the source
    Devs,       \* the devices of devtab; console is the first
    Length,     \* length of the texts "NOTES", "drivers", "sysctl"
    Chunks,     \* the counts passed to read_sys
    Uses        \* what the threads do: see use

Devices == {"console", "root", "test", "uart", "trace"}
Texts == {"NOTES", "drivers", "sysctl"}

ASSUME DevFsAssumption ==
    /\ IsFiniteSet(Clients) /\ MAX_FILES \in Nat /\ MAX_FILES >= 3
    /\ {"console", "root"} \subseteq Devs /\ Devs \subseteq Devices
    /\ Length \in [Texts -> Nat] /\ Chunks \subseteq Nat
    /\ Uses \subseteq [paths : SUBSET Seq(STRING), open : SUBSET Clients,
                       close : SUBSET Clients]

VARIABLES
    use,        \* the names opened, who opens and who closes; never changes
    files,      \* the table; entry MAX_FILES is the memory behind it
    traceenabled,
    held,       \* fd |-> the name it was opened with, for the fds in use
    at,         \* where each thread is: see Places
    delivered,  \* the offsets that reads of each open file returned
    overrun     \* the last read_sys or write_sys returned more than its count

fvars == <<use, files, traceenabled, held, at, delivered, overrun>>

Nodev == "Nodev"
FDs == 0 .. MAX_FILES - 1
Free == [type |-> Nodev, qid |-> "0", pos |-> 0]
-----------------------------------------------------------------------------
(* The root file system (prtkcf.root.h), in the order of roottab.          *)
roottab == << [name |-> "", dir |-> TRUE, dotdot |-> 1],
              [name |-> "dev", dir |-> TRUE, dotdot |-> 1],
              [name |-> "tmp", dir |-> TRUE, dotdot |-> 1],
              [name |-> "usr", dir |-> TRUE, dotdot |-> 1],
              [name |-> "NOTES", dir |-> FALSE, dotdot |-> 4] >>
rootmaxq == Len(roottab)

(* The index that the search for one part of a name ends at (rootmaxq + 1: *)
(* not found), and the last directory it passed, d if none.                *)
Search(part, d) ==
    LET hits == {j \in 1 .. rootmaxq : roottab[j].name = part}
        j == IF hits = {} THEN rootmaxq + 1 ELSE CHOOSE i \in hits : \A l \in hits : i <= l
        dirs == {i \in 1 .. j - 1 : roottab[i].dir}
    IN  [j |-> j, dotdot |-> IF dirs = {} THEN d ELSE CHOOSE i \in dirs : \A l \in dirs : l <= i]

(* The entry that rootopen walks to, 0 for ENOENT.  Every part is searched *)
(* from the top of the table, and QTFILE is 0, so that no part ends the    *)
(* walk.                                                                   *)
rootwalk(name) ==
    LET go[i \in 0 .. Len(name)] ==
            IF i = 0 THEN [j |-> 1, dotdot |-> 1]
            ELSE IF go[i - 1].j > rootmaxq THEN go[i - 1] ELSE Search(name[i], go[i - 1].dotdot)
        end == go[Len(name)]
    IN  IF end.j > rootmaxq \/ roottab[end.j].dotdot # end.dotdot THEN 0 ELSE end.j

contab == {"cons", "drivers", "kprint", "null", "sysctl"}
uartdir == {".", "eia0", "eia0ctl", "eia0status"}   \* one port

(* What a name leads to: a device and a file of it, "none" for ENOENT or   *)
(* EBADF.  Names under /dev need a part after the device's; names of the   *)
(* trace device are compared up to "/dev/trace".                           *)
open_sys(name) ==
    IF Head(name) # "dev" \/ Len(name) = 1
    THEN LET j == rootwalk(name)
         IN  IF j = 0 THEN <<"none", "">> ELSE <<"root", roottab[j].name>>
    ELSE LET d == name[2]
         IN  IF Len(name) < 3 \/ d \notin Devs \/ d = "root" THEN <<"none", "">>
             ELSE CASE d = "console" -> IF name[3] \in contab THEN <<d, name[3]>> ELSE <<"none", "">>
                    [] d = "uart" -> IF name[3] \in uartdir THEN <<d, name[3]>> ELSE <<"none", "">>
                    [] d = "trace" -> <<d, "trace">>
                    [] d = "test" -> <<d, "0">>

newfd ==
    LET free == {fd \in FDs : files[fd].type = Nodev}
    IN  IF free = {} THEN MAX_FILES ELSE CHOOSE fd \in free : \A g \in free : fd <= g

freefd(fd) == files' = [files EXCEPT ![fd] = Free]     \* fd = MAX_FILES too
-----------------------------------------------------------------------------
(* consinit gives the application descriptors 0, 1 and 2.                  *)
consinit ==
    [fd \in 0 .. MAX_FILES |->
        IF fd < 3 THEN [type |-> "console", qid |-> "cons", pos |-> 0]
        ELSE IF fd = MAX_FILES THEN [type |-> "other data", qid |-> "0", pos |-> 0] ELSE Free]

FInit ==
    /\ use \in Uses /\ files = consinit /\ traceenabled = FALSE
    /\ held = [fd \in 0 .. 2 |-> <<"dev", "console", "cons">>]
    /\ at = [t \in Clients |-> [what |-> "idle"]]
    /\ delivered = [fd \in FDs |-> <<>>] /\ overrun = FALSE

FAt(t, w) == at[t].what = w
Go(t, place) == at' = [at EXCEPT ![t] = place]
Rest(t) == Go(t, [what |-> "idle"])

(* open_sys and the device's open up to newfd: a full table makes console  *)
(* and trace "free" the entry behind it.                                   *)
OpenLooks(t) ==
    /\ FAt(t, "idle") /\ t \in use.open
    /\ \E name \in use.paths :
           LET o == open_sys(name)
           IN  /\ o[1] # "none"
               /\ IF newfd = MAX_FILES
                  THEN /\ IF o[1] \in {"console", "trace"} THEN freefd(newfd) ELSE UNCHANGED files
                       /\ UNCHANGED at
                  ELSE /\ Go(t, [what |-> "fill", fd |-> newfd, type |-> o[1], qid |-> o[2], name |-> name])
                       /\ UNCHANGED files
    /\ UNCHANGED <<use, traceenabled, held, delivered, overrun>>

(* testopen sets the type only.                                            *)
OpenFills(t) ==
    /\ FAt(t, "fill")
    /\ LET p == at[t]
       IN  /\ files' = [files EXCEPT ![p.fd] =
                            IF p.type = "test" THEN [@ EXCEPT !.type = "test"]
                            ELSE [type |-> p.type, qid |-> p.qid, pos |-> 0]]
           /\ held' = [fd \in DOMAIN held \cup {p.fd} |-> IF fd = p.fd THEN p.name ELSE held[fd]]
           /\ delivered' = [delivered EXCEPT ![p.fd] = <<>>]
    /\ Rest(t)
    /\ UNCHANGED <<use, traceenabled, overrun>>

(* close_sys up to the device's close; the application gives the fd up.    *)
close_sys(t) ==
    /\ FAt(t, "idle") /\ t \in use.close
    /\ \E fd \in DOMAIN held :
           /\ files[fd].type # Nodev             \* else EBADF
           /\ \A u \in Clients : at[u].what = "read" => at[u].fd # fd
           /\ held' = [g \in DOMAIN held \ {fd} |-> held[g]]
           /\ IF files[fd].type = "test" THEN freefd(fd) ELSE UNCHANGED files
           /\ Go(t, [what |-> "close", fd |-> fd])
    /\ UNCHANGED <<use, traceenabled, delivered, overrun>>

(* Slip: the entry keeps its device.                                       *)
CloseFrees_Keeps(t) ==
    /\ FAt(t, "close") /\ files' = [files EXCEPT ![at[t].fd].pos = 0] /\ Rest(t)
    /\ UNCHANGED <<use, traceenabled, held, delivered, overrun>>

CloseFrees(t) ==
    /\ FAt(t, "close") /\ freefd(at[t].fd) /\ Rest(t)
    /\ delivered' = [delivered EXCEPT ![at[t].fd] = <<>>]
    /\ UNCHANGED <<use, traceenabled, held, overrun>>

Smaller(a, b) == IF a < b THEN a ELSE b

(* Slip: the count is not cut at the end of the text.                      *)
ReadCount_Uncut(len, n, offset) == IF offset >= len THEN 0 ELSE n

(* The count that rootread, consread or readstr returns for a text.        *)
ReadCount(len, n, offset) == IF offset >= len THEN 0 ELSE Smaller(n, len - offset)

(* read_sys of a text up to the copy of the data, at the position that was *)
(* read before; the other files have no position (see OtherRead).          *)
read_sys(t) ==
    /\ FAt(t, "idle")
    /\ \E fd \in DOMAIN held, n \in Chunks :
           /\ files[fd].qid \in Texts
           /\ \A u \in Clients : at[u].what = "read" => at[u].fd # fd
           /\ LET c == ReadCount(Length[files[fd].qid], n, files[fd].pos)
              IN  /\ Go(t, [what |-> "read", fd |-> fd, n |-> c])
                  /\ overrun' = (c > n)
                  /\ delivered' = [delivered EXCEPT ![fd] =
                                      @ \o [i \in 1 .. c |-> files[fd].pos + i - 1]]
    /\ UNCHANGED <<use, files, traceenabled, held>>

ReadMoves(t) ==
    /\ FAt(t, "read")
    /\ files' = [files EXCEPT ![at[t].fd].pos = @ + at[t].n] /\ Rest(t)
    /\ UNCHANGED <<use, traceenabled, held, delivered, overrun>>

(* A negative answer of the device comes back as a positive count.         *)
Negated(ret) == IF ret < 0 THEN -ret ELSE ret

(* What the devices return for the files that are no texts.  "disable" and *)
(* "enable" are copied whole, whatever the count.                          *)
consread(qid) == IF qid = "kprint" THEN -1 ELSE 0
uartread(qid, n) == IF qid = "." THEN -1 ELSE n
traceread == IF traceenabled THEN 6 ELSE 7
rootwrite == -1
conswrite(qid, n) == IF qid \in {"cons", "null"} THEN n ELSE -1
uartwrite(qid, n) == IF qid = "." THEN -1 ELSE n

OtherRead(t) ==
    /\ FAt(t, "idle")
    /\ \E fd \in DOMAIN held, n \in Chunks :
           LET f == files[fd]
           IN  /\ f.type # Nodev /\ f.qid \notin Texts
               /\ overrun' = (n < Negated(
                      CASE f.type = "console" -> consread(f.qid)
                        [] f.type = "uart" -> uartread(f.qid, n)
                        [] f.type = "trace" -> traceread [] OTHER -> 0))
    /\ UNCHANGED <<use, files, traceenabled, held, at, delivered>>

(* The texts written to the trace device are "enable" and "disable".       *)
write_sys(t) ==
    /\ FAt(t, "idle")
    /\ \E fd \in DOMAIN held, n \in Chunks, on \in BOOLEAN :
           LET f == files[fd]
           IN  /\ f.type # Nodev
               /\ traceenabled' = IF f.type = "trace" THEN on ELSE traceenabled
               /\ overrun' = (n < Negated(
                      CASE f.type = "root" -> rootwrite
                        [] f.type = "console" -> conswrite(f.qid, n)
                        [] f.type = "uart" -> uartwrite(f.qid, n)
                        [] f.type = "trace" -> IF on THEN 6 ELSE 7 [] OTHER -> 0))
    /\ UNCHANGED <<use, files, held, at, delivered>>

FNext == \E t \in Clients :
    \/ OpenLooks(t) \/ OpenFills(t) \/ close_sys(t) \/ CloseFrees(t)
    \/ read_sys(t) \/ ReadMoves(t) \/ OtherRead(t) \/ write_sys(t)

FSpec == FInit /\ [][FNext]_fvars
-----------------------------------------------------------------------------
Alone == Cardinality(use.open) = 1 /\ \A name \in use.paths : open_sys(name)[1] # "test"

(* With one thread that opens files, and no file of the test device (which *)
(* is released twice), the table and the application agree while other     *)
(* threads close files: an entry is in use exactly if somebody holds its   *)
(* descriptor or is about to close it, for the file that was named.  So no *)
(* descriptor is given out twice and no entry is lost.                     *)
FdsExclusive ==
    Alone => \A fd \in FDs :
        IF fd \in DOMAIN held
        THEN <<files[fd].type, files[fd].qid>> = open_sys(held[fd])
        ELSE files[fd].type = Nodev \/ \E t \in Clients : at[t].what = "close" /\ at[t].fd = fd

(* Reads of a text deliver all of it in order, nothing twice, and stop at  *)
(* its end, whatever the counts (one reader of an fd at a time), and no    *)
(* call reports more than it was asked for (the trace device does).        *)
ReadsInOrder ==
    /\ "trace" \notin Devs => ~overrun
    /\ Alone => \A fd \in DOMAIN held :
        files[fd].qid \in Texts =>
            /\ delivered[fd] = [i \in 1 .. Len(delivered[fd]) |-> i - 1]
            /\ Len(delivered[fd]) <= Length[files[fd].qid]
            /\ files[fd].pos < Len(delivered[fd]) =>
                   \E t \in Clients : at[t].what = "read" /\ at[t].fd = fd
=============================================================================
