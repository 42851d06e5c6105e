----------------------------- MODULE MCServices -----------------------------
(***************************************************************************)
(* The services that keep no state in common with one another, checked     *)
(* side by side: sel is the one that a behaviour is about, and the others  *)
(* stay as they begin.  The system calls are two of them: the calls and    *)
(* interrupts of several threads, for some calls, and one thread that      *)
(* makes them all.                                                         *)
(***************************************************************************)
EXTENDS DevFs, Tlsf, SysMem, MCSyscalls, CString, Stdio,
        Calendar, TimeCalls, TimerHw, Startup

CONSTANTS cx, cy

VARIABLE sel

Services == {"files", "heap", "sysmem", "syscalls", "stubs",
             "strings", "formats", "streams", "calendar", "time calls", "timer", "clock",
             "startup"}

-----------------------------------------------------------------------------
MCLength == ("NOTES" :> 2 @@ "drivers" :> 1 @@ "sysctl" :> 2)
Using(ps, o, c) == [paths |-> ps, open |-> o, close |-> c]
notes == <<"usr", "NOTES">>
con(f) == <<"dev", "console", f>>
MCUses ==
    {Using({notes}, {cx}, {cy}),
     Using({con("drivers"), <<"dev", "uart", ".">>}, {cx}, {cy}),
     Using({<<"dev", "test", "t">>, con("none")}, {cx, cy}, {cy})}

FewCalls == Creates \cup {"none", "pthread_exit", "mmap", "pthread_self"}
MCJump == (1500 :> 10900)
MCInput == <<1, NEWLINE, 2, 3, NEWLINE, NEWLINE, 4>>

-----------------------------------------------------------------------------
(* Formats: an optional flag, width, precision and size, in this order.    *)
Fl(t, v) == [t |-> t, v |-> v]
Opt(S) == {<<>>} \cup {<<f>> : f \in S}
Heads == Opt({Fl("-", 0), Fl("+", 0), Fl(" ", 0)})
Marks == Opt({Fl("-", 0), Fl("#", 0)})
Widths == Opt({Fl("num", 5), Fl("0", 6)})
Precs == Opt({Fl(".", 0), Fl(".", 2)})
Longs == {<<>>, <<Fl("h", 0)>>, <<Fl("h", 0), Fl("h", 0)>>, <<Fl("L", 0)>>}
Fm(fs, c, a) == [text |-> <<TEXT, SPACE>>, flags |-> fs, conv |-> c, arg |-> a]
Ints == {-32, -31, -17, -5, -1, 0, 1, 7, 8, 16, 31}
Reals == {-25000000, -1999999, -4999, 0, 1, 9999, 10000, 999999, 1000000,
          1990000, 1995000, 2000000, 19999999}
Words == {<<>>, <<TEXT>>, <<1, TEXT, 2>>, <<TEXT, TEXT, TEXT, TEXT, 3, 4, 5>>}

MCFormats ==
    {Fm(h \o w \o p \o z, c, a) : h \in Heads, w \in Widths, p \in Precs, z \in Longs,
                                  c \in {"d", "u"}, a \in Ints} \cup
    {Fm(h \o w \o p \o z, c, a) : h \in Marks, w \in Widths, p \in Precs, z \in Longs,
                                  c \in {"x", "o"}, a \in Ints} \cup
    {Fm(h \o w \o p, c, a) : h \in Heads, w \in Widths, p \in Precs, c \in {"f", "g"}, a \in Reals} \cup
    {Fm(h \o w \o p, "s", a) : h \in Opt({Fl("-", 0)}), w \in Widths, p \in Precs, a \in Words} \cup
    {Fm(w, "c", a) : w \in Widths, a \in {TEXT, 3}}

-----------------------------------------------------------------------------
allvars == <<sel, fvars, hvars, yvars, cvars, mem, fmt, strm, day, sec, jvars,
             twvars, tcvars, svars>>

MCInit ==
    /\ sel \in Services
    /\ FInit /\ HInit /\ YInit /\ CInit /\ MemInit /\ StdInit /\ CalInit
    /\ StreamInit /\ JInit /\ ThInit /\ StartInit
    /\ sel # "files" => use = CHOOSE u \in Uses : TRUE
    /\ sel # "syscalls" => running = 1

MCNext ==
    /\ UNCHANGED sel
    /\ IF sel = "files" THEN FNext ELSE UNCHANGED fvars
    /\ IF sel = "heap" THEN HNext ELSE UNCHANGED hvars
    /\ IF sel = "sysmem" THEN ualloc_sys ELSE UNCHANGED yvars
    /\ CASE sel = "syscalls" -> CNext /\ call'[1] \in FewCalls
         [] sel = "stubs" -> Entry(1) \/ Returns(1) \/ Leave(1)
         [] OTHER -> UNCHANGED cvars
    /\ IF sel = "strings" THEN MemNext ELSE UNCHANGED mem
    /\ IF sel = "formats" THEN StdNext ELSE UNCHANGED fmt
    /\ IF sel = "calendar" THEN CalNext ELSE UNCHANGED <<day, sec>>
    /\ IF sel = "streams" THEN StreamNext ELSE UNCHANGED strm
    /\ IF sel = "time calls" THEN JNext ELSE UNCHANGED jvars
    /\ IF sel = "timer" THEN TwNext ELSE UNCHANGED twvars
    /\ IF sel = "clock" THEN TcNext ELSE UNCHANGED tcvars
    /\ IF sel = "startup" THEN StartNext ELSE UNCHANGED svars

MCSpec == MCInit /\ [][MCNext]_allvars
=============================================================================
