------------------------------- MODULE MCDevices -------------------------------
(***************************************************************************)
(* FrameFifo, Ports, Memory, Tty and Shell for TLC, in one run: they share  *)
(* no state, so each behaviour exercises one of them while the variables of *)
(* the others stay as they are.  The terminal is taken twice, with          *)
(* processes that read and with processes that write.                       *)
(***************************************************************************)
EXTENDS FrameFifo, Ports, Memory, Tty, TLC

CONSTANTS Process, NoProcess

VARIABLES
    part,
    pc, prio, line, command, desc, child, slot, proctab, opened, shleaked, shmissed, shhalted

shvars == <<pc, prio, line, command, desc, child, slot, proctab, opened, shleaked, shmissed, shhalted>>
allvars == <<part, ptvars, mvars, tvars, ffvars, shvars>>

\* What processes write to the terminal
Texts == {<<"x">>, <<"cr", "nl">>}

\* Nothing is written, and nothing is held; or nothing is read, and what arrives is not
\* stored: a line that is killed is echoed even so.
Reading == <<obuf, osem, oheld, iecho>>' = <<obuf, osem, oheld, iecho>>
Writing == <<ibuf, isem, imode, iecho>>' = <<ibuf, isem, imode, iecho>>

\* To a new shell all lines of up to five pieces, which may be quotes, and of up to seven
\* words and operators, so that there can be too many; and names for the name space.
UpTo(S, n) == UNION {[1..k -> S] : k \in 1..n}
Lines == UpTo({"cat", " ", "&", "<", ">", "'", "\""}, 5)
         \cup {FlattenSeq(u) : u \in UpTo({<<"cat", " ">>, <<"<">>, <<">">>, <<"&">>}, 7)}
Names == {p \o n : p \in {<<>>, <<"/">>, <<"~", "/">>, <<"/", "dev", "/">>, <<"/", "local", "/">>, <<"/", "remote", "/">>},
                   n \in UpTo({"null", "dev", "console", "ram0", "namespace", "lfilesys", "cat"}, 2)}

\* Later a few.
Commands == {<<"cat">>, <<"cat", " ", "&">>, <<"cat", " ", "<", "cat", " ", ">", "cat">>,
             <<"cat", " ", ">", "cat", "&">>, <<"kill", " ", "cat">>, <<"exit">>, <<"exit", "&">>}
Given(new) == IF new THEN Commands \cup Lines \cup {<<"cat", " ", "<">> \o n : n \in Names} ELSE Commands

S == INSTANCE Shell WITH Line <- Given, Command <- Process, File <- {7, 8}, SHELL_MAXTOK <- 6,
                         leaked <- shleaked, missed <- shmissed, halted <- shhalted

MCInit ==
    /\ part \in {"ports", "memory", "reading", "writing", "frames", "shell"}
    /\ ptinit /\ meminit /\ ttinit /\ Init /\ S!Init

MCNext ==
    \/ part = "ports" /\ PtNext /\ UNCHANGED <<part, mvars, tvars, ffvars, shvars>>
    \/ part = "memory" /\ MemNext /\ UNCHANGED <<part, ptvars, tvars, ffvars, shvars>>
    \/ part = "reading" /\ TtyNext /\ Reading /\ UNCHANGED <<part, ptvars, mvars, ffvars, shvars>>
    \/ part = "writing" /\ TtyNext /\ Writing /\ UNCHANGED <<part, ptvars, mvars, ffvars, shvars>>
    \/ part = "frames" /\ Next /\ UNCHANGED <<part, ptvars, mvars, tvars, shvars>>
    \/ part = "shell" /\ S!Next /\ UNCHANGED <<part, ptvars, mvars, tvars, ffvars>>

MCSpec == MCInit /\ [][MCNext]_allvars

Symmetry == Permutations(Process) \cup Permutations(Node)

\* Characters that have been read stay in the buffer and are not looked at again, nor is
\* what readers have nothing to do with; and nothing follows once a character was stored
\* outside the buffer or over another.
Seen ==
    CASE part = "ports"   -> <<part, ptvars>>
      [] part = "memory"  -> <<part, mvars>>
      [] part = "frames"  -> <<part, ffvars>>
      [] part = "shell"   -> <<part, shvars>>
      [] part = "writing" -> <<part, tvars>>
      [] part = "reading" -> IF thalted = "no"
                             THEN <<part, Unread, ibuf.head, ibuf.tail, isem, icursor, imode, tcall, tcur, typed, uncounted>>
                             ELSE <<part, thalted>>

\* The properties of Shell: lines mean what they say, and the shell keeps track of commands.
CommandExact == part = "shell" => S!CommandExact
CommandsTracked == part = "shell" => S!CommandsTracked
===============================================================================
