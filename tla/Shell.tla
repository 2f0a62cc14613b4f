--------------------------------- MODULE Shell ---------------------------------
(***************************************************************************)
(* The shell (shell/): lexan() and the checks of shell() on a line,         *)
(* redirection through the name space, and the commands it creates, which   *)
(* tell it when they are killed or return.                                  *)
(*                                                                          *)
(* While the shell has a higher priority than its commands they run only    *)
(* when it is blocked; recreated by main() after exit it has the same, and  *)
(* steps interleave.  A line is a sequence of pieces: words, blanks and the *)
(* characters that lexan() knows.                                           *)
(***************************************************************************)
EXTENDS Namespace

CONSTANTS
    Line(_),        \* lines that may be typed, TRUE: to a shell that has done nothing yet
    Command,        \* process ids for commands
    File,           \* pseudo-devices of the local file system
    SHELL_MAXTOK

VARIABLES
    pc,             \* where the shell is
    prio,           \* its priority: "higher" than the commands', or the "same"
    line,           \* the line that was read
    command,        \* what shell() makes of it
    desc,           \* stdinput and stdoutput
    child,          \* the command it creates or waits for, or that it kills
    slot,           \* the message that was sent to the shell, NoMsg if none
    proctab,        \* the commands
    opened,         \* files that are open
    leaked,         \* those that no process has
    missed,         \* a notice found the slot full while the shell waited for it
    halted          \* "closed again": a file that was another command's by then

svars == <<pc, prio, line, command, desc, child, slot, proctab, opened, leaked, missed, halted>>

NoMsg == "none"
Blank == " "
Quotes == {"'", "\""}
Special == {Blank, "&", "<", ">"} \cup Quotes
NULLCH == "NULLCH"

\* Of the commands of the table, one of each kind that differs here: cbuiltin.
cmdtab == ("cat" :> FALSE) @@ ("kill" :> TRUE) @@ ("exit" :> TRUE)

Nothing == [kind |-> "refused", args |-> <<>>, files |-> <<>>, backgnd |-> FALSE]
Free == [state |-> "free"]
Console == [d \in {"<", ">"} |-> CONSOLE]

Init ==
    /\ pc = "prompt" /\ prio = "higher"
    /\ line = <<>> /\ command = Nothing /\ desc = Console
    /\ child = NoMsg /\ slot = NoMsg
    /\ proctab = [p \in Command |-> Free]
    /\ opened = {} /\ leaked = {} /\ missed = FALSE /\ halted = "no"

(***************************************************************************)
(* lexan(): tokbuf holds the texts of the tokens, each with a null after    *)
(* it, tok their places in tokbuf, toktyp their types.                      *)
(***************************************************************************)
\* The first place from p on where Stop holds, or the place after the line.
Upto(l, p, Stop(_)) ==
    CHOOSE q \in p..(Len(l) + 1) :
        /\ q <= Len(l) => Stop(l[q])
        /\ \A k \in p..(q - 1) : ~Stop(l[k])

\* The token that begins at p: its type, its text and where to go on.
Token(l, p) ==
    LET closing == Upto(l, p + 1, LAMBDA c : c = l[p])
        end == Upto(l, p, LAMBDA c : c \in Special)
        appended == end <= Len(l) /\ l[end] \in Quotes \cup {"<", ">"}
    IN CASE l[p] \in {"&", "<", ">"} -> [type |-> l[p], text |-> <<l[p]>>, next |-> p + 1]
         [] l[p] \in Quotes -> [type |-> IF closing > Len(l) THEN "wrong" ELSE "other",
                                text |-> SubSeq(l, p + 1, closing - 1), next |-> closing + 1]
         [] OTHER -> [type |-> IF appended THEN "wrong" ELSE "other",
                      text |-> SubSeq(l, p, end - 1), next |-> end]

RECURSIVE lexan(_, _, _)
lexan(l, p, toks) ==
    LET q == Upto(l, p, LAMBDA c : c # Blank)
        t == Token(l, q)
    IN IF p > Len(l) THEN toks
       ELSE IF Len(toks.tok) >= SHELL_MAXTOK THEN [toks EXCEPT !.ok = FALSE]
       ELSE IF q > Len(l) THEN toks
       ELSE IF t.type = "wrong" THEN [toks EXCEPT !.ok = FALSE]
       ELSE lexan(l, t.next, [toks EXCEPT !.tok = Append(@, Len(toks.tokbuf) + 1),
                                          !.toktyp = Append(@, t.type),
                                          !.tokbuf = @ \o t.text \o <<NULLCH>>])

\* The string at place i of a buffer.
String(buf, i) == SubSeq(buf, i, Upto(buf, i, LAMBDA c : c = NULLCH) - 1)

\* Mutation: a second redirection of the same kind replaces the first.
redirectAgain(s) ==
    LET type == s.toktyp[s.ntok - 1]
    IN IF ~(s.ok /\ s.ntok >= 3 /\ s.toktyp[s.ntok - 1] \in {"<", ">"}) THEN s
       ELSE [s EXCEPT !.ntok = @ - 2, !.tlen = s.tok[s.ntok - 1] - 1,
                      !.files = (type :> String(s.tokbuf, s.tok[s.ntok])) @@ @,
                      !.ok = s.toktyp[s.ntok] = "other"]

\* What shell() does twice: it takes a redirection off the end.
redirect(s) ==
    LET type == s.toktyp[s.ntok - 1]
    IN IF ~(s.ok /\ s.ntok >= 3 /\ s.toktyp[s.ntok - 1] \in {"<", ">"}) THEN s
       ELSE [s EXCEPT !.ntok = @ - 2, !.tlen = s.tok[s.ntok - 1] - 1,
                      !.files = (type :> String(s.tokbuf, s.tok[s.ntok])) @@ @,
                      !.ok = s.toktyp[s.ntok] = "other" /\ type \notin DOMAIN s.files]

\* addargs(): tlen characters are copied, and the arguments point into the copy.
addargs(s) == [i \in 1..s.ntok |-> String(SubSeq(s.tokbuf, 1, s.tlen), s.tok[i])]

\* shell() from lexan() to the look at cbuiltin.
interpret(l) ==
    LET lexed == lexan(l, 1, [ok |-> TRUE, tok |-> <<>>, toktyp |-> <<>>, tokbuf |-> <<>>])
        ntok == Len(lexed.tok)
        backgnd == ntok > 0 /\ Last(lexed.toktyp) = "&"
        s == redirect(redirect([tok |-> lexed.tok, toktyp |-> lexed.toktyp, tokbuf |-> lexed.tokbuf,
                                files |-> <<>>, ok |-> TRUE,
                                ntok |-> IF backgnd THEN ntok - 1 ELSE ntok,
                                tlen |-> Len(lexed.tokbuf) - (IF backgnd THEN 2 ELSE 0)]))
        name == String(s.tokbuf, 1)
        found == \E c \in DOMAIN cmdtab : name = <<c>>
        plain == s.files = <<>> /\ ~backgnd
    IN IF /\ lexed.ok /\ s.ok
          /\ s.ntok > 0 /\ \A i \in 1..s.ntok : s.toktyp[i] = "other"
          /\ found /\ (cmdtab[name[1]] => plain)
       THEN [kind |-> IF cmdtab[name[1]] THEN "builtin" ELSE "command",
             args |-> addargs(s), files |-> s.files, backgnd |-> backgnd]
       ELSE Nothing

(***************************************************************************)
(* The shell.                                                               *)
(***************************************************************************)
readLine(l) ==
    /\ pc = "prompt"
    /\ line' = l /\ command' = interpret(l) /\ desc' = Console
    /\ pc' = "line"
    /\ UNCHANGED <<prio, child, slot, proctab, opened, leaked, missed, halted>>

\* Back to the prompt.
prompt == pc' = "prompt" /\ line' = <<>> /\ command' = Nothing /\ desc' = Console

refuse ==
    /\ pc = "line" /\ command.kind = "refused"
    /\ prompt
    /\ UNCHANGED <<prio, child, slot, proctab, opened, leaked, missed, halted>>

Files(p) == {proctab[p].desc["<"], proctab[p].desc[">"]} \cap File
Mine == {desc["<"], desc[">"]} \cap File

\* Opens what the line names for d.  What was opened before stays open if this fails.
openFile(d) ==
    /\ pc = (IF d = "<" THEN "line" ELSE "input") /\ command.kind = "command"
    /\ IF d \notin DOMAIN command.files
       THEN /\ pc' = (IF d = "<" THEN "input" ELSE "output")
            /\ line' = <<>> /\ UNCHANGED <<command, desc, opened, leaked>>
       ELSE LET free == File \ opened
                first == {f \in free : \A g \in free : f <= g}
            IN \E fd \in namopen(command.files[d], first \cup {SYSERR}) :
                  /\ opened' = opened \cup ({fd} \cap File)
                  /\ IF fd = SYSERR THEN prompt /\ leaked' = leaked \cup Mine
                     ELSE /\ pc' = (IF d = "<" THEN "input" ELSE "output")
                          /\ desc' = [desc EXCEPT ![d] = fd]
                          /\ line' = <<>> /\ UNCHANGED <<command, leaked>>
    /\ UNCHANGED <<prio, child, slot, proctab, missed, halted>>

\* Mutation: the shell does not clear old notices.
spawnNoClear(p) ==
    /\ pc = "output" /\ proctab[p] = Free
    /\ proctab' = [proctab EXCEPT ![p] = [state |-> "runs", desc |-> desc, open |-> TRUE, heard |-> TRUE]]
    /\ child' = p /\ slot' = slot
    /\ IF command.backgnd THEN prompt
       ELSE pc' = "receive" /\ UNCHANGED <<line, command, desc>>
    /\ UNCHANGED <<prio, opened, leaked, missed, halted>>

\* create(), the descriptors, recvclr() and resume().
spawn(p) ==
    /\ pc = "output" /\ proctab[p] = Free
    /\ proctab' = [proctab EXCEPT ![p] = [state |-> "runs", desc |-> desc, open |-> TRUE, heard |-> TRUE]]
    /\ child' = p /\ slot' = NoMsg
    /\ IF command.backgnd THEN prompt
       ELSE pc' = "receive" /\ UNCHANGED <<line, command, desc>>
    /\ UNCHANGED <<prio, opened, leaked, missed, halted>>

\* create() fails, and the descriptors stay open.
createFails ==
    /\ pc = "output"
    /\ leaked' = leaked \cup Mine /\ prompt
    /\ UNCHANGED <<prio, child, slot, proctab, opened, missed, halted>>

receive ==
    /\ pc = "receive" /\ slot # NoMsg
    /\ slot' = NoMsg
    /\ IF slot = child THEN prompt ELSE UNCHANGED <<pc, line, command, desc>>
    /\ UNCHANGED <<prio, child, proctab, opened, leaked, missed, halted>>

\* End of file or the command exit: main() is told, waits and creates a shell again, with
\* the priority of the commands.  Those that run tell a process that is gone.
exit ==
    /\ \/ pc = "prompt"
       \/ pc = "line" /\ command.kind = "builtin" /\ command.args[1] = <<"exit">>
    /\ prio' = "same" /\ slot' = NoMsg /\ prompt
    /\ proctab' = [p \in Command |-> IF proctab[p] = Free THEN Free ELSE [proctab[p] EXCEPT !.heard = FALSE]]
    /\ UNCHANGED <<child, opened, leaked, missed, halted>>

(***************************************************************************)
(* The end of a command, by itself or killed by the shell: kill() sends the *)
(* notice, closes the descriptors, and waits for prSem before it goes on.   *)
(***************************************************************************)
send(p) ==
    /\ slot' = IF proctab[p].heard /\ slot = NoMsg THEN p ELSE slot
    /\ missed' = (missed \/ (proctab[p].heard /\ slot # NoMsg /\ pc = "receive" /\ child = p))

\* The files are closed, a second time too if the process was killed while it was in kill().
close(p) ==
    /\ opened' = opened \ Files(p)
    /\ halted' = IF ~proctab[p].open /\ Files(p) \cap opened # {} THEN "closed again" ELSE halted

\* The command kill.  The shell does not wait for the notice that it sends to itself.
kill(p) ==
    /\ pc = "line" /\ command.kind = "builtin" /\ command.args[1] = <<"kill">>
    /\ IF proctab[p] = Free THEN prompt /\ UNCHANGED <<child, slot, proctab, opened, missed, halted>>
       ELSE /\ send(p) /\ close(p)
            /\ proctab' = [proctab EXCEPT ![p].open = FALSE]
            /\ child' = p /\ pc' = "killing"
            /\ UNCHANGED <<line, command, desc>>
    /\ UNCHANGED <<prio, leaked>>

killEnd ==
    /\ pc = "killing"
    /\ proctab' = [proctab EXCEPT ![child] = Free]
    /\ prompt
    /\ UNCHANGED <<prio, child, slot, opened, leaked, missed, halted>>

\* Commands run when the shell is blocked, or in turn with it.
Blocked == pc \in {"prompt", "killing"} \/ (pc = "receive" /\ slot = NoMsg)
CommandsRun == prio = "same" \/ Blocked

\* A shell that waits for a notice is ready at once and may run before files are closed.
finish(p) ==
    /\ CommandsRun /\ proctab[p].state = "runs"
    /\ send(p)
    /\ IF pc = "receive" /\ slot' # slot
       THEN proctab' = [proctab EXCEPT ![p].state = "noticed"] /\ UNCHANGED <<opened, halted>>
       ELSE proctab' = [proctab EXCEPT ![p].state = "closed", ![p].open = FALSE] /\ close(p)
    /\ UNCHANGED <<pc, prio, line, command, desc, child, leaked>>

closeFiles(p) ==
    /\ CommandsRun /\ proctab[p].state = "noticed"
    /\ close(p)
    /\ proctab' = [proctab EXCEPT ![p].state = "closed", ![p].open = FALSE]
    /\ UNCHANGED <<pc, prio, line, command, desc, child, slot, leaked, missed>>

freed(p) ==
    /\ CommandsRun /\ proctab[p].state = "closed"
    /\ proctab' = [proctab EXCEPT ![p] = Free]
    /\ UNCHANGED <<pc, prio, line, command, desc, child, slot, opened, leaked, missed, halted>>

New == pc = "prompt" /\ prio = "higher" /\ child = NoMsg /\ opened = {}

Next ==
    /\ halted = "no"
    /\ \/ \E l \in Line(New) : readLine(l)
       \/ \E d \in {"<", ">"} : openFile(d)
       \/ refuse \/ createFails \/ receive \/ exit \/ killEnd
       \/ \E p \in Command : spawn(p) \/ kill(p) \/ finish(p) \/ closeFiles(p) \/ freed(p)

Spec == Init /\ [][Next]_svars

(***************************************************************************)
(* What a line means, by the places of its pieces and the syntax in the     *)
(* comment on shell().                                                      *)
(***************************************************************************)
\* The quote that is open before each place, and after the line.
Quoting(l) ==
    FoldLeft(LAMBDA q, c : Append(q, CASE Last(q) = "no" /\ c \in Quotes -> c
                                       [] Last(q) = c -> "no"
                                       [] OTHER -> Last(q)),
             <<"no">>, l)

\* command_name [args*] [redirection] [&]
Meaning(l) ==
    LET quote == Quoting(l)
        Plain(i) == i \in DOMAIN l /\ quote[i] = "no" /\ l[i] \notin Special
        \* Where tokens start, what they are, and what keeps them apart.
        at == SelectSeq([i \in DOMAIN l |-> i],
                        LAMBDA i : quote[i] = "no" /\ l[i] # Blank /\ ~(Plain(i) /\ Plain(i - 1)))
        Text(i) == CASE Plain(i) ->
                          SubSeq(l, i, CHOOSE j \in i..Len(l) : ~Plain(j + 1) /\ \A k \in i..j : Plain(k))
                     [] l[i] \in Quotes ->
                          SubSeq(l, i + 1, (CHOOSE j \in (i + 1)..Len(l) :
                                               quote[j + 1] = "no" /\ \A k \in (i + 1)..j : quote[k] # "no") - 1)
                     [] OTHER -> <<l[i]>>
        separated == /\ Last(quote) = "no"
                     /\ \A i \in DOMAIN l :
                           (Plain(i - 1) /\ quote[i] = "no") => l[i] \notin Quotes \cup {"<", ">"}
                     /\ Len(at) <= SHELL_MAXTOK
                     /\ Len(at) = SHELL_MAXTOK => Last(l) # Blank
        \* The syntax.
        types == [i \in DOMAIN at |-> IF l[at[i]] \in {"&", "<", ">"} THEN l[at[i]] ELSE "other"]
        Others(n) == [i \in 1..n |-> "other"]
        fit == {<<k, r, b>> \in (1..Len(at)) \X {<<>>, <<"<">>, <<">">>, <<"<", ">">>, <<">", "<">>} \X BOOLEAN :
                  types = Others(k) \o FlattenSeq([i \in DOMAIN r |-> <<r[i], "other">>])
                                    \o (IF b THEN <<"&">> ELSE <<>>)}
        f == CHOOSE f \in fit : TRUE
        args == [i \in 1..f[1] |-> Text(at[i])]
        known == Len(args[1]) = 1 /\ args[1][1] \in DOMAIN cmdtab
    IN IF ~separated \/ fit = {} \/ ~known \/ (cmdtab[args[1][1]] /\ Len(types) > Len(args)) THEN Nothing
       ELSE [kind |-> IF cmdtab[args[1][1]] THEN "builtin" ELSE "command", args |-> args,
             files |-> [d \in ToSet(f[2]) |-> Text(at[f[1] + 2 * (CHOOSE i \in DOMAIN f[2] : f[2][i] = d)])],
             backgnd |-> f[3]]

\* The device or file a name stands for: devices and /dev/null by name, all else local files.
StandsFor(name) ==
    LET Begins(p) == IsPrefix(p, name)
        After(p) == SubSeq(name, Len(p) + 1, Len(name))
        Dev(n) == <<"/", "dev", "/">> \o n
        devs == {d \in 0..(NDEVS - 1) : Begins(Dev(devtab[d + 1].dvname))}
        local == {p \in {<<"/", "local", "/">>, <<"~", "/">>} : Begins(p)}
    IN CASE NAMESPACE \in devs -> [device |-> SYSERR, newname |-> <<>>]
         [] devs \ {NAMESPACE} # {} ->
              LET d == CHOOSE d \in devs : TRUE IN [device |-> d, newname |-> After(Dev(devtab[d + 1].dvname))]
         [] devs = {} /\ Begins(Dev(<<"null">>)) -> [device |-> NULLDEV, newname |-> After(Dev(<<"null">>))]
         [] local # {} -> [device |-> LFILESYS, newname |-> After(CHOOSE p \in local : TRUE)]
         [] OTHER -> [device |-> LFILESYS, newname |-> name]

\* A line is refused, or it becomes the command, arguments, redirections and mode of
\* execution that the syntax above shell() gives it; and the names of its files lead to the
\* devices they stand for (lexan, shell, addargs, nammap).
CommandExact ==
    pc = "line" =>
        /\ command = Meaning(line)
        /\ \A d \in DOMAIN command.files : nammap(command.files[d]) = StandsFor(command.files[d])

\* The shell goes on when its command is over, and hears of it unless, as a shell with the
\* commands' priority, it had the notice of another in the slot; and a file is open as long
\* as the command it was opened for, or for ever after a line that failed (kill, receive).
CommandsTracked ==
    LET owners == {p \in Command : proctab[p] # Free /\ proctab[p].open}
        opening == IF pc \in {"input", "output"} THEN Mine ELSE {}
    IN /\ pc = "receive" =>
             IF proctab[child].state = "runs" THEN slot # child ELSE slot = child \/ missed
       /\ missed => prio = "same"
       /\ halted = "no" =>
             /\ opened = leaked \cup opening \cup UNION {Files(p) : p \in owners}
             /\ leaked \cap opening = {}
             /\ \A p \in owners : Files(p) \cap (leaked \cup opening) = {}
             /\ \A p, q \in owners : p # q => Files(p) \cap Files(q) = {}
================================================================================
