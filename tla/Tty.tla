---------------------------------- MODULE Tty ----------------------------------
(***************************************************************************)
(* The terminal driver (device/tty): processes read lines and write         *)
(* characters, interrupts bring characters in and carry characters out, and *)
(* the two halves meet in three ring buffers and two semaphores.            *)
(*                                                                          *)
(* The upper half runs with interrupts disabled: tcur is the process in it, *)
(* and nothing else happens until it blocks or returns.  A character that   *)
(* arrives and an output interrupt are one action each; the loop over the   *)
(* characters in the UART runs with rescheduling deferred and is that       *)
(* action several times.  The echo buffer is kept as its two positions.     *)
(***************************************************************************)
EXTENDS Semaphores, FiniteSets

CONSTANTS
    TtyUser, NoTtyUser,  \* processes that use the terminal
    TY_IBUFLEN, TY_OBUFLEN, TY_EBUFLEN, UART_FIFO_SIZE,
    Keys,        \* characters that arrive
    Outputs,     \* what processes write, with CR before NL
    ReadCounts,  \* arguments of ttyread()
    Functions    \* functions of ttycontrol() that processes call

Char == Keys \cup {"a", "nl"} \cup UNION {{text[i] : i \in DOMAIN text} : text \in Outputs}

ASSUME TtyAssumption ==
    /\ IsFiniteSet(TtyUser) /\ NoTtyUser \notin TtyUser
    /\ {TY_IBUFLEN, TY_OBUFLEN, TY_EBUFLEN, UART_FIFO_SIZE} \subseteq Nat \ {0}
    /\ \A text \in Outputs : text \in Seq(Char) /\ text # <<>>
    /\ ReadCounts \subseteq Nat

VARIABLES
    ibuf,        \* head, tail and cells of tyibuff
    isem, icursor, imode, iecho,
    obuf,        \* head, tail and cells of tyobuff
    osem, oheld,
    ebuf,        \* head and tail of tyebuff
    uart,        \* output interrupts on? one pending? sending?
    tcall,       \* the call each process is in
    tcur,
    thalted,     \* "no"; or what went wrong: "overrun", "outside", "stale"
    typed,       \* history: characters stored and not read yet
    uncounted,   \* history: those of them that no signal announced (cbreak mode)
    written,     \* history: characters stored and not sent yet
    missed       \* history: output is no longer held, and nobody kicked the UART

tvars == <<ibuf, isem, icursor, imode, iecho, obuf, osem, oheld, ebuf, uart, tcall, tcur, thalted,
           typed, uncounted, written, missed>>
upper == <<tcall, tcur>>

NoTtyCall == [kind |-> "none", left |-> 0, text |-> <<>>]

\* ttyinit(): cooked mode with echo
ttinit ==
    /\ ibuf = [head |-> 0, tail |-> 0, cell |-> [i \in 0..(TY_IBUFLEN - 1) |-> "a"]]
    /\ isem = Semaphore(0) /\ icursor = 0 /\ imode = "cooked" /\ iecho = TRUE
    /\ obuf = [head |-> 0, tail |-> 0, cell |-> [i \in 0..(TY_OBUFLEN - 1) |-> "a"]]
    /\ osem = Semaphore(TY_OBUFLEN) /\ oheld = FALSE
    /\ ebuf = [head |-> 0, tail |-> 0]
    /\ uart = [etbei |-> TRUE, thre |-> TRUE, sending |-> FALSE]
    /\ tcall = [p \in TtyUser |-> NoTtyCall]
    /\ tcur = NoTtyUser
    /\ thalted = "no"
    /\ typed = <<>> /\ uncounted = 0 /\ written = <<>> /\ missed = FALSE

Waiting(p) == Waits(isem, p) \/ Waits(osem, p)
Turn(p, kinds) == /\ thalted = "no" /\ tcall[p].kind \in kinds /\ ~Waiting(p)
                  /\ tcur \in {p, NoTtyUser}
Quiet == thalted = "no" /\ tcur = NoTtyUser

Wrap(i, n) == IF i >= n THEN 0 ELSE i

\* ttykickout(): an interrupt now if the UART is idle, or when it has sent what it has
kicked == [uart EXCEPT !.etbei = TRUE, !.thre = @ \/ ~uart.sending]

\* The caller waits on s, and goes on at once if it need not block.
await(p, s, s1) == s1 = Wait(s, p) /\ tcur' = IF Waits(s1, p) THEN NoTtyUser ELSE p

(***************************************************************************)
(* Output: ttywrite(), ttyputc() and the output interrupt.                  *)
(***************************************************************************)
ttywrite(p, text) ==
    /\ Quiet /\ tcall[p].kind = "none"
    /\ tcall' = [tcall EXCEPT ![p] = [kind |-> "write", left |-> 0, text |-> text]]
    /\ await(p, osem, osem')
    /\ UNCHANGED <<ibuf, isem, icursor, imode, iecho, obuf, oheld, ebuf, uart, thalted,
                   typed, uncounted, written, missed>>

\* ttyputc() after its wait(), and the wait() for the next character
ttyputc(p) ==
    /\ Turn(p, {"write"})
    /\ obuf' = [obuf EXCEPT !.cell[obuf.tail] = Head(tcall[p].text), !.tail = Wrap(@ + 1, TY_OBUFLEN)]
    /\ uart' = kicked
    /\ written' = Append(written, Head(tcall[p].text))
    /\ missed' = FALSE
    /\ IF Len(tcall[p].text) = 1
       THEN tcall' = [tcall EXCEPT ![p] = NoTtyCall] /\ tcur' = NoTtyUser /\ UNCHANGED osem
       ELSE tcall' = [tcall EXCEPT ![p].text = Tail(@)] /\ await(p, osem, osem')
    /\ UNCHANGED <<ibuf, isem, icursor, imode, iecho, oheld, ebuf, thalted, typed, uncounted>>

Echoes == (ebuf.tail - ebuf.head) % TY_EBUFLEN
Least(a, b) == IF a < b THEN a ELSE b

\* What fits into the UART after the echo
ochars == Least(UART_FIFO_SIZE - Least(UART_FIFO_SIZE, Echoes), TY_OBUFLEN - osem.count)

\* Mutation: the count of free places goes up once for any number of characters.
sendCharsOnce(n) ==
    /\ obuf' = [obuf EXCEPT !.head = (@ + n) % TY_OBUFLEN]
    /\ osem' = SignalN(osem, Least(n, 1))
    /\ IF n <= Len(written)
       THEN written' = SubSeq(written, n + 1, Len(written)) /\ UNCHANGED thalted
       ELSE written' = <<>> /\ thalted' = "stale"

\* The number of characters to send is taken from the semaphore, which also counts the
\* places of writers that have been let in and have not stored their character.
sendChars(n) ==
    /\ obuf' = [obuf EXCEPT !.head = (@ + n) % TY_OBUFLEN]
    /\ osem' = SignalN(osem, n)
    /\ IF n <= Len(written)
       THEN written' = SubSeq(written, n + 1, Len(written)) /\ UNCHANGED thalted
       ELSE written' = <<>> /\ thalted' = "stale"

\* Mutation: the interrupt is turned off when either queue is empty.
ttyhandle_outEither ==
    /\ Quiet /\ uart.etbei /\ uart.thre
    /\ IF oheld
       THEN uart' = [uart EXCEPT !.thre = FALSE] /\ UNCHANGED <<obuf, osem, ebuf, thalted, written>>
       ELSE IF Echoes = 0 \/ osem.count >= TY_OBUFLEN
       THEN uart' = [uart EXCEPT !.thre = FALSE, !.etbei = FALSE]
            /\ UNCHANGED <<obuf, osem, ebuf, thalted, written>>
       ELSE /\ uart' = [uart EXCEPT !.thre = FALSE, !.sending = TRUE]
            /\ ebuf' = [ebuf EXCEPT !.head = (@ + Least(UART_FIFO_SIZE, Echoes)) % TY_EBUFLEN]
            /\ sendChars(ochars)
    /\ UNCHANGED <<ibuf, isem, icursor, imode, iecho, oheld, upper, typed, uncounted, missed>>

ttyhandle_out ==
    /\ Quiet /\ uart.etbei /\ uart.thre
    /\ IF oheld
       THEN uart' = [uart EXCEPT !.thre = FALSE] /\ UNCHANGED <<obuf, osem, ebuf, thalted, written>>
       ELSE IF Echoes = 0 /\ osem.count >= TY_OBUFLEN
       THEN uart' = [uart EXCEPT !.thre = FALSE, !.etbei = FALSE]
            /\ UNCHANGED <<obuf, osem, ebuf, thalted, written>>
       ELSE /\ uart' = [uart EXCEPT !.thre = FALSE, !.sending = TRUE]
            /\ ebuf' = [ebuf EXCEPT !.head = (@ + Least(UART_FIFO_SIZE, Echoes)) % TY_EBUFLEN]
            /\ sendChars(ochars)
    /\ UNCHANGED <<ibuf, isem, icursor, imode, iecho, oheld, upper, typed, uncounted, missed>>

\* The UART has sent what it was given.
sent ==
    /\ Quiet /\ uart.sending
    /\ uart' = [uart EXCEPT !.sending = FALSE, !.thre = uart.etbei]
    /\ UNCHANGED <<ibuf, isem, icursor, imode, iecho, obuf, osem, oheld, ebuf, upper, thalted,
                   typed, uncounted, written, missed>>

(***************************************************************************)
(* Input: ttyread(), ttygetc() and ttycontrol().                            *)
(***************************************************************************)
\* In cooked mode one character at least, and no more than a line; in the others as many
\* as were asked for, those that are there for a count of zero.
ttyread(p, count) ==
    LET here == IF isem.count > 0 THEN isem.count ELSE 0
        n == IF imode = "cooked" THEN (IF count = 0 THEN 1 ELSE count) ELSE IF count = 0 THEN here ELSE count
    IN  /\ Quiet /\ tcall[p].kind = "none" /\ n > 0
        /\ tcall' = [tcall EXCEPT ![p] = [kind |-> IF imode = "cooked" THEN "line" ELSE "chars",
                                        left |-> n, text |-> <<>>]]
        /\ await(p, isem, isem')
        /\ UNCHANGED <<ibuf, icursor, imode, iecho, obuf, osem, oheld, ebuf, uart, thalted,
                       typed, uncounted, written, missed>>

\* ttygetc() after its wait(), and the wait() for the next character
ttygetc(p) ==
    LET ch == ibuf.cell[ibuf.head]
        over == \/ tcall[p].left = 1
                \/ tcall[p].kind \in {"line", "rest"} /\ ch \in {"nl", "cr"}
                \/ tcall[p].kind = "line" /\ ch = "eof" /\ imode = "cooked"
    IN  /\ Turn(p, {"line", "rest", "chars"})
        /\ ibuf' = [ibuf EXCEPT !.head = Wrap(@ + 1, TY_IBUFLEN)]
        /\ typed' = Tail(typed)
        /\ IF over
           THEN tcall' = [tcall EXCEPT ![p] = NoTtyCall] /\ tcur' = NoTtyUser /\ UNCHANGED isem
           ELSE /\ tcall' = [tcall EXCEPT ![p].left = @ - 1, ![p].kind = IF @ = "line" THEN "rest" ELSE @]
                /\ await(p, isem, isem')
        /\ UNCHANGED <<icursor, imode, iecho, obuf, osem, oheld, ebuf, uart, thalted,
                       uncounted, written, missed>>

\* TC_NEXTC waits for a character, looks at the slot where the next one will go, and
\* signals.
nextc(p) ==
    /\ Quiet /\ tcall[p].kind = "none" /\ "NEXTC" \in Functions
    /\ tcall' = [tcall EXCEPT ![p] = [kind |-> "next", left |-> 0, text |-> <<>>]]
    /\ await(p, isem, isem')
    /\ UNCHANGED <<ibuf, icursor, imode, iecho, obuf, osem, oheld, ebuf, uart, thalted,
                   typed, uncounted, written, missed>>

nextcDone(p) ==
    /\ Turn(p, {"next"})
    /\ isem' = Signal(isem)
    /\ tcall' = [tcall EXCEPT ![p] = NoTtyCall] /\ tcur' = NoTtyUser
    /\ UNCHANGED <<ibuf, icursor, imode, iecho, obuf, osem, oheld, ebuf, uart, thalted,
                   typed, uncounted, written, missed>>

ttycontrol(p, func) ==
    /\ Quiet /\ tcall[p].kind = "none" /\ func \in Functions
    /\ imode' = CASE func = "MODER" -> "raw" [] func = "MODEC" -> "cooked"
                  [] func = "MODEK" -> "cbreak" [] OTHER -> imode
    /\ iecho' = IF func = "ECHO" THEN TRUE ELSE IF func = "NOECHO" THEN FALSE ELSE iecho
    /\ UNCHANGED <<ibuf, isem, icursor, obuf, osem, oheld, ebuf, uart, upper, thalted,
                   typed, uncounted, written, missed>>

(***************************************************************************)
(* ttyhandle_in().                                                          *)
(***************************************************************************)
\* n characters for the echo buffer: nothing keeps tyetail from passing tyehead.
eputc(n) ==
    /\ ebuf' = [ebuf EXCEPT !.tail = (@ + n) % TY_EBUFLEN]
    /\ uart' = IF n > 0 THEN kicked ELSE uart
    /\ missed' = IF n > 0 THEN FALSE ELSE missed \/ oheld
    /\ oheld' = FALSE

echoch(ch) == eputc(IF ~iecho THEN 0 ELSE IF ch = "a" THEN 1 ELSE 2)

\* Store a character; the position is wrapped only where the code does so.
store(ch, wrap) ==
    /\ ibuf' = [ibuf EXCEPT !.cell = IF ibuf.tail \in DOMAIN @ THEN [@ EXCEPT ![ibuf.tail] = ch] ELSE @,
                            !.tail = IF wrap THEN Wrap(@ + 1, TY_IBUFLEN) ELSE @ + 1]
    /\ typed' = Append(typed, ch)
    /\ thalted' = IF ibuf.tail \notin DOMAIN ibuf.cell THEN "outside"
                 ELSE IF Len(typed) = TY_IBUFLEN THEN "overrun" ELSE "no"

nothing == UNCHANGED <<ibuf, isem, icursor, typed, uncounted, thalted>>

avail == IF isem.count < 0 THEN 0 ELSE isem.count

\* Raw mode wraps tyotail, which is never outside, in place of tyitail.
raw(ch) ==
    /\ IF avail >= TY_IBUFLEN THEN nothing
       ELSE store(ch, FALSE) /\ isem' = Signal(isem) /\ UNCHANGED <<icursor, uncounted>>
    /\ UNCHANGED <<oheld, ebuf, uart, missed>>

\* ^Q and ^S
flow(ch) ==
    /\ nothing /\ UNCHANGED ebuf
    /\ oheld' = (ch = "stop")
    /\ uart' = IF ch = "start" THEN kicked ELSE uart
    /\ missed' = (ch # "start" /\ missed)

\* In cbreak mode there is no signal for the character.
cbreak(ch) ==
    IF avail >= TY_IBUFLEN THEN eputc(1) /\ nothing
    ELSE /\ store(ch, TRUE) /\ uncounted' = uncounted + 1
         /\ echoch(ch) /\ UNCHANGED <<isem, icursor>>

\* If the line began before the place where the buffer wraps, tyitail is left below the
\* buffer and tyihead is moved out of it.
killLine ==
    /\ eputc(2)
    /\ ibuf' = [ibuf EXCEPT !.tail = @ - icursor,
                            !.head = IF ibuf.tail < icursor THEN @ + TY_IBUFLEN ELSE @]
    /\ thalted' = IF ibuf.tail < icursor THEN "outside" ELSE "no"
    /\ icursor' = 0
    /\ typed' = SubSeq(typed, 1, Len(typed) - icursor)
    /\ UNCHANGED <<isem, uncounted>>

\* Mutation: the tail does not go round when a character is erased.
eraseNoWrap ==
    IF icursor = 0 THEN eputc(0) /\ nothing
    ELSE LET tail == IF ibuf.tail = 0 THEN 0 ELSE ibuf.tail - 1
         IN  /\ ibuf' = [ibuf EXCEPT !.tail = tail]
             /\ icursor' = icursor - 1
             /\ typed' = SubSeq(typed, 1, Len(typed) - 1)
             /\ eputc(IF ~iecho THEN 0 ELSE IF ibuf.cell[tail] = "a" THEN 3 ELSE 6)
             /\ UNCHANGED <<isem, uncounted, thalted>>

erase ==
    IF icursor = 0 THEN eputc(0) /\ nothing
    ELSE LET tail == IF ibuf.tail = 0 THEN TY_IBUFLEN - 1 ELSE ibuf.tail - 1
         IN  /\ ibuf' = [ibuf EXCEPT !.tail = tail]
             /\ icursor' = icursor - 1
             /\ typed' = SubSeq(typed, 1, Len(typed) - 1)
             /\ eputc(IF ~iecho THEN 0 ELSE IF ibuf.cell[tail] = "a" THEN 3 ELSE 6)
             /\ UNCHANGED <<isem, uncounted, thalted>>

\* The end of a line makes it available; its place is not asked for.
endLine(ch) ==
    /\ echoch(ch) /\ store(ch, TRUE)
    /\ isem' = SignalN(isem, icursor + 1)
    /\ icursor' = 0 /\ UNCHANGED uncounted

ordinary(ch) ==
    IF avail + icursor >= TY_IBUFLEN - 1 THEN eputc(1) /\ nothing
    ELSE IF ch = "eof"
    THEN /\ echoch(ch)
         /\ IF icursor # 0 THEN nothing
            ELSE store(ch, FALSE) /\ isem' = Signal(isem) /\ UNCHANGED <<icursor, uncounted>>
    ELSE /\ echoch(ch) /\ store(ch, TRUE)
         /\ icursor' = icursor + 1 /\ UNCHANGED <<isem, uncounted>>

cooked(ch) ==
    CASE ch = "kill"  -> killLine
      [] ch = "erase" -> erase
      [] ch = "nl"    -> endLine(ch)
      [] OTHER        -> ordinary(ch)

ttyhandle_in(arrived) ==
    LET ch == IF arrived = "cr" THEN "nl" ELSE arrived   \* tyicrlf
    IN  /\ Quiet
        /\ IF imode = "raw" THEN raw(arrived)
           ELSE IF ch \in {"stop", "start"} THEN flow(ch)
           ELSE IF imode = "cbreak" THEN cbreak(ch) ELSE cooked(ch)
        /\ UNCHANGED <<imode, iecho, obuf, osem, upper, written>>

TtyNext ==
    \/ \E p \in TtyUser :
        \/ \E text \in Outputs : ttywrite(p, text)
        \/ \E count \in ReadCounts : ttyread(p, count)
        \/ \E func \in Functions \ {"NEXTC"} : ttycontrol(p, func)
        \/ ttyputc(p) \/ ttygetc(p) \/ nextc(p) \/ nextcDone(p)
    \/ ttyhandle_out \/ sent
    \/ \E ch \in Keys : ttyhandle_in(ch)

TtySpec == ttinit /\ [][TtyNext]_tvars

\* Types of struct ttycblk: the pointers stay in the buffers, but for the one that raw
\* mode leaves just behind the input buffer, and a count is not below what is counted.
TtyTypeOK ==
    thalted = "no" =>
        /\ ibuf \in [head : 0..(TY_IBUFLEN - 1), tail : 0..TY_IBUFLEN, cell : [0..(TY_IBUFLEN - 1) -> Char]]
        /\ obuf \in [head : 0..(TY_OBUFLEN - 1), tail : 0..(TY_OBUFLEN - 1),
                     cell : [0..(TY_OBUFLEN - 1) -> Char]]
        /\ ebuf \in [head : 0..(TY_EBUFLEN - 1), tail : 0..(TY_EBUFLEN - 1)]
        /\ isem \in [used : {TRUE}, count : Int, queue : Seq(TtyUser)]
        /\ osem \in [used : {TRUE}, count : Int, queue : Seq(TtyUser)]
        /\ icursor \in Nat /\ uncounted \in Nat
        /\ imode \in {"raw", "cooked", "cbreak"} /\ {iecho, oheld, missed} \subseteq BOOLEAN
        /\ uart \in [etbei : BOOLEAN, thre : BOOLEAN, sending : BOOLEAN]
        /\ tcall \in [TtyUser -> [kind : {"none", "write", "line", "rest", "chars", "next"},
                                  left : Nat, text : Seq(Char)]]
        /\ tcur \in TtyUser \cup {NoTtyUser}
        /\ typed \in Seq(Char) /\ written \in Seq(Char)

\* Processes let in by a semaphore, or never stopped by it, that have not yet touched
\* the buffer.
Admitted(kinds) == Cardinality({p \in TtyUser : tcall[p].kind \in kinds /\ ~Waiting(p)})

\* The cells from tyihead on that have not been read
Unread == [i \in 1..Len(typed) |-> ibuf.cell[(ibuf.head + i - 1) % TY_IBUFLEN]]

\* Through erasing, line kill, changes of mode in the middle of a line, and readers that
\* are let in long before they run: what lies between tyihead and tyitail is what was
\* typed, as edited, and not yet read, in order; it is what the semaphore counts, what
\* readers that were let in have still to fetch, the unfinished line, and what cbreak
\* mode never announced.
InputExact ==
    thalted = "no" =>
        /\ Len(typed) = avail + Admitted({"line", "rest", "chars", "next"}) + icursor + uncounted
        /\ (ibuf.tail - ibuf.head - Len(typed)) % TY_IBUFLEN = 0
        /\ Unread = typed
        /\ CountIsQueue(isem)

\* Characters leave in the order in which they were stored, each once, although several
\* writers are let in by one interrupt and store theirs in any order and at any time; the
\* places that the semaphore counts are those not taken by a character, by a writer let
\* in, or promised to one that waits.
OutputExact ==
    thalted = "no" =>
        /\ Len(written) = TY_OBUFLEN - osem.count - Admitted({"write"}) - Len(osem.queue)
        /\ (obuf.tail - obuf.head - Len(written)) % TY_OBUFLEN = 0
        /\ \A i \in 1..Len(written) : obuf.cell[(obuf.head + i - 1) % TY_OBUFLEN] = written[i]
        /\ CountIsQueue(osem)

\* While characters or echo are there to send and output is not held, the UART is
\* sending, or an output interrupt is on the way: the driver never turns the interrupt
\* off, or answers it without sending, when there is more.  The exception is a held
\* output that goes on because of a character that is not echoed (missed).
OutputMoves ==
    thalted = "no" /\ ~oheld /\ ~missed /\ (Echoes > 0 \/ written # <<>>) =>
        uart.sending \/ (uart.etbei /\ uart.thre)
===============================================================================
