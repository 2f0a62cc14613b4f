---------------------------------- MODULE Rfs ----------------------------------
(***************************************************************************)
(* The remote file system (device/rfs): pseudo-devices for remote files,    *)
(* and rfscomm(), which sends a request to the server, waits for the reply  *)
(* and sends the request again when none comes or another does.             *)
(*                                                                          *)
(* All processes use one file.  The network loses messages and delays them  *)
(* for any time, but keeps their order.  The server, external, does what    *)
(* rfilesys.h says of the messages, once for each copy that it gets.  The   *)
(* machine can be restarted at any time; its sequence numbers start again.  *)
(***************************************************************************)
EXTENDS Semaphores

LOCAL INSTANCE Functions

CONSTANTS
    Client,      \* processes that use remote files
    Nrfl,
    RF_RETRIES,
    Modes,       \* mode arguments of open(): sequences of characters
    Counts,      \* bytes to read
    Texts,       \* to write: sequences of bytes
    Positions,   \* to seek; reads and writes start at one of them
    Controls,    \* requests of rfscontrol()
    MaxSeq,      \* bound: exchanges from one restart to the next
    MaxFlight    \* bound: messages in either direction, others are lost

\* What rfscontrol() asks for is none of the other requests.
ASSUME RfsAssumption ==
    /\ Nrfl \in Nat /\ RF_RETRIES \in Nat /\ MaxSeq \in Nat /\ MaxFlight \in Nat
    /\ Counts \subseteq Nat /\ Positions \subseteq Nat
    /\ \A text \in Texts : text \in Seq({text[i] : i \in DOMAIN text})
    /\ Controls \cap {"none", "OREQ", "RREQ", "WREQ"} = {}

RflDev == 0..(Nrfl - 1)

VARIABLES
    rfltab,
    rf_seq, rf_registered, rf_mutex,
    rcall,       \* where each process is, its device, its request with its number, the tries so far
    requests, replies,   \* messages on their way
    file,        \* on the server: a sequence of bytes, or NoFile
    possible,    \* history: contents that the file may have as far as the callers know
    gotOld,      \* history: a read has returned what the file did not hold
    rhalted      \* "restart" when a reply to the machine's earlier life was accepted

rfvars == <<rfltab, rf_seq, rf_registered, rf_mutex, rcall, requests, replies, file, possible, gotOld, rhalted>>

NoFile == <<"none">>
NoRequest == [type |-> "none"]
NoExchange == [at |-> "run", dev |-> 0, req |-> NoRequest, seq |-> 0, tries |-> 0]

\* rfsinit() and rflinit()
Restarted ==
    /\ rfltab' = [d \in RflDev |-> [state |-> "FREE", pos |-> 0, mode |-> {}]]
    /\ rf_seq' = 1 /\ rf_registered' = FALSE /\ rf_mutex' = Semaphore(1)
    /\ rcall' = [p \in Client |-> NoExchange]

rfsinit ==
    /\ rfltab = [d \in RflDev |-> [state |-> "FREE", pos |-> 0, mode |-> {}]]
    /\ rf_seq = 1 /\ rf_registered = FALSE /\ rf_mutex = Semaphore(1)
    /\ rcall = [p \in Client |-> NoExchange]
    /\ requests = <<>> /\ replies = <<>>
    /\ file = NoFile /\ possible = {NoFile}
    /\ gotOld = FALSE /\ rhalted = "no"

(* ---- The server and the network ---- *)

Written(content, pos, text) ==
    [i \in 1..(IF Len(content) > pos + Len(text) THEN Len(content) ELSE pos + Len(text)) |->
        IF i > pos /\ i <= pos + Len(text) THEN text[i - pos]
        ELSE IF i <= Len(content) THEN content[i] ELSE "zero"]

\* What a request makes of the file: "o" needs it, "n" must not find it.
Changed(req, content) ==
    CASE req.type = "OREQ" /\ content = NoFile /\ "o" \notin req.mode -> <<>>
      [] req.type = "WREQ" /\ content # NoFile -> Written(content, req.pos, req.text)
      [] req.type = "TREQ" /\ content # NoFile -> <<>>
      [] req.type = "DREQ" -> NoFile
      [] OTHER -> content

\* The status in the reply is 0.
Succeeds(req, content) ==
    CASE req.type = "OREQ" -> IF content = NoFile THEN "o" \notin req.mode ELSE "n" \notin req.mode
      [] OTHER -> content # NoFile

\* The data in the reply to a read request, <<>> at the end of the file.
Data(req, content) ==
    IF req.type # "RREQ" \/ content = NoFile THEN <<>>
    ELSE SubSeq(content, req.pos + 1, IF Len(content) < req.pos + req.len THEN Len(content) ELSE req.pos + req.len)

\* A request of this life of the machine.
Message(seq, req) == [seq |-> seq, old |-> FALSE, req |-> req]

InFlight(channel, m) == IF Len(channel) < MaxFlight THEN Append(channel, m) ELSE channel

serve ==
    /\ rhalted = "no" /\ requests # <<>>
    /\ LET m == Head(requests)
       IN  /\ file' = Changed(m.req, file)
           /\ replies' = InFlight(replies, [type |-> m.req.type, seq |-> m.seq, old |-> m.old,
                                            ok |-> Succeeds(m.req, file), data |-> Data(m.req, file)])
    /\ requests' = Tail(requests)
    /\ UNCHANGED <<rfltab, rf_seq, rf_registered, rf_mutex, rcall, possible, gotOld, rhalted>>

lose ==
    /\ rhalted = "no"
    /\ \/ requests # <<>> /\ requests' = Tail(requests) /\ UNCHANGED replies
       \/ replies # <<>> /\ replies' = Tail(replies) /\ UNCHANGED requests
    /\ UNCHANGED <<rfltab, rf_seq, rf_registered, rf_mutex, rcall, file, possible, gotOld, rhalted>>

(* ---- rfscomm ---- *)

Inside(p, at) == rhalted = "no" /\ rcall[p].at = at /\ ~Waits(rf_mutex, p)

\* A call releases rf_mutex and returns.
Leave(p) ==
    /\ rf_mutex' = Signal(rf_mutex)
    /\ rcall' = [rcall EXCEPT ![p] = NoExchange]

\* A call that returns, with or without an error, before any exchange.
LeaveQuietly(p) ==
    /\ Leave(p)
    /\ UNCHANGED <<rf_seq, rf_registered, requests, replies, file, possible, gotOld, rhalted>>

\* rfscomm() up to its first udp_recv().
rfscomm(p, d, req) ==
    \/ /\ ~rf_registered
       /\ LeaveQuietly(p)
    \/ /\ rf_seq <= MaxSeq
       /\ rf_registered' = TRUE
       /\ rf_seq' = rf_seq + 1
       /\ requests' = InFlight(requests, Message(rf_seq, req))
       /\ rcall' = [rcall EXCEPT ![p] = [at |-> "recv", dev |-> d, req |-> req, seq |-> rf_seq, tries |-> 1]]
       /\ UNCHANGED <<rf_mutex, replies, file, possible, gotOld, rhalted>>

\* The caller learns nothing: the request may have been served, or may be served later.
Fail(p) ==
    /\ Leave(p)
    /\ possible' = possible \cup {Changed(rcall[p].req, c) : c \in possible}
    /\ UNCHANGED <<rfltab, requests, gotOld>>

\* The loop goes on with the next try, if there is one.
Retry(p) ==
    IF rcall[p].tries < RF_RETRIES
    THEN /\ requests' = InFlight(requests, Message(rcall[p].seq, rcall[p].req))
         /\ rcall' = [rcall EXCEPT ![p].tries = @ + 1]
         /\ UNCHANGED <<rfltab, rf_mutex, possible, gotOld>>
    ELSE Fail(p)

\* The rest of the call once it has its reply.  An answer to a retry may tell of an error
\* although an earlier copy did what was asked.
Answered(p, reply) ==
    LET req == rcall[p].req
        d == rcall[p].dev
    IN  /\ Leave(p)
        /\ possible' = {Changed(req, c) : c \in possible}
        /\ gotOld' = (gotOld \/ (reply.ok /\ \A c \in possible : reply.data # Data(req, c)))
        /\ rfltab' =
            CASE ~reply.ok -> rfltab
              [] req.type = "OREQ" -> [rfltab EXCEPT ![d].state = "USED", ![d].pos = 0]
              [] req.type = "RREQ" -> [rfltab EXCEPT ![d].pos = @ + Len(reply.data)]
              [] req.type = "WREQ" -> [rfltab EXCEPT ![d].pos = @ + Len(req.text)]
              [] OTHER -> rfltab
        /\ UNCHANGED requests

\* udp_recv() returns TIMEOUT, or SYSERR after a message for the process.
rfscommNoReply(p) ==
    /\ Inside(p, "recv")
    /\ Retry(p) \/ Fail(p)
    /\ UNCHANGED <<rf_seq, rf_registered, replies, file, rhalted>>

\* Mutation: the sequence number of the reply is not verified.
rfscommReplyAnySeq(p) ==
    /\ Inside(p, "recv") /\ replies # <<>>
    /\ LET reply == Head(replies)
       IN  IF reply.type = rcall[p].req.type
           THEN Answered(p, reply) /\ rhalted' = IF reply.old THEN "restart" ELSE "no"
           ELSE Retry(p) /\ UNCHANGED rhalted
    /\ replies' = Tail(replies)
    /\ UNCHANGED <<rf_seq, rf_registered, file>>

\* udp_recv() returns a message.  One that is no reply to this request costs a try, and the
\* request is sent once more.
rfscommReply(p) ==
    /\ Inside(p, "recv") /\ replies # <<>>
    /\ LET reply == Head(replies)
       IN  IF reply.seq = rcall[p].seq /\ reply.type = rcall[p].req.type
           THEN Answered(p, reply) /\ rhalted' = IF reply.old THEN "restart" ELSE "no"
           ELSE Retry(p) /\ UNCHANGED rhalted
    /\ replies' = Tail(replies)
    /\ UNCHANGED <<rf_seq, rf_registered, file>>

(* ---- Calls: wait for rf_mutex, then go on ---- *)

\* A character twice, or both "o" and "n", is an error; without "r" and "w", both are meant.
rfsgetmode(chars) ==
    IF \E i, j \in 1..Len(chars) : i < j /\ (chars[i] = chars[j] \/ {chars[i], chars[j]} = {"o", "n"})
    THEN {}
    ELSE IF Range(chars) \cap {"r", "w"} = {} THEN Range(chars) \cup {"r", "w"} ELSE Range(chars)

enter(p) ==
    /\ Inside(p, "run")
    /\ rf_mutex' = Wait(rf_mutex, p)
    /\ rcall' = [rcall EXCEPT ![p].at = "locked"]
    /\ UNCHANGED <<rfltab, rf_seq, rf_registered, requests, replies, file, possible, gotOld, rhalted>>

\* The mode is set at once, the state only when the file is open.  (The mode of a free
\* entry does not matter.)
rfsopen(p, chars) ==
    /\ Inside(p, "locked")
    /\ LET free == {d \in RflDev : rfltab[d].state = "FREE" /\ \A e \in 0..(d - 1) : rfltab[e].state # "FREE"}
           mode == rfsgetmode(chars)
       IN  IF free = {} \/ mode = {} THEN LeaveQuietly(p) /\ UNCHANGED rfltab
           ELSE \E d \in free : /\ rfltab' = [rfltab EXCEPT ![d].mode = mode]
                                /\ rfscomm(p, d, [type |-> "OREQ", mode |-> mode])

Usable(d, access) == rfltab[d].state = "USED" /\ access \in rfltab[d].mode

rflread(p, d, len) ==
    /\ Inside(p, "locked")
    /\ IF ~Usable(d, "r") THEN LeaveQuietly(p)
       ELSE /\ rfltab[d].pos \in Positions
            /\ rfscomm(p, d, [type |-> "RREQ", pos |-> rfltab[d].pos, len |-> len])
    /\ UNCHANGED rfltab

rflwrite(p, d, text) ==
    /\ Inside(p, "locked")
    /\ IF ~Usable(d, "w") THEN LeaveQuietly(p)
       ELSE /\ rfltab[d].pos \in Positions
            /\ rfscomm(p, d, [type |-> "WREQ", pos |-> rfltab[d].pos, text |-> text])
    /\ UNCHANGED rfltab

rflseek(p, d, pos) ==
    /\ Inside(p, "locked")
    /\ rfltab' = IF rfltab[d].state = "FREE" THEN rfltab ELSE [rfltab EXCEPT ![d].pos = pos]
    /\ LeaveQuietly(p)

rflclose(p, d) ==
    /\ Inside(p, "locked")
    /\ rfltab' = [rfltab EXCEPT ![d].state = "FREE"]
    /\ LeaveQuietly(p)

\* A request that consists of its header.
rfsndmsg(p, type) == rfscomm(p, 0, [type |-> type])

\* Delete, truncate, mkdir, rmdir; the size takes the same way.
rfscontrol(p, type) ==
    /\ Inside(p, "locked")
    /\ rfsndmsg(p, type)
    /\ UNCHANGED rfltab

\* The machine is restarted.  What it had asked for may be done or not.  Bound: not while a
\* message of the life before is still on its way.
restart ==
    /\ rhalted = "no" /\ rf_registered
    /\ \A m \in Range(requests) \cup Range(replies) : ~m.old
    /\ Restarted
    /\ requests' = [i \in DOMAIN requests |-> [requests[i] EXCEPT !.old = TRUE]]
    /\ replies' = [i \in DOMAIN replies |-> [replies[i] EXCEPT !.old = TRUE]]
    /\ possible' = possible \cup UNION {{Changed(rcall[p].req, c) : c \in possible} : p \in Client}
    /\ UNCHANGED <<file, gotOld, rhalted>>

RfsNext ==
    \/ serve \/ lose \/ restart
    \/ \E p \in Client :
        \/ enter(p)
        \/ \E chars \in Modes : rfsopen(p, chars)
        \/ \E d \in RflDev :
            \/ rflclose(p, d)
            \/ \E len \in Counts : rflread(p, d, len)
            \/ \E text \in Texts : rflwrite(p, d, text)
            \/ \E pos \in Positions : rflseek(p, d, pos)
        \/ \E type \in Controls : rfscontrol(p, type)
        \/ rfscommNoReply(p) \/ rfscommReply(p)

RfsSpec == rfsinit /\ [][RfsNext]_rfvars

\* With requests and replies lost and late, requests sent several times and calls that
\* give up, of which a late copy may still be served: every call that was answered has
\* changed the file once, after the calls before it; one that was not has done so or not;
\* and a read returns what the file then held.  A restart ends this only if it makes the
\* machine take a reply to its earlier life for one to a request with the same number.
RemoteExact ==
    rhalted = "no" =>
        /\ CountIsQueue(rf_mutex)
        /\ (\A p \in Client : rcall[p].at # "recv") => file \in possible
        /\ ~gotOld
===============================================================================
