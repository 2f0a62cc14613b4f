---------------------------------- MODULE Rds ----------------------------------
(***************************************************************************)
(* The remote disk: the driver (device/rds) with its request queue, cache   *)
(* and free list of buffers, its communication process, the UDP endpoint,   *)
(* the network, and the server (rdserver).                                  *)
(*                                                                          *)
(* read() and write() disable interrupts and the communication   *)
(* process has a higher priority than its clients, so each side runs up to  *)
(* the point where it waits: for a buffer, for a request, for a message,    *)
(* for a packet buffer in udp_sendto(), for a reply.                        *)
(***************************************************************************)
EXTENDS Queues, FiniteSets

CONSTANTS
    Client,      \* processes that use the device
    rd_comproc,  \* the communication process
    Block, Value,
    Hole,        \* a block of the file that was never written
    Garbage,     \* what is found at an address that is not a buffer
    Buf,         \* buffers, RD_BUFFS of them
    NoBuf,
    Notice,      \* a message that is not an answer of the driver
    RD_RETRIES, UDP_QSIZ,
    File,        \* what the file on the server holds at the start
    Program,     \* Program[c]: the calls that client c makes
    Late,        \* may a reply take longer than RD_TIMEOUT?
    NoticeAt,    \* where a client may be when such a message comes
    MaxSeq,      \* bound: exchanges with the server
    MaxLost      \* bound: packets that the network loses

ASSUME ProcessAssumption == rd_comproc \notin Client
ASSUME BufferAssumption == IsFiniteSet(Buf) /\ NoBuf \notin Buf /\ Notice \notin Buf
ASSUME ValueAssumption == Hole \notin Value /\ Garbage \notin Value \cup {Hole} /\ File \in [Block -> Value \cup {Hole}]
ASSUME BoundAssumption == RD_RETRIES \in Nat \ {0} /\ UDP_QSIZ \in Nat \ {0}

Process == Client \cup {rd_comproc}

VARIABLES
    rd_state, rd_seq,
    requests, cache, free,   \* lists of buffers; the head of the queue first, newest in the cache first
    buf,         \* the fields of each buffer
    availsem,    \* count, and the clients that wait
    reqsem,      \* signals that rd_comproc has not taken
    pc,          \* where each process continues
    want,        \* the request of a client that waits for a buffer
    prmsg,       \* the message a client has
    xchg,        \* rdscomm() in progress: message, attempts, whether to send (again)
    udqueue,     \* packets in the UDP endpoint
    wire,        \* packets under way to the server and back
    server,      \* its last sequence number, whether the file is open, the file
    halted,      \* "no", "panic", "hung" or "tangled"
    nlost,
    last,        \* history: the last value written to each block
    answer       \* history: what each client read last

listVars  == <<requests, cache, free, buf>>
semVars   == <<availsem, reqsem>>
procVars  == <<pc, want, prmsg>>
netVars   == <<udqueue, wire, server, nlost>>
histVars  == <<last, answer>>
vars == <<rd_state, rd_seq, listVars, semVars, procVars, xchg, netVars, halted, histVars>>

Idle == [type |-> "none", seq |-> 0, blk |-> Hole, data |-> Hole, tries |-> 0, xmit |-> FALSE]

NoRequest == [op |-> "none", blk |-> Hole, val |-> Hole]

\* The state after rdsinit() and the creation of the communication process.
Init ==
    /\ rd_state = "FREE" /\ rd_seq = 1
    /\ requests = <<>> /\ cache = <<>>
    /\ free \in {s \in [1..Cardinality(Buf) -> Buf] : \A b \in Buf : \E i \in DOMAIN s : s[i] = b}
    /\ buf = [b \in Buf |-> [op |-> "none", refcnt |-> 0, blknum |-> Hole, status |-> "INVALID",
                             pid |-> rd_comproc, block |-> Hole]]
    /\ availsem = [count |-> Cardinality(Buf), waiting |-> <<>>]
    /\ reqsem = 0
    /\ pc = [p \in Process |-> IF p = rd_comproc THEN "wait" ELSE "run"]
    /\ want = [c \in Client |-> NoRequest]
    /\ prmsg = [c \in Client |-> NoBuf]
    /\ xchg = [p \in Process |-> Idle]
    /\ udqueue = <<>>
    /\ wire = [up |-> <<>>, down |-> <<>>]
    /\ server = [seq |-> 0, open |-> FALSE, file |-> File]
    /\ halted = "no"
    /\ nlost = 0
    /\ last = File
    /\ answer = [c \in Client |-> [blk |-> Hole, val |-> Hole]]

(***************************************************************************)
(* Lists and semaphores.                                                    *)
(***************************************************************************)
\* The first and the last place of s with an element that satisfies the test; a set of
\* at most one place.
FirstAt(s, Test(_)) == {i \in 1..Len(s) : Test(s[i]) /\ \A j \in 1..(i - 1) : ~Test(s[j])}
LastAt(s, Test(_))  == {i \in 1..Len(s) : Test(s[i]) /\ \A j \in (i + 1)..Len(s) : ~Test(s[j])}

\* signal(rd_availsem), the caller going on at "where"
signalAvail(p, where) ==
    /\ availsem' = [count   |-> availsem.count + 1,
                    waiting |-> IF availsem.count < 0 THEN Tail(availsem.waiting) ELSE <<>>]
    /\ pc' = [q \in Process |-> IF q = p THEN where
                                ELSE IF availsem.count < 0 /\ q = Head(availsem.waiting) THEN "granted"
                                ELSE pc[q]]

(***************************************************************************)
(* Clients.  The arguments of a call are in want while it lasts.            *)
(***************************************************************************)
Calls(c, name) == pc[c] = "run" /\ name \in Program[c]

\* rd_seq counts up for ever; the bound is on the exchanges, and leaves room for
\* those that the requests in the queue will need.
Room == rd_seq + Len(requests) < MaxSeq

\* Mutation: only the first request of a queue is signalled.
requestQuiet(c, r, b, fl, ca) ==
    /\ requests' = Append(requests, b) /\ free' = fl /\ cache' = ca
    /\ buf' = [buf EXCEPT ![b] = [op     |-> r.op,
                                  refcnt |-> IF r.op = "write" THEN 0 ELSE 1,
                                  blknum |-> r.blk,
                                  status |-> IF r.op = "write" THEN "VALID" ELSE "INVALID",
                                  pid    |-> c,
                                  block  |-> IF r.op = "write" THEN r.val ELSE @.block]]
    /\ reqsem' = IF requests = <<>> THEN reqsem + 1 ELSE reqsem
    /\ prmsg' = IF r.op = "write" THEN prmsg ELSE [prmsg EXCEPT ![c] = NoBuf]
    /\ want' = [want EXCEPT ![c] = r]
    /\ last' = IF r.op = "write" THEN [last EXCEPT ![r.blk] = r.val] ELSE last
    /\ UNCHANGED halted

\* Mutation: no recvclr().
requestKeepsMessage(c, r, b, fl, ca) ==
    /\ requests' = Append(requests, b) /\ free' = fl /\ cache' = ca
    /\ buf' = [buf EXCEPT ![b] = [op     |-> r.op,
                                  refcnt |-> IF r.op = "write" THEN 0 ELSE 1,
                                  blknum |-> r.blk,
                                  status |-> IF r.op = "write" THEN "VALID" ELSE "INVALID",
                                  pid    |-> c,
                                  block  |-> IF r.op = "write" THEN r.val ELSE @.block]]
    /\ reqsem' = reqsem + 1
    /\ prmsg' = prmsg
    /\ want' = [want EXCEPT ![c] = r]
    /\ last' = IF r.op = "write" THEN [last EXCEPT ![r.blk] = r.val] ELSE last
    /\ UNCHANGED halted

\* The request r of client c in buffer b; fl and ca are the other lists without b.
request(c, r, b, fl, ca) ==
    /\ requests' = Append(requests, b) /\ free' = fl /\ cache' = ca
    /\ buf' = [buf EXCEPT ![b] = [op     |-> r.op,
                                  refcnt |-> IF r.op = "write" THEN 0 ELSE 1,
                                  blknum |-> r.blk,
                                  status |-> IF r.op = "write" THEN "VALID" ELSE "INVALID",
                                  pid    |-> c,
                                  block  |-> IF r.op = "write" THEN r.val ELSE @.block]]
    /\ reqsem' = reqsem + 1
    /\ prmsg' = IF r.op = "write" THEN prmsg ELSE [prmsg EXCEPT ![c] = NoBuf]
    /\ want' = [want EXCEPT ![c] = r]
    /\ last' = IF r.op = "write" THEN [last EXCEPT ![r.blk] = r.val] ELSE last
    /\ UNCHANGED halted

\* Where a client is once its request is in the queue.
After(r) == IF r.op = "write" THEN "run" ELSE "receive"

reusable == LastAt(cache, LAMBDA b : buf[b].refcnt <= 0)

\* Mutation: a buffer taken from the cache is not unlinked.
rdsbufallocLinked(c, r) ==
    IF free # <<>>
    THEN request(c, r, Head(free), Tail(free), cache)
    ELSE IF reusable # {}
    THEN \E i \in reusable : request(c, r, cache[i], free, cache)
    ELSE /\ halted' = "panic"
         /\ UNCHANGED <<listVars, reqsem, prmsg, want, last>>

\* The rest of rdsbufalloc() and of the call, the semaphore being passed.
rdsbufalloc(c, r) ==
    IF free # <<>>
    THEN request(c, r, Head(free), Tail(free), cache)
    ELSE IF reusable # {}
    THEN \E i \in reusable : request(c, r, cache[i], free, Unlink(cache, cache[i]))
    ELSE /\ halted' = "panic"
         /\ UNCHANGED <<listVars, reqsem, prmsg, want, last>>

\* wait(rd_availsem), and on if there is a buffer
waitAvail(c, r) ==
    IF availsem.count > 0
    THEN /\ availsem' = [availsem EXCEPT !.count = @ - 1]
         /\ rdsbufalloc(c, r)
         /\ pc' = [pc EXCEPT ![c] = After(r)]
    ELSE /\ availsem' = [count |-> availsem.count - 1, waiting |-> Append(availsem.waiting, c)]
         /\ pc' = [pc EXCEPT ![c] = "waitAvail"]
         /\ want' = [want EXCEPT ![c] = r]
         /\ UNCHANGED <<listVars, reqsem, prmsg, last, halted>>

granted(c) ==
    /\ pc[c] = "granted"
    /\ rdsbufalloc(c, want[c])
    /\ pc' = [pc EXCEPT ![c] = After(want[c])]
    /\ UNCHANGED <<rd_state, rd_seq, availsem, xchg, netVars, answer>>

cached(b) == FirstAt(cache, LAMBDA x : buf[x].blknum = b)
recent(b) == LastAt(requests, LAMBDA x : buf[x].blknum = b)

Hit(b)    == \E i \in cached(b) : buf[cache[i]].status = "VALID"
Queued(b) == \E i \in recent(b) : buf[requests[i]].op = "write"

\* Callers read what is in the file: bsdtab says which pages are.
mayRead(c, b) == Calls(c, "read") /\ rd_state = "OPEN" /\ last[b] # Hole

\* rdsread() that finds the block here; cache before queue
rdsreadHere(c, b) ==
    /\ mayRead(c, b)
    /\ Hit(b) \/ Queued(b)
    /\ answer' = [answer EXCEPT ![c] =
          [blk |-> b, val |-> IF Hit(b) THEN buf[cache[CHOOSE i \in cached(b) : TRUE]].block
                                        ELSE buf[requests[CHOOSE i \in recent(b) : TRUE]].block]]
    /\ UNCHANGED <<rd_state, rd_seq, listVars, semVars, procVars, xchg, netVars, halted, last>>

rdsreadMiss(c, b) ==
    /\ mayRead(c, b) /\ ~Hit(b) /\ ~Queued(b) /\ Room
    /\ waitAvail(c, [op |-> "read", blk |-> b, val |-> Hole])
    /\ UNCHANGED <<rd_state, rd_seq, xchg, netVars, answer>>

\* The message is taken for the address of the buffer.  The walk through the cache for
\* older copies does not move on: it ends only if the buffer is the newest.
rdsreadDone(c) ==
    LET b == prmsg[c] IN
    /\ pc[c] = "receive" /\ b # NoBuf
    /\ answer' = [answer EXCEPT ![c] = [blk |-> want[c].blk, val |-> IF b \in Buf THEN buf[b].block ELSE Garbage]]
    /\ buf' = IF b \in Buf THEN [buf EXCEPT ![b].refcnt = @ - 1] ELSE buf
    /\ halted' \in IF b \notin Buf THEN {"no", "hung"}
                   ELSE IF buf[b].refcnt <= 1 /\ (cache = <<>> \/ Head(cache) # b) THEN {"hung"} ELSE {"no"}
    /\ prmsg' = [prmsg EXCEPT ![c] = NoBuf]
    /\ want' = [want EXCEPT ![c] = NoRequest]
    /\ pc' = [pc EXCEPT ![c] = "run"]
    /\ UNCHANGED <<rd_state, rd_seq, requests, cache, free, semVars, xchg, netVars, last>>

pending(b) == FirstAt(requests, LAMBDA x : buf[x].blknum = b /\ buf[x].op = "write")
Unused(b)  == {i \in cached(b) : buf[cache[i]].refcnt <= 0}

\* A write that changes nothing is left out; the bound is on the others.
mayWrite(c, b, v) == Calls(c, "write") /\ rd_state = "OPEN" /\ Room /\ v # last[b]

rdswriteReplace(c, b, v) ==
    /\ mayWrite(c, b, v)
    /\ \E i \in pending(b) : buf' = [buf EXCEPT ![requests[i]].block = v]
    /\ last' = [last EXCEPT ![b] = v]
    /\ UNCHANGED <<rd_state, rd_seq, requests, cache, free, semVars, procVars, xchg, netVars, halted, answer>>

\* Mutation: the semaphore is left alone.
rdswriteCachedUncounted(c, b, v) ==
    /\ mayWrite(c, b, v) /\ pending(b) = {}
    /\ \E i \in Unused(b) :
          request(c, [op |-> "write", blk |-> b, val |-> v], cache[i], free, Unlink(cache, cache[i]))
    /\ UNCHANGED <<rd_state, rd_seq, availsem, pc, xchg, netVars, answer>>

\* semreset() does nothing when the new count would be negative; otherwise the old one was
\* positive, and nobody waits.
rdswriteCached(c, b, v) ==
    /\ mayWrite(c, b, v) /\ pending(b) = {}
    /\ \E i \in Unused(b) :
          request(c, [op |-> "write", blk |-> b, val |-> v], cache[i], free, Unlink(cache, cache[i]))
    /\ availsem' = IF availsem.count > 0 THEN [availsem EXCEPT !.count = @ - 1] ELSE availsem
    /\ UNCHANGED <<rd_state, rd_seq, pc, xchg, netVars, answer>>

rdswriteNew(c, b, v) ==
    /\ mayWrite(c, b, v) /\ pending(b) = {} /\ Unused(b) = {}
    /\ waitAvail(c, [op |-> "write", blk |-> b, val |-> v])
    /\ UNCHANGED <<rd_state, rd_seq, xchg, netVars, answer>>

\* rdscomm() up to the first attempt
exchange(p, type, b, v) ==
    /\ rd_seq' = rd_seq + 1
    /\ xchg' = [xchg EXCEPT ![p] = [type |-> type, seq |-> rd_seq, blk |-> b, data |-> v,
                                    tries |-> 0, xmit |-> TRUE]]

rdsopen(c) ==
    /\ Calls(c, "open") /\ rd_state = "FREE" /\ Room
    /\ rd_state' = "PEND"
    /\ exchange(c, "open", Hole, Hole)
    /\ pc' = [pc EXCEPT ![c] = "rdscomm"]
    /\ UNCHANGED <<listVars, semVars, want, prmsg, netVars, halted, histVars>>

rdsclose(c) ==
    /\ Calls(c, "close") /\ rd_state = "OPEN"
    /\ requests = <<>>
    /\ free' = Backwards(cache) \o free
    /\ buf' = [b \in Buf |-> IF On(b, cache)
                             THEN [buf[b] EXCEPT !.status = "INVALID"] ELSE buf[b]]
    /\ cache' = <<>>
    /\ rd_state' = "FREE"
    /\ UNCHANGED <<rd_seq, requests, semVars, procVars, xchg, netVars, halted, histVars>>

\* A message from elsewhere: the death notice that kill() sends to the parent.
notice(c) ==
    /\ "notice" \in Program[c]
    /\ pc[c] \in NoticeAt
    /\ prmsg[c] = NoBuf
    /\ prmsg' = [prmsg EXCEPT ![c] = Notice]
    /\ UNCHANGED <<rd_state, rd_seq, listVars, semVars, pc, want, xchg, netVars, halted, histVars>>

(***************************************************************************)
(* The communication process.                                               *)
(***************************************************************************)
\* Mutation: one signal is as good as many.
TakesRequestBinary(op) ==
    /\ pc[rd_comproc] = "wait" /\ reqsem > 0
    /\ requests # <<>> /\ buf[Head(requests)].op = op
    /\ reqsem' = 0

\* wait(rd_reqsem), with a request of kind op at the head of the queue
TakesRequest(op) ==
    /\ pc[rd_comproc] = "wait" /\ reqsem > 0
    /\ requests # <<>> /\ buf[Head(requests)].op = op
    /\ reqsem' = reqsem - 1

rdsprocessRead ==
    LET b == Head(requests) IN
    /\ TakesRequest("read")
    /\ exchange(rd_comproc, "read", buf[b].blknum, Hole)
    /\ pc' = [pc EXCEPT ![rd_comproc] = "rdscomm"]
    /\ UNCHANGED <<rd_state, listVars, availsem, want, prmsg, netVars, halted, histVars>>

rdsprocessWrite ==
    LET b == Head(requests) IN
    /\ TakesRequest("write")
    /\ requests' = Tail(requests)
    /\ cache' = <<b>> \o cache
    /\ buf' = [buf EXCEPT ![b].refcnt = 0]
    /\ signalAvail(rd_comproc, "rdscomm")
    /\ exchange(rd_comproc, "write", buf[b].blknum, buf[b].block)
    /\ UNCHANGED <<rd_state, free, want, prmsg, netVars, halted, histVars>>

\* send() does nothing if the receiver still has a message.
send(c, m) == IF prmsg[c] = NoBuf THEN [prmsg EXCEPT ![c] = m] ELSE prmsg

\* The reply to a read is there; its request is still the head of the queue.  A second
\* request for the block, whatever it is, would be taken out of the queue with the links
\* of the buffer in the cache: from then on the lists run into each other.
readDone(r) ==
    LET bptr == Head(requests)
        rest == Tail(requests)
    IN
    /\ requests' = rest
    /\ cache' = <<bptr>> \o cache
    /\ buf' = [buf EXCEPT ![bptr].block = r.data, ![bptr].refcnt = 1]
    /\ signalAvail(rd_comproc, "sleep")
    /\ prmsg' = send(buf[bptr].pid, bptr)
    /\ halted' = IF \E i \in 1..Len(rest) : buf[rest[i]].blknum = buf[bptr].blknum THEN "tangled" ELSE "no"
    /\ UNCHANGED <<rd_state, free>>

rdsprocessSleep ==
    /\ pc[rd_comproc] = "sleep"
    /\ pc' = [pc EXCEPT ![rd_comproc] = "wait"]
    /\ UNCHANGED <<rd_state, rd_seq, listVars, semVars, want, prmsg, xchg, netVars, halted, histVars>>

(***************************************************************************)
(* rdscomm(), called by rd_comproc for requests and by a client to open.    *)
(***************************************************************************)
Receiving == \E p \in Process : pc[p] = "udp_recv"

\* A process whose packet has come takes it before anybody else gets to the endpoint.
Undisturbed == Receiving => udqueue = <<>>

\* The exchange fails: the communication process panics, rdsopen() gives up.
fail(p) ==
    /\ IF p = rd_comproc
       THEN halted' = "panic" /\ UNCHANGED <<rd_state, pc>>
       ELSE rd_state' = "FREE" /\ pc' = [pc EXCEPT ![p] = "run"] /\ UNCHANGED halted
    /\ xchg' = [xchg EXCEPT ![p] = Idle]

\* udp_sendto() if need be, and udp_recv() up to its wait, with its recvclr()
rdscommSend(p) ==
    /\ pc[p] = "rdscomm" /\ xchg[p].tries < RD_RETRIES /\ Undisturbed
    /\ wire' = IF xchg[p].xmit
               THEN [wire EXCEPT !.up = Append(@, [type |-> xchg[p].type, seq |-> xchg[p].seq,
                                                   blk |-> xchg[p].blk, data |-> xchg[p].data])]
               ELSE wire
    /\ IF Receiving
       THEN fail(p) /\ UNCHANGED prmsg
       ELSE /\ pc' = [pc EXCEPT ![p] = "udp_recv"]
            /\ prmsg' = [c \in Client |-> IF c = p /\ udqueue = <<>> THEN NoBuf ELSE prmsg[c]]
            /\ UNCHANGED <<rd_state, xchg, halted>>
    /\ UNCHANGED <<rd_seq, listVars, semVars, want, udqueue, server, nlost, histVars>>

rdscommExhausted(p) ==
    /\ pc[p] = "rdscomm" /\ xchg[p].tries = RD_RETRIES
    /\ fail(p)
    /\ UNCHANGED <<rd_seq, listVars, semVars, want, prmsg, netVars, histVars>>

again(p, xmit) ==
    /\ xchg' = [xchg EXCEPT ![p].tries = @ + 1, ![p].xmit = xmit]
    /\ pc' = [pc EXCEPT ![p] = "rdscomm"]

\* udp_recv() after RD_TIMEOUT without a packet
rdscommTimeout(p) ==
    /\ pc[p] = "udp_recv" /\ udqueue = <<>>
    /\ Late \/ (wire.up = <<>> /\ wire.down = <<>>)
    /\ again(p, TRUE)
    /\ UNCHANGED <<rd_state, rd_seq, listVars, semVars, want, prmsg, netVars, halted, histVars>>

\* Mutation: any reply will do.
AcceptsAnyType(p, r) == r.seq <= xchg[p].seq

\* A reply with a smaller sequence number only stops the next transmission: it goes on
\* to the test of the type.
Accepts(p, r) == r.seq <= xchg[p].seq /\ r.type = xchg[p].type

rdscommRefuse(p) ==
    /\ pc[p] = "udp_recv" /\ udqueue # <<>>
    /\ ~Accepts(p, Head(udqueue))
    /\ again(p, Head(udqueue).seq >= xchg[p].seq)
    /\ udqueue' = Tail(udqueue)
    /\ UNCHANGED <<rd_state, rd_seq, listVars, semVars, want, prmsg, wire, server, nlost, halted, histVars>>

rdscommDone(p) ==
    LET r == Head(udqueue) IN
    /\ pc[p] = "udp_recv" /\ udqueue # <<>>
    /\ Accepts(p, r)
    /\ IF ~r.ok
       THEN fail(p) /\ UNCHANGED <<listVars, availsem, prmsg>>
       ELSE /\ xchg' = [xchg EXCEPT ![p] = Idle]
            /\ \/ /\ xchg[p].type = "open"
                  /\ rd_state' = "OPEN" /\ pc' = [pc EXCEPT ![p] = "run"]
                  /\ UNCHANGED <<listVars, availsem, prmsg, halted>>
               \/ /\ xchg[p].type = "write"
                  /\ pc' = [pc EXCEPT ![p] = "sleep"]
                  /\ UNCHANGED <<rd_state, listVars, availsem, prmsg, halted>>
               \/ xchg[p].type = "read" /\ readDone(r)
    /\ udqueue' = Tail(udqueue)
    /\ UNCHANGED <<rd_seq, reqsem, want, wire, server, nlost, histVars>>

(***************************************************************************)
(* The network and the server.                                              *)
(***************************************************************************)
lose ==
    /\ nlost < MaxLost
    /\ nlost' = nlost + 1
    /\ \/ wire.up # <<>>   /\ wire' = [wire EXCEPT !.up = Tail(@)]
       \/ wire.down # <<>> /\ wire' = [wire EXCEPT !.down = Tail(@)]
    /\ UNCHANGED <<rd_state, rd_seq, listVars, semVars, procVars, xchg, udqueue, server, halted, histVars>>

udp_in ==
    /\ wire.down # <<>>
    /\ wire' = [wire EXCEPT !.down = Tail(@)]
    /\ udqueue' = IF Len(udqueue) < UDP_QSIZ THEN Append(udqueue, Head(wire.down)) ELSE udqueue
    /\ UNCHANGED <<rd_state, rd_seq, listVars, semVars, procVars, xchg, server, nlost, halted, histVars>>

\* rd_status has 16 bits: of htonl(1), on the little-endian machine it is built for, snderr()
\* keeps the zeros.
snderr == 16777216 % 65536
sndok == 0

\* What the server has to say to m, as the driver takes it: ok if rd_status is 0.  No data
\* come with an error.
reply(m) ==
    LET served == m.type = "open" \/ (server.open /\ (m.type = "read" => server.file[m.blk] # Hole))
    IN  [type |-> m.type, seq |-> m.seq, ok |-> (IF served THEN sndok ELSE snderr) = 0,
         data |-> IF served /\ m.type = "read" THEN server.file[m.blk] ELSE Hole]

rdserver ==
    LET m == Head(wire.up)
        seq == IF m.seq = 1 THEN 0 ELSE server.seq
    IN
    /\ wire.up # <<>>
    /\ IF m.seq < seq
       THEN wire' = [wire EXCEPT !.up = Tail(@)] /\ UNCHANGED server
       ELSE /\ wire' = [up |-> Tail(wire.up), down |-> Append(wire.down, reply(m))]
            /\ server' = [seq  |-> m.seq,
                          open |-> server.open \/ m.type = "open",
                          file |-> IF m.type = "write" /\ server.open
                                   THEN [server.file EXCEPT ![m.blk] = m.data] ELSE server.file]
    /\ UNCHANGED <<rd_state, rd_seq, listVars, semVars, procVars, xchg, udqueue, nlost, halted, histVars>>

-------------------------------------------------------------------------------
ClientStep(c) ==
    \/ rdsopen(c) \/ rdsclose(c)
    \/ rdsreadDone(c) \/ granted(c) \/ notice(c)
    \/ \E b \in Block :
          \/ rdsreadHere(c, b) \/ rdsreadMiss(c, b)
          \/ \E v \in Value : rdswriteReplace(c, b, v) \/ rdswriteCached(c, b, v) \/ rdswriteNew(c, b, v)

Comm(p) ==
    \/ rdscommSend(p) \/ rdscommExhausted(p) \/ rdscommTimeout(p)
    \/ rdscommRefuse(p) \/ rdscommDone(p)

rdsprocess == rdsprocessRead \/ rdsprocessWrite \/ rdsprocessSleep

Next ==
    /\ halted = "no"
    /\ \/ \E c \in Client : ClientStep(c)
       \/ \E p \in Process : Comm(p)
       \/ rdsprocess
       \/ lose \/ udp_in \/ rdserver

Spec == Init /\ [][Next]_vars

-------------------------------------------------------------------------------
Request == [op : {"none", "read", "write"}, blk : Block \cup {Hole}, val : Value \cup {Hole}]

RTypeOK ==
    /\ rd_state \in {"FREE", "PEND", "OPEN"} /\ rd_seq \in Nat
    /\ requests \in Seq(Buf) /\ cache \in Seq(Buf) /\ free \in Seq(Buf)
    /\ buf \in [Buf -> [op : {"none", "read", "write"}, refcnt : Int, blknum : Block \cup {Hole},
                        status : {"VALID", "INVALID"}, pid : Process, block : Value \cup {Hole}]]
    /\ availsem \in [count : Int, waiting : Seq(Client)] /\ reqsem \in Nat
    /\ pc \in [Process -> {"run", "wait", "sleep", "waitAvail", "granted", "receive",
                           "rdscomm", "udp_recv"}]
    /\ want \in [Client -> Request]
    /\ prmsg \in [Client -> Buf \cup {NoBuf, Notice}]
    /\ \A p \in Process : xchg[p].tries \in 0..RD_RETRIES
    /\ Len(udqueue) <= UDP_QSIZ
    /\ halted \in {"no", "panic", "hung", "tangled"}

\* Every buffer is on exactly one of the three lists, once: none is lost to the driver
\* and none is reused while it is queued.
BuffersPartitioned ==
    /\ Once(requests) /\ Once(cache) /\ Once(free)
    /\ \A b \in Buf :
          /\ On(b, requests) \/ On(b, cache) \/ On(b, free)
          /\ ~(On(b, requests) /\ On(b, cache))
          /\ ~(On(b, requests) /\ On(b, free))
          /\ ~(On(b, cache) /\ On(b, free))

\* rd_availsem counts the buffers that rdsbufalloc() can take: those on the free list and
\* in the cache, less those promised to clients that were woken.
AvailExact ==
    halted = "no" =>
        availsem.count + Len(availsem.waiting) =
            Len(free) + Len(cache) - Cardinality({c \in Client : pc[c] = "granted"})

\* rd_reqsem counts the requests in the queue, less the one in hand.
RequestsCounted ==
    LET inHand == pc[rd_comproc] \in {"rdscomm", "udp_recv"} /\ xchg[rd_comproc].type = "read"
    IN  halted = "no" =>
            reqsem + (IF inHand THEN 1 ELSE 0) = Len(requests)

\* When the queue is drained, the server has the last value written to every block,
\* whatever was lost and sent again on the way.
Durable ==
    (halted = "no" /\ requests = <<>> /\ pc[rd_comproc] \in {"wait", "sleep"}) => server.file = last

\* The driver implements the disk: a read gives what was written last, from the cache,
\* the queue or the server.
AbstractDisk == INSTANCE Disk WITH mem <- last
ImplementsDisk == AbstractDisk!Spec

\* No wake-up is lost: a client that waits for a block has its request in the queue, and
\* rd_comproc works on the queue or has a signal left to take.
ReaderQueued ==
    \A c \in Client :
        (halted = "no" /\ pc[c] = "receive" /\ prmsg[c] = NoBuf) =>
            /\ \E i \in 1..Len(requests) : buf[requests[i]].pid = c /\ buf[requests[i]].op = "read"
            /\ pc[rd_comproc] = "wait" => reqsem > 0
===============================================================================
