-------------------------------- MODULE Kernel --------------------------------
(***************************************************************************)
(* The process manager of Xinu: scheduler, semaphores, messages, clock.     *)
(*                                                                          *)
(* Interrupts are disabled inside a system call, so a call runs to its end  *)
(* unless it reschedules half-way.  pc says where the rest of a call is to  *)
(* continue when its process runs again; "run" is the process's own         *)
(* program, with interrupts enabled.  The loops that release several        *)
(* processes run with rescheduling deferred: op is the loop in progress,    *)
(* one action is one iteration, and nothing else can happen meanwhile.      *)
(***************************************************************************)
EXTENDS Queues, FiniteSets

CONSTANTS
    Proc,        \* slots of proctab
    NULLPROC,    \* the null process
    Main,        \* the process that runs main()
    UserSem,     \* entries of semtab other than the two below
    prSem,       \* the semaphore that serialises paging
    NoSem,       \* "no semaphore" (-1 in prsem)
    NoProc,      \* "no process" in the variable that names a kill() target
    readylist, sleepq, NoQueue,   \* queue ids
    Prios,       \* priorities that callers pass to create()
    NewPrios,    \* priorities that callers pass to chprio()
    Delays,      \* arguments of sleepms()
    Timeouts,    \* arguments of recvtime()
    Half,        \* 2^31: delays from here on are negative as int32
    Counts,      \* counts that callers pass to semcreate(), semreset(), signaln()
    Program,     \* Program[p]: the calls that the program of process p makes
    MaxCount     \* bound: count of a semaphore

Sem   == UserSem \cup {prSem}
Queue == {readylist, sleepq} \cup Sem

\* The system calls, and a page fault.
Call == {"resume", "suspend", "yield", "chprio", "wait", "signal", "semcreate", "signaln",
         "semdelete", "semreset", "sleepms", "send", "receive", "recvclr", "recvtime",
         "pfhandler", "create", "kill"}

ASSUME ProcAssumption ==
    /\ NULLPROC \in Proc /\ Main \in Proc /\ NULLPROC # Main
    /\ NoProc \notin Proc
    /\ Program \in [Proc -> SUBSET Call] /\ Program[NULLPROC] = {}

ASSUME QueueAssumption ==
    /\ prSem \notin UserSem
    /\ NoSem \notin Queue
    /\ readylist # sleepq
    /\ readylist \notin Sem /\ sleepq \notin Sem
    /\ NoQueue \notin Queue

ASSUME ArgumentAssumption ==
    /\ Half \in Nat \ {0}
    /\ Prios \subseteq Nat \ {0} /\ NewPrios \subseteq Nat
    /\ Delays \subseteq 0..(2 * Half - 1)
    /\ Timeouts \subseteq 0..(Half - 1)
    /\ Counts \subseteq Nat
    /\ MaxCount \in Nat

State == {"FREE", "CURR", "READY", "RECV", "SLEEP", "SUSP", "WAIT", "RECTIM"}

\* Places where a call continues after it has rescheduled.
PC == {"run", "receive", "recvtime", "clkhandler", "pfhandler", "rdsread",
       "killWait", "killFree", "killSwitch"}

Loop == {"none", "wakeup", "semdelete", "semreset", "signaln", "halt"}

VARIABLES
    prstate, prprio, prsem, prparent,   \* fields of proctab
    prhasmsg,
    pc,          \* where each process continues
    victim,      \* the argument of a kill() in progress
    prcount,
    currpid,
    queue,       \* the lists of queuetab, each a sequence of processes
    qkey,        \* the key in a process's node of queuetab
    Defer,       \* ndefers and attempt
    op,          \* the deferred loop in progress: its kind, semaphore and count
    sstate, scount,   \* fields of semtab
    left,        \* history: how much of its delay a sleeper still has to sleep
    stale        \* history: chprio() gave the current process a priority resched() has not seen

schedVars == <<prstate, currpid, queue, qkey, Defer, stale>>
semVars   == <<sstate, scount>>
procVars  == <<prprio, prparent, prcount>>
vars == <<prstate, prprio, prsem, prparent, prhasmsg, pc, victim, prcount, currpid, queue, qkey,
          Defer, op, sstate, scount, left, stale>>

\* The state when main() begins.
Init ==
    /\ prstate = [p \in Proc |-> IF p = Main THEN "CURR" ELSE IF p = NULLPROC THEN "READY" ELSE "FREE"]
    /\ prprio \in {[p \in Proc |-> IF p = Main THEN k ELSE 0] : k \in Prios}
    /\ prsem = [p \in Proc |-> NoSem]
    /\ prparent = [p \in Proc |-> NULLPROC]
    /\ prhasmsg = [p \in Proc |-> FALSE]
    /\ pc = [p \in Proc |-> "run"]
    /\ victim = [p \in Proc |-> NoProc]
    /\ prcount = 2
    /\ currpid = Main
    /\ queue = [q \in Queue |-> IF q = readylist THEN <<NULLPROC>> ELSE <<>>]
    /\ qkey = [p \in Proc |-> 0]
    /\ Defer = [ndefers |-> 0, attempt |-> FALSE]
    /\ op = [kind |-> "none", sem |-> NoSem, n |-> 0]
    /\ sstate = [s \in Sem |-> IF s = prSem THEN "USED" ELSE "FREE"]
    /\ scount = [s \in Sem |-> IF s = prSem THEN 1 ELSE 0]
    /\ left = [p \in Proc |-> 0]
    /\ stale = FALSE

(***************************************************************************)
(* Rescheduling.  st, q and k are prstate, queue and qkey as the caller     *)
(* leaves them.                                                             *)
(***************************************************************************)
\* The first process of the ready list becomes the current one.
Dispatch(st, q, k) ==
    /\ q[readylist] # <<>>
    /\ currpid' = Head(q[readylist])
    /\ prstate' = [st EXCEPT ![Head(q[readylist])] = "CURR"]
    /\ queue' = [q EXCEPT ![readylist] = Tail(@)]
    /\ qkey' = k
    /\ stale' = (k[Head(q[readylist])] # prprio[Head(q[readylist])])

Outranked(q, k) == q[readylist] # <<>> /\ prprio[currpid] <= k[Head(q[readylist])]

\* resched() when rescheduling is not deferred
Switch(st, q, k) ==
    \/ /\ st[currpid] = "CURR" /\ ~Outranked(q, k)
       /\ prstate' = st /\ queue' = q /\ qkey' = k
       /\ stale' = FALSE
       /\ UNCHANGED currpid
    \/ /\ st[currpid] = "CURR" /\ Outranked(q, k)
       /\ \E r \in Insert(q[readylist], k, currpid, prprio[currpid]) :
             Dispatch([st EXCEPT ![currpid] = "READY"], [q EXCEPT ![readylist] = r],
                      [k EXCEPT ![currpid] = prprio[currpid]])
    \/ st[currpid] # "CURR" /\ Dispatch(st, q, k)

resched(st, q, k) ==
    \/ /\ Defer.ndefers > 0
       /\ Defer' = [Defer EXCEPT !.attempt = TRUE]
       /\ prstate' = st /\ queue' = q /\ qkey' = k
       /\ UNCHANGED <<currpid, stale>>
    \/ /\ Defer.ndefers = 0
       /\ Switch(st, q, k)
       /\ UNCHANGED Defer

ready(p, st, q, k) ==
    \E r \in Insert(q[readylist], k, p, prprio[p]) :
        resched([st EXCEPT ![p] = "READY"], [q EXCEPT ![readylist] = r], [k EXCEPT ![p] = prprio[p]])

\* resched_cntl(DEFER_START), for the loop o
DeferStart(o) ==
    /\ Defer' = [ndefers |-> Defer.ndefers + 1,
                 attempt |-> IF Defer.ndefers = 0 THEN FALSE ELSE Defer.attempt]
    /\ op' = o

\* Mutation: the reschedules asked for during the deferral are forgotten.
DeferStopForgets ==
    /\ Defer' = [Defer EXCEPT !.ndefers = @ - 1]
    /\ op' = [kind |-> "none", sem |-> NoSem, n |-> 0]
    /\ UNCHANGED <<prstate, currpid, queue, qkey, stale>>

\* resched_cntl(DEFER_STOP), which ends the loop
DeferStop ==
    /\ Defer' = [Defer EXCEPT !.ndefers = @ - 1]
    /\ op' = [kind |-> "none", sem |-> NoSem, n |-> 0]
    /\ IF Defer.ndefers = 1 /\ Defer.attempt
       THEN Switch(prstate, queue, qkey)
       ELSE UNCHANGED <<prstate, currpid, queue, qkey, stale>>

(***************************************************************************)
(* A process runs its program, or the rest of a call it is in.              *)
(***************************************************************************)
At(where) == op.kind = "none" /\ pc[currpid] = where

Calls(name) == At("run") /\ name \in Program[currpid]

Goto(where) == pc' = [pc EXCEPT ![currpid] = where]

\* The queue on which a process in each state is kept.
Home(st, sem) ==
    IF st = "READY" THEN readylist
    ELSE IF st \in {"SLEEP", "RECTIM"} THEN sleepq
    ELSE IF st = "WAIT" THEN sem
    ELSE NoQueue

\* getitem(): p's own pointers say which queue it is taken from
getitem(p) == [q \in Queue |-> Unlink(queue[q], p)]

resume(p) ==
    /\ Calls("resume")
    /\ prstate[p] = "SUSP"
    /\ ready(p, prstate, queue, qkey)
    /\ UNCHANGED <<procVars, semVars, prsem, prhasmsg, pc, victim, op, left>>

\* Mutation: the null process can be suspended.
suspendAnybody(p) ==
    /\ Calls("suspend")
    /\ \/ /\ prstate[p] = "READY"
          /\ prstate' = [prstate EXCEPT ![p] = "SUSP"]
          /\ queue' = getitem(p)
          /\ UNCHANGED <<currpid, qkey, Defer, stale>>
       \/ /\ prstate[p] = "CURR"
          /\ resched([prstate EXCEPT ![p] = "SUSP"], queue, qkey)
    /\ UNCHANGED <<procVars, semVars, prsem, prhasmsg, pc, victim, op, left>>

suspend(p) ==
    /\ Calls("suspend")
    /\ p # NULLPROC
    /\ \/ /\ prstate[p] = "READY"
          /\ prstate' = [prstate EXCEPT ![p] = "SUSP"]
          /\ queue' = getitem(p)
          /\ UNCHANGED <<currpid, qkey, Defer, stale>>
       \/ /\ prstate[p] = "CURR"
          /\ resched([prstate EXCEPT ![p] = "SUSP"], queue, qkey)
    /\ UNCHANGED <<procVars, semVars, prsem, prhasmsg, pc, victim, op, left>>

yield ==
    /\ Calls("yield")
    /\ resched(prstate, queue, qkey)
    /\ UNCHANGED <<procVars, semVars, prsem, prhasmsg, pc, victim, op, left>>

\* A process on the ready list keeps its place and its key.
chprio(p, new) ==
    /\ Calls("chprio")
    /\ prstate[p] # "FREE"
    /\ prprio' = [prprio EXCEPT ![p] = new]
    /\ stale' = (stale \/ p = currpid)
    /\ UNCHANGED <<prstate, currpid, queue, qkey, Defer, prparent, prcount, semVars, prsem,
                   prhasmsg, pc, victim, op, left>>

(***************************************************************************)
(* Semaphores.                                                              *)
(***************************************************************************)
\* The body of wait() on a semaphore in use; the caller continues at "where".
waitOn(s, where) ==
    /\ scount' = [scount EXCEPT ![s] = @ - 1]
    /\ IF scount[s] - 1 < 0
       THEN /\ prsem' = [prsem EXCEPT ![currpid] = s]
            /\ resched([prstate EXCEPT ![currpid] = "WAIT"], [queue EXCEPT ![s] = Append(@, currpid)], qkey)
       ELSE UNCHANGED <<schedVars, prsem>>
    /\ Goto(where)
    /\ UNCHANGED sstate

\* The body of signal() on a semaphore in use.
signalOn(s, where) ==
    /\ scount' = [scount EXCEPT ![s] = @ + 1]
    /\ IF scount[s] < 0
       THEN ready(Head(queue[s]), prstate, [queue EXCEPT ![s] = Tail(@)], qkey)
       ELSE UNCHANGED schedVars
    /\ Goto(where)
    /\ UNCHANGED sstate

wait(s) ==
    /\ Calls("wait") /\ sstate[s] = "USED"
    /\ waitOn(s, "run")
    /\ UNCHANGED <<procVars, prhasmsg, victim, op, left>>

signal(s) ==
    /\ Calls("signal") /\ sstate[s] = "USED"
    /\ scount[s] < MaxCount
    /\ signalOn(s, "run")
    /\ UNCHANGED <<procVars, prsem, prhasmsg, victim, op, left>>

\* newsem() rotates through the table; which free entry it finds is left open.
semcreate(s, count) ==
    /\ Calls("semcreate") /\ sstate[s] = "FREE"
    /\ sstate' = [sstate EXCEPT ![s] = "USED"]
    /\ scount' = [scount EXCEPT ![s] = count]
    /\ UNCHANGED <<schedVars, procVars, prsem, prhasmsg, pc, victim, op, left>>

signaln(s, count) ==
    /\ Calls("signaln") /\ sstate[s] = "USED"
    /\ scount[s] + count <= MaxCount
    /\ DeferStart([kind |-> "signaln", sem |-> s, n |-> count])
    /\ UNCHANGED <<prstate, currpid, queue, qkey, stale, procVars, semVars, prsem, prhasmsg, pc, victim, left>>

signalnLoop ==
    /\ op.kind = "signaln" /\ op.n > 0
    /\ scount' = [scount EXCEPT ![op.sem] = @ + 1]
    /\ IF scount[op.sem] < 0
       THEN ready(Head(queue[op.sem]), prstate, [queue EXCEPT ![op.sem] = Tail(@)], qkey)
       ELSE UNCHANGED schedVars
    /\ op' = [op EXCEPT !.n = @ - 1]
    /\ UNCHANGED <<procVars, sstate, prsem, prhasmsg, pc, victim, left>>

signalnEnd ==
    /\ op.kind = "signaln" /\ op.n = 0
    /\ DeferStop
    /\ UNCHANGED <<procVars, semVars, prsem, prhasmsg, pc, victim, left>>

semdelete(s) ==
    /\ Calls("semdelete") /\ sstate[s] = "USED"
    /\ sstate' = [sstate EXCEPT ![s] = "FREE"]
    /\ DeferStart([kind |-> "semdelete", sem |-> s, n |-> 0])
    /\ UNCHANGED <<prstate, currpid, queue, qkey, stale, procVars, scount, prsem, prhasmsg, pc, victim, left>>

\* Mutation: the waiting processes are left where they are.
semdeleteLoopOnce ==
    /\ op.kind = "semdelete"
    /\ scount' = [scount EXCEPT ![op.sem] = @ + 1]
    /\ DeferStop
    /\ UNCHANGED <<procVars, sstate, prsem, prhasmsg, pc, victim, left>>

\* The loop tests and increments the count, once more than it releases a process.
semdeleteLoop ==
    /\ op.kind = "semdelete"
    /\ scount' = [scount EXCEPT ![op.sem] = @ + 1]
    /\ IF scount[op.sem] < 0
       THEN /\ ready(Head(queue[op.sem]), prstate, [queue EXCEPT ![op.sem] = Tail(@)], qkey)
            /\ UNCHANGED op
       ELSE DeferStop
    /\ UNCHANGED <<procVars, sstate, prsem, prhasmsg, pc, victim, left>>

semreset(s, count) ==
    /\ Calls("semreset") /\ sstate[s] = "USED"
    /\ DeferStart([kind |-> "semreset", sem |-> s, n |-> count])
    /\ UNCHANGED <<prstate, currpid, queue, qkey, stale, procVars, semVars, prsem, prhasmsg, pc, victim, left>>

semresetLoop ==
    /\ op.kind = "semreset" /\ queue[op.sem] # <<>>
    /\ ready(Head(queue[op.sem]), prstate, [queue EXCEPT ![op.sem] = Tail(@)], qkey)
    /\ UNCHANGED <<procVars, semVars, prsem, prhasmsg, pc, victim, op, left>>

semresetEnd ==
    /\ op.kind = "semreset" /\ queue[op.sem] = <<>>
    /\ scount' = [scount EXCEPT ![op.sem] = op.n]
    /\ DeferStop
    /\ UNCHANGED <<procVars, sstate, prsem, prhasmsg, pc, victim, left>>

(***************************************************************************)
(* Clock and sleep queue.                                                   *)
(***************************************************************************)
AsInt32(n) == IF n < Half THEN n ELSE n - 2 * Half

\* Mutation: the successor's key is not reduced.
insertdKeepsNext(delay, st) ==
    \E i \in DeltaPlaces(queue[sleepq], qkey, AsInt32(delay)) :
        /\ resched([prstate EXCEPT ![currpid] = st],
                   [queue EXCEPT ![sleepq] = InsertAfter(queue[sleepq], i, currpid)],
                   [qkey EXCEPT ![currpid] = AsInt32(delay) - DueIn(queue[sleepq], qkey, i)])
        /\ left' = [left EXCEPT ![currpid] = delay]

\* The current process goes on the delta list, in state st, and gives up the processor.
insertd(delay, st) ==
    \E i \in DeltaPlaces(queue[sleepq], qkey, AsInt32(delay)) :
        LET s    == queue[sleepq]
            key  == AsInt32(delay) - DueIn(s, qkey, i)
            next == IF i < Len(s) THEN {s[i + 1]} ELSE {}
        IN  /\ resched([prstate EXCEPT ![currpid] = st],
                       [queue EXCEPT ![sleepq] = InsertAfter(s, i, currpid)],
                       [p \in Proc |-> IF p = currpid THEN key
                                       ELSE IF p \in next THEN qkey[p] - key ELSE qkey[p]])
            /\ left' = [left EXCEPT ![currpid] = delay]

\* Mutation: the successor does not inherit the delay.
unsleepKeysLost(p) == qkey

\* The keys after p has left the delta list: its successor inherits its delay.
unsleepKeys(p) ==
    LET s == queue[sleepq]
    IN  [r \in Proc |-> IF \E i \in 1..(Len(s) - 1) : s[i] = p /\ s[i + 1] = r
                        THEN qkey[r] + qkey[p] ELSE qkey[r]]

sleepms(delay) ==
    /\ Calls("sleepms")
    /\ IF delay = 0 THEN resched(prstate, queue, qkey) /\ UNCHANGED left
                    ELSE insertd(delay, "SLEEP")
    /\ UNCHANGED <<procVars, semVars, prsem, prhasmsg, pc, victim, op>>

\* A clock interrupt, taken while a process runs with interrupts enabled.
clkhandler ==
    LET s == queue[sleepq] IN
    /\ At("run")
    /\ left' = [p \in Proc |-> IF On(p, s) THEN left[p] - 1 ELSE left[p]]
    /\ qkey' = IF s = <<>> THEN qkey ELSE [qkey EXCEPT ![Head(s)] = @ - 1]
    /\ IF s # <<>> /\ qkey[Head(s)] - 1 <= 0
       THEN DeferStart([kind |-> "wakeup", sem |-> NoSem, n |-> 0])
       ELSE UNCHANGED <<Defer, op>>
    /\ Goto("clkhandler")
    /\ UNCHANGED <<prstate, currpid, queue, stale, procVars, semVars, prsem, prhasmsg, victim>>

wakeupLoop ==
    LET p == Head(queue[sleepq]) IN
    /\ op.kind = "wakeup"
    /\ queue[sleepq] # <<>> /\ qkey[p] <= 0
    /\ ready(p, prstate, [queue EXCEPT ![sleepq] = Tail(@)], qkey)
    /\ left' = [left EXCEPT ![p] = 0]
    /\ UNCHANGED <<procVars, semVars, prsem, prhasmsg, pc, victim, op>>

\* Mutation: one process at a tick, with an if in place of the while.
wakeupEndAfterOne ==
    /\ op.kind = "wakeup"
    /\ Defer.attempt
    /\ DeferStop
    /\ UNCHANGED <<procVars, semVars, prsem, prhasmsg, pc, victim, left>>

wakeupEnd ==
    /\ op.kind = "wakeup"
    /\ queue[sleepq] # <<>> => qkey[Head(queue[sleepq])] > 0
    /\ DeferStop
    /\ UNCHANGED <<procVars, semVars, prsem, prhasmsg, pc, victim, left>>

\* The interrupted process comes back to the end of the handler, which may find its
\* time slice used up.
clkPreempt ==
    /\ At("clkhandler")
    /\ resched(prstate, queue, qkey) \/ UNCHANGED schedVars
    /\ Goto("run")
    /\ UNCHANGED <<procVars, semVars, prsem, prhasmsg, victim, op, left>>

(***************************************************************************)
(* Messages.                                                                *)
(***************************************************************************)
\* Mutation: a message does not end a timed wait.
deliverUntimed(p) ==
    IF prstate[p] = "FREE" \/ prhasmsg[p]
    THEN UNCHANGED <<schedVars, prhasmsg, left>>
    ELSE /\ prhasmsg' = [prhasmsg EXCEPT ![p] = TRUE]
         /\ IF prstate[p] = "RECV" THEN ready(p, prstate, queue, qkey) ELSE UNCHANGED schedVars
         /\ UNCHANGED left

\* The body of send(): nothing happens if p is gone or still has a message.
deliver(p) ==
    IF prstate[p] = "FREE" \/ prhasmsg[p]
    THEN UNCHANGED <<schedVars, prhasmsg, left>>
    ELSE /\ prhasmsg' = [prhasmsg EXCEPT ![p] = TRUE]
         /\ \/ /\ prstate[p] = "RECV"
               /\ ready(p, prstate, queue, qkey)
               /\ UNCHANGED left
            \/ /\ prstate[p] = "RECTIM"
               /\ ready(p, prstate, getitem(p), unsleepKeys(p))
               /\ left' = [left EXCEPT ![p] = 0]
            \/ /\ prstate[p] \notin {"RECV", "RECTIM"}
               /\ UNCHANGED <<schedVars, left>>

send(p) ==
    /\ Calls("send")
    /\ deliver(p)
    /\ UNCHANGED <<procVars, semVars, prsem, pc, victim, op>>

\* Wait for a message if there is none, and continue at "where".
AwaitMessage(where) ==
    /\ IF prhasmsg[currpid]
       THEN UNCHANGED schedVars
       ELSE resched([prstate EXCEPT ![currpid] = "RECV"], queue, qkey)
    /\ Goto(where)
    /\ UNCHANGED <<procVars, semVars, prsem, prhasmsg, victim, op, left>>

receive == Calls("receive") /\ AwaitMessage("receive")

TakeMessage ==
    /\ prhasmsg' = [prhasmsg EXCEPT ![currpid] = FALSE]
    /\ Goto("run")
    /\ UNCHANGED <<schedVars, procVars, semVars, prsem, victim, op, left>>

receiveDone == At("receive") /\ TakeMessage

recvclr ==
    /\ Calls("recvclr")
    /\ prhasmsg' = [prhasmsg EXCEPT ![currpid] = FALSE]
    /\ UNCHANGED <<schedVars, procVars, semVars, prsem, pc, victim, op, left>>

recvtime(maxwait) ==
    /\ Calls("recvtime")
    /\ IF prhasmsg[currpid] THEN UNCHANGED <<schedVars, left>> ELSE insertd(maxwait, "RECTIM")
    /\ Goto("recvtime")
    /\ UNCHANGED <<procVars, semVars, prsem, prhasmsg, victim, op>>

\* A message or TIMEOUT: either way no message is left.
recvtimeDone == At("recvtime") /\ TakeMessage

(***************************************************************************)
(* A page fault holds prSem while the remote disk driver waits for a        *)
(* message from its server process.                                         *)
(***************************************************************************)
pfhandler ==
    /\ Calls("pfhandler")
    /\ waitOn(prSem, "pfhandler")
    /\ UNCHANGED <<procVars, prhasmsg, victim, op, left>>

rdsread == At("pfhandler") /\ AwaitMessage("rdsread")

pfhandlerDone ==
    /\ At("rdsread")
    /\ prhasmsg' = [prhasmsg EXCEPT ![currpid] = FALSE]
    /\ signalOn(prSem, "run")
    /\ UNCHANGED <<procVars, prsem, victim, op, left>>

(***************************************************************************)
(* Creation and termination.                                                *)
(***************************************************************************)
\* newpid() rotates through the table; which free entry it finds is left open.
create(p, prio) ==
    /\ Calls("create")
    /\ prstate[p] = "FREE"
    /\ prstate' = [prstate EXCEPT ![p] = "SUSP"]
    /\ prprio' = [prprio EXCEPT ![p] = prio]
    /\ prsem' = [prsem EXCEPT ![p] = NoSem]
    /\ prparent' = [prparent EXCEPT ![p] = currpid]
    /\ prhasmsg' = [prhasmsg EXCEPT ![p] = FALSE]
    /\ pc' = [pc EXCEPT ![p] = "run"]
    /\ victim' = [victim EXCEPT ![p] = NoProc]
    /\ prcount' = prcount + 1
    /\ UNCHANGED <<currpid, queue, qkey, Defer, stale, semVars, op, left>>

\* Up to the death notice, which may let the parent run.
kill(p) ==
    /\ Calls("kill")
    /\ p # NULLPROC /\ prstate[p] # "FREE"
    /\ prcount' = prcount - 1
    /\ IF prcount - 1 <= 1
       THEN /\ op' = [op EXCEPT !.kind = "halt"]
            /\ UNCHANGED <<schedVars, prhasmsg, left, pc, victim>>
       ELSE /\ deliver(prparent[p])
            /\ Goto("killWait")
            /\ victim' = [victim EXCEPT ![currpid] = p]
            /\ UNCHANGED op
    /\ UNCHANGED <<prprio, prparent, prsem, semVars>>

killWait ==
    /\ At("killWait")
    /\ waitOn(prSem, "killFree")
    /\ UNCHANGED <<procVars, prhasmsg, victim, op, left>>

\* freeFrames() and removeMapping() are in Paging; here they end with signal(prSem).
killFree ==
    /\ At("killFree")
    /\ signalOn(prSem, "killSwitch")
    /\ UNCHANGED <<procVars, prsem, prhasmsg, victim, op, left>>

\* The switch on prstate, as the target's state is by now.
killSwitch ==
    LET p == victim[currpid] IN
    /\ At("killSwitch")
    /\ \/ /\ prstate[p] = "CURR"
          /\ resched([prstate EXCEPT ![p] = "FREE"], queue, qkey)
          /\ UNCHANGED <<scount, left>>
       \/ /\ prstate[p] \in {"SLEEP", "RECTIM"}
          /\ prstate' = [prstate EXCEPT ![p] = "FREE"]
          /\ queue' = getitem(p) /\ qkey' = unsleepKeys(p)
          /\ left' = [left EXCEPT ![p] = 0]
          /\ UNCHANGED <<currpid, Defer, stale, scount>>
       \/ /\ prstate[p] \in {"WAIT", "READY"}
          /\ prstate' = [prstate EXCEPT ![p] = "FREE"]
          /\ queue' = getitem(p)
          /\ scount' = IF prstate[p] = "WAIT" THEN [scount EXCEPT ![prsem[p]] = @ + 1] ELSE scount
          /\ UNCHANGED <<currpid, qkey, Defer, stale, left>>
       \/ /\ prstate[p] \in {"SUSP", "RECV", "FREE"}
          /\ prstate' = [prstate EXCEPT ![p] = "FREE"]
          /\ UNCHANGED <<currpid, queue, qkey, Defer, stale, scount, left>>
    /\ Goto("run")
    /\ victim' = [victim EXCEPT ![currpid] = NoProc]
    /\ UNCHANGED <<procVars, sstate, prsem, prhasmsg, op>>

-------------------------------------------------------------------------------
ProcessCall ==
    \/ yield \/ receive \/ recvclr \/ pfhandler
    \/ \E p \in Proc :
          \/ resume(p) \/ suspend(p) \/ send(p) \/ kill(p)
          \/ \E prio \in Prios : create(p, prio)
          \/ \E new \in NewPrios : chprio(p, new)
    \/ \E s \in UserSem :
          \/ wait(s) \/ signal(s) \/ semdelete(s)
          \/ \E n \in Counts : semcreate(s, n) \/ semreset(s, n) \/ signaln(s, n)
    \/ \E d \in Delays : sleepms(d)
    \/ \E w \in Timeouts : recvtime(w)

Continue ==
    \/ receiveDone \/ recvtimeDone
    \/ rdsread \/ pfhandlerDone
    \/ killWait \/ killFree \/ killSwitch

DeferredLoop ==
    \/ signalnLoop \/ signalnEnd
    \/ semdeleteLoop
    \/ semresetLoop \/ semresetEnd
    \/ wakeupLoop \/ wakeupEnd

Clock == clkhandler \/ clkPreempt

Next == ProcessCall \/ Continue \/ DeferredLoop \/ Clock

Spec == Init /\ [][Next]_vars

-------------------------------------------------------------------------------
KTypeOK ==
    /\ prstate \in [Proc -> State]
    /\ prprio \in [Proc -> Nat]
    /\ prsem \in [Proc -> Sem \cup {NoSem}]
    /\ prparent \in [Proc -> Proc]
    /\ prhasmsg \in [Proc -> BOOLEAN]
    /\ pc \in [Proc -> PC]
    /\ victim \in [Proc -> Proc \cup {NoProc}]
    /\ prcount \in Int
    /\ currpid \in Proc
    /\ queue \in [Queue -> Seq(Proc)]
    /\ qkey \in [Proc -> Int]
    /\ Defer \in [ndefers : Nat, attempt : BOOLEAN]
    /\ op \in [kind : Loop, sem : Sem \cup {NoSem}, n : Nat]
    /\ sstate \in [Sem -> {"FREE", "USED"}]
    /\ scount \in [Sem -> Int]
    /\ left \in [Proc -> Int]
    /\ stale \in BOOLEAN

\* Every process is on exactly the queue its state says, once, and on no other; a
\* process that is running, suspended, receiving or gone is on none.  A process on two
\* queues, or getitem() on one that is on none, corrupts queuetab.
OneQueue ==
    /\ \A q \in Queue : Once(queue[q])
    /\ \A q \in Queue, p \in Proc : On(p, queue[q]) <=> Home(prstate[p], prsem[p]) = q

\* The processor is never without a process: exactly one is current, and the null
\* process is ready whenever it is not current, so resched() always finds somebody.
OneCurrent ==
    /\ \A p \in Proc : prstate[p] = "CURR" <=> p = currpid
    /\ prstate[NULLPROC] \in {"CURR", "READY"}

\* A negative count is the number of processes in the semaphore's queue; with a count
\* of zero or more nobody waits, and nobody waits for a deleted semaphore.  (semreset()
\* empties the queue before it writes the count.)
SemCountIsQueue ==
    \A s \in Sem :
        IF op.kind = "semreset" /\ op.sem = s THEN TRUE
        ELSE IF sstate[s] = "USED" \/ (op.kind = "semdelete" /\ op.sem = s)
        THEN Len(queue[s]) = IF scount[s] < 0 THEN 0 - scount[s] ELSE 0
        ELSE queue[s] = <<>>

\* A process does not wait for a message that it already has, and receive() does not
\* go on without one: whatever suspends, resumes, times out or kills in between.
MessageWakes ==
    \A p \in Proc :
        /\ prstate[p] \in {"RECV", "RECTIM"} => ~prhasmsg[p]
        /\ (pc[p] \in {"receive", "rdsread"} /\ prstate[p] \notin {"RECV", "FREE"}) => prhasmsg[p]

\* No ready process has a key above the current process's priority, except that chprio()
\* does not reschedule: a process that it lowers while current, or that it lowered while
\* on the ready list, keeps the processor until the next resched().  In a deferred loop
\* this is suspended, and restored at its end.
CurrentHighest ==
    (Defer.ndefers = 0 /\ ~stale) =>
        \A i \in 1..Len(queue[readylist]) : qkey[queue[readylist][i]] <= prprio[currpid]

\* The keys of the delta list are what remains of the sleepers' delays, one from the
\* other, through insertions, expiries, messages and kills.
DeltaListExact ==
    \A i \in 1..Len(queue[sleepq]) :
        DueIn(queue[sleepq], qkey, i) = left[queue[sleepq][i]]

\* Nobody sleeps past its time: when the clock handler is done, no delay has run out.
SleepersOnTime ==
    op.kind # "wakeup" => \A i \in 1..Len(queue[sleepq]) : left[queue[sleepq][i]] > 0

\* sleepms() returns only when the delay is over.
SleepsInFull ==
    [][\A p \in Proc : (prstate[p] = "SLEEP" /\ prstate'[p] \notin {"SLEEP", "FREE"}) => left[p] <= 0]_vars
===============================================================================
