---------------------------- MODULE KernelProofs ------------------------------
(***************************************************************************)
(* For every set of processes and semaphores, every program and every       *)
(* choice of arguments: each process is on exactly the queue of its state,  *)
(* exactly one process is current, a negative semaphore count is the length *)
(* of the queue, no message is missed, and the ready list holds nobody      *)
(* above the current process.  For delays that fit in a signed integer the  *)
(* delta list is exact, and sleepers wake on time and not before.           *)
(*                                                                          *)
(* The first four hold together or not at all: signal() takes the head of   *)
(* the queue because the count is negative, what it takes is then a waiting *)
(* process because that queue holds nothing else, and so the process that   *)
(* is made ready is neither current nor on a second queue.                  *)
(*                                                                          *)
(* The scheduler and the clock rest on them.  For these, an action is one   *)
(* of a few things done to the lists and keys (Shape below): what it does   *)
(* to semaphores, messages and places in calls no longer matters.           *)
(***************************************************************************)
EXTENDS Kernel, QueueProofs

\* The process table ps, st and the queues q agree.
Good(st, ps, q) ==
    /\ st \in [Proc -> State]
    /\ ps \in [Proc -> Sem \cup {NoSem}]
    /\ q \in [Queue -> Seq(Proc)]
    /\ \A x \in Queue : Once(q[x])
    /\ \A x \in Queue, p \in Proc : On(p, q[x]) <=> Home(st[p], ps[p]) = x
    /\ \A p \in Proc : st[p] = "WAIT" => ps[p] \in Sem

\* They agree but for p, which is on no queue.
Loose(p, st, ps, q) ==
    /\ st \in [Proc -> State]
    /\ ps \in [Proc -> Sem \cup {NoSem}]
    /\ q \in [Queue -> Seq(Proc)]
    /\ \A x \in Queue : Once(q[x])
    /\ \A x \in Queue : ~On(p, q[x])
    /\ \A x \in Queue, y \in Proc : y # p => (On(y, q[x]) <=> Home(st[y], ps[y]) = x)
    /\ \A y \in Proc : y # p /\ st[y] = "WAIT" => ps[y] \in Sem

\* What a call leaves that hands st and q to resched().
Sched(st, ps, q) ==
    /\ Good(prstate', ps, queue')
    /\ currpid' \in Proc
    /\ \A p \in Proc : prstate'[p] = "CURR" <=> p = currpid'
    /\ \A x \in Queue \ {readylist} : queue'[x] = q[x]
    /\ \A p \in Proc : \/ prstate'[p] = st[p]
                       \/ prstate'[p] \in {"CURR", "READY"} /\ st[p] \in {"CURR", "READY"}

Control ==
    /\ Defer \in [ndefers : Nat, attempt : BOOLEAN]
    /\ op \in [kind : Loop, sem : Sem \cup {NoSem}, n : Nat]
    /\ Defer.ndefers = IF op.kind \in {"none", "halt"} THEN 0 ELSE 1
    /\ op.kind \in {"semdelete", "semreset", "signaln"} => op.sem \in UserSem
    /\ op.kind = "semdelete" => sstate[op.sem] = "FREE"
    /\ op.kind \in {"semreset", "signaln"} => sstate[op.sem] = "USED"

Semaphores ==
    /\ sstate \in [Sem -> {"FREE", "USED"}]
    /\ scount \in [Sem -> Int]
    /\ sstate[prSem] = "USED"
    /\ SemCountIsQueue

Processes ==
    /\ Good(prstate, prsem, queue)
    /\ currpid \in Proc
    /\ OneCurrent

Messages ==
    /\ prhasmsg \in [Proc -> BOOLEAN]
    /\ pc \in [Proc -> PC]
    /\ MessageWakes

Kills ==
    /\ prparent \in [Proc -> Proc]
    /\ victim \in [Proc -> Proc \cup {NoProc}]
    /\ \A p \in Proc : pc[p] \in {"killWait", "killFree", "killSwitch"} => victim[p] \in Proc
    /\ \A p \in Proc : victim[p] # NULLPROC
    /\ pc[NULLPROC] \notin {"killWait", "killFree", "killSwitch", "pfhandler"}

KInv == Processes /\ Control /\ Semaphores /\ Messages /\ Kills

-------------------------------------------------------------------------------
\* Queues.

LEMMA Distinct ==
    /\ readylist \in Queue /\ sleepq \in Queue /\ readylist # sleepq
    /\ NoQueue \notin Queue /\ NoSem \notin Queue
    /\ Sem \subseteq Queue /\ readylist \notin Sem /\ sleepq \notin Sem
    /\ prSem \in Sem /\ UserSem \subseteq Sem /\ prSem \notin UserSem
BY QueueAssumption DEF Queue, Sem

LEMMA HomeReady ==
    ASSUME NEW st \in State, NEW s \in Sem \cup {NoSem}
    PROVE  /\ Home(st, s) = readylist <=> st = "READY"
           /\ Home(st, s) = sleepq <=> st \in {"SLEEP", "RECTIM"}
           /\ \A x \in Sem : Home(st, s) = x <=> st = "WAIT" /\ s = x
           /\ st \in {"FREE", "CURR", "RECV", "SUSP"} => Home(st, s) = NoQueue
BY Distinct DEF Home, State

\* A process whose state keeps it on no queue is on none.
LEMMA LooseIdle ==
    ASSUME NEW st, NEW ps, NEW q, Good(st, ps, q), NEW p \in Proc,
           st[p] \in {"FREE", "CURR", "RECV", "SUSP"}
    PROVE  Loose(p, st, ps, q)
<1>1. Home(st[p], ps[p]) = NoQueue
  BY HomeReady DEF Good
<1> QED
  BY <1>1, Distinct DEF Good, Loose

\* A process taken from the front of its queue is on none.
LEMMA LooseHead ==
    ASSUME NEW st, NEW ps, NEW q, Good(st, ps, q), NEW x \in Queue, q[x] # <<>>
    PROVE  /\ Head(q[x]) \in Proc
           /\ Home(st[Head(q[x])], ps[Head(q[x])]) = x
           /\ Loose(Head(q[x]), st, ps, [q EXCEPT ![x] = Tail(@)])
<1> DEFINE h == Head(q[x])
           r == [q EXCEPT ![x] = Tail(@)]
<1>1. q \in [Queue -> Seq(Proc)] /\ q[x] \in Seq(Proc) /\ Once(q[x])
  BY DEF Good
<1>2. /\ h \in Proc /\ On(h, q[x])
      /\ Tail(q[x]) \in Seq(Proc) /\ Once(Tail(q[x]))
      /\ \A y \in Proc : On(y, Tail(q[x])) <=> y # h /\ On(y, q[x])
  BY <1>1, TailOnce
<1>3. Home(st[h], ps[h]) = x
  BY <1>2 DEF Good
<1>4. r \in [Queue -> Seq(Proc)] /\ r[x] = Tail(q[x]) /\ \A y \in Queue : y # x => r[y] = q[y]
  BY <1>1, <1>2
<1> HIDE DEF h, r
<1>5. \A y \in Queue : Once(r[y]) /\ ~On(h, r[y])
  BY <1>2, <1>3, <1>4 DEF Good
<1>6. ASSUME NEW y \in Queue, NEW p \in Proc, p # h
      PROVE  On(p, r[y]) <=> Home(st[p], ps[p]) = y
  <2>1. On(p, q[y]) <=> Home(st[p], ps[p]) = y
    BY DEF Good
  <2>2. On(p, r[y]) <=> On(p, q[y])
    BY <1>2, <1>4, <1>6
  <2> QED
    BY <2>1, <2>2
<1>7. Loose(h, st, ps, r)
  BY <1>4, <1>5, <1>6 DEF Good, Loose
<1> QED
  BY <1>2, <1>3, <1>7 DEF h, r

\* getitem() leaves a process on no queue.
LEMMA LooseGetitem ==
    ASSUME NEW st, NEW ps, NEW q, Good(st, ps, q), NEW p \in Proc
    PROVE  Loose(p, st, ps, [x \in Queue |-> Unlink(q[x], p)])
<1> DEFINE r == [x \in Queue |-> Unlink(q[x], p)]
<1>1. \A x \in Queue : /\ r[x] \in Seq(Proc) /\ Once(r[x])
                       /\ \A y \in Proc : On(y, r[x]) <=> y # p /\ On(y, q[x])
  BY UnlinkOnce DEF Good
<1>2. r \in [Queue -> Seq(Proc)]
  BY <1>1
<1> HIDE DEF r
<1>3. Loose(p, st, ps, r)
  BY <1>1, <1>2 DEF Good, Loose
<1> QED
  BY <1>3 DEF r

\* A loose process may take any state that is kept on no queue.
LEMMA GoodIdle ==
    ASSUME NEW p \in Proc, NEW st, NEW ps, NEW q, Loose(p, st, ps, q),
           NEW v \in {"FREE", "CURR", "RECV", "SUSP"}
    PROVE  Good([st EXCEPT ![p] = v], ps, q)
<1> DEFINE u == [st EXCEPT ![p] = v]
<1>1. u \in [Proc -> State] /\ u[p] = v /\ \A y \in Proc : y # p => u[y] = st[y]
  BY DEF Loose, State
<1> HIDE DEF u
<1>2. Home(u[p], ps[p]) = NoQueue
  BY <1>1, HomeReady DEF Loose
<1>3. \A x \in Queue, y \in Proc : On(y, q[x]) <=> Home(u[y], ps[y]) = x
  BY <1>1, <1>2, Distinct DEF Loose
<1>4. Good(u, ps, q)
  BY <1>1, <1>3 DEF Good, Loose
<1> QED
  BY <1>4 DEF u

\* Or it is put on one queue, in the state that belongs to it.
LEMMA GoodInsert ==
    ASSUME NEW p \in Proc, NEW st, NEW ps, NEW q, Loose(p, st, ps, q),
           NEW x \in Queue, NEW t \in Seq(Proc), Once(t),
           \A y \in Proc : On(y, t) <=> y = p \/ On(y, q[x]),
           NEW pt \in [Proc -> Sem \cup {NoSem}], \A y \in Proc : y # p => pt[y] = ps[y],
           NEW v \in State, Home(v, pt[p]) = x
    PROVE  Good([st EXCEPT ![p] = v], pt, [q EXCEPT ![x] = t])
<1> DEFINE u == [st EXCEPT ![p] = v]
           r == [q EXCEPT ![x] = t]
<1>1. u \in [Proc -> State] /\ u[p] = v /\ \A y \in Proc : y # p => u[y] = st[y]
  BY DEF Loose
<1>2. r \in [Queue -> Seq(Proc)] /\ r[x] = t /\ \A y \in Queue : y # x => r[y] = q[y]
  BY DEF Loose
<1> HIDE DEF u, r
<1>3. \A y \in Queue : Once(r[y])
  BY <1>2 DEF Loose
<1>4. \A y \in Queue : On(p, r[y]) <=> Home(u[p], pt[p]) = y
  BY <1>1, <1>2 DEF Loose
<1>5. \A y \in Queue, z \in Proc : z # p => (On(z, r[y]) <=> Home(u[z], pt[z]) = y)
  BY <1>1, <1>2 DEF Loose
<1>6. \A z \in Proc : u[z] = "WAIT" => pt[z] \in Sem
  <2>1. v = "WAIT" => pt[p] = x
    BY DEF Home
  <2>2. v = "WAIT" => pt[p] \in Sem
    BY <2>1, Distinct
  <2> QED
    BY <1>1, <2>2 DEF Loose
<1>7. Good(u, pt, r)
  BY <1>1, <1>2, <1>3, <1>4, <1>5, <1>6 DEF Good
<1> QED
  BY <1>7 DEF u, r

\* insert() on the ready list.
LEMMA GoodReady ==
    ASSUME NEW p \in Proc, NEW st, NEW ps, NEW q, Loose(p, st, ps, q), NEW k, NEW prio,
           NEW r \in Insert(q[readylist], k, p, prio)
    PROVE  Good([st EXCEPT ![p] = "READY"], ps, [q EXCEPT ![readylist] = r])
<1>1. q[readylist] \in Seq(Proc) /\ Once(q[readylist]) /\ ~On(p, q[readylist])
  BY Distinct DEF Loose
<1>2. PICK i \in 0..Len(q[readylist]) : r = InsertAfter(q[readylist], i, p)
  BY DEF Insert
<1>3. /\ r \in Seq(Proc) /\ Once(r)
      /\ \A y \in Proc : On(y, r) <=> y = p \/ On(y, q[readylist])
  BY <1>1, <1>2, InsertAfterOnce
<1>4. ps \in [Proc -> Sem \cup {NoSem}] /\ "READY" \in State
  BY DEF Loose, State
<1>5. Home("READY", ps[p]) = readylist
  BY DEF Home
<1>6. readylist \in Queue
  BY Distinct
<1> QED
  BY <1>3, <1>4, <1>5, <1>6, GoodInsert

-------------------------------------------------------------------------------
\* Rescheduling.

\* The head of the ready list becomes the only current process.
LEMMA DispatchStep ==
    ASSUME NEW st, NEW ps, NEW q, NEW k, Good(st, ps, q), Dispatch(st, q, k),
           \A p \in Proc : st[p] # "CURR"
    PROVE  Sched(st, ps, q)
<1> DEFINE h == Head(q[readylist])
           r == [q EXCEPT ![readylist] = Tail(@)]
<1>1. /\ q[readylist] # <<>>
      /\ currpid' = h
      /\ prstate' = [st EXCEPT ![h] = "CURR"]
      /\ queue' = r
  BY DEF Dispatch
<1>0. readylist \in Queue
  BY Distinct
<1>2. h \in Proc /\ Home(st[h], ps[h]) = readylist /\ Loose(h, st, ps, r)
  <2>1. \A x \in Queue : q[x] # <<>> =>
           /\ Head(q[x]) \in Proc
           /\ Home(st[Head(q[x])], ps[Head(q[x])]) = x
           /\ Loose(Head(q[x]), st, ps, [q EXCEPT ![x] = Tail(@)])
    BY LooseHead
  <2>2. q[readylist] # <<>>
    BY <1>1
  <2> QED
    BY <1>0, <2>1, <2>2
<1>3. Good(prstate', ps, queue')
  BY <1>1, <1>2, GoodIdle
<1>4. st \in [Proc -> State] /\ ps \in [Proc -> Sem \cup {NoSem}] /\ q \in [Queue -> Seq(Proc)]
  BY DEF Good
<1>5. st[h] = "READY"
  BY <1>2, <1>4, HomeReady
<1>6. \A x \in Queue \ {readylist} : queue'[x] = q[x]
  BY <1>1, <1>4
<1>7. \A p \in Proc : prstate'[p] = IF p = h THEN "CURR" ELSE st[p]
  BY <1>1, <1>4
<1> QED
  BY <1>1, <1>2, <1>3, <1>5, <1>6, <1>7 DEF Sched

LEMMA SwitchStep ==
    ASSUME NEW st, NEW ps, NEW q, NEW k, Good(st, ps, q), currpid \in Proc,
           \A p \in Proc : st[p] = "CURR" => p = currpid,
           Switch(st, q, k)
    PROVE  Sched(st, ps, q)
<1>t. st \in [Proc -> State] /\ q \in [Queue -> Seq(Proc)]
  BY DEF Good
<1>1. CASE st[currpid] = "CURR" /\ ~Outranked(q, k)
  BY <1>1 DEF Switch, Sched, Dispatch
<1>2. CASE st[currpid] = "CURR" /\ Outranked(q, k)
  <2>1. PICK r \in Insert(q[readylist], k, currpid, prprio[currpid]) :
           Dispatch([st EXCEPT ![currpid] = "READY"], [q EXCEPT ![readylist] = r],
                    [k EXCEPT ![currpid] = prprio[currpid]])
    BY <1>2 DEF Switch
  <2> DEFINE u == [st EXCEPT ![currpid] = "READY"]
             w == [q EXCEPT ![readylist] = r]
  <2>2. Loose(currpid, st, ps, q)
    BY <1>2, LooseIdle
  <2>3. Good(u, ps, w)
    BY <2>2, GoodReady
  <2>4. \A p \in Proc : u[p] = IF p = currpid THEN "READY" ELSE st[p]
    BY <1>t
  <2>5. \A x \in Queue \ {readylist} : w[x] = q[x]
    BY <1>t
  <2>6. Dispatch(u, w, [k EXCEPT ![currpid] = prprio[currpid]])
    BY <2>1
  <2> HIDE DEF u, w
  <2>7. \A p \in Proc : u[p] # "CURR"
    BY <2>4
  <2>8. Sched(u, ps, w)
    BY <2>3, <2>6, <2>7, DispatchStep
  <2> QED
    BY <1>2, <2>4, <2>5, <2>8 DEF Sched
<1>3. CASE st[currpid] # "CURR" /\ Dispatch(st, q, k)
  <2>1. \A p \in Proc : st[p] # "CURR"
    BY <1>3
  <2> QED
    BY <1>3, <2>1, DispatchStep
<1> QED
  BY <1>1, <1>2, <1>3 DEF Switch

LEMMA ReschedStep ==
    ASSUME NEW st, NEW ps, NEW q, NEW k, Good(st, ps, q), currpid \in Proc,
           \A p \in Proc : st[p] = "CURR" => p = currpid,
           Defer.ndefers # 0 => st[currpid] = "CURR",
           Defer \in [ndefers : Nat, attempt : BOOLEAN],
           resched(st, q, k)
    PROVE  /\ Sched(st, ps, q)
           /\ Defer'.ndefers = Defer.ndefers
           /\ Defer' \in [ndefers : Nat, attempt : BOOLEAN]
<1>1. CASE Defer.ndefers > 0 /\ Defer' = [Defer EXCEPT !.attempt = TRUE]
           /\ prstate' = st /\ queue' = q /\ UNCHANGED currpid
  <2>1. Defer'.ndefers = Defer.ndefers /\ Defer' \in [ndefers : Nat, attempt : BOOLEAN]
    BY <1>1
  <2>2. st[currpid] = "CURR"
    BY <1>1
  <2> QED
    BY <1>1, <2>1, <2>2 DEF Sched
<1>2. CASE Defer.ndefers = 0 /\ Switch(st, q, k) /\ UNCHANGED Defer
  BY <1>2, SwitchStep
<1> QED
  BY <1>1, <1>2 DEF resched

\* ready() for a process that has been taken from its queue.
LEMMA ReadyStep ==
    ASSUME NEW p \in Proc, NEW st, NEW ps, NEW q, NEW k, Loose(p, st, ps, q), currpid \in Proc,
           \A y \in Proc : st[y] = "CURR" <=> y = currpid,
           p # currpid,
           Defer \in [ndefers : Nat, attempt : BOOLEAN],
           ready(p, st, q, k)
    PROVE  /\ Sched([st EXCEPT ![p] = "READY"], ps, q)
           /\ Defer'.ndefers = Defer.ndefers
           /\ Defer' \in [ndefers : Nat, attempt : BOOLEAN]
<1>t. st \in [Proc -> State] /\ q \in [Queue -> Seq(Proc)]
  BY DEF Loose
<1>1. PICK r \in Insert(q[readylist], k, p, prprio[p]) :
         resched([st EXCEPT ![p] = "READY"], [q EXCEPT ![readylist] = r], [k EXCEPT ![p] = prprio[p]])
  BY DEF ready
<1> DEFINE u == [st EXCEPT ![p] = "READY"]
           w == [q EXCEPT ![readylist] = r]
<1>2. Good(u, ps, w)
  BY GoodReady
<1>3. \A y \in Proc : u[y] = IF y = p THEN "READY" ELSE st[y]
  BY <1>t
<1>4. \A x \in Queue \ {readylist} : w[x] = q[x]
  BY <1>t
<1>5. resched(u, w, [k EXCEPT ![p] = prprio[p]])
  BY <1>1
<1> HIDE DEF u, w
<1>6. \A y \in Proc : u[y] = "CURR" <=> y = currpid
  BY <1>3
<1>7. /\ Sched(u, ps, w)
      /\ Defer'.ndefers = Defer.ndefers
      /\ Defer' \in [ndefers : Nat, attempt : BOOLEAN]
  BY <1>2, <1>5, <1>6, ReschedStep
<1>8. Sched(u, ps, q)
  BY <1>4, <1>7 DEF Sched
<1> QED
  BY <1>7, <1>8 DEF u

-------------------------------------------------------------------------------
\* What a step must be shown to do, and what it gets for leaving the rest alone.

KillPC == {"killWait", "killFree", "killSwitch"}

LEMMA ProcessesStep ==
    ASSUME NEW st, NEW ps, NEW q, Sched(st, ps, q), prsem' = ps,
           st[NULLPROC] \in {"CURR", "READY"}
    PROVE  Processes'
<1>1. NULLPROC \in Proc
  BY ProcAssumption
<1>2. prstate'[NULLPROC] \in {"CURR", "READY"}
  BY <1>1 DEF Sched
<1> QED
  BY <1>2 DEF Sched, Processes, OneCurrent

LEMMA ControlFrame ==
    ASSUME KInv, Defer'.ndefers = Defer.ndefers, Defer' \in [ndefers : Nat, attempt : BOOLEAN],
           op' = op, sstate' = sstate
    PROVE  Control'
BY DEF KInv, Control

LEMMA SemaphoresFrame ==
    ASSUME KInv, sstate' = sstate, scount' = scount, op' = op,
           \A s \in Sem : queue'[s] = queue[s]
    PROVE  Semaphores'
BY DEF KInv, Semaphores, SemCountIsQueue

LEMMA KillsFrame ==
    ASSUME KInv, prparent' = prparent, victim' = victim,
           \A p \in Proc : pc'[p] \in KillPC => pc[p] \in KillPC,
           pc'[NULLPROC] \notin KillPC \cup {"pfhandler"}
    PROVE  Kills'
BY DEF KInv, Kills, KillPC

\* The current process may take its message on the way.
LEMMA MessagesFrame ==
    ASSUME KInv, NEW st, NEW ps, NEW q, Sched(st, ps, q),
           prhasmsg' = prhasmsg \/ prhasmsg' = [prhasmsg EXCEPT ![currpid] = FALSE],
           prhasmsg' # prhasmsg => pc'[currpid] \notin {"receive", "rdsread"},
           pc' \in [Proc -> PC],
           \A p \in Proc : pc'[p] \in {"receive", "rdsread"} => pc'[p] = pc[p],
           \A p \in Proc : st[p] \in {"RECV", "RECTIM"} => prstate[p] = st[p] \/ ~prhasmsg[p],
           \A p \in Proc : prstate[p] = "RECV" => st[p] \in {"RECV", "FREE"},
           \A p \in Proc : prstate[p] = "FREE" => st[p] = "FREE"
    PROVE  Messages'
<1>1. \A p \in Proc : /\ prstate'[p] \in {"RECV", "RECTIM"} => prstate[p] = prstate'[p] \/ ~prhasmsg[p]
                      /\ prstate'[p] \notin {"RECV", "FREE"} => prstate[p] \notin {"RECV", "FREE"}
  BY DEF Sched
<1>2. /\ prhasmsg \in [Proc -> BOOLEAN] /\ currpid \in Proc
      /\ \A p \in Proc : /\ prstate[p] \in {"RECV", "RECTIM"} => ~prhasmsg[p]
                         /\ (pc[p] \in {"receive", "rdsread"} /\ prstate[p] \notin {"RECV", "FREE"})
                               => prhasmsg[p]
  BY DEF KInv, Processes, Messages, MessageWakes
<1>3. /\ prhasmsg' \in [Proc -> BOOLEAN]
      /\ \A p \in Proc : \/ prhasmsg'[p] = prhasmsg[p]
                         \/ ~prhasmsg'[p] /\ pc'[p] \notin {"receive", "rdsread"}
  <2>1. CASE prhasmsg' = prhasmsg
    BY <1>2, <2>1
  <2>2. CASE prhasmsg' = [prhasmsg EXCEPT ![currpid] = FALSE] /\ prhasmsg' # prhasmsg
    BY <1>2, <2>2
  <2> QED
    BY <2>1, <2>2
<1>4. MessageWakes'
  BY <1>1, <1>2, <1>3 DEF MessageWakes
<1> QED
  BY <1>3, <1>4 DEF Messages

LEMMA GotoStep ==
    ASSUME KInv, NEW w \in PC, Goto(w)
    PROVE  /\ pc' \in [Proc -> PC]
           /\ pc'[currpid] = w
           /\ \A p \in Proc : p # currpid => pc'[p] = pc[p]
BY DEF KInv, Processes, Messages, Goto

\* Where no deferred loop runs, rescheduling is not deferred; and the current process is
\* on no queue, nor is a process that is suspended or gone.
LEMMA Quiet ==
    ASSUME KInv, op.kind = "none"
    PROVE  /\ Defer.ndefers = 0
           /\ Defer \in [ndefers : Nat, attempt : BOOLEAN]
           /\ currpid \in Proc /\ prstate[currpid] = "CURR"
           /\ \A p \in Proc : prstate[p] = "CURR" <=> p = currpid
           /\ prstate \in [Proc -> State] /\ queue \in [Queue -> Seq(Proc)]
           /\ prsem \in [Proc -> Sem \cup {NoSem}]
           /\ Good(prstate, prsem, queue)
           /\ Loose(currpid, prstate, prsem, queue)
<1>1. /\ Good(prstate, prsem, queue) /\ currpid \in Proc
      /\ \A p \in Proc : prstate[p] = "CURR" <=> p = currpid
  BY DEF KInv, Processes, OneCurrent
<1>2. Loose(currpid, prstate, prsem, queue)
  BY <1>1, LooseIdle
<1>3. Defer.ndefers = 0 /\ Defer \in [ndefers : Nat, attempt : BOOLEAN]
  BY DEF KInv, Control
<1> QED
  BY <1>1, <1>2, <1>3 DEF Good

\* schedVars unchanged is a trivial case of rescheduling.
LEMMA StillStep ==
    ASSUME KInv, UNCHANGED <<prstate, queue, currpid>>
    PROVE  Sched(prstate, prsem, queue)
BY DEF KInv, Processes, OneCurrent, Sched, Good

\* The current process leaves the processor in a state that is kept on no queue.
LEMMA BlockStep ==
    ASSUME KInv, op.kind = "none", NEW v \in {"FREE", "SUSP", "RECV"},
           resched([prstate EXCEPT ![currpid] = v], queue, qkey)
    PROVE  /\ Sched([prstate EXCEPT ![currpid] = v], prsem, queue)
           /\ Defer'.ndefers = Defer.ndefers /\ Defer' \in [ndefers : Nat, attempt : BOOLEAN]
<1> DEFINE u == [prstate EXCEPT ![currpid] = v]
<1>1. Good(u, prsem, queue)
  BY Quiet, GoodIdle
<1>2. \A p \in Proc : u[p] = "CURR" => p = currpid
  BY Quiet
<1>3. resched(u, queue, qkey)
  OBVIOUS
<1>4. /\ currpid \in Proc /\ Defer.ndefers = 0
      /\ Defer \in [ndefers : Nat, attempt : BOOLEAN]
  BY Quiet
<1> HIDE DEF u
<1>5. /\ Sched(u, prsem, queue)
      /\ Defer'.ndefers = Defer.ndefers /\ Defer' \in [ndefers : Nat, attempt : BOOLEAN]
  BY <1>1, <1>2, <1>3, <1>4, ReschedStep
<1> QED
  BY <1>5 DEF u

LEMMA YieldStep ==
    ASSUME KInv, op.kind = "none", resched(prstate, queue, qkey)
    PROVE  /\ Sched(prstate, prsem, queue)
           /\ Defer'.ndefers = Defer.ndefers /\ Defer' \in [ndefers : Nat, attempt : BOOLEAN]
BY Quiet, ReschedStep

\* A step that moves processes between queues other than those of semaphores, and
\* leaves everything else alone.
LEMMA PlainStep ==
    ASSUME KInv, NEW st, NEW q, Sched(st, prsem, q), \A s \in Sem : q[s] = queue[s],
           Defer'.ndefers = Defer.ndefers, Defer' \in [ndefers : Nat, attempt : BOOLEAN],
           UNCHANGED <<prparent, sstate, scount, prsem, victim, op>>,
           prhasmsg' = prhasmsg \/ prhasmsg' = [prhasmsg EXCEPT ![currpid] = FALSE],
           prhasmsg' # prhasmsg => pc'[currpid] \notin {"receive", "rdsread"},
           pc' \in [Proc -> PC],
           \A p \in Proc : pc'[p] \in KillPC \cup {"pfhandler", "receive", "rdsread"} => pc'[p] = pc[p],
           \A p \in Proc : st[p] \in {"RECV", "RECTIM"} => prstate[p] = st[p] \/ ~prhasmsg[p],
           \A p \in Proc : prstate[p] = "RECV" => st[p] \in {"RECV", "FREE"},
           \A p \in Proc : prstate[p] = "FREE" => st[p] = "FREE",
           st[NULLPROC] \in {"CURR", "READY"}
    PROVE  KInv'
<1>1. Processes'
  BY ProcessesStep
<1>2. Control'
  BY ControlFrame
<1>3. Semaphores'
  <2>1. \A s \in Sem : queue'[s] = queue[s]
    BY Distinct DEF Sched
  <2> QED
    BY <2>1, SemaphoresFrame
<1>4. Messages'
  BY MessagesFrame
<1>5. Kills'
  <2>1. pc'[NULLPROC] \notin KillPC \cup {"pfhandler"}
    BY ProcAssumption DEF KInv, Kills, KillPC
  <2> QED
    BY <2>1, KillsFrame
<1> QED
  BY <1>1, <1>2, <1>3, <1>4, <1>5 DEF KInv

\* The current process goes on the delta list.
LEMMA InsertdStep ==
    ASSUME KInv, op.kind = "none", NEW v \in {"SLEEP", "RECTIM"}, NEW delay, insertd(delay, v)
    PROVE  \E q : /\ Sched([prstate EXCEPT ![currpid] = v], prsem, q)
                  /\ \A s \in Sem : q[s] = queue[s]
                  /\ Defer'.ndefers = Defer.ndefers
                  /\ Defer' \in [ndefers : Nat, attempt : BOOLEAN]
<1> DEFINE u == [prstate EXCEPT ![currpid] = v]
           L == queue[sleepq]
<1>q. /\ currpid \in Proc /\ Defer.ndefers = 0
      /\ Defer \in [ndefers : Nat, attempt : BOOLEAN]
      /\ queue \in [Queue -> Seq(Proc)]
      /\ prsem \in [Proc -> Sem \cup {NoSem}]
      /\ Loose(currpid, prstate, prsem, queue)
  BY Quiet
<1>1. PICK i \in 0..Len(L) :
         \E k : resched(u, [queue EXCEPT ![sleepq] = InsertAfter(L, i, currpid)], k)
  BY DEF insertd, DeltaPlaces
<1> DEFINE t == InsertAfter(L, i, currpid)
           q == [queue EXCEPT ![sleepq] = t]
<1>2. sleepq \in Queue /\ sleepq \notin Sem
  BY Distinct
<1>3. L \in Seq(Proc) /\ Once(L) /\ ~On(currpid, L)
  BY <1>q, <1>2 DEF Loose
<1>4. t \in Seq(Proc) /\ Once(t) /\ \A y \in Proc : On(y, t) <=> y = currpid \/ On(y, L)
  BY <1>q, <1>3, InsertAfterOnce
<1>5. v \in State /\ Home(v, prsem[currpid]) = sleepq
  BY DEF State, Home
<1>6. \A s \in Sem : q[s] = queue[s]
  BY <1>q, <1>2
<1>7. PICK k : resched(u, q, k)
  BY <1>1
<1> HIDE DEF t
<1>8. Good(u, prsem, q)
  BY <1>q, <1>2, <1>4, <1>5, GoodInsert
<1>9. \A p \in Proc : u[p] = "CURR" => p = currpid
  BY Quiet
<1> HIDE DEF u, q
<1>10. /\ Sched(u, prsem, q)
       /\ Defer'.ndefers = Defer.ndefers /\ Defer' \in [ndefers : Nat, attempt : BOOLEAN]
  BY <1>q, <1>7, <1>8, <1>9, ReschedStep
<1> QED
  BY <1>6, <1>10 DEF u

\* getitem() takes a process from the queue of its state, and from no other.
LEMMA GetitemStep ==
    ASSUME KInv, NEW p \in Proc
    PROVE  /\ Loose(p, prstate, prsem, getitem(p))
           /\ getitem(p) \in [Queue -> Seq(Proc)]
           /\ \A x \in Queue : Home(prstate[p], prsem[p]) # x => getitem(p)[x] = queue[x]
<1>1. Good(prstate, prsem, queue)
  BY DEF KInv, Processes
<1>2. Loose(p, prstate, prsem, getitem(p))
  BY <1>1, LooseGetitem DEF getitem
<1>3. ASSUME NEW x \in Queue, Home(prstate[p], prsem[p]) # x
      PROVE  getitem(p)[x] = queue[x]
  <2>1. ~On(p, queue[x])
    BY <1>1, <1>3 DEF Good
  <2> QED
    BY <2>1 DEF getitem, Unlink
<1> QED
  BY <1>2, <1>3 DEF Loose

\* One process is taken from a queue and made ready.
LEMMA ReleaseStep ==
    ASSUME KInv, NEW x \in Queue \ {readylist}, queue[x] # <<>>,
           ready(Head(queue[x]), prstate, [queue EXCEPT ![x] = Tail(@)], qkey)
    PROVE  /\ Head(queue[x]) \in Proc
           /\ Home(prstate[Head(queue[x])], prsem[Head(queue[x])]) = x
           /\ Sched([prstate EXCEPT ![Head(queue[x])] = "READY"], prsem, [queue EXCEPT ![x] = Tail(@)])
           /\ Defer'.ndefers = Defer.ndefers
           /\ Defer' \in [ndefers : Nat, attempt : BOOLEAN]
<1> DEFINE h == Head(queue[x])
           q == [queue EXCEPT ![x] = Tail(@)]
<1>1. /\ Good(prstate, prsem, queue) /\ currpid \in Proc
      /\ \A y \in Proc : prstate[y] = "CURR" <=> y = currpid
      /\ Defer \in [ndefers : Nat, attempt : BOOLEAN]
  BY DEF KInv, Processes, OneCurrent, Control
<1>2. h \in Proc /\ Home(prstate[h], prsem[h]) = x /\ Loose(h, prstate, prsem, q)
  <2>1. \A y \in Queue : queue[y] # <<>> =>
           /\ Head(queue[y]) \in Proc
           /\ Home(prstate[Head(queue[y])], prsem[Head(queue[y])]) = y
           /\ Loose(Head(queue[y]), prstate, prsem, [queue EXCEPT ![y] = Tail(@)])
    BY <1>1, LooseHead
  <2> QED
    BY <2>1
<1>3. prstate[h] \in State /\ prsem[h] \in Sem \cup {NoSem}
  BY <1>1, <1>2 DEF Good
<1>4. prstate[h] # "CURR"
  BY <1>2, <1>3, HomeReady, Distinct
<1>5. ready(h, prstate, q, qkey)
  OBVIOUS
<1> HIDE DEF h, q
<1>6. h # currpid
  BY <1>1, <1>4
<1>7. /\ Sched([prstate EXCEPT ![h] = "READY"], prsem, q)
      /\ Defer'.ndefers = Defer.ndefers
      /\ Defer' \in [ndefers : Nat, attempt : BOOLEAN]
  BY <1>1, <1>2, <1>5, <1>6, ReadyStep
<1> QED
  BY <1>2, <1>7 DEF h, q

-------------------------------------------------------------------------------
\* Calls on processes.

LEMMA ResumeInv ==
    ASSUME KInv, NEW p \in Proc, resume(p)
    PROVE  KInv'
<1>1. op.kind = "none" /\ prstate[p] = "SUSP" /\ ready(p, prstate, queue, qkey)
  BY DEF resume, Calls, At
<1>2. UNCHANGED <<prparent, sstate, scount, prsem, prhasmsg, pc, victim, op>>
  BY DEF resume, procVars, semVars
<1>3. Loose(p, prstate, prsem, queue)
  BY <1>1, Quiet, LooseIdle
<1> DEFINE u == [prstate EXCEPT ![p] = "READY"]
<1>4. /\ Sched(u, prsem, queue)
      /\ Defer'.ndefers = Defer.ndefers /\ Defer' \in [ndefers : Nat, attempt : BOOLEAN]
  BY <1>1, <1>3, Quiet, ReadyStep
<1>5. \A y \in Proc : u[y] = IF y = p THEN "READY" ELSE prstate[y]
  BY <1>1, Quiet
<1> HIDE DEF u
<1>6. u[NULLPROC] \in {"CURR", "READY"}
  BY <1>5, ProcAssumption DEF KInv, Processes, OneCurrent
<1>7. pc' \in [Proc -> PC]
  BY <1>2 DEF KInv, Messages
<1> QED
  BY <1>1, <1>2, <1>4, <1>5, <1>6, <1>7, PlainStep

LEMMA SuspendInv ==
    ASSUME KInv, NEW p \in Proc, suspend(p)
    PROVE  KInv'
<1>1. op.kind = "none" /\ p # NULLPROC
  BY DEF suspend, Calls, At
<1>2. UNCHANGED <<prparent, sstate, scount, prsem, prhasmsg, pc, victim, op>>
  BY DEF suspend, procVars, semVars
<1>3. pc' \in [Proc -> PC]
  BY <1>2 DEF KInv, Messages
<1> DEFINE u == [prstate EXCEPT ![p] = "SUSP"]
<1>4. \A y \in Proc : u[y] = IF y = p THEN "SUSP" ELSE prstate[y]
  BY <1>1, Quiet
<1>5. u[NULLPROC] \in {"CURR", "READY"}
  BY <1>1, <1>4, ProcAssumption DEF KInv, Processes, OneCurrent
<1>6. CASE prstate[p] = "READY"
  <2>1. /\ prstate' = u /\ queue' = getitem(p)
        /\ UNCHANGED <<currpid, Defer>>
    BY <1>6 DEF suspend
  <2>2. Loose(p, prstate, prsem, getitem(p)) /\ \A s \in Sem : getitem(p)[s] = queue[s]
    BY <1>6, GetitemStep, Distinct DEF Home
  <2>3. Good(u, prsem, getitem(p))
    BY <2>2, GoodIdle
  <2>4. Sched(u, prsem, getitem(p))
    BY <1>1, <1>2, <1>4, <1>6, <2>1, <2>3, Quiet DEF Sched
  <2>5. Defer'.ndefers = Defer.ndefers /\ Defer' \in [ndefers : Nat, attempt : BOOLEAN]
    BY <1>1, <2>1, Quiet
  <2> HIDE DEF u
  <2> QED
    BY <1>2, <1>3, <1>4, <1>5, <1>6, <2>2, <2>4, <2>5, PlainStep
<1>7. CASE prstate[p] = "CURR" /\ resched(u, queue, qkey)
  <2>1. p = currpid
    BY <1>1, <1>7, Quiet
  <2>2. /\ Sched(u, prsem, queue)
        /\ Defer'.ndefers = Defer.ndefers /\ Defer' \in [ndefers : Nat, attempt : BOOLEAN]
    BY <1>1, <1>7, <2>1, BlockStep
  <2> HIDE DEF u
  <2> QED
    BY <1>2, <1>3, <1>4, <1>5, <1>7, <2>2, PlainStep
<1> QED
  BY <1>6, <1>7 DEF suspend

LEMMA YieldInv ==
    ASSUME KInv, op.kind = "none",
           resched(prstate, queue, qkey) \/ UNCHANGED schedVars,
           UNCHANGED <<prparent, sstate, scount, prsem, prhasmsg, victim, op>>,
           pc' = pc \/ Goto("run")
    PROVE  KInv'
<1>1. /\ Sched(prstate, prsem, queue)
      /\ Defer'.ndefers = Defer.ndefers /\ Defer' \in [ndefers : Nat, attempt : BOOLEAN]
  <2>1. CASE resched(prstate, queue, qkey)
    BY <2>1, YieldStep
  <2>2. CASE UNCHANGED schedVars
    BY <2>2, StillStep, Quiet DEF schedVars
  <2> QED
    BY <2>1, <2>2
<1>2. /\ pc' \in [Proc -> PC]
      /\ \A p \in Proc : pc'[p] = pc[p] \/ pc'[p] = "run"
  <2>1. CASE pc' = pc
    BY <2>1 DEF KInv, Messages
  <2>2. CASE Goto("run")
    BY <2>2, GotoStep DEF PC
  <2> QED
    BY <2>1, <2>2
<1>3. prstate[NULLPROC] \in {"CURR", "READY"}
  BY DEF KInv, Processes, OneCurrent
<1> QED
  BY <1>1, <1>2, <1>3, PlainStep DEF KillPC

LEMMA ChprioInv ==
    ASSUME KInv, NEW p \in Proc, NEW new, chprio(p, new)
    PROVE  KInv'
<1>1. /\ op.kind = "none"
      /\ UNCHANGED <<prstate, queue, currpid, Defer>>
      /\ UNCHANGED <<prparent, sstate, scount, prsem, prhasmsg, pc, victim, op>>
  BY DEF chprio, Calls, At, semVars
<1>2. Sched(prstate, prsem, queue)
  BY <1>1, StillStep
<1>3. /\ pc' \in [Proc -> PC] /\ prstate[NULLPROC] \in {"CURR", "READY"}
      /\ Defer'.ndefers = Defer.ndefers /\ Defer' \in [ndefers : Nat, attempt : BOOLEAN]
  BY <1>1, Quiet DEF KInv, Messages, Processes, OneCurrent
<1> QED
  BY <1>1, <1>2, <1>3, PlainStep

-------------------------------------------------------------------------------
\* Semaphores.

\* The count and the queue of one semaphore change together; those of others do not.
LEMMA CountStep ==
    ASSUME KInv, op.kind \notin {"semreset"}, op' = op \/ op'.kind \in {"none", "signaln"},
           NEW s \in Sem, sstate[s] = "USED", sstate' = sstate,
           NEW n \in Int, scount' = [scount EXCEPT ![s] = n],
           Len(queue'[s]) = IF n < 0 THEN 0 - n ELSE 0,
           op.kind = "semdelete" => op' = op,
           \A x \in Sem \ {s} : queue'[x] = queue[x]
    PROVE  Semaphores'
<1>1. /\ sstate \in [Sem -> {"FREE", "USED"}] /\ scount \in [Sem -> Int]
      /\ sstate[prSem] = "USED" /\ SemCountIsQueue
  BY DEF KInv, Semaphores
<1>2. scount' \in [Sem -> Int] /\ scount'[s] = n /\ \A x \in Sem \ {s} : scount'[x] = scount[x]
  BY <1>1
<1>3. op'.kind # "semreset"
  OBVIOUS
<1>4. \A x \in Sem : IF sstate'[x] = "USED" \/ (op'.kind = "semdelete" /\ op'.sem = x)
                     THEN Len(queue'[x]) = IF scount'[x] < 0 THEN 0 - scount'[x] ELSE 0
                     ELSE queue'[x] = <<>>
  <2>1. CASE op.kind = "semdelete"
    BY <1>1, <1>2, <2>1 DEF SemCountIsQueue
  <2>2. CASE op.kind # "semdelete"
    <3>1. op'.kind # "semdelete"
      BY <2>2
    <3> QED
      BY <1>1, <1>2, <2>2, <3>1 DEF SemCountIsQueue
  <2> QED
    BY <2>1, <2>2
<1>5. SemCountIsQueue'
  BY <1>3, <1>4 DEF SemCountIsQueue
<1> QED
  BY <1>1, <1>2, <1>5 DEF Semaphores

\* What is known of a semaphore in use when no deferred loop runs, or signaln()'s.
LEMMA CountOfUsed ==
    ASSUME KInv, op.kind \in {"none", "signaln"}, NEW s \in Sem, sstate[s] = "USED"
    PROVE  /\ scount[s] \in Int /\ queue[s] \in Seq(Proc)
           /\ Len(queue[s]) = IF scount[s] < 0 THEN 0 - scount[s] ELSE 0
<1>1. s \in Queue
  BY Distinct
<1>2. queue[s] \in Seq(Proc)
  BY <1>1 DEF KInv, Processes, Good
<1> QED
  BY <1>2 DEF KInv, Semaphores, SemCountIsQueue

\* wait(): the current process may end up in the semaphore's queue.
LEMMA WaitOnInv ==
    ASSUME KInv, op.kind = "none", NEW s \in Sem, sstate[s] = "USED",
           NEW w \in PC \ {"receive", "rdsread"}, w \in KillPC => pc[currpid] \in KillPC,
           currpid # NULLPROC, waitOn(s, w),
           UNCHANGED <<prparent, prhasmsg, victim, op>>
    PROVE  KInv'
<1>q. /\ currpid \in Proc /\ Defer.ndefers = 0 /\ prstate[currpid] = "CURR"
      /\ Defer \in [ndefers : Nat, attempt : BOOLEAN]
      /\ queue \in [Queue -> Seq(Proc)] /\ prstate \in [Proc -> State]
      /\ prsem \in [Proc -> Sem \cup {NoSem}]
      /\ \A p \in Proc : prstate[p] = "CURR" <=> p = currpid
      /\ Loose(currpid, prstate, prsem, queue)
  BY Quiet
<1>s. /\ s \in Queue /\ NULLPROC \in Proc
      /\ prstate[NULLPROC] \in {"CURR", "READY"}
  BY Distinct, ProcAssumption DEF KInv, Processes, OneCurrent
<1>c. /\ scount[s] \in Int /\ queue[s] \in Seq(Proc)
      /\ Len(queue[s]) = IF scount[s] < 0 THEN 0 - scount[s] ELSE 0
  BY CountOfUsed
<1>1. scount' = [scount EXCEPT ![s] = scount[s] - 1] /\ sstate' = sstate /\ Goto(w)
  BY DEF waitOn
<1>2. /\ pc' \in [Proc -> PC]
      /\ \A p \in Proc : pc'[p] \in {"receive", "rdsread"} => pc'[p] = pc[p]
      /\ \A p \in Proc : pc'[p] \in KillPC => pc[p] \in KillPC
      /\ pc'[NULLPROC] \notin KillPC \cup {"pfhandler"}
  <2>1. /\ pc' \in [Proc -> PC] /\ pc'[currpid] = w
        /\ \A p \in Proc : p # currpid => pc'[p] = pc[p]
    BY <1>1, GotoStep
  <2> QED
    BY <2>1, <1>s DEF KInv, Kills, KillPC
<1>3. Kills'
  BY <1>2, KillsFrame
<1>4. CASE scount[s] - 1 >= 0
  <2>1. UNCHANGED <<prstate, queue, currpid, Defer, prsem>>
    BY <1>4, <1>c DEF waitOn, schedVars
  <2>2. Sched(prstate, prsem, queue) /\ prsem' = prsem
    BY <2>1, StillStep
  <2>3. Len(queue'[s]) = IF scount[s] - 1 < 0 THEN 0 - (scount[s] - 1) ELSE 0
    BY <1>4, <1>c, <2>1
  <2>4. Semaphores'
    <3>1. scount[s] - 1 \in Int /\ \A x \in Sem \ {s} : queue'[x] = queue[x]
      BY <1>c, <2>1
    <3> QED
      BY <1>1, <2>3, <3>1, CountStep
  <2>5. Processes'
    BY <1>s, <2>2, ProcessesStep
  <2>6. Control'
    BY <1>1, <1>q, <2>1, ControlFrame
  <2>7. Messages'
    BY <1>2, <2>2, MessagesFrame
  <2> QED
    BY <1>3, <2>4, <2>5, <2>6, <2>7 DEF KInv
<1>5. CASE scount[s] - 1 < 0
  <2> DEFINE u == [prstate EXCEPT ![currpid] = "WAIT"]
             t == Append(queue[s], currpid)
             q == [queue EXCEPT ![s] = t]
             r == [prsem EXCEPT ![currpid] = s]
  <2>1. prsem' = r /\ resched(u, q, qkey)
    BY <1>5 DEF waitOn
  <2>2. Once(queue[s]) /\ ~On(currpid, queue[s])
    BY <1>q, <1>s DEF Loose
  <2>3. /\ t \in Seq(Proc) /\ Once(t) /\ Len(t) = Len(queue[s]) + 1
        /\ \A y \in Proc : On(y, t) <=> y = currpid \/ On(y, queue[s])
    BY <1>q, <1>c, <2>2, AppendOnce
  <2>4. /\ r \in [Proc -> Sem \cup {NoSem}] /\ r[currpid] = s
        /\ \A y \in Proc : y # currpid => r[y] = prsem[y]
    BY <1>q
  <2>5. q[s] = t /\ \A x \in Queue \ {s} : q[x] = queue[x]
    BY <1>q, <1>s
  <2>6. \A p \in Proc : u[p] = IF p = currpid THEN "WAIT" ELSE prstate[p]
    BY <1>q
  <2> HIDE DEF t, r
  <2>7. "WAIT" \in State /\ Home("WAIT", r[currpid]) = s
    BY <2>4 DEF State, Home
  <2>8. Good(u, r, q)
    BY <1>q, <1>s, <2>3, <2>4, <2>7, GoodInsert
  <2>9. \A p \in Proc : u[p] = "CURR" => p = currpid
    BY <1>q, <2>6
  <2> HIDE DEF u, q
  <2>10. /\ Sched(u, r, q)
         /\ Defer'.ndefers = Defer.ndefers /\ Defer' \in [ndefers : Nat, attempt : BOOLEAN]
    BY <1>q, <2>1, <2>8, <2>9, ReschedStep
  <2>11. \A x \in Sem : queue'[x] = q[x]
    BY <2>10, Distinct DEF Sched
  <2>12. Semaphores'
    <3>1. scount[s] - 1 \in Int /\ \A x \in Sem \ {s} : queue'[x] = queue[x]
      BY <1>c, <2>5, <2>11, Distinct
    <3>2. queue'[s] = t
      BY <2>5, <2>11
    <3>3. Len(t) = IF scount[s] - 1 < 0 THEN 0 - (scount[s] - 1) ELSE 0
      BY <1>5, <1>c, <2>3
    <3> QED
      BY <1>1, <3>1, <3>2, <3>3, CountStep
  <2>13. Processes'
    BY <1>s, <2>1, <2>6, <2>10, ProcessesStep
  <2>14. Control'
    BY <1>1, <2>10, ControlFrame
  <2>15. Messages'
    BY <1>q, <1>2, <2>6, <2>10, MessagesFrame
  <2> QED
    BY <1>3, <2>12, <2>13, <2>14, <2>15 DEF KInv
<1> QED
  BY <1>4, <1>5, <1>c

\* signal(), with or without taking the message: the head of the queue is released.
LEMMA SignalOnInv ==
    ASSUME KInv, op.kind = "none", NEW s \in Sem, sstate[s] = "USED",
           NEW w \in PC \ {"receive", "rdsread", "pfhandler"}, w \in KillPC => pc[currpid] \in KillPC,
           signalOn(s, w),
           prhasmsg' = prhasmsg \/ prhasmsg' = [prhasmsg EXCEPT ![currpid] = FALSE],
           UNCHANGED <<prparent, prsem, victim, op>>
    PROVE  KInv'
<1>q. /\ currpid \in Proc /\ Defer.ndefers = 0
      /\ Defer \in [ndefers : Nat, attempt : BOOLEAN]
      /\ prstate \in [Proc -> State] /\ queue \in [Queue -> Seq(Proc)]
      /\ prsem \in [Proc -> Sem \cup {NoSem}]
  BY Quiet
<1>s. /\ s \in Queue \ {readylist} /\ NULLPROC \in Proc
      /\ prstate[NULLPROC] \in {"CURR", "READY"}
  BY Distinct, ProcAssumption DEF KInv, Processes, OneCurrent
<1>c. /\ scount[s] \in Int /\ queue[s] \in Seq(Proc)
      /\ Len(queue[s]) = IF scount[s] < 0 THEN 0 - scount[s] ELSE 0
  BY CountOfUsed
<1>1. scount' = [scount EXCEPT ![s] = scount[s] + 1] /\ sstate' = sstate /\ Goto(w)
  BY DEF signalOn
<1>2. /\ pc' \in [Proc -> PC]
      /\ pc'[currpid] \notin {"receive", "rdsread"}
      /\ \A p \in Proc : pc'[p] \in {"receive", "rdsread"} => pc'[p] = pc[p]
      /\ \A p \in Proc : pc'[p] \in KillPC => pc[p] \in KillPC
      /\ pc'[NULLPROC] \notin KillPC \cup {"pfhandler"}
  <2>1. /\ pc' \in [Proc -> PC] /\ pc'[currpid] = w
        /\ \A p \in Proc : p # currpid => pc'[p] = pc[p]
    BY <1>1, GotoStep
  <2> QED
    BY <2>1, <1>s DEF KInv, Kills, KillPC
<1>3. Kills'
  BY <1>2, KillsFrame
<1>4. CASE scount[s] >= 0
  <2>1. UNCHANGED <<prstate, queue, currpid, Defer>>
    BY <1>4, <1>c DEF signalOn, schedVars
  <2>2. Sched(prstate, prsem, queue)
    BY <2>1, StillStep
  <2>3. Len(queue'[s]) = IF scount[s] + 1 < 0 THEN 0 - (scount[s] + 1) ELSE 0
    BY <1>4, <1>c, <2>1
  <2>4. Semaphores'
    <3>1. scount[s] + 1 \in Int /\ \A x \in Sem \ {s} : queue'[x] = queue[x]
      BY <1>c, <2>1
    <3> QED
      BY <1>1, <2>3, <3>1, CountStep
  <2>5. Processes'
    BY <1>s, <2>2, ProcessesStep
  <2>6. Control'
    BY <1>1, <1>q, <2>1, ControlFrame
  <2>7. Messages'
    BY <1>2, <2>2, MessagesFrame
  <2> QED
    BY <1>3, <2>4, <2>5, <2>6, <2>7 DEF KInv
<1>5. CASE scount[s] < 0
  <2> DEFINE h == Head(queue[s])
             u == [prstate EXCEPT ![h] = "READY"]
             t == Tail(queue[s])
             q == [queue EXCEPT ![s] = t]
  <2>1. ready(h, prstate, q, qkey)
    BY <1>5 DEF signalOn
  <2>2. queue[s] # <<>>
    BY <1>5, <1>c
  <2>3. h \in Proc /\ Home(prstate[h], prsem[h]) = s /\ Sched(u, prsem, q)
        /\ Defer'.ndefers = Defer.ndefers /\ Defer' \in [ndefers : Nat, attempt : BOOLEAN]
    BY <1>s, <2>1, <2>2, ReleaseStep
  <2>4. Len(t) = Len(queue[s]) - 1
    BY <1>c, <2>2
  <2>5. q[s] = t /\ \A x \in Queue \ {s} : q[x] = queue[x]
    BY <1>q, <1>s
  <2> HIDE DEF t, h
  <2>6. \A p \in Proc : u[p] = IF p = h THEN "READY" ELSE prstate[p]
    BY <1>q
  <2>7. prstate[h] = "WAIT"
    BY <1>q, <2>3, HomeReady
  <2> HIDE DEF u, q
  <2>11. \A x \in Sem : queue'[x] = q[x]
    BY <2>3, Distinct DEF Sched
  <2>12. Semaphores'
    <3>1. scount[s] + 1 \in Int /\ \A x \in Sem \ {s} : queue'[x] = queue[x]
      BY <1>c, <2>5, <2>11, Distinct
    <3>2. queue'[s] = t
      BY <2>5, <2>11
    <3>3. Len(t) = IF scount[s] + 1 < 0 THEN 0 - (scount[s] + 1) ELSE 0
      BY <1>5, <1>c, <2>4
    <3> QED
      BY <1>1, <3>1, <3>2, <3>3, CountStep
  <2>13. Processes'
    BY <1>s, <2>3, <2>6, ProcessesStep
  <2>14. Control'
    BY <1>1, <2>3, ControlFrame
  <2>15. Messages'
    BY <1>2, <2>3, <2>6, <2>7, MessagesFrame
  <2> QED
    BY <1>3, <2>12, <2>13, <2>14, <2>15 DEF KInv
<1> QED
  BY <1>4, <1>5, <1>c

\* Only processes with a program make calls, so the null process never blocks.
LEMMA Caller ==
    ASSUME KInv, NEW name, Calls(name)
    PROVE  op.kind = "none" /\ pc[currpid] = "run" /\ currpid # NULLPROC
BY ProcAssumption DEF Calls, At

LEMMA InKill ==
    ASSUME KInv, NEW w \in KillPC \cup {"pfhandler"}, At(w)
    PROVE  op.kind = "none" /\ pc[currpid] = w /\ currpid # NULLPROC
BY DEF KInv, Kills, At, KillPC

LEMMA PrSem ==
    ASSUME KInv
    PROVE  prSem \in Sem /\ sstate[prSem] = "USED"
BY Distinct DEF KInv, Semaphores

LEMMA WaitInv ==
    ASSUME KInv, NEW s \in UserSem, wait(s)
    PROVE  KInv'
<1>1. Calls("wait") /\ sstate[s] = "USED" /\ waitOn(s, "run")
      /\ UNCHANGED <<prparent, prhasmsg, victim, op>>
  BY DEF wait, procVars
<1>2. op.kind = "none" /\ currpid # NULLPROC
  BY <1>1, Caller
<1> QED
  BY <1>1, <1>2, Distinct, WaitOnInv DEF PC, KillPC

LEMMA PfhandlerInv ==
    ASSUME KInv, pfhandler
    PROVE  KInv'
<1>1. Calls("pfhandler") /\ waitOn(prSem, "pfhandler")
      /\ UNCHANGED <<prparent, prhasmsg, victim, op>>
  BY DEF pfhandler, procVars
<1>2. op.kind = "none" /\ currpid # NULLPROC
  BY <1>1, Caller
<1> QED
  BY <1>1, <1>2, PrSem, WaitOnInv DEF PC, KillPC

LEMMA KillWaitInv ==
    ASSUME KInv, killWait
    PROVE  KInv'
<1>1. At("killWait") /\ waitOn(prSem, "killFree")
      /\ UNCHANGED <<prparent, prhasmsg, victim, op>>
  BY DEF killWait, procVars
<1>2. op.kind = "none" /\ currpid # NULLPROC /\ pc[currpid] \in KillPC
  BY <1>1, InKill DEF KillPC
<1> QED
  BY <1>1, <1>2, PrSem, WaitOnInv DEF PC, KillPC

LEMMA SignalInv ==
    ASSUME KInv, NEW s \in UserSem, signal(s)
    PROVE  KInv'
<1>1. Calls("signal") /\ sstate[s] = "USED" /\ signalOn(s, "run")
      /\ UNCHANGED <<prparent, prsem, prhasmsg, victim, op>>
  BY DEF signal, procVars
<1>2. op.kind = "none"
  BY <1>1, Caller
<1> QED
  BY <1>1, <1>2, Distinct, SignalOnInv DEF PC, KillPC

LEMMA KillFreeInv ==
    ASSUME KInv, killFree
    PROVE  KInv'
<1>1. At("killFree") /\ signalOn(prSem, "killSwitch")
      /\ UNCHANGED <<prparent, prsem, prhasmsg, victim, op>>
  BY DEF killFree, procVars
<1>2. op.kind = "none" /\ pc[currpid] \in KillPC
  BY <1>1, InKill DEF KillPC
<1> QED
  BY <1>1, <1>2, PrSem, SignalOnInv DEF PC, KillPC

LEMMA PfhandlerDoneInv ==
    ASSUME KInv, pfhandlerDone
    PROVE  KInv'
<1>1. op.kind = "none" /\ signalOn(prSem, "run")
      /\ prhasmsg' = [prhasmsg EXCEPT ![currpid] = FALSE]
      /\ UNCHANGED <<prparent, prsem, victim, op>>
  BY DEF pfhandlerDone, At, procVars
<1> QED
  BY <1>1, PrSem, SignalOnInv DEF PC, KillPC

-------------------------------------------------------------------------------
\* Messages and the clock.

LEMMA AwaitInv ==
    ASSUME KInv, op.kind = "none", currpid # NULLPROC, NEW w \in {"receive", "rdsread"},
           AwaitMessage(w)
    PROVE  KInv'
<1>q. /\ currpid \in Proc /\ prstate[currpid] = "CURR" /\ prstate \in [Proc -> State]
      /\ Defer.ndefers = 0 /\ Defer \in [ndefers : Nat, attempt : BOOLEAN]
      /\ \A p \in Proc : prstate[p] = "CURR" <=> p = currpid
  BY Quiet
<1>s. NULLPROC \in Proc /\ prstate[NULLPROC] \in {"CURR", "READY"}
  BY ProcAssumption DEF KInv, Processes, OneCurrent
<1>1. /\ UNCHANGED <<prparent, sstate, scount, prsem, prhasmsg, victim, op>>
      /\ Goto(w)
  BY DEF AwaitMessage, procVars, semVars
<1>2. /\ pc' \in [Proc -> PC] /\ pc'[currpid] = w
      /\ \A p \in Proc : p # currpid => pc'[p] = pc[p]
  BY <1>1, GotoStep DEF PC
<1>3. Kills'
  <2>1. pc'[NULLPROC] \notin KillPC \cup {"pfhandler"} /\ \A p \in Proc : pc'[p] \in KillPC => pc[p] \in KillPC
    BY <1>2, <1>s DEF KInv, Kills, KillPC
  <2> QED
    BY <1>1, <2>1, KillsFrame
<1>m. /\ prhasmsg \in [Proc -> BOOLEAN]
      /\ \A p \in Proc : /\ prstate[p] \in {"RECV", "RECTIM"} => ~prhasmsg[p]
                         /\ (pc[p] \in {"receive", "rdsread"} /\ prstate[p] \notin {"RECV", "FREE"})
                               => prhasmsg[p]
  BY DEF KInv, Messages, MessageWakes
<1>4. CASE prhasmsg[currpid]
  <2>1. UNCHANGED <<prstate, queue, currpid, Defer>>
    BY <1>4 DEF AwaitMessage, schedVars
  <2>2. Sched(prstate, prsem, queue)
    BY <2>1, StillStep
  <2>3. MessageWakes'
    BY <1>1, <1>2, <1>4, <1>m, <2>1 DEF MessageWakes
  <2>4. Messages'
    BY <1>1, <1>2, <1>m, <2>3 DEF Messages
  <2>5. Processes'
    BY <1>1, <1>s, <2>2, ProcessesStep
  <2>6. Control'
    BY <1>1, <1>q, <2>1, ControlFrame
  <2>7. Semaphores'
    BY <1>1, <2>1, SemaphoresFrame
  <2> QED
    BY <1>3, <2>4, <2>5, <2>6, <2>7 DEF KInv
<1>5. CASE ~prhasmsg[currpid]
  <2> DEFINE u == [prstate EXCEPT ![currpid] = "RECV"]
  <2>1. resched(u, queue, qkey)
    BY <1>5 DEF AwaitMessage
  <2>2. /\ Sched(u, prsem, queue)
        /\ Defer'.ndefers = Defer.ndefers /\ Defer' \in [ndefers : Nat, attempt : BOOLEAN]
    BY <2>1, BlockStep
  <2>3. \A p \in Proc : u[p] = IF p = currpid THEN "RECV" ELSE prstate[p]
    BY <1>q
  <2> HIDE DEF u
  <2>4. \A p \in Proc : \/ prstate'[p] = IF p = currpid THEN "RECV" ELSE prstate[p]
                        \/ (p # currpid /\ prstate'[p] \in {"CURR", "READY"} /\ prstate[p] \in {"CURR", "READY"})
    BY <2>2, <2>3 DEF Sched
  <2>5. MessageWakes'
    BY <1>1, <1>2, <1>5, <1>m, <2>4 DEF MessageWakes
  <2>6. Messages'
    BY <1>1, <1>2, <1>m, <2>5 DEF Messages
  <2>7. Processes'
    BY <1>1, <1>s, <2>2, <2>3, ProcessesStep
  <2>8. Control'
    BY <1>1, <2>2, ControlFrame
  <2>9. Semaphores'
    <3>1. \A s \in Sem : queue'[s] = queue[s]
      BY <2>2, Distinct DEF Sched
    <3> QED
      BY <1>1, <3>1, SemaphoresFrame
  <2> QED
    BY <1>3, <2>6, <2>7, <2>8, <2>9 DEF KInv
<1> QED
  BY <1>4, <1>5

LEMMA ReceiveInv ==
    ASSUME KInv, receive
    PROVE  KInv'
BY Caller, AwaitInv DEF receive

LEMMA RdsreadInv ==
    ASSUME KInv, rdsread
    PROVE  KInv'
BY InKill, AwaitInv DEF rdsread, KillPC

\* The current process takes its message, or clears it.
LEMMA TakeInv ==
    ASSUME KInv, op.kind = "none",
           prhasmsg' = [prhasmsg EXCEPT ![currpid] = FALSE],
           UNCHANGED <<schedVars, prparent, sstate, scount, prsem, victim, op>>,
           Goto("run") \/ (pc[currpid] = "run" /\ pc' = pc)
    PROVE  KInv'
<1>1. UNCHANGED <<prstate, queue, currpid, Defer>>
  BY DEF schedVars
<1>2. Sched(prstate, prsem, queue)
  BY <1>1, StillStep
<1>3. /\ Defer'.ndefers = Defer.ndefers /\ Defer' \in [ndefers : Nat, attempt : BOOLEAN]
      /\ prstate[NULLPROC] \in {"CURR", "READY"}
  BY <1>1, Quiet DEF KInv, Processes, OneCurrent
<1>4. /\ pc' \in [Proc -> PC] /\ pc'[currpid] = "run"
      /\ \A p \in Proc : pc'[p] = pc[p] \/ pc'[p] = "run"
  <2>1. CASE pc[currpid] = "run" /\ pc' = pc
    BY <2>1 DEF KInv, Messages
  <2>2. CASE Goto("run")
    BY <2>2, GotoStep DEF PC
  <2> QED
    BY <2>1, <2>2
<1> QED
  BY <1>2, <1>3, <1>4, PlainStep DEF KillPC

LEMMA ReceiveDoneInv ==
    ASSUME KInv, receiveDone \/ recvtimeDone \/ recvclr
    PROVE  KInv'
<1>1. CASE receiveDone
  BY <1>1, TakeInv DEF receiveDone, At, TakeMessage, procVars, semVars
<1>2. CASE recvtimeDone
  BY <1>2, TakeInv DEF recvtimeDone, At, TakeMessage, procVars, semVars
<1>3. CASE recvclr
  BY <1>3, Caller, TakeInv DEF recvclr, procVars, semVars
<1> QED
  BY <1>1, <1>2, <1>3

\* A sleep or a timed wait; the wait is for a message that is not there.
LEMMA DelayInv ==
    ASSUME KInv, op.kind = "none", currpid # NULLPROC, NEW v \in {"SLEEP", "RECTIM"},
           v = "RECTIM" => ~prhasmsg[currpid],
           NEW delay, insertd(delay, v),
           pc' = pc \/ Goto("recvtime"),
           UNCHANGED <<prparent, sstate, scount, prsem, prhasmsg, victim, op>>
    PROVE  KInv'
<1> DEFINE u == [prstate EXCEPT ![currpid] = v]
<1>1. PICK q : /\ Sched(u, prsem, q) /\ \A s \in Sem : q[s] = queue[s]
               /\ Defer'.ndefers = Defer.ndefers
               /\ Defer' \in [ndefers : Nat, attempt : BOOLEAN]
  BY InsertdStep
<1>2. /\ currpid \in Proc /\ prstate[currpid] = "CURR"
      /\ \A p \in Proc : u[p] = IF p = currpid THEN v ELSE prstate[p]
  BY Quiet
<1> HIDE DEF u
<1>3. u[NULLPROC] \in {"CURR", "READY"}
  BY <1>2, ProcAssumption DEF KInv, Processes, OneCurrent
<1>4. pc' \in [Proc -> PC] /\ \A p \in Proc : pc'[p] = pc[p] \/ pc'[p] = "recvtime"
  <2>1. CASE pc' = pc
    BY <2>1 DEF KInv, Messages
  <2>2. CASE Goto("recvtime")
    BY <2>2, GotoStep DEF PC
  <2> QED
    BY <2>1, <2>2
<1>5. \A p \in Proc : /\ u[p] \in {"RECV", "RECTIM"} => prstate[p] = u[p] \/ ~prhasmsg[p]
                      /\ prstate[p] = "RECV" => u[p] \in {"RECV", "FREE"}
                      /\ prstate[p] = "FREE" => u[p] = "FREE"
  BY <1>2
<1>6. \A p \in Proc : pc'[p] \in KillPC \cup {"pfhandler", "receive", "rdsread"} => pc'[p] = pc[p]
  BY <1>4 DEF KillPC
<1> QED
  BY <1>1, <1>3, <1>4, <1>5, <1>6, PlainStep

LEMMA SleepInv ==
    ASSUME KInv, NEW delay, sleepms(delay)
    PROVE  KInv'
<1>1. op.kind = "none" /\ currpid # NULLPROC
  BY Caller DEF sleepms
<1>2. UNCHANGED <<prparent, sstate, scount, prsem, prhasmsg, pc, victim, op>>
  BY DEF sleepms, procVars, semVars
<1>3. CASE resched(prstate, queue, qkey)
  BY <1>1, <1>2, <1>3, YieldInv
<1>4. CASE insertd(delay, "SLEEP")
  BY <1>1, <1>2, <1>4, DelayInv
<1> QED
  BY <1>3, <1>4 DEF sleepms

LEMMA RecvtimeInv ==
    ASSUME KInv, NEW maxwait, recvtime(maxwait)
    PROVE  KInv'
<1>1. op.kind = "none" /\ currpid # NULLPROC
  BY Caller DEF recvtime
<1>2. UNCHANGED <<prparent, sstate, scount, prsem, prhasmsg, victim, op>> /\ Goto("recvtime")
  BY DEF recvtime, procVars, semVars
<1>3. CASE prhasmsg[currpid] /\ UNCHANGED schedVars
  <2>1. /\ Sched(prstate, prsem, queue)
        /\ Defer'.ndefers = Defer.ndefers /\ Defer' \in [ndefers : Nat, attempt : BOOLEAN]
        /\ prstate[NULLPROC] \in {"CURR", "READY"}
    BY <1>1, <1>3, StillStep, Quiet DEF schedVars, KInv, Processes, OneCurrent
  <2>2. pc' \in [Proc -> PC] /\ \A p \in Proc : pc'[p] = pc[p] \/ pc'[p] = "recvtime"
    BY <1>2, GotoStep DEF PC
  <2> QED
    BY <1>2, <2>1, <2>2, PlainStep DEF KillPC
<1>4. CASE ~prhasmsg[currpid] /\ insertd(maxwait, "RECTIM")
  BY <1>1, <1>2, <1>4, DelayInv
<1> QED
  BY <1>3, <1>4 DEF recvtime

LEMMA YieldsInv ==
    ASSUME KInv, yield \/ clkPreempt
    PROVE  KInv'
<1>1. CASE yield
  BY <1>1, Caller, YieldInv DEF yield, procVars, semVars
<1>2. CASE clkPreempt
  BY <1>2, YieldInv DEF clkPreempt, At, procVars, semVars
<1> QED
  BY <1>1, <1>2

\* A call or an interrupt starts a deferred loop, or only moves on.
LEMMA StartStep ==
    ASSUME KInv, op.kind = "none",
           UNCHANGED <<prstate, currpid, queue, prparent, scount, prsem, prhasmsg, victim>>,
           pc' = pc \/ Goto("clkhandler"),
           Control', Semaphores'
    PROVE  KInv'
<1>1. Sched(prstate, prsem, queue)
  BY StillStep
<1>2. prstate[NULLPROC] \in {"CURR", "READY"}
  BY DEF KInv, Processes, OneCurrent
<1>3. Processes'
  BY <1>1, <1>2, ProcessesStep
<1>4. pc' \in [Proc -> PC] /\ \A p \in Proc : pc'[p] = pc[p] \/ pc'[p] = "clkhandler"
  <2>1. CASE pc' = pc
    BY <2>1 DEF KInv, Messages
  <2>2. CASE Goto("clkhandler")
    BY <2>2, GotoStep DEF PC
  <2> QED
    BY <2>1, <2>2
<1>5. Messages'
  BY <1>1, <1>4, MessagesFrame
<1>6. Kills'
  BY <1>4, KillsFrame, ProcAssumption DEF KInv, Kills, KillPC
<1> QED
  BY <1>3, <1>5, <1>6 DEF KInv

LEMMA DeferStartStep ==
    ASSUME KInv, op.kind = "none", NEW o, DeferStart(o),
           o \in [kind : Loop \ {"none", "halt"}, sem : Sem \cup {NoSem}, n : Nat],
           o.kind \in {"semdelete", "semreset", "signaln"} => o.sem \in UserSem,
           o.kind = "semdelete" => sstate'[o.sem] = "FREE",
           o.kind \in {"semreset", "signaln"} => sstate'[o.sem] = "USED"
    PROVE  Control'
<1>1. Defer.ndefers = 0 /\ Defer \in [ndefers : Nat, attempt : BOOLEAN]
  BY Quiet
<1>2. op' = o /\ Defer' = [ndefers |-> 1, attempt |-> FALSE]
  BY <1>1 DEF DeferStart
<1>3. Defer' \in [ndefers : Nat, attempt : BOOLEAN] /\ Defer'.ndefers = 1
  BY <1>2
<1>4. o.kind \notin {"none", "halt"} /\ o \in [kind : Loop, sem : Sem \cup {NoSem}, n : Nat]
  OBVIOUS
<1> QED
  BY <1>2, <1>3, <1>4 DEF Control

LEMMA ClkhandlerInv ==
    ASSUME KInv, clkhandler
    PROVE  KInv'
<1>1. op.kind = "none" /\ Goto("clkhandler")
      /\ UNCHANGED <<prstate, currpid, queue, prparent, sstate, scount, prsem, prhasmsg, victim>>
  BY DEF clkhandler, At, procVars, semVars
<1>2. CASE DeferStart([kind |-> "wakeup", sem |-> NoSem, n |-> 0])
  <2>1. Control'
    BY <1>1, <1>2, DeferStartStep DEF Loop
  <2>2. op'.kind = "wakeup"
    BY <1>2 DEF DeferStart
  <2>3. Semaphores'
    BY <1>1, <2>2 DEF KInv, Semaphores, SemCountIsQueue
  <2> QED
    BY <1>1, <2>1, <2>3, StartStep
<1>3. CASE UNCHANGED <<Defer, op>>
  <2>1. Control' /\ Semaphores'
    BY <1>1, <1>3, SemaphoresFrame DEF KInv, Control
  <2> QED
    BY <1>1, <2>1, StartStep
<1> QED
  BY <1>2, <1>3 DEF clkhandler

LEMMA StartInv ==
    ASSUME KInv, NEW s \in UserSem, NEW n \in Counts, signaln(s, n) \/ semreset(s, n)
    PROVE  KInv'
<1>1. /\ op.kind = "none" /\ sstate[s] = "USED"
      /\ UNCHANGED <<prstate, currpid, queue, prparent, sstate, scount, prsem, prhasmsg, pc, victim>>
  BY Caller DEF signaln, semreset, procVars, semVars
<1>2. s \in Sem /\ n \in Nat
  BY Distinct, ArgumentAssumption
<1>3. PICK k \in {"signaln", "semreset"} : DeferStart([kind |-> k, sem |-> s, n |-> n])
  BY DEF signaln, semreset
<1>4. Control'
  BY <1>1, <1>2, <1>3, DeferStartStep DEF Loop
<1>5. op'.kind \in {"signaln", "semreset"} /\ op'.sem = s
  BY <1>3 DEF DeferStart
<1>6. Semaphores'
  BY <1>1, <1>5 DEF KInv, Semaphores, SemCountIsQueue
<1> QED
  BY <1>1, <1>4, <1>6, StartStep

LEMMA SemdeleteInv ==
    ASSUME KInv, NEW s \in UserSem, semdelete(s)
    PROVE  KInv'
<1>1. /\ op.kind = "none" /\ sstate[s] = "USED" /\ sstate' = [sstate EXCEPT ![s] = "FREE"]
      /\ UNCHANGED <<prstate, currpid, queue, prparent, scount, prsem, prhasmsg, pc, victim>>
      /\ DeferStart([kind |-> "semdelete", sem |-> s, n |-> 0])
  BY Caller DEF semdelete, procVars
<1>2. s \in Sem /\ s # prSem /\ sstate \in [Sem -> {"FREE", "USED"}] /\ sstate[prSem] = "USED"
  BY Distinct DEF KInv, Semaphores
<1>3. sstate' \in [Sem -> {"FREE", "USED"}] /\ sstate'[s] = "FREE"
      /\ \A x \in Sem \ {s} : sstate'[x] = sstate[x]
  BY <1>1, <1>2
<1>4. Control'
  BY <1>1, <1>2, <1>3, DeferStartStep DEF Loop
<1>5. op'.kind = "semdelete" /\ op'.sem = s
  BY <1>1 DEF DeferStart
<1>6. SemCountIsQueue'
  BY <1>1, <1>3, <1>5 DEF KInv, Semaphores, SemCountIsQueue
<1>7. Semaphores'
  BY <1>1, <1>2, <1>3, <1>6, Distinct DEF KInv, Semaphores
<1> QED
  BY <1>1, <1>4, <1>7, StartStep

LEMMA SemcreateInv ==
    ASSUME KInv, NEW s \in UserSem, NEW count \in Counts, semcreate(s, count)
    PROVE  KInv'
<1>1. /\ op.kind = "none" /\ sstate[s] = "FREE" /\ sstate' = [sstate EXCEPT ![s] = "USED"]
      /\ scount' = [scount EXCEPT ![s] = count]
      /\ UNCHANGED <<prstate, currpid, queue, Defer, prparent, prsem, prhasmsg, pc, victim, op>>
  BY Caller DEF semcreate, procVars, schedVars
<1>2. s \in Sem /\ count \in Nat /\ queue[s] = <<>>
  BY <1>1, Distinct, ArgumentAssumption DEF KInv, Semaphores, SemCountIsQueue
<1>3. /\ sstate \in [Sem -> {"FREE", "USED"}] /\ scount \in [Sem -> Int]
      /\ sstate[prSem] = "USED" /\ SemCountIsQueue
  BY DEF KInv, Semaphores
<1>4. /\ sstate' \in [Sem -> {"FREE", "USED"}] /\ scount' \in [Sem -> Int]
      /\ sstate'[s] = "USED" /\ scount'[s] = count
      /\ \A x \in Sem \ {s} : sstate'[x] = sstate[x] /\ scount'[x] = scount[x]
  BY <1>1, <1>2, <1>3
<1>5. SemCountIsQueue'
  BY <1>1, <1>2, <1>3, <1>4 DEF SemCountIsQueue
<1>6. Semaphores'
  BY <1>3, <1>4, <1>5, PrSem DEF Semaphores
<1>7. Control'
  BY <1>1 DEF KInv, Control
<1>8. Processes' /\ Messages' /\ Kills'
  <2>1. Sched(prstate, prsem, queue)
    BY <1>1, StillStep
  <2>2. prstate[NULLPROC] \in {"CURR", "READY"} /\ pc' \in [Proc -> PC]
    BY <1>1 DEF KInv, Processes, OneCurrent, Messages
  <2>3. Processes' /\ Messages'
    BY <1>1, <2>1, <2>2, ProcessesStep, MessagesFrame
  <2>4. Kills'
    BY <1>1 DEF KInv, Kills
  <2> QED
    BY <2>3, <2>4
<1> QED
  BY <1>6, <1>7, <1>8 DEF KInv

-------------------------------------------------------------------------------
\* Deferred loops.

\* One iteration releases the head of a queue.
LEMMA IterationStep ==
    ASSUME KInv, NEW x \in Queue \ {readylist}, queue[x] # <<>>,
           ready(Head(queue[x]), prstate, [queue EXCEPT ![x] = Tail(@)], qkey),
           UNCHANGED <<prparent, prsem, prhasmsg, pc, victim>>
    PROVE  /\ Processes' /\ Messages' /\ Kills'
           /\ Defer'.ndefers = Defer.ndefers /\ Defer' \in [ndefers : Nat, attempt : BOOLEAN]
           /\ queue'[x] = Tail(queue[x]) /\ \A y \in Sem \ {x} : queue'[y] = queue[y]
<1> DEFINE h == Head(queue[x])
           u == [prstate EXCEPT ![h] = "READY"]
           q == [queue EXCEPT ![x] = Tail(@)]
<1>1. /\ h \in Proc /\ Home(prstate[h], prsem[h]) = x /\ Sched(u, prsem, q)
      /\ Defer'.ndefers = Defer.ndefers /\ Defer' \in [ndefers : Nat, attempt : BOOLEAN]
  BY ReleaseStep
<1>2. /\ prstate \in [Proc -> State] /\ prsem \in [Proc -> Sem \cup {NoSem}]
      /\ queue \in [Queue -> Seq(Proc)]
      /\ prstate[NULLPROC] \in {"CURR", "READY"} /\ pc \in [Proc -> PC]
  BY DEF KInv, Processes, Good, OneCurrent, Messages
<1>3. q[x] = Tail(queue[x]) /\ \A y \in Queue \ {x} : q[y] = queue[y]
  BY <1>2
<1> HIDE DEF h
<1>4. \A p \in Proc : u[p] = IF p = h THEN "READY" ELSE prstate[p]
  BY <1>2
<1>5. prstate[h] \notin {"RECV", "FREE"}
  <2>1. Home(prstate[h], prsem[h]) # NoQueue
    BY <1>1, Distinct
  <2> QED
    BY <1>1, <1>2, <2>1, HomeReady
<1> HIDE DEF u, q
<1>6. queue'[x] = Tail(queue[x]) /\ \A y \in Sem \ {x} : queue'[y] = queue[y]
  <2>1. \A y \in Queue \ {readylist} : queue'[y] = q[y]
    BY <1>1 DEF Sched
  <2>2. \A y \in Sem \ {x} : y \in Queue \ {x} /\ y \in Queue \ {readylist}
    BY Distinct
  <2> QED
    BY <1>3, <2>1, <2>2
<1>7. Processes'
  <2>1. u[NULLPROC] \in {"CURR", "READY"}
    BY <1>2, <1>4, ProcAssumption
  <2> QED
    BY <1>1, <2>1, ProcessesStep
<1>8. Messages'
  BY <1>1, <1>2, <1>4, <1>5, MessagesFrame
<1>9. Kills'
  BY DEF KInv, Kills
<1> QED
  BY <1>1, <1>6, <1>7, <1>8, <1>9

\* The end of a loop: the reschedule that was asked for takes place.
LEMMA DeferStopStep ==
    ASSUME KInv, op.kind \notin {"none", "halt"}, DeferStop,
           UNCHANGED <<prparent, prsem, prhasmsg, pc, victim>>
    PROVE  /\ Processes' /\ Control' /\ Messages' /\ Kills'
           /\ op'.kind = "none"
           /\ \A y \in Sem : queue'[y] = queue[y]
<1>1. /\ Defer.ndefers = 1 /\ Defer \in [ndefers : Nat, attempt : BOOLEAN]
      /\ Good(prstate, prsem, queue) /\ currpid \in Proc
      /\ \A p \in Proc : prstate[p] = "CURR" <=> p = currpid
      /\ prstate[NULLPROC] \in {"CURR", "READY"} /\ pc \in [Proc -> PC]
  BY DEF KInv, Control, Processes, OneCurrent, Messages
<1>2. Sched(prstate, prsem, queue)
  <2>1. CASE Switch(prstate, queue, qkey)
    BY <1>1, <2>1, SwitchStep
  <2>2. CASE UNCHANGED <<prstate, currpid, queue>>
    BY <2>2, StillStep
  <2> QED
    BY <2>1, <2>2 DEF DeferStop
<1>3. op' = [kind |-> "none", sem |-> NoSem, n |-> 0]
      /\ Defer' \in [ndefers : Nat, attempt : BOOLEAN] /\ Defer'.ndefers = 0
  BY <1>1 DEF DeferStop
<1>4. Control'
  BY <1>3 DEF Control, Loop
<1>5. Processes'
  BY <1>1, <1>2, ProcessesStep
<1>6. Messages'
  BY <1>1, <1>2, MessagesFrame
<1>7. Kills'
  BY DEF KInv, Kills
<1>8. \A y \in Sem : queue'[y] = queue[y]
  BY <1>2, Distinct DEF Sched
<1> QED
  BY <1>3, <1>4, <1>5, <1>6, <1>7, <1>8

LEMMA WakeupInv ==
    ASSUME KInv, wakeupLoop \/ wakeupEnd
    PROVE  KInv'
<1>1. CASE wakeupLoop
  <2>1. /\ queue[sleepq] # <<>>
        /\ ready(Head(queue[sleepq]), prstate, [queue EXCEPT ![sleepq] = Tail(@)], qkey)
        /\ UNCHANGED <<prparent, sstate, scount, prsem, prhasmsg, pc, victim, op>>
    BY <1>1 DEF wakeupLoop, procVars, semVars
  <2>2. sleepq \in Queue \ {readylist} /\ sleepq \notin Sem
    BY Distinct
  <2>3. /\ Processes' /\ Messages' /\ Kills'
        /\ Defer'.ndefers = Defer.ndefers /\ Defer' \in [ndefers : Nat, attempt : BOOLEAN]
        /\ \A y \in Sem \ {sleepq} : queue'[y] = queue[y]
    BY <2>1, <2>2, IterationStep
  <2>4. Control' /\ Semaphores'
    BY <2>1, <2>2, <2>3, ControlFrame, SemaphoresFrame
  <2> QED
    BY <2>3, <2>4 DEF KInv
<1>2. CASE wakeupEnd
  <2>1. /\ op.kind = "wakeup" /\ DeferStop
        /\ UNCHANGED <<prparent, sstate, scount, prsem, prhasmsg, pc, victim>>
    BY <1>2 DEF wakeupEnd, procVars, semVars
  <2>2. /\ Processes' /\ Control' /\ Messages' /\ Kills'
        /\ op'.kind = "none" /\ \A y \in Sem : queue'[y] = queue[y]
    BY <2>1, DeferStopStep
  <2>3. Semaphores'
    BY <2>1, <2>2 DEF KInv, Semaphores, SemCountIsQueue
  <2> QED
    BY <2>2, <2>3 DEF KInv
<1> QED
  BY <1>1, <1>2

LEMMA SignalnInv ==
    ASSUME KInv, signalnLoop \/ signalnEnd
    PROVE  KInv'
<1>1. CASE signalnLoop
  <2> DEFINE s == op.sem
  <2>1. /\ op.kind = "signaln" /\ op.n > 0
        /\ scount' = [scount EXCEPT ![s] = scount[s] + 1]
        /\ op' = [op EXCEPT !.n = @ - 1]
        /\ UNCHANGED <<prparent, sstate, prsem, prhasmsg, pc, victim>>
    BY <1>1 DEF signalnLoop, procVars
  <2>2. op \in [kind : Loop, sem : Sem \cup {NoSem}, n : Nat] /\ s \in UserSem /\ sstate[s] = "USED"
        /\ Defer.ndefers = 1 /\ Defer \in [ndefers : Nat, attempt : BOOLEAN]
    BY <2>1 DEF KInv, Control
  <2>3. op' \in [kind : Loop, sem : Sem \cup {NoSem}, n : Nat] /\ op'.kind = "signaln" /\ op'.sem = s
    BY <2>1, <2>2
  <2> HIDE DEF s
  <2>4. s \in Sem /\ s \in Queue \ {readylist}
    BY <2>2, Distinct
  <2>5. /\ scount[s] \in Int /\ queue[s] \in Seq(Proc)
        /\ Len(queue[s]) = IF scount[s] < 0 THEN 0 - scount[s] ELSE 0
    BY <2>1, <2>2, <2>4, CountOfUsed
  <2>6. CASE scount[s] < 0
    <3>1. ready(Head(queue[s]), prstate, [queue EXCEPT ![s] = Tail(@)], qkey)
      BY <1>1, <2>6 DEF signalnLoop, s
    <3>2. queue[s] # <<>>
      BY <2>5, <2>6
    <3>3. /\ Processes' /\ Messages' /\ Kills'
          /\ Defer'.ndefers = Defer.ndefers /\ Defer' \in [ndefers : Nat, attempt : BOOLEAN]
          /\ queue'[s] = Tail(queue[s]) /\ \A y \in Sem \ {s} : queue'[y] = queue[y]
      BY <2>1, <2>4, <3>1, <3>2, IterationStep
    <3>4. Control'
      BY <2>1, <2>2, <2>3, <3>3 DEF Control
    <3>5. scount[s] + 1 \in Int
          /\ Len(queue'[s]) = IF scount[s] + 1 < 0 THEN 0 - (scount[s] + 1) ELSE 0
      <4>1. Len(Tail(queue[s])) = Len(queue[s]) - 1
        BY <2>5, <3>2
      <4> QED
        BY <2>5, <2>6, <3>3, <4>1
    <3>6. Semaphores'
      BY <2>1, <2>2, <2>3, <2>4, <3>3, <3>5, CountStep
    <3> QED
      BY <3>3, <3>4, <3>6 DEF KInv
  <2>7. CASE scount[s] >= 0
    <3>1. UNCHANGED <<prstate, currpid, queue, Defer>>
      BY <1>1, <2>5, <2>7 DEF signalnLoop, s, schedVars
    <3>2. Sched(prstate, prsem, queue)
      BY <3>1, StillStep
    <3>3. prstate[NULLPROC] \in {"CURR", "READY"} /\ pc' \in [Proc -> PC]
      BY <2>1 DEF KInv, Processes, OneCurrent, Messages
    <3>4. Processes' /\ Messages'
      BY <2>1, <3>2, <3>3, ProcessesStep, MessagesFrame
    <3>5. Kills'
      BY <2>1 DEF KInv, Kills
    <3>6. Control'
      BY <2>1, <2>2, <2>3, <3>1 DEF Control
    <3>7. scount[s] + 1 \in Int
          /\ Len(queue'[s]) = IF scount[s] + 1 < 0 THEN 0 - (scount[s] + 1) ELSE 0
      BY <2>5, <2>7, <3>1
    <3>8. Semaphores'
      BY <2>1, <2>2, <2>3, <2>4, <3>1, <3>7, CountStep
    <3> QED
      BY <3>4, <3>5, <3>6, <3>8 DEF KInv
  <2> QED
    BY <2>5, <2>6, <2>7
<1>2. CASE signalnEnd
  <2>1. /\ op.kind = "signaln" /\ DeferStop
        /\ UNCHANGED <<prparent, sstate, scount, prsem, prhasmsg, pc, victim>>
    BY <1>2 DEF signalnEnd, procVars, semVars
  <2>2. /\ Processes' /\ Control' /\ Messages' /\ Kills'
        /\ op'.kind = "none" /\ \A y \in Sem : queue'[y] = queue[y]
    BY <2>1, DeferStopStep
  <2>3. Semaphores'
    BY <2>1, <2>2 DEF KInv, Semaphores, SemCountIsQueue
  <2> QED
    BY <2>2, <2>3 DEF KInv
<1> QED
  BY <1>1, <1>2

\* semdelete() increments the count once more than it releases a process, but nobody
\* looks at the count of a semaphore that is free.
LEMMA SemdeleteLoopInv ==
    ASSUME KInv, semdeleteLoop
    PROVE  KInv'
<1> DEFINE s == op.sem
<1>1. /\ op.kind = "semdelete"
      /\ scount' = [scount EXCEPT ![s] = scount[s] + 1]
      /\ UNCHANGED <<prparent, sstate, prsem, prhasmsg, pc, victim>>
  BY DEF semdeleteLoop, procVars
<1>2. s \in UserSem /\ sstate[s] = "FREE"
  BY <1>1 DEF KInv, Control
<1>3. /\ sstate \in [Sem -> {"FREE", "USED"}] /\ scount \in [Sem -> Int]
      /\ sstate[prSem] = "USED" /\ SemCountIsQueue
  BY DEF KInv, Semaphores
<1>d. (scount[s] < 0 /\ ready(Head(queue[s]), prstate, [queue EXCEPT ![s] = Tail(@)], qkey) /\ op' = op)
      \/ (~(scount[s] < 0) /\ DeferStop)
  BY DEF semdeleteLoop
<1>e. op.kind = "semdelete" /\ op.sem = s
  BY <1>1
<1> HIDE DEF s
<1>4. s \in Sem /\ s \in Queue \ {readylist}
  BY <1>2, Distinct
<1>5. queue[s] \in Seq(Proc) /\ Len(queue[s]) = IF scount[s] < 0 THEN 0 - scount[s] ELSE 0
  BY <1>3, <1>4, <1>e DEF KInv, Processes, Good, SemCountIsQueue
<1>i. scount[s] \in Int
  BY <1>3, <1>4
<1>6. /\ scount' \in [Sem -> Int] /\ scount'[s] = scount[s] + 1
      /\ \A x \in Sem \ {s} : scount'[x] = scount[x]
  BY <1>1, <1>3, <1>4
<1>7. CASE scount[s] < 0
  <2>1. ready(Head(queue[s]), prstate, [queue EXCEPT ![s] = Tail(@)], qkey) /\ op' = op
    BY <1>d, <1>7
  <2>2. queue[s] # <<>>
    BY <1>5, <1>7, <1>i
  <2>3. /\ Processes' /\ Messages' /\ Kills'
        /\ Defer'.ndefers = Defer.ndefers /\ Defer' \in [ndefers : Nat, attempt : BOOLEAN]
        /\ queue'[s] = Tail(queue[s]) /\ \A y \in Sem \ {s} : queue'[y] = queue[y]
    BY <1>1, <1>4, <2>1, <2>2, IterationStep
  <2>4. Control'
    BY <1>1, <2>1, <2>3, ControlFrame
  <2>5. Len(queue'[s]) = IF scount'[s] < 0 THEN 0 - scount'[s] ELSE 0
    <3>1. Len(Tail(queue[s])) = Len(queue[s]) - 1
      BY <1>5, <2>2
    <3> QED
      BY <1>5, <1>6, <1>7, <1>i, <2>3, <3>1
  <2>6. SemCountIsQueue'
    <3>1. op'.kind = "semdelete" /\ op'.sem = s /\ sstate'[s] = "FREE"
      BY <1>1, <1>2, <1>e, <2>1
    <3>2. \A x \in Sem \ {s} : IF sstate[x] = "USED"
                             THEN Len(queue[x]) = IF scount[x] < 0 THEN 0 - scount[x] ELSE 0
                             ELSE queue[x] = <<>>
      BY <1>3, <1>e DEF SemCountIsQueue
    <3>3. \A x \in Sem \ {s} : queue'[x] = queue[x] /\ scount'[x] = scount[x] /\ sstate'[x] = sstate[x]
      BY <1>1, <1>6, <2>3
    <3> QED
      BY <2>5, <3>1, <3>2, <3>3 DEF SemCountIsQueue
  <2>7. Semaphores'
    BY <1>1, <1>3, <1>6, <2>6 DEF Semaphores
  <2> QED
    BY <2>3, <2>4, <2>7 DEF KInv
<1>8. CASE ~(scount[s] < 0)
  <2>1. DeferStop
    BY <1>d, <1>8
  <2>2. /\ Processes' /\ Control' /\ Messages' /\ Kills'
        /\ op'.kind = "none" /\ \A y \in Sem : queue'[y] = queue[y]
    BY <1>1, <2>1, DeferStopStep
  <2>3. queue[s] = <<>>
    BY <1>5, <1>8
  <2>4. SemCountIsQueue'
    BY <1>1, <1>2, <1>3, <1>4, <1>6, <1>e, <2>2, <2>3 DEF SemCountIsQueue
  <2>5. Semaphores'
    BY <1>1, <1>3, <1>6, <2>4 DEF Semaphores
  <2> QED
    BY <2>2, <2>5 DEF KInv
<1> QED
  BY <1>7, <1>8

\* semreset() empties the queue, whatever the count, and then writes the count.
LEMMA SemresetInv ==
    ASSUME KInv, semresetLoop \/ semresetEnd
    PROVE  KInv'
<1> DEFINE s == op.sem
<1>1. /\ op.kind = "semreset"
      /\ UNCHANGED <<prparent, sstate, prsem, prhasmsg, pc, victim>>
  BY DEF semresetLoop, semresetEnd, procVars, semVars
<1>2. s \in UserSem /\ sstate[s] = "USED" /\ op.n \in Nat
  BY <1>1 DEF KInv, Control
<1>3. /\ sstate \in [Sem -> {"FREE", "USED"}] /\ scount \in [Sem -> Int]
      /\ sstate[prSem] = "USED" /\ SemCountIsQueue
  BY DEF KInv, Semaphores
<1>e. op.kind = "semreset" /\ op.sem = s
  BY <1>1
<1>4. s \in Sem /\ s \in Queue \ {readylist}
  BY <1>2, Distinct
<1>7. CASE semresetLoop
  <2>1. /\ queue[s] # <<>>
        /\ ready(Head(queue[s]), prstate, [queue EXCEPT ![s] = Tail(@)], qkey)
        /\ UNCHANGED <<scount, op>>
    BY <1>7 DEF semresetLoop, semVars
  <2> HIDE DEF s
  <2>2. /\ Processes' /\ Messages' /\ Kills'
        /\ Defer'.ndefers = Defer.ndefers /\ Defer' \in [ndefers : Nat, attempt : BOOLEAN]
        /\ \A y \in Sem \ {s} : queue'[y] = queue[y]
    BY <1>1, <1>4, <2>1, IterationStep
  <2>3. Control'
    BY <1>1, <2>1, <2>2, ControlFrame
  <2>4. SemCountIsQueue'
    BY <1>1, <1>3, <1>e, <2>1, <2>2 DEF SemCountIsQueue
  <2>5. Semaphores'
    BY <1>1, <1>3, <2>1, <2>4 DEF Semaphores
  <2> QED
    BY <2>2, <2>3, <2>5 DEF KInv
<1>8. CASE semresetEnd
  <2>1. /\ queue[s] = <<>> /\ scount' = [scount EXCEPT ![s] = op.n] /\ DeferStop
    BY <1>8 DEF semresetEnd
  <2> HIDE DEF s
  <2>2. /\ Processes' /\ Control' /\ Messages' /\ Kills'
        /\ op'.kind = "none" /\ \A y \in Sem : queue'[y] = queue[y]
    BY <1>1, <2>1, DeferStopStep
  <2>3. /\ scount' \in [Sem -> Int] /\ scount'[s] = op.n
        /\ \A x \in Sem \ {s} : scount'[x] = scount[x]
    BY <1>2, <1>3, <1>4, <2>1
  <2>4. Len(queue'[s]) = IF scount'[s] < 0 THEN 0 - scount'[s] ELSE 0
    BY <1>2, <1>4, <2>1, <2>2, <2>3
  <2>5. SemCountIsQueue'
    BY <1>1, <1>2, <1>3, <1>e, <2>2, <2>3, <2>4 DEF SemCountIsQueue
  <2>6. Semaphores'
    BY <1>1, <1>3, <2>3, <2>5 DEF Semaphores
  <2> QED
    BY <2>2, <2>6 DEF KInv
<1> QED
  BY <1>7, <1>8

-------------------------------------------------------------------------------
\* Delivery of a message, creation and termination.

\* A process that gets a message is no longer waiting for one.
LEMMA DeliverStep ==
    ASSUME KInv, op.kind = "none", NEW p \in Proc, deliver(p),
           UNCHANGED <<sstate, scount, prsem>>,
           pc' \in [Proc -> PC],
           \A y \in Proc : pc'[y] \in {"receive", "rdsread"} => pc'[y] = pc[y],
           op' = op
    PROVE  Processes' /\ Control' /\ Semaphores' /\ Messages'
<1>q. /\ Defer.ndefers = 0 /\ Defer \in [ndefers : Nat, attempt : BOOLEAN]
      /\ currpid \in Proc /\ \A y \in Proc : prstate[y] = "CURR" <=> y = currpid
      /\ prstate \in [Proc -> State] /\ Good(prstate, prsem, queue)
  BY Quiet
<1>s. NULLPROC \in Proc /\ prstate[NULLPROC] \in {"CURR", "READY"}
  BY ProcAssumption DEF KInv, Processes, OneCurrent
<1>m. /\ prhasmsg \in [Proc -> BOOLEAN]
      /\ \A y \in Proc : /\ prstate[y] \in {"RECV", "RECTIM"} => ~prhasmsg[y]
                         /\ (pc[y] \in {"receive", "rdsread"} /\ prstate[y] \notin {"RECV", "FREE"})
                               => prhasmsg[y]
  BY DEF KInv, Messages, MessageWakes
\* Nobody is moved.
<1>1. CASE /\ UNCHANGED schedVars
           /\ \/ prhasmsg' = prhasmsg
              \/ prhasmsg' = [prhasmsg EXCEPT ![p] = TRUE] /\ prstate[p] \notin {"RECV", "RECTIM"}
  <2>1. UNCHANGED <<prstate, queue, currpid, Defer>>
    BY <1>1 DEF schedVars
  <2>2. Sched(prstate, prsem, queue)
    BY <2>1, StillStep
  <2>3. Processes' /\ Control' /\ Semaphores'
    BY <1>q, <1>s, <2>1, <2>2, ProcessesStep, ControlFrame, SemaphoresFrame
  <2>4. CASE prhasmsg' = prhasmsg
    BY <2>1, <2>2, <2>3, <2>4, MessagesFrame
  <2>5. CASE prhasmsg' = [prhasmsg EXCEPT ![p] = TRUE] /\ prstate[p] \notin {"RECV", "RECTIM"}
    <3>1. prhasmsg' \in [Proc -> BOOLEAN] /\ \A y \in Proc : prhasmsg'[y] = (y = p \/ prhasmsg[y])
      BY <1>m, <2>5
    <3>2. MessageWakes'
      BY <1>m, <2>1, <2>5, <3>1 DEF MessageWakes
    <3> QED
      BY <2>3, <3>1, <3>2 DEF Messages
  <2> QED
    BY <1>1, <2>4, <2>5
\* The receiver is made ready.
<1>2. ASSUME prhasmsg' = [prhasmsg EXCEPT ![p] = TRUE], prstate[p] \in {"RECV", "RECTIM"},
             NEW q, \A x \in Sem : q[x] = queue[x],
             Loose(p, prstate, prsem, q), NEW k, ready(p, prstate, q, k)
      PROVE  Processes' /\ Control' /\ Semaphores' /\ Messages'
  <2> DEFINE u == [prstate EXCEPT ![p] = "READY"]
  <2>1. p # currpid
    BY <1>q, <1>2
  <2>2. /\ Sched(u, prsem, q)
        /\ Defer'.ndefers = Defer.ndefers /\ Defer' \in [ndefers : Nat, attempt : BOOLEAN]
    <3>1. Loose(p, prstate, prsem, q) /\ ready(p, prstate, q, k)
      BY <1>2
    <3> HIDE DEF u
    <3>2. /\ Sched([prstate EXCEPT ![p] = "READY"], prsem, q)
          /\ Defer'.ndefers = Defer.ndefers /\ Defer' \in [ndefers : Nat, attempt : BOOLEAN]
      BY <1>q, <2>1, <3>1, ReadyStep
    <3> QED
      BY <3>2 DEF u
  <2>3. \A y \in Proc : u[y] = IF y = p THEN "READY" ELSE prstate[y]
    BY <1>q
  <2> HIDE DEF u
  <2>4. \A y \in Proc : \/ y # p /\ prstate'[y] = prstate[y]
                        \/ prstate'[y] \in {"CURR", "READY"} /\ (y = p \/ prstate[y] \in {"CURR", "READY"})
    BY <2>2, <2>3 DEF Sched
  <2>5. prhasmsg' \in [Proc -> BOOLEAN] /\ \A y \in Proc : prhasmsg'[y] = (y = p \/ prhasmsg[y])
    BY <1>m, <1>2
  <2>6. MessageWakes'
    BY <1>m, <2>4, <2>5 DEF MessageWakes
  <2>7. Messages'
    BY <2>5, <2>6 DEF Messages
  <2>8. u[NULLPROC] \in {"CURR", "READY"}
    BY <1>s, <2>3
  <2>9. Processes'
    BY <2>2, <2>8, ProcessesStep
  <2>10. \A x \in Sem : queue'[x] = queue[x]
    BY <1>2, <2>2, Distinct DEF Sched
  <2> QED
    BY <2>2, <2>7, <2>9, <2>10, ControlFrame, SemaphoresFrame
<1>3. CASE prhasmsg' = [prhasmsg EXCEPT ![p] = TRUE] /\ prstate[p] = "RECV"
           /\ ready(p, prstate, queue, qkey)
  <2>1. Loose(p, prstate, prsem, queue)
    BY <1>q, <1>3, LooseIdle
  <2> QED
    BY <1>2, <1>3, <2>1
<1>4. CASE prhasmsg' = [prhasmsg EXCEPT ![p] = TRUE] /\ prstate[p] = "RECTIM"
           /\ ready(p, prstate, getitem(p), unsleepKeys(p))
  <2>1. Loose(p, prstate, prsem, getitem(p)) /\ \A x \in Sem : getitem(p)[x] = queue[x]
    BY <1>4, GetitemStep, Distinct DEF Home
  <2> QED
    BY <1>2, <1>4, <2>1
<1> QED
  BY <1>1, <1>3, <1>4 DEF deliver

LEMMA SendInv ==
    ASSUME KInv, NEW p \in Proc, send(p)
    PROVE  KInv'
<1>1. /\ op.kind = "none" /\ deliver(p)
      /\ UNCHANGED <<prparent, sstate, scount, prsem, pc, victim, op>>
  BY Caller DEF send, procVars, semVars
<1>2. pc' \in [Proc -> PC]
  BY <1>1 DEF KInv, Messages
<1>3. Kills'
  BY <1>1 DEF KInv, Kills
<1> QED
  BY <1>1, <1>2, <1>3, DeliverStep DEF KInv

LEMMA KillInv ==
    ASSUME KInv, NEW p \in Proc, kill(p)
    PROVE  KInv'
<1>1. /\ op.kind = "none" /\ currpid # NULLPROC /\ p # NULLPROC
      /\ UNCHANGED <<prparent, prsem, sstate, scount>>
  BY Caller DEF kill, semVars
<1>2. CASE op' = [op EXCEPT !.kind = "halt"] /\ UNCHANGED <<schedVars, prhasmsg, pc, victim>>
  <2>1. Control'
    BY <1>1, <1>2 DEF KInv, Control, Loop, schedVars
  <2>2. op'.kind = "halt"
    BY <1>2 DEF KInv, Control
  <2>3. Semaphores'
    BY <1>1, <1>2, <2>2 DEF KInv, Semaphores, SemCountIsQueue, schedVars
  <2> QED
    BY <1>1, <1>2, <2>1, <2>3, StartStep DEF schedVars
<1>3. CASE op' = op /\ deliver(prparent[p]) /\ Goto("killWait") /\ victim' = [victim EXCEPT ![currpid] = p]
  <2>1. prparent[p] \in Proc /\ victim \in [Proc -> Proc \cup {NoProc}] /\ currpid \in Proc
    BY <1>1, Quiet DEF KInv, Kills
  <2>2. /\ pc' \in [Proc -> PC] /\ pc'[currpid] = "killWait"
        /\ \A y \in Proc : y # currpid => pc'[y] = pc[y]
    BY <1>3, GotoStep DEF PC
  <2>3. Processes' /\ Control' /\ Semaphores' /\ Messages'
    BY <1>1, <1>3, <2>1, <2>2, DeliverStep
  <2>4. Kills'
    <3>1. /\ victim' \in [Proc -> Proc \cup {NoProc}] /\ victim'[currpid] = p
          /\ \A y \in Proc : y # currpid => victim'[y] = victim[y]
      BY <1>3, <2>1
    <3> QED
      BY <1>1, <2>2, <3>1, ProcAssumption DEF KInv, Kills
  <2> QED
    BY <2>3, <2>4 DEF KInv
<1> QED
  BY <1>2, <1>3 DEF kill

\* The target has gone from its queue; the call is over.
LEMMA FreedStep ==
    ASSUME KInv, NEW q, NEW p \in Proc \ {NULLPROC},
           Sched([prstate EXCEPT ![p] = "FREE"], prsem, q),
           Defer'.ndefers = Defer.ndefers, Defer' \in [ndefers : Nat, attempt : BOOLEAN],
           Goto("run"), victim' = [victim EXCEPT ![currpid] = NoProc],
           UNCHANGED <<prparent, sstate, prsem, prhasmsg, op>>,
           Semaphores'
    PROVE  KInv'
<1> DEFINE u == [prstate EXCEPT ![p] = "FREE"]
<1>1. /\ prstate \in [Proc -> State] /\ NULLPROC \in Proc /\ prstate[NULLPROC] \in {"CURR", "READY"}
      /\ currpid \in Proc
  BY ProcAssumption DEF KInv, Processes, Good, OneCurrent
<1>2. \A y \in Proc : u[y] = IF y = p THEN "FREE" ELSE prstate[y]
  BY <1>1
<1> HIDE DEF u
<1>3. u[NULLPROC] \in {"CURR", "READY"}
  BY <1>1, <1>2
<1>4. Processes'
  BY <1>3, ProcessesStep DEF u
<1>5. /\ pc' \in [Proc -> PC] /\ pc'[currpid] = "run"
      /\ \A y \in Proc : y # currpid => pc'[y] = pc[y]
  BY GotoStep DEF PC
<1>6. Messages'
  <2>1. Sched(u, prsem, q)
    BY DEF u
  <2> QED
    BY <1>2, <1>5, <2>1, MessagesFrame
<1>7. Kills'
  <2>1. /\ victim' \in [Proc -> Proc \cup {NoProc}] /\ victim'[currpid] = NoProc
        /\ \A y \in Proc : y # currpid => victim'[y] = victim[y]
    BY <1>1 DEF KInv, Kills
  <2> QED
    BY <1>1, <1>5, <2>1, ProcAssumption DEF KInv, Kills
<1>8. Control'
  BY ControlFrame
<1> QED
  BY <1>4, <1>6, <1>7, <1>8 DEF KInv

LEMMA KillSwitchInv ==
    ASSUME KInv, killSwitch
    PROVE  KInv'
<1> DEFINE p == victim[currpid]
           u == [prstate EXCEPT ![p] = "FREE"]
<1>1. op.kind = "none" /\ pc[currpid] = "killSwitch"
  BY DEF killSwitch, At
<1>q. /\ Defer.ndefers = 0 /\ Defer \in [ndefers : Nat, attempt : BOOLEAN]
      /\ currpid \in Proc /\ prstate[currpid] = "CURR"
      /\ \A y \in Proc : prstate[y] = "CURR" <=> y = currpid
      /\ prstate \in [Proc -> State] /\ Good(prstate, prsem, queue)
      /\ queue \in [Queue -> Seq(Proc)] /\ prsem \in [Proc -> Sem \cup {NoSem}]
  BY <1>1, Quiet
<1>2. /\ Goto("run") /\ victim' = [victim EXCEPT ![currpid] = NoProc]
      /\ UNCHANGED <<prparent, sstate, prsem, prhasmsg, op>>
  BY DEF killSwitch, procVars
<1>3. p \in Proc \ {NULLPROC}
  BY <1>1, <1>q DEF KInv, Kills
<1>d. \/ prstate[p] = "CURR" /\ resched(u, queue, qkey) /\ scount' = scount
      \/ /\ prstate[p] \in {"SLEEP", "RECTIM", "WAIT", "READY"}
         /\ prstate' = u /\ queue' = getitem(p) /\ UNCHANGED <<currpid, Defer>>
         /\ scount' = IF prstate[p] = "WAIT" THEN [scount EXCEPT ![prsem[p]] = scount[prsem[p]] + 1] ELSE scount
      \/ /\ prstate[p] \in {"SUSP", "RECV", "FREE"}
         /\ prstate' = u /\ UNCHANGED <<currpid, queue, Defer, scount>>
  BY DEF killSwitch
<1>u. \A y \in Proc : u[y] = IF y = p THEN "FREE" ELSE prstate[y]
  BY <1>q
<1> HIDE DEF p
<1>4. CASE prstate[p] = "CURR" /\ resched(u, queue, qkey) /\ scount' = scount
  <2>1. p = currpid
    BY <1>3, <1>4, <1>q
  <2>2. /\ Sched(u, prsem, queue)
        /\ Defer'.ndefers = Defer.ndefers /\ Defer' \in [ndefers : Nat, attempt : BOOLEAN]
    BY <1>1, <1>4, <2>1, BlockStep
  <2>3. \A x \in Sem : queue'[x] = queue[x]
    BY <2>2, Distinct DEF Sched
  <2>4. Semaphores'
    BY <1>2, <1>4, <2>3, SemaphoresFrame
  <2> QED
    BY <1>2, <1>3, <2>2, <2>4, FreedStep
<1>5. CASE /\ prstate[p] \in {"SLEEP", "RECTIM", "WAIT", "READY"}
           /\ prstate' = u /\ queue' = getitem(p) /\ UNCHANGED <<currpid, Defer>>
           /\ scount' = IF prstate[p] = "WAIT" THEN [scount EXCEPT ![prsem[p]] = scount[prsem[p]] + 1] ELSE scount
  <2>1. /\ Loose(p, prstate, prsem, getitem(p))
        /\ \A x \in Queue : Home(prstate[p], prsem[p]) # x => getitem(p)[x] = queue[x]
    BY <1>3, GetitemStep
  <2>2. Good(u, prsem, getitem(p))
    BY <1>3, <2>1, GoodIdle
  <2>3. Sched(u, prsem, getitem(p))
    <3>1. \A y \in Proc : u[y] = "CURR" <=> y = currpid
      BY <1>5, <1>q, <1>u
    <3> HIDE DEF u
    <3> QED
      BY <1>2, <1>5, <1>q, <2>2, <3>1 DEF Sched
  <2>4. Semaphores'
    <3>1. CASE prstate[p] # "WAIT"
      <4>1. \A x \in Sem : queue'[x] = queue[x]
        <5>1. \A x \in Sem : x \in Queue /\ Home(prstate[p], prsem[p]) # x
          BY <1>3, <1>q, <3>1, HomeReady, Distinct
        <5> QED
          BY <1>5, <2>1, <5>1
      <4> QED
        BY <1>2, <1>5, <3>1, <4>1, SemaphoresFrame
    <3>2. CASE prstate[p] = "WAIT"
      <4> DEFINE s == prsem[p]
      <4>1. s \in Sem /\ s \in Queue
        BY <1>3, <1>q, <3>2, Distinct DEF Good
      <4>2. On(p, queue[s]) /\ Once(queue[s]) /\ queue[s] \in Seq(Proc)
        BY <1>3, <1>q, <3>2, <4>1 DEF Good, Home
      <4>3. Len(Unlink(queue[s], p)) = Len(queue[s]) - 1
        BY <1>3, <4>2, UnlinkProperties
      <4>4. queue'[s] = Unlink(queue[s], p)
        BY <1>5, <4>1 DEF getitem
      <4>5. \A x \in Sem \ {s} : queue'[x] = queue[x]
        <5>1. \A x \in Sem \ {s} : x \in Queue /\ Home(prstate[p], prsem[p]) # x
          BY <3>2, Distinct DEF Home
        <5> QED
          BY <1>5, <2>1, <5>1
      <4>6. queue[s] # <<>>
        BY <4>2 DEF On
      <4>7. sstate[s] = "USED"
        BY <1>1, <4>1, <4>6 DEF KInv, Semaphores, SemCountIsQueue
      <4>8. scount[s] \in Int /\ Len(queue[s]) = IF scount[s] < 0 THEN 0 - scount[s] ELSE 0
        BY <1>1, <4>1, <4>7, CountOfUsed
      <4>9. scount' = [scount EXCEPT ![s] = scount[s] + 1]
        BY <1>5, <3>2
      <4> HIDE DEF s
      <4>10. Len(queue[s]) > 0
        BY <4>2, <4>6
      <4>11. Len(queue'[s]) = IF scount[s] + 1 < 0 THEN 0 - (scount[s] + 1) ELSE 0
        BY <4>3, <4>4, <4>8, <4>10
      <4>12. scount[s] + 1 \in Int
        BY <4>8
      <4> QED
        BY <1>1, <1>2, <4>1, <4>5, <4>7, <4>9, <4>11, <4>12, CountStep
    <3> QED
      BY <3>1, <3>2
  <2>5. Defer'.ndefers = Defer.ndefers /\ Defer' \in [ndefers : Nat, attempt : BOOLEAN]
    BY <1>5, <1>q
  <2> QED
    BY <1>2, <1>3, <2>3, <2>4, <2>5, FreedStep
<1>6. CASE /\ prstate[p] \in {"SUSP", "RECV", "FREE"}
           /\ prstate' = u /\ UNCHANGED <<currpid, queue, Defer, scount>>
  <2>1. Loose(p, prstate, prsem, queue)
    BY <1>3, <1>6, <1>q, LooseIdle
  <2>2. Good(u, prsem, queue)
    BY <1>3, <2>1, GoodIdle
  <2>3. Sched(u, prsem, queue)
    <3>1. \A y \in Proc : u[y] = "CURR" <=> y = currpid
      BY <1>6, <1>q, <1>u
    <3> HIDE DEF u
    <3> QED
      BY <1>2, <1>6, <1>q, <2>2, <3>1 DEF Sched
  <2>4. Semaphores'
    BY <1>2, <1>6, SemaphoresFrame
  <2>5. Defer'.ndefers = Defer.ndefers /\ Defer' \in [ndefers : Nat, attempt : BOOLEAN]
    BY <1>6, <1>q
  <2> QED
    BY <1>2, <1>3, <2>3, <2>4, <2>5, FreedStep
<1> QED
  BY <1>d, <1>4, <1>5, <1>6

\* The slot that create() takes is free, so nobody runs in it and it is on no queue.
LEMMA CreateInv ==
    ASSUME KInv, NEW p \in Proc, NEW prio, create(p, prio)
    PROVE  KInv'
<1>1. /\ op.kind = "none" /\ prstate[p] = "FREE"
      /\ prstate' = [prstate EXCEPT ![p] = "SUSP"] /\ prsem' = [prsem EXCEPT ![p] = NoSem]
      /\ prparent' = [prparent EXCEPT ![p] = currpid]
      /\ prhasmsg' = [prhasmsg EXCEPT ![p] = FALSE]
      /\ pc' = [pc EXCEPT ![p] = "run"] /\ victim' = [victim EXCEPT ![p] = NoProc]
      /\ UNCHANGED <<currpid, queue, Defer, sstate, scount, op>>
  BY Caller DEF create, semVars
<1>q. /\ Defer.ndefers = 0 /\ Defer \in [ndefers : Nat, attempt : BOOLEAN]
      /\ currpid \in Proc /\ \A y \in Proc : prstate[y] = "CURR" <=> y = currpid
      /\ prstate \in [Proc -> State] /\ Good(prstate, prsem, queue)
      /\ prsem \in [Proc -> Sem \cup {NoSem}]
  BY <1>1, Quiet
<1>s. NULLPROC \in Proc /\ prstate[NULLPROC] \in {"CURR", "READY"} /\ p # NULLPROC
  BY <1>1, ProcAssumption DEF KInv, Processes, OneCurrent
<1>2. /\ prsem' \in [Proc -> Sem \cup {NoSem}] /\ \A y \in Proc : y # p => prsem'[y] = prsem[y]
      /\ \A y \in Proc : prstate'[y] = IF y = p THEN "SUSP" ELSE prstate[y]
  BY <1>1, <1>q
<1>3. Loose(p, prstate, prsem', queue)
  <2>1. Loose(p, prstate, prsem, queue)
    BY <1>1, <1>q, LooseIdle
  <2> QED
    BY <1>2, <2>1 DEF Loose
<1>4. Good(prstate', prsem', queue')
  BY <1>1, <1>3, GoodIdle
<1>5. Processes'
  <2>1. OneCurrent'
    BY <1>1, <1>2, <1>q, <1>s DEF OneCurrent
  <2> QED
    BY <1>1, <1>4, <1>q, <2>1 DEF Processes
<1>6. Control' /\ Semaphores'
  BY <1>1, <1>q, ControlFrame, SemaphoresFrame
<1>7. Messages'
  <2>1. /\ prhasmsg' \in [Proc -> BOOLEAN] /\ pc' \in [Proc -> PC]
        /\ ~prhasmsg'[p] /\ pc'[p] = "run"
        /\ \A y \in Proc : y # p => prhasmsg'[y] = prhasmsg[y] /\ pc'[y] = pc[y]
    BY <1>1 DEF KInv, Messages, PC
  <2>2. MessageWakes'
    BY <1>2, <2>1 DEF KInv, Messages, MessageWakes
  <2> QED
    BY <2>1, <2>2 DEF Messages
<1>8. Kills'
  <2>1. /\ prparent' \in [Proc -> Proc] /\ victim' \in [Proc -> Proc \cup {NoProc}]
        /\ pc'[p] = "run" /\ victim'[p] = NoProc
        /\ \A y \in Proc : y # p => victim'[y] = victim[y] /\ pc'[y] = pc[y]
    BY <1>1, <1>q DEF KInv, Kills, Messages
  <2> QED
    BY <1>s, <2>1, ProcAssumption DEF KInv, Kills
<1> QED
  BY <1>5, <1>6, <1>7, <1>8 DEF KInv

-------------------------------------------------------------------------------
LEMMA KInit == Init => KInv
<1> SUFFICES ASSUME Init PROVE KInv
  OBVIOUS
<1>p. NULLPROC \in Proc /\ Main \in Proc /\ NULLPROC # Main /\ NoProc \notin Proc
  BY ProcAssumption
<1>1. /\ \A p \in Proc : prstate[p] = IF p = Main THEN "CURR" ELSE IF p = NULLPROC THEN "READY" ELSE "FREE"
      /\ prstate \in [Proc -> State]
      /\ prsem = [p \in Proc |-> NoSem]
      /\ currpid = Main
      /\ queue = [q \in Queue |-> IF q = readylist THEN <<NULLPROC>> ELSE <<>>]
  BY DEF Init, State
<1>2. Good(prstate, prsem, queue)
  <2>1. queue \in [Queue -> Seq(Proc)] /\ \A x \in Queue : Once(queue[x])
    BY <1>1, <1>p DEF Once
  <2>2. \A x \in Queue, p \in Proc : On(p, queue[x]) <=> (x = readylist /\ p = NULLPROC)
    BY <1>1 DEF On
  <2>3. \A x \in Queue, p \in Proc : Home(prstate[p], prsem[p]) = x <=> (x = readylist /\ p = NULLPROC)
    BY <1>1, <1>p, Distinct DEF Home
  <2>4. \A p \in Proc : prstate[p] # "WAIT"
    BY <1>1
  <2> QED
    BY <1>1, <2>1, <2>2, <2>3, <2>4 DEF Good
<1>3. Processes
  BY <1>1, <1>2, <1>p DEF Processes, OneCurrent
<1>4. Control
  BY DEF Init, Control, Loop
<1>5. Semaphores
  <2>1. \A s \in Sem : queue[s] = <<>>
    BY <1>1, Distinct
  <2>2. /\ op.kind = "none"
        /\ sstate = [s \in Sem |-> IF s = prSem THEN "USED" ELSE "FREE"]
        /\ scount = [s \in Sem |-> IF s = prSem THEN 1 ELSE 0]
    BY DEF Init
  <2>3. SemCountIsQueue
    BY <2>1, <2>2 DEF SemCountIsQueue
  <2> QED
    BY <2>2, <2>3, Distinct DEF Semaphores
<1>6. Messages
  BY <1>1 DEF Init, Messages, MessageWakes, PC
<1>7. Kills
  BY <1>p DEF Init, Kills
<1> QED
  BY <1>3, <1>4, <1>5, <1>6, <1>7 DEF KInv

LEMMA KNext == KInv /\ [Next]_vars => KInv'
<1> SUFFICES ASSUME KInv, [Next]_vars PROVE KInv'
  OBVIOUS
<1>1. CASE ProcessCall
  BY <1>1, YieldsInv, ReceiveInv, ReceiveDoneInv, PfhandlerInv, ResumeInv, SuspendInv, SendInv, KillInv,
     CreateInv, ChprioInv, WaitInv, SignalInv, SemdeleteInv, SemcreateInv, StartInv, SleepInv, RecvtimeInv
     DEF ProcessCall
<1>2. CASE Continue
  BY <1>2, ReceiveDoneInv, RdsreadInv, PfhandlerDoneInv, KillWaitInv, KillFreeInv, KillSwitchInv
     DEF Continue
<1>3. CASE DeferredLoop
  BY <1>3, SignalnInv, SemdeleteLoopInv, SemresetInv, WakeupInv DEF DeferredLoop
<1>4. CASE Clock
  BY <1>4, ClkhandlerInv, YieldsInv DEF Clock
<1>5. CASE UNCHANGED vars
  <2>1. UNCHANGED <<prstate, prsem, prparent, prhasmsg, pc, victim, currpid, queue, Defer, op, sstate, scount>>
    BY <1>5 DEF vars
  <2>2. Processes' /\ Control' /\ Kills'
    BY <2>1 DEF KInv, Processes, Good, OneCurrent, Control, Kills
  <2>3. Semaphores'
    BY <2>1 DEF KInv, Semaphores, SemCountIsQueue
  <2>4. Messages'
    BY <2>1 DEF KInv, Messages, MessageWakes
  <2> QED
    BY <2>2, <2>3, <2>4 DEF KInv
<1> QED
  BY <1>1, <1>2, <1>3, <1>4, <1>5 DEF Next

LEMMA KInductive == Spec => []KInv
BY KInit, KNext, PTL DEF Spec

\* ready(), resched(), insertd() and getitem() never leave a process on two queues or on
\* a queue that its state does not belong to, in any interleaving of the system calls.
THEOREM OneQueueHolds == Spec => []OneQueue
<1>1. KInv => OneQueue
  BY DEF KInv, Processes, Good, OneQueue
<1> QED
  BY KInductive, <1>1, PTL

\* Exactly one process is current and the null process never blocks, so resched() always
\* finds a process to run.
THEOREM OneCurrentHolds == Spec => []OneCurrent
<1>1. KInv => OneCurrent
  BY DEF KInv, Processes
<1> QED
  BY KInductive, <1>1, PTL

\* wait(), signal(), signaln(), semreset(), semdelete() and kill() keep a semaphore's
\* count and its queue together.
THEOREM SemCountIsQueueHolds == Spec => []SemCountIsQueue
<1>1. KInv => SemCountIsQueue
  BY DEF KInv, Semaphores
<1> QED
  BY KInductive, <1>1, PTL

\* send() wakes whoever waits for the message, and receive() goes on only with one.
THEOREM MessageWakesHolds == Spec => []MessageWakes
<1>1. KInv => MessageWakes
  BY DEF KInv, Messages
<1> QED
  BY KInductive, <1>1, PTL

-------------------------------------------------------------------------------
\* The current process has the highest priority, and the delta list says how long the
\* sleepers have left.

\* The keys of the ready list descend; and unless a reschedule is pending, or chprio() has
\* not seen one, no key is above the current process's priority.
Order ==
    /\ prprio \in [Proc -> Nat]
    /\ qkey \in [Proc -> Int]
    /\ stale \in BOOLEAN
    /\ Descends(queue[readylist], qkey)
    /\ ((Defer.ndefers = 0 \/ ~Defer.attempt) /\ ~stale) =>
          \A i \in 1..Len(queue[readylist]) : qkey[queue[readylist][i]] <= prprio[currpid]

\* What resched() is given, apart from the states: lists, keys and priorities.
Given(st, q, k) ==
    /\ st \in [Proc -> State]
    /\ q \in [Queue -> Seq(Proc)]
    /\ k \in [Proc -> Int]
    /\ prprio \in [Proc -> Nat] /\ prprio' = prprio
    /\ stale \in BOOLEAN
    /\ currpid \in Proc
    /\ Descends(q[readylist], k)

\* What it leaves: it moves no process that is neither current nor ready.
Settled(st, q, k) ==
    /\ qkey' \in [Proc -> Int] /\ stale' \in BOOLEAN
    /\ Descends(queue'[readylist], qkey')
    /\ queue'[sleepq] = q[sleepq]
    /\ \A y \in Proc : (y # currpid \/ st[y] # "CURR") => qkey'[y] = k[y]
    /\ \A y \in Proc : y # currpid /\ ~On(y, q[readylist]) => prstate'[y] = st[y]

Topped ==
    ~stale' => \A i \in 1..Len(queue'[readylist]) : qkey'[queue'[readylist][i]] <= prprio'[currpid']

LEMMA DispatchOrder ==
    ASSUME NEW st, NEW q, NEW k, Given(st, q, k), Dispatch(st, q, k)
    PROVE  /\ Settled(st, q, k) /\ Topped
           /\ qkey' = k
<1> DEFINE R == q[readylist]
<1>1. /\ R # <<>>
      /\ currpid' = Head(R)
      /\ prstate' = [st EXCEPT ![Head(R)] = "CURR"]
      /\ queue' = [q EXCEPT ![readylist] = Tail(R)]
      /\ qkey' = k
      /\ stale' = (k[Head(R)] # prprio[Head(R)])
  BY DEF Dispatch
<1>2. /\ st \in [Proc -> State] /\ q \in [Queue -> Seq(Proc)] /\ k \in [Proc -> Int]
      /\ prprio' = prprio
  BY DEF Given
<1>3. R \in Seq(Proc) /\ Descends(R, k)
  BY Distinct, <1>2 DEF Given
<1>4. /\ queue'[readylist] = Tail(R)
      /\ queue'[sleepq] = q[sleepq]
  BY <1>1, <1>2, Distinct
<1> HIDE DEF R
<1>5. /\ Descends(Tail(R), k)
      /\ \A i \in 1..Len(Tail(R)) : k[Tail(R)[i]] <= k[Head(R)]
  BY <1>1, <1>3, TailDescends
<1>6. Topped
  BY <1>1, <1>2, <1>4, <1>5 DEF Topped
<1>7. \E i \in 1..Len(R) : R[i] = Head(R)
  <2>1. Len(R) \in Nat /\ Len(R) >= 1 /\ Head(R) = R[1]
    BY <1>1, <1>3, LenProperties, EmptySeq, HeadTailProperties
  <2> QED
    BY <2>1
<1>8. \A y \in Proc : ~On(y, R) => prstate'[y] = st[y]
  BY <1>1, <1>2, <1>7 DEF On
<1>9. stale' \in BOOLEAN
  BY <1>1
<1> QED
  BY <1>1, <1>2, <1>4, <1>5, <1>6, <1>8, <1>9 DEF Settled, R

LEMMA SwitchOrder ==
    ASSUME NEW st, NEW q, NEW k, Given(st, q, k), ~On(currpid, q[readylist]), Switch(st, q, k)
    PROVE  Settled(st, q, k) /\ Topped
<1> DEFINE R == q[readylist]
<1>t. /\ st \in [Proc -> State] /\ q \in [Queue -> Seq(Proc)] /\ k \in [Proc -> Int]
      /\ prprio \in [Proc -> Nat] /\ prprio' = prprio /\ currpid \in Proc
      /\ R \in Seq(Proc) /\ Descends(R, k)
  BY Distinct DEF Given
<1>1. CASE st[currpid] = "CURR" /\ ~Outranked(q, k)
  <2>1. prstate' = st /\ queue' = q /\ qkey' = k /\ stale' = FALSE /\ currpid' = currpid
    BY <1>1 DEF Switch, Dispatch
  <2>2. ASSUME NEW i \in 1..Len(R)
        PROVE  k[R[i]] <= prprio[currpid]
    <3>1. Len(R) \in Nat /\ R # <<>> /\ 1 \in 1..Len(R) /\ R[1] \in Proc /\ R[i] \in Proc
      BY <1>t, EmptySeq, LenProperties, ElementOfSeq
    <3>2. Head(R) = R[1]
      BY <1>t, <3>1, HeadTailProperties
    <3>3. ~(prprio[currpid] <= k[R[1]])
      BY <1>1, <3>1, <3>2 DEF Outranked
    <3>4. k[R[i]] <= k[R[1]]
      BY <1>t, <3>1 DEF Descends
    <3>5. k[R[i]] \in Int /\ k[R[1]] \in Int /\ prprio[currpid] \in Int
      BY <1>t, <3>1
    <3> QED
      BY <3>3, <3>4, <3>5
  <2>3. Topped
    BY <1>t, <2>1, <2>2 DEF Topped
  <2> QED
    BY <1>t, <2>1, <2>3 DEF Settled
<1>2. CASE st[currpid] = "CURR" /\ Outranked(q, k)
  <2> DEFINE u == [st EXCEPT ![currpid] = "READY"]
             kk == [k EXCEPT ![currpid] = prprio[currpid]]
             w(r) == [q EXCEPT ![readylist] = r]
  <2>1. PICK r \in Insert(R, k, currpid, prprio[currpid]) : Dispatch(u, w(r), kk)
    BY <1>2 DEF Switch
  <2>2. /\ r \in Seq(Proc)
        /\ Descends(r, kk)
        /\ \A i \in 1..Len(r) : r[i] = currpid \/ On(r[i], R)
    <3>1. prprio[currpid] \in Int
      BY <1>t
    <3>2. ~On(currpid, R)
      OBVIOUS
    <3> HIDE DEF R
    <3> QED
      BY <1>t, <3>1, <3>2, InsertDescends
  <2>3. /\ u \in [Proc -> State] /\ kk \in [Proc -> Int] /\ w(r) \in [Queue -> Seq(Proc)]
        /\ w(r)[readylist] = r /\ w(r)[sleepq] = q[sleepq]
        /\ \A y \in Proc : y # currpid => u[y] = st[y] /\ kk[y] = k[y]
    BY <1>t, <2>2, Distinct DEF State
  <2> HIDE DEF u, kk, w
  <2>4. Given(u, w(r), kk)
    BY <2>2, <2>3 DEF Given
  <2>5. Settled(u, w(r), kk) /\ Topped
    BY <2>1, <2>4, DispatchOrder
  <2>6. \A y \in Proc : y # currpid /\ ~On(y, R) => ~On(y, r)
    BY <2>2 DEF On
  <2>7. \A y \in Proc : y # currpid => qkey'[y] = k[y]
    BY <2>3, <2>5 DEF Settled
  <2>8. \A y \in Proc : y # currpid /\ ~On(y, q[readylist]) => prstate'[y] = st[y]
    BY <2>3, <2>5, <2>6 DEF Settled
  <2> QED
    BY <1>2, <2>3, <2>5, <2>7, <2>8 DEF Settled
<1>3. CASE st[currpid] # "CURR" /\ Dispatch(st, q, k)
  BY <1>3, DispatchOrder
<1> QED
  BY <1>1, <1>2, <1>3 DEF Switch

LEMMA ReschedOrder ==
    ASSUME NEW st, NEW q, NEW k, Given(st, q, k), ~On(currpid, q[readylist]),
           Defer \in [ndefers : Nat, attempt : BOOLEAN], resched(st, q, k)
    PROVE  Settled(st, q, k) /\ Order'
<1>1. CASE Defer.ndefers > 0
  <2>1. /\ Defer' = [Defer EXCEPT !.attempt = TRUE]
        /\ prstate' = st /\ queue' = q /\ qkey' = k /\ currpid' = currpid /\ stale' = stale
    BY <1>1 DEF resched
  <2>2. Settled(st, q, k)
    BY <2>1 DEF Given, Settled
  <2>3. Defer'.ndefers # 0 /\ Defer'.attempt
    BY <1>1, <2>1
  <2> QED
    BY <2>1, <2>2, <2>3 DEF Given, Settled, Order
<1>2. CASE Defer.ndefers = 0
  <2>1. Switch(st, q, k)
    BY <1>2 DEF resched
  <2>2. Settled(st, q, k) /\ Topped
    BY <2>1, SwitchOrder
  <2> QED
    BY <2>2 DEF Given, Settled, Topped, Order
<1> QED
  BY <1>1, <1>2

\* ready() for a process that is on neither list.
LEMMA ReadyOrder ==
    ASSUME NEW p \in Proc, NEW st, NEW q, NEW k, Given(st, q, k),
           ~On(p, q[readylist]), p # currpid, ~On(currpid, q[readylist]),
           Defer \in [ndefers : Nat, attempt : BOOLEAN], ready(p, st, q, k)
    PROVE  /\ Order'
           /\ queue'[sleepq] = q[sleepq]
           /\ \A y \in Proc : y # currpid /\ y # p => qkey'[y] = k[y]
           /\ \A y \in Proc : y # currpid /\ y # p /\ ~On(y, q[readylist]) => prstate'[y] = st[y]
<1> DEFINE R == q[readylist]
           u == [st EXCEPT ![p] = "READY"]
           kk == [k EXCEPT ![p] = prprio[p]]
           w(r) == [q EXCEPT ![readylist] = r]
<1>t. /\ st \in [Proc -> State] /\ q \in [Queue -> Seq(Proc)] /\ k \in [Proc -> Int]
      /\ prprio \in [Proc -> Nat] /\ currpid \in Proc
      /\ R \in Seq(Proc) /\ Descends(R, k) /\ ~On(p, R)
  BY Distinct DEF Given
<1>1. PICK r \in Insert(R, k, p, prprio[p]) : resched(u, w(r), kk)
  BY DEF ready
<1>2. /\ r \in Seq(Proc)
      /\ Descends(r, kk)
      /\ \A i \in 1..Len(r) : r[i] = p \/ On(r[i], R)
  <2>1. prprio[p] \in Int
    BY <1>t
  <2> HIDE DEF R
  <2> QED
    BY <1>t, <2>1, InsertDescends
<1>3. /\ u \in [Proc -> State] /\ kk \in [Proc -> Int] /\ w(r) \in [Queue -> Seq(Proc)]
      /\ w(r)[readylist] = r /\ w(r)[sleepq] = q[sleepq]
      /\ \A y \in Proc : y # p => u[y] = st[y] /\ kk[y] = k[y]
  BY <1>t, <1>2, Distinct DEF State
<1> HIDE DEF u, kk, w
<1>4. Given(u, w(r), kk)
  BY <1>2, <1>3 DEF Given
<1>5. ~On(currpid, r)
  BY <1>2 DEF On
<1>6. Settled(u, w(r), kk) /\ Order'
  BY <1>1, <1>3, <1>4, <1>5, ReschedOrder
<1>7. \A y \in Proc : y # p /\ ~On(y, R) => ~On(y, r)
  BY <1>2 DEF On
<1>8. \A y \in Proc : y # currpid /\ y # p /\ ~On(y, R) => prstate'[y] = st[y]
  BY <1>3, <1>6, <1>7 DEF Settled
<1> QED
  BY <1>3, <1>6, <1>8 DEF Settled

\* Who is on the two lists.
LEMMA Lists ==
    ASSUME KInv
    PROVE  /\ prstate \in [Proc -> State] /\ queue \in [Queue -> Seq(Proc)]
           /\ currpid \in Proc /\ prstate[currpid] = "CURR"
           /\ Defer \in [ndefers : Nat, attempt : BOOLEAN]
           /\ queue[readylist] \in Seq(Proc) /\ queue[sleepq] \in Seq(Proc) /\ Once(queue[sleepq])
           /\ \A y \in Proc : On(y, queue[readylist]) <=> prstate[y] = "READY"
           /\ \A y \in Proc : On(y, queue[sleepq]) <=> prstate[y] \in {"SLEEP", "RECTIM"}
           /\ ~On(currpid, queue[readylist]) /\ ~On(currpid, queue[sleepq])
<1>1. /\ Good(prstate, prsem, queue) /\ currpid \in Proc /\ prstate[currpid] = "CURR"
      /\ Defer \in [ndefers : Nat, attempt : BOOLEAN]
  BY DEF KInv, Processes, OneCurrent, Control
<1>2. /\ prstate \in [Proc -> State] /\ queue \in [Queue -> Seq(Proc)]
      /\ prsem \in [Proc -> Sem \cup {NoSem}]
      /\ \A x \in Queue : Once(queue[x])
      /\ \A x \in Queue, y \in Proc : On(y, queue[x]) <=> Home(prstate[y], prsem[y]) = x
  BY <1>1 DEF Good
<1>3. \A y \in Proc : /\ Home(prstate[y], prsem[y]) = readylist <=> prstate[y] = "READY"
                      /\ Home(prstate[y], prsem[y]) = sleepq <=> prstate[y] \in {"SLEEP", "RECTIM"}
  BY <1>2, HomeReady
<1>4. \A y \in Proc : /\ On(y, queue[readylist]) <=> prstate[y] = "READY"
                      /\ On(y, queue[sleepq]) <=> prstate[y] \in {"SLEEP", "RECTIM"}
  BY <1>2, <1>3, Distinct
<1> QED
  BY <1>1, <1>2, <1>4, Distinct

-------------------------------------------------------------------------------
\* What a step does to the scheduler is one of a few things.

SameLoop == op'.kind = "wakeup" <=> op.kind = "wakeup"

\* Nobody moves; rescheduling may be deferred from here on.
Stays ==
    /\ UNCHANGED <<currpid, queue, qkey, left>>
    /\ Defer' = Defer \/ (Defer.ndefers = 0 /\ ~Defer'.attempt)
    /\ SameLoop
    /\ prprio' \in [Proc -> Nat] /\ stale' \in BOOLEAN
    /\ ~stale' => ~stale /\ prprio'[currpid] = prprio[currpid]
    /\ \A p \in Proc : prstate[p] = "SLEEP" => prstate'[p] = "SLEEP"

\* The current process keeps the processor, or leaves it for a state with no timer.
Blocks ==
    \E st \in [Proc -> State], q \in [Queue -> Seq(Proc)] :
        /\ resched(st, q, qkey)
        /\ q[readylist] = queue[readylist] /\ q[sleepq] = queue[sleepq]
        /\ \A y \in Proc : y # currpid => st[y] = prstate[y]
        /\ UNCHANGED <<prprio, left>> /\ SameLoop

\* A process that no timer holds is made ready.
Releases ==
    \E p \in Proc, q \in [Queue -> Seq(Proc)] :
        /\ ready(p, prstate, q, qkey)
        /\ prstate[p] \in {"SUSP", "WAIT", "RECV"}
        /\ q[readylist] = queue[readylist] /\ q[sleepq] = queue[sleepq]
        /\ UNCHANGED <<prprio, left>> /\ SameLoop

\* A message ends a timed wait.
Interrupts ==
    \E p \in Proc :
        /\ prstate[p] = "RECTIM"
        /\ ready(p, prstate, getitem(p), unsleepKeys(p))
        /\ left' = [left EXCEPT ![p] = 0]
        /\ UNCHANGED prprio /\ SameLoop

\* The current process goes to sleep.
Sleeps ==
    \E d \in (Delays \ {0}) \cup Timeouts, v \in {"SLEEP", "RECTIM"} :
        /\ insertd(d, v)
        /\ op.kind = "none"
        /\ UNCHANGED prprio /\ SameLoop

\* A process is taken from its list: a suspension, or a kill.
Leaves ==
    \E p \in Proc, v \in {"SUSP", "FREE"} :
        /\ prstate' = [prstate EXCEPT ![p] = v]
        /\ queue' = getitem(p)
        /\ \/ prstate[p] \in {"READY", "WAIT"} /\ UNCHANGED <<qkey, left>>
           \/ /\ prstate[p] \in {"SLEEP", "RECTIM"} /\ v = "FREE"
              /\ qkey' = unsleepKeys(p) /\ left' = [left EXCEPT ![p] = 0]
        /\ UNCHANGED <<currpid, Defer, stale, prprio>> /\ SameLoop

\* The end of a deferred loop.
Stops ==
    /\ DeferStop
    /\ op.kind = "wakeup" => (queue[sleepq] # <<>> => qkey[Head(queue[sleepq])] > 0)
    /\ UNCHANGED <<prprio, left>>

Shape == \/ Stays \/ Blocks \/ Releases \/ Interrupts \/ Sleeps \/ Leaves \/ Stops
         \/ clkhandler \/ wakeupLoop

-------------------------------------------------------------------------------
\* The ready list.

LEMMA GivenHere ==
    ASSUME KInv, Order, prprio' = prprio,
           NEW st \in [Proc -> State], NEW q \in [Queue -> Seq(Proc)],
           NEW k \in [Proc -> Int], q[readylist] = queue[readylist],
           \A y \in Proc : On(y, queue[readylist]) => k[y] = qkey[y]
    PROVE  Given(st, q, k)
<1>1. \A i \in 1..Len(queue[readylist]) : k[queue[readylist][i]] = qkey[queue[readylist][i]]
  BY Lists, ElementOfSeq DEF On
<1>2. Descends(q[readylist], k)
  BY <1>1 DEF Order, Descends
<1> QED
  BY <1>2, Lists DEF Order, Given

LEMMA StaysOrder == ASSUME KInv, Order, Stays PROVE Order'
BY DEF Order, Stays

LEMMA BlocksOrder == ASSUME KInv, Order, Blocks PROVE Order'
<1>1. PICK st \in [Proc -> State], q \in [Queue -> Seq(Proc)] :
         /\ resched(st, q, qkey)
         /\ q[readylist] = queue[readylist]
         /\ prprio' = prprio
  BY DEF Blocks
<1>2. Given(st, q, qkey)
  BY <1>1, GivenHere DEF Order
<1> QED
  BY <1>1, <1>2, Lists, ReschedOrder

LEMMA ReleasesOrder == ASSUME KInv, Order, Releases PROVE Order'
<1>1. PICK p \in Proc, q \in [Queue -> Seq(Proc)] :
         /\ ready(p, prstate, q, qkey)
         /\ prstate[p] \in {"SUSP", "WAIT", "RECV"}
         /\ q[readylist] = queue[readylist]
         /\ prprio' = prprio
  BY DEF Releases
<1>2. Given(prstate, q, qkey)
  BY <1>1, Lists, GivenHere DEF Order
<1>3. ~On(p, q[readylist]) /\ p # currpid /\ ~On(currpid, q[readylist])
  BY <1>1, Lists
<1> QED
  BY <1>1, <1>2, <1>3, Lists, ReadyOrder

\* The keys that unsleep() changes are on the delta list.
LEMMA UnsleepKeys ==
    ASSUME KInv, Order, NEW p \in Proc
    PROVE  /\ unsleepKeys(p) \in [Proc -> Int]
           /\ \A y \in Proc : ~On(y, queue[sleepq]) => unsleepKeys(p)[y] = qkey[y]
<1> DEFINE s == queue[sleepq]
<1>1. \A y \in Proc : unsleepKeys(p)[y] = IF \E i \in 1..(Len(s) - 1) : s[i] = p /\ s[i + 1] = y
                                          THEN qkey[y] + qkey[p] ELSE qkey[y]
  BY DEF unsleepKeys
<1>2. qkey \in [Proc -> Int]
  BY DEF Order
<1>3. unsleepKeys(p) \in [Proc -> Int]
  BY <1>2 DEF unsleepKeys
<1>4. Len(s) \in Nat
  BY Lists, LenProperties
<1>5. \A i \in 1..(Len(s) - 1) : i + 1 \in 1..Len(s)
  BY <1>4
<1> QED
  BY <1>1, <1>3, <1>5 DEF On

LEMMA InterruptsOrder == ASSUME KInv, Order, Interrupts PROVE Order'
<1>1. PICK p \in Proc :
         /\ prstate[p] = "RECTIM"
         /\ ready(p, prstate, getitem(p), unsleepKeys(p))
         /\ prprio' = prprio
  BY DEF Interrupts
<1>2. getitem(p) \in [Queue -> Seq(Proc)] /\ getitem(p)[readylist] = queue[readylist]
  BY <1>1, GetitemStep, Distinct DEF Home
<1>3. \A y \in Proc : On(y, queue[readylist]) => unsleepKeys(p)[y] = qkey[y]
  BY UnsleepKeys, Lists
<1>4. Given(prstate, getitem(p), unsleepKeys(p))
  BY <1>1, <1>2, <1>3, Lists, UnsleepKeys, GivenHere
<1>5. ~On(p, getitem(p)[readylist]) /\ p # currpid /\ ~On(currpid, getitem(p)[readylist])
  BY <1>1, <1>2, Lists
<1> QED
  BY <1>1, <1>4, <1>5, Lists, ReadyOrder

LEMMA LeavesOrder == ASSUME KInv, Order, Leaves PROVE Order'
<1>1. PICK p \in Proc :
         /\ queue' = getitem(p)
         /\ qkey' = qkey \/ qkey' = unsleepKeys(p)
         /\ UNCHANGED <<currpid, Defer, stale, prprio>>
  BY DEF Leaves
<1> DEFINE r == Unlink(queue[readylist], p)
<1>2. queue'[readylist] = r
  BY <1>1, Distinct DEF getitem
<1>3. Descends(r, qkey) /\ \A i \in 1..Len(r) : On(r[i], queue[readylist])
  <2>1. queue[readylist] \in Seq(Proc) /\ Descends(queue[readylist], qkey)
    BY Lists DEF Order
  <2>2. \A s \in Seq(Proc) : Descends(s, qkey) =>
           /\ Descends(Unlink(s, p), qkey)
           /\ \A i \in 1..Len(Unlink(s, p)) : On(Unlink(s, p)[i], s)
    BY UnlinkDescends
  <2> QED
    BY <2>1, <2>2
<1>4. qkey' \in [Proc -> Int] /\ \A y \in Proc : On(y, queue[readylist]) => qkey'[y] = qkey[y]
  <2>1. /\ unsleepKeys(p) \in [Proc -> Int]
        /\ \A y \in Proc : ~On(y, queue[sleepq]) => unsleepKeys(p)[y] = qkey[y]
    BY UnsleepKeys
  <2>2. \A y \in Proc : On(y, queue[readylist]) => ~On(y, queue[sleepq])
    BY Lists
  <2>3. qkey \in [Proc -> Int]
    BY DEF Order
  <2> QED
    BY <1>1, <2>1, <2>2, <2>3
<1> HIDE DEF r
<1>5. \A i \in 1..Len(r) : r[i] \in Proc
  <2>1. \A i \in 1..Len(queue[readylist]) : queue[readylist][i] \in Proc
    BY Lists, ElementOfSeq
  <2> QED
    BY <1>3, <2>1 DEF On
<1>6. \A i \in 1..Len(r) : qkey'[r[i]] = qkey[r[i]]
  BY <1>3, <1>4, <1>5
<1>7. Descends(queue'[readylist], qkey')
  BY <1>2, <1>3, <1>6 DEF Descends
<1>8. ((Defer.ndefers = 0 \/ ~Defer.attempt) /\ ~stale) =>
         \A i \in 1..Len(r) : qkey[r[i]] <= prprio[currpid]
  BY <1>3 DEF Order, On
<1> QED
  BY <1>1, <1>2, <1>4, <1>6, <1>7, <1>8 DEF Order

LEMMA StopsOrder == ASSUME KInv, Order, Stops PROVE Order'
<1>1. CASE Defer.ndefers = 1 /\ Defer.attempt
  <2>1. Switch(prstate, queue, qkey) /\ prprio' = prprio
    BY <1>1 DEF Stops, DeferStop
  <2>2. Given(prstate, queue, qkey)
    BY <2>1, Lists, GivenHere DEF Order
  <2>3. Settled(prstate, queue, qkey) /\ Topped
    BY <2>1, <2>2, Lists, SwitchOrder
  <2> QED
    BY <2>1, <2>3 DEF Order, Settled, Topped
<1>2. CASE ~(Defer.ndefers = 1 /\ Defer.attempt)
  <2>1. /\ Defer' = [Defer EXCEPT !.ndefers = @ - 1]
        /\ UNCHANGED <<prstate, currpid, queue, qkey, stale, prprio>>
    BY <1>2 DEF Stops, DeferStop
  <2>2. Defer.ndefers \in {0, 1}
    BY DEF KInv, Control
  <2>3. Defer'.attempt = Defer.attempt /\ Defer'.ndefers = Defer.ndefers - 1
    BY <2>1, Lists
  <2>4. (Defer'.ndefers = 0 \/ ~Defer'.attempt) => (Defer.ndefers = 0 \/ ~Defer.attempt)
    BY <1>2, <2>2, <2>3
  <2> QED
    BY <2>1, <2>4 DEF Order
<1> QED
  BY <1>1, <1>2

LEMMA Delay ==
    ASSUME NEW d \in (Delays \ {0}) \cup Timeouts
    PROVE  d \in Nat /\ AsInt32(d) \in Int
<1>1. Half \in Nat /\ d \in 0..(2 * Half - 1) \cup 0..(Half - 1)
  BY ArgumentAssumption
<1> QED
  BY <1>1 DEF AsInt32

\* insertd() leaves the ready list alone; what it does to the delta list.
LEMMA InsertdOrder ==
    ASSUME KInv, Order, op.kind = "none", prprio' = prprio,
           NEW d \in (Delays \ {0}) \cup Timeouts, NEW v \in {"SLEEP", "RECTIM"}, insertd(d, v)
    PROVE  /\ Order'
           /\ \E i \in DeltaPlaces(queue[sleepq], qkey, AsInt32(d)) :
                 /\ queue'[sleepq] = InsertAfter(queue[sleepq], i, currpid)
                 /\ qkey'[currpid] = AsInt32(d) - DueIn(queue[sleepq], qkey, i)
                 /\ \A y \in Proc : y # currpid =>
                       qkey'[y] = IF i < Len(queue[sleepq]) /\ y = queue[sleepq][i + 1]
                                  THEN qkey[y] - (AsInt32(d) - DueIn(queue[sleepq], qkey, i))
                                  ELSE qkey[y]
           /\ \A y \in Proc : y # currpid /\ prstate[y] # "READY" => prstate'[y] = prstate[y]
           /\ left' = [left EXCEPT ![currpid] = d]
<1> DEFINE s == queue[sleepq]
           n == Len(s)
           u == [prstate EXCEPT ![currpid] = v]
           key(i) == AsInt32(d) - DueIn(s, qkey, i)
           next(i) == IF i < n THEN {s[i + 1]} ELSE {}
           q(i) == [queue EXCEPT ![sleepq] = InsertAfter(s, i, currpid)]
           k(i) == [p \in Proc |-> IF p = currpid THEN key(i)
                                   ELSE IF p \in next(i) THEN qkey[p] - key(i) ELSE qkey[p]]
<1>1. PICK i \in DeltaPlaces(s, qkey, AsInt32(d)) :
         resched(u, q(i), k(i)) /\ left' = [left EXCEPT ![currpid] = d]
  BY DEF insertd
<1>2. s \in Seq(Proc) /\ Once(s) /\ ~On(currpid, s) /\ qkey \in [Proc -> Int] /\ currpid \in Proc
  BY Lists DEF Order
<1>3. n \in Nat /\ i \in 0..n
  BY <1>1, <1>2, LenProperties DEF DeltaPlaces
<1>4. key(i) \in Int
  <2>1. DueIn(s, qkey, i) \in Int
    BY <1>2, <1>3, DueInStep
  <2> QED
    BY <2>1, Delay
<1>5. InsertAfter(s, i, currpid) \in Seq(Proc)
  BY <1>2, <1>3, InsertAfterOnce
<1>6. k(i) \in [Proc -> Int]
  BY <1>2, <1>4
<1>7. /\ k(i)[currpid] = key(i)
      /\ \A y \in Proc : y # currpid =>
            k(i)[y] = IF i < n /\ y = s[i + 1] THEN qkey[y] - key(i) ELSE qkey[y]
  BY <1>2
<1>8. \A y \in Proc : On(y, queue[readylist]) => k(i)[y] = qkey[y]
  <2>1. i < n => On(s[i + 1], s)
    BY <1>3 DEF On
  <2>2. \A y \in Proc : On(y, queue[readylist]) => ~On(y, s) /\ y # currpid
    BY Lists
  <2> QED
    BY <1>7, <2>1, <2>2
<1>9. /\ q(i) \in [Queue -> Seq(Proc)]
      /\ q(i)[readylist] = queue[readylist] /\ q(i)[sleepq] = InsertAfter(s, i, currpid)
  BY <1>5, Lists, Distinct
<1>10. u \in [Proc -> State] /\ u[currpid] = v /\ \A y \in Proc : y # currpid => u[y] = prstate[y]
  BY Lists DEF State
<1>a. resched(u, q(i), k(i))
  BY <1>1
<1> HIDE DEF q, k, u, s, n, key
<1>11. Given(u, q(i), k(i))
  BY <1>6, <1>8, <1>9, <1>10, GivenHere
<1>12. Settled(u, q(i), k(i)) /\ Order'
  BY <1>9, <1>11, <1>a, Lists, ReschedOrder
<1>13. \A y \in Proc : qkey'[y] = k(i)[y]
  BY <1>10, <1>12 DEF Settled
<1>14. queue'[sleepq] = InsertAfter(s, i, currpid)
  BY <1>9, <1>12 DEF Settled
<1>15. \A y \in Proc : y # currpid /\ prstate[y] # "READY" => prstate'[y] = prstate[y]
  BY <1>9, <1>10, <1>12, Lists DEF Settled
<1>16. /\ qkey'[currpid] = key(i)
       /\ \A y \in Proc : y # currpid =>
             qkey'[y] = IF i < n /\ y = s[i + 1] THEN qkey[y] - key(i) ELSE qkey[y]
  BY <1>2, <1>7, <1>13
<1> QED
  BY <1>1, <1>12, <1>14, <1>15, <1>16 DEF s, n, key

LEMMA SleepsOrder == ASSUME KInv, Order, Sleeps PROVE Order'
BY InsertdOrder DEF Sleeps

LEMMA ClkhandlerOrder == ASSUME KInv, Order, clkhandler PROVE Order'
<1> DEFINE s == queue[sleepq]
<1>1. /\ qkey' = IF s = <<>> THEN qkey ELSE [qkey EXCEPT ![Head(s)] = @ - 1]
      /\ \/ UNCHANGED <<Defer, op>>
         \/ DeferStart([kind |-> "wakeup", sem |-> NoSem, n |-> 0])
      /\ UNCHANGED <<prstate, currpid, queue, stale, prprio>>
      /\ op.kind = "none"
  BY DEF clkhandler, procVars, At
<1>2. s # <<>> => Head(s) \in Proc /\ On(Head(s), s)
  BY Lists, TailOnce
<1>3. qkey' \in [Proc -> Int] /\ \A y \in Proc : ~On(y, s) => qkey'[y] = qkey[y]
  BY <1>1, <1>2 DEF Order
<1>4. \A i \in 1..Len(queue[readylist]) : qkey'[queue[readylist][i]] = qkey[queue[readylist][i]]
  BY <1>3, Lists, ElementOfSeq DEF On
<1>5. Descends(queue'[readylist], qkey')
  BY <1>1, <1>4 DEF Order, Descends
<1>6. (Defer'.ndefers = 0 \/ ~Defer'.attempt) => (Defer.ndefers = 0 \/ ~Defer.attempt)
  BY <1>1, Quiet
<1> QED
  BY <1>1, <1>3, <1>4, <1>5, <1>6 DEF Order

\* wakeup() takes the head of the delta list and makes it ready.
LEMMA WakeupOrder ==
    ASSUME KInv, Order, wakeupLoop
    PROVE  /\ Order'
           /\ queue[sleepq] # <<>> /\ Head(queue[sleepq]) \in Proc /\ op.kind = "wakeup"
           /\ qkey[Head(queue[sleepq])] <= 0
           /\ queue'[sleepq] = Tail(queue[sleepq])
           /\ \A y \in Proc : y # currpid /\ y # Head(queue[sleepq]) => qkey'[y] = qkey[y]
           /\ \A y \in Proc : y # currpid /\ y # Head(queue[sleepq]) /\ prstate[y] # "READY" =>
                 prstate'[y] = prstate[y]
           /\ left' = [left EXCEPT ![Head(queue[sleepq])] = 0] /\ op' = op
<1> DEFINE p == Head(queue[sleepq])
           q == [queue EXCEPT ![sleepq] = Tail(queue[sleepq])]
<1>1. /\ queue[sleepq] # <<>> /\ qkey[p] <= 0 /\ op.kind = "wakeup"
      /\ ready(p, prstate, q, qkey)
      /\ left' = [left EXCEPT ![p] = 0] /\ prprio' = prprio /\ op' = op
  BY DEF wakeupLoop, procVars
<1>2. p \in Proc /\ On(p, queue[sleepq]) /\ Tail(queue[sleepq]) \in Seq(Proc)
  BY <1>1, Lists, TailOnce
<1>3. /\ q \in [Queue -> Seq(Proc)]
      /\ q[readylist] = queue[readylist] /\ q[sleepq] = Tail(queue[sleepq])
  BY <1>2, Lists, Distinct
<1>a. ready(p, prstate, q, qkey)
  BY <1>1
<1>4. ~On(p, queue[readylist]) /\ p # currpid
  BY <1>2, Lists
<1> HIDE DEF p, q
<1>5. Given(prstate, q, qkey)
  BY <1>1, <1>3, Lists, GivenHere DEF Order
<1>6. /\ Order'
      /\ queue'[sleepq] = q[sleepq]
      /\ \A y \in Proc : y # currpid /\ y # p => qkey'[y] = qkey[y]
      /\ \A y \in Proc : y # currpid /\ y # p /\ ~On(y, q[readylist]) => prstate'[y] = prstate[y]
  <2>1. /\ ~On(p, q[readylist]) /\ ~On(currpid, q[readylist])
        /\ Defer \in [ndefers : Nat, attempt : BOOLEAN]
    BY <1>3, <1>4, Lists
  <2> QED
    BY <1>2, <1>4, <1>5, <1>a, <2>1, ReadyOrder
<1>7. \A y \in Proc : y # currpid /\ y # p /\ prstate[y] # "READY" => prstate'[y] = prstate[y]
  BY <1>3, <1>6, Lists
<1> QED
  BY <1>1, <1>2, <1>3, <1>6, <1>7 DEF p

LEMMA ShapeOrder == ASSUME KInv, Order, Shape PROVE Order'
BY StaysOrder, BlocksOrder, ReleasesOrder, InterruptsOrder, SleepsOrder, LeavesOrder, StopsOrder,
   ClkhandlerOrder, WakeupOrder DEF Shape

-------------------------------------------------------------------------------
\* The delta list.

\* The delays that reach insertd() as they are: from 2^31 on they turn negative, and
\* recvtime(0) puts a process on the list whose time is over.
Timely == Delays \subseteq 0..(Half - 1) /\ 0 \notin Timeouts

\* The keys are the steps between the delays; and outside of wakeup() nobody on the list
\* has slept its time.
Clocked ==
    /\ left \in [Proc -> Int]
    /\ Delta(queue[sleepq], qkey, left)
    /\ \A p \in Proc : On(p, queue[sleepq]) => left[p] >= IF op.kind = "wakeup" THEN 0 ELSE 1

\* The step of SleepsInFull.
InFull ==
    \A p \in Proc : (prstate[p] = "SLEEP" /\ prstate'[p] \notin {"SLEEP", "FREE"}) => left[p] <= 0

Ticks == KInv /\ Order /\ Clocked

\* The head is due first, in as much time as its key says.
LEMMA HeadDue ==
    ASSUME Ticks, queue[sleepq] # <<>>
    PROVE  /\ Head(queue[sleepq]) \in Proc /\ On(Head(queue[sleepq]), queue[sleepq])
           /\ left[Head(queue[sleepq])] = qkey[Head(queue[sleepq])]
           /\ qkey[Head(queue[sleepq])] \in Int
           /\ \A p \in Proc : On(p, queue[sleepq]) =>
                 left[p] \in Int /\ left[Head(queue[sleepq])] <= left[p]
<1> DEFINE s == queue[sleepq]
<1>1. s \in Seq(Proc) /\ Once(s)
  BY Lists DEF Ticks
<1>2. Len(s) \in Nat /\ Len(s) >= 1 /\ Head(s) = s[1]
  BY <1>1, LenProperties, EmptySeq, HeadTailProperties
<1>3. Head(s) \in Proc /\ On(Head(s), s)
  BY <1>1, TailOnce
<1>4. left[s[1]] = qkey[s[1]] /\ \A i \in 1..Len(s) : left[s[1]] <= left[s[i]]
  BY <1>2 DEF Ticks, Clocked, Delta
<1>5. \A p \in Proc : On(p, s) => left[s[1]] <= left[p]
  BY <1>4 DEF On
<1> QED
  BY <1>2, <1>3, <1>4, <1>5 DEF Ticks, Order, Clocked

\* A step that leaves the list alone, and the keys and delays on it.
LEMMA ClockedSame ==
    ASSUME Ticks, queue'[sleepq] = queue[sleepq], left' = left, SameLoop,
           \A y \in Proc : On(y, queue[sleepq]) => qkey'[y] = qkey[y]
    PROVE  Clocked'
<1>1. queue[sleepq] \in Seq(Proc) /\ left \in [Proc -> Int] /\ Delta(queue[sleepq], qkey, left)
  BY Lists DEF Ticks, Clocked
<1>2. Delta(queue[sleepq], qkey', left)
  BY <1>1, DeltaSame
<1> QED
  BY <1>1, <1>2 DEF Ticks, Clocked, SameLoop

LEMMA StaysClocked == ASSUME Ticks, Stays PROVE Clocked' /\ InFull
BY ClockedSame DEF Stays, InFull

LEMMA BlocksClocked == ASSUME Ticks, Blocks PROVE Clocked' /\ InFull
<1>1. PICK st \in [Proc -> State], q \in [Queue -> Seq(Proc)] :
         /\ resched(st, q, qkey)
         /\ q[readylist] = queue[readylist] /\ q[sleepq] = queue[sleepq]
         /\ \A y \in Proc : y # currpid => st[y] = prstate[y]
         /\ prprio' = prprio /\ left' = left /\ SameLoop
  BY DEF Blocks
<1>2. Given(st, q, qkey)
  BY <1>1, GivenHere DEF Ticks, Order
<1>3. Settled(st, q, qkey)
  BY <1>1, <1>2, Lists, ReschedOrder DEF Ticks
<1>4. \A y \in Proc : prstate[y] \in {"SLEEP", "RECTIM"} =>
         y # currpid /\ ~On(y, queue[readylist])
  BY Lists DEF Ticks
<1>5. \A y \in Proc : prstate[y] = "SLEEP" => prstate'[y] = "SLEEP"
  BY <1>1, <1>3, <1>4 DEF Settled
<1>6. \A y \in Proc : On(y, queue[sleepq]) => qkey'[y] = qkey[y]
  BY <1>3, <1>4, Lists DEF Settled, Ticks
<1> QED
  BY <1>1, <1>3, <1>5, <1>6, ClockedSame DEF Settled, InFull

LEMMA ReleasesClocked == ASSUME Ticks, Releases PROVE Clocked' /\ InFull
<1>1. PICK p \in Proc, q \in [Queue -> Seq(Proc)] :
         /\ ready(p, prstate, q, qkey)
         /\ prstate[p] \in {"SUSP", "WAIT", "RECV"}
         /\ q[readylist] = queue[readylist] /\ q[sleepq] = queue[sleepq]
         /\ prprio' = prprio /\ left' = left /\ SameLoop
  BY DEF Releases
<1>2. Given(prstate, q, qkey)
  BY <1>1, Lists, GivenHere DEF Ticks, Order
<1>3. ~On(p, q[readylist]) /\ p # currpid /\ ~On(currpid, q[readylist])
  BY <1>1, Lists DEF Ticks
<1>4. /\ queue'[sleepq] = q[sleepq]
      /\ \A y \in Proc : y # currpid /\ y # p => qkey'[y] = qkey[y]
      /\ \A y \in Proc : y # currpid /\ y # p /\ ~On(y, q[readylist]) => prstate'[y] = prstate[y]
  BY <1>1, <1>2, <1>3, Lists, ReadyOrder DEF Ticks
<1>5. \A y \in Proc : prstate[y] \in {"SLEEP", "RECTIM"} =>
         y # currpid /\ y # p /\ ~On(y, q[readylist])
  BY <1>1, Lists DEF Ticks
<1>6. \A y \in Proc : prstate[y] = "SLEEP" => prstate'[y] = "SLEEP"
  BY <1>4, <1>5
<1>7. \A y \in Proc : On(y, queue[sleepq]) => qkey'[y] = qkey[y]
  BY <1>4, <1>5, Lists DEF Ticks
<1> QED
  BY <1>1, <1>4, <1>6, <1>7, ClockedSame DEF InFull

\* p leaves the list, and its successor inherits its delay.
LEMMA UnsleepClocked ==
    ASSUME Ticks, NEW p \in Proc, prstate[p] \in {"SLEEP", "RECTIM"},
           queue'[sleepq] = getitem(p)[sleepq], left' = [left EXCEPT ![p] = 0], SameLoop,
           \A y \in Proc : On(y, queue[sleepq]) /\ y # p => qkey'[y] = unsleepKeys(p)[y]
    PROVE  Clocked'
<1> DEFINE s == queue[sleepq]
<1>1. /\ s \in Seq(Proc) /\ Once(s) /\ On(p, s)
      /\ qkey \in [Proc -> Int] /\ left \in [Proc -> Int] /\ Delta(s, qkey, left)
  BY Lists DEF Ticks, Order, Clocked
<1>2. queue'[sleepq] = Unlink(s, p)
  BY Distinct DEF getitem
<1>3. TakenOut(Proc, s, p, qkey, left, unsleepKeys(p), left')
  BY <1>1 DEF TakenOut, unsleepKeys
<1>4. Unlink(s, p) \in Seq(Proc) /\ \A y \in Proc : On(y, Unlink(s, p)) <=> y # p /\ On(y, s)
  BY <1>1, UnlinkOnce
<1> HIDE DEF s
<1>5. Delta(Unlink(s, p), unsleepKeys(p), left')
  BY <1>1, <1>3, DeltaUnlink
<1>6. \A y \in Proc : On(y, Unlink(s, p)) => qkey'[y] = unsleepKeys(p)[y]
  BY <1>4 DEF s
<1>7. Delta(Unlink(s, p), qkey', left')
  BY <1>4, <1>5, <1>6, DeltaSame
<1>8. \A y \in Proc : On(y, Unlink(s, p)) => On(y, queue[sleepq]) /\ left'[y] = left[y]
  BY <1>1, <1>4 DEF s
<1> QED
  BY <1>1, <1>2, <1>7, <1>8 DEF Ticks, Clocked, SameLoop

LEMMA InterruptsClocked == ASSUME Ticks, Interrupts PROVE Clocked' /\ InFull
<1>1. PICK p \in Proc :
         /\ prstate[p] = "RECTIM"
         /\ ready(p, prstate, getitem(p), unsleepKeys(p))
         /\ left' = [left EXCEPT ![p] = 0]
         /\ prprio' = prprio /\ SameLoop
  BY DEF Interrupts
<1>2. getitem(p) \in [Queue -> Seq(Proc)] /\ getitem(p)[readylist] = queue[readylist]
  BY <1>1, GetitemStep, Distinct DEF Home, Ticks
<1>3. /\ unsleepKeys(p) \in [Proc -> Int]
      /\ \A y \in Proc : On(y, queue[readylist]) => unsleepKeys(p)[y] = qkey[y]
  BY UnsleepKeys, Lists DEF Ticks
<1>4. Given(prstate, getitem(p), unsleepKeys(p))
  BY <1>1, <1>2, <1>3, Lists, GivenHere DEF Ticks
<1>5. ~On(p, getitem(p)[readylist]) /\ p # currpid /\ ~On(currpid, getitem(p)[readylist])
  BY <1>1, <1>2, Lists DEF Ticks
<1>6. /\ queue'[sleepq] = getitem(p)[sleepq]
      /\ \A y \in Proc : y # currpid /\ y # p => qkey'[y] = unsleepKeys(p)[y]
      /\ \A y \in Proc : y # currpid /\ y # p /\ ~On(y, getitem(p)[readylist]) =>
            prstate'[y] = prstate[y]
  BY <1>1, <1>4, <1>5, Lists, ReadyOrder DEF Ticks
<1>7. \A y \in Proc : prstate[y] = "SLEEP" => y # currpid /\ y # p /\ ~On(y, getitem(p)[readylist])
  BY <1>1, <1>2, Lists DEF Ticks
<1>8. \A y \in Proc : prstate[y] = "SLEEP" => prstate'[y] = "SLEEP"
  BY <1>6, <1>7
<1>9. \A y \in Proc : On(y, queue[sleepq]) /\ y # p => qkey'[y] = unsleepKeys(p)[y]
  BY <1>6, Lists DEF Ticks
<1> QED
  BY <1>1, <1>6, <1>8, <1>9, UnsleepClocked DEF InFull

LEMMA LeavesClocked == ASSUME Ticks, Leaves PROVE Clocked' /\ InFull
<1>1. PICK p \in Proc, v \in {"SUSP", "FREE"} :
         /\ prstate' = [prstate EXCEPT ![p] = v]
         /\ queue' = getitem(p)
         /\ \/ prstate[p] \in {"READY", "WAIT"} /\ UNCHANGED <<qkey, left>>
            \/ /\ prstate[p] \in {"SLEEP", "RECTIM"} /\ v = "FREE"
               /\ qkey' = unsleepKeys(p) /\ left' = [left EXCEPT ![p] = 0]
         /\ SameLoop
  BY DEF Leaves
<1>2. InFull
  BY <1>1, Lists DEF InFull, Ticks
<1>3. CASE prstate[p] \in {"READY", "WAIT"}
  <2>1. prsem[p] # sleepq
    BY Distinct DEF Ticks, KInv, Processes, Good
  <2>2. Home(prstate[p], prsem[p]) # sleepq
    BY <1>3, <2>1, Distinct DEF Home
  <2>3. queue'[sleepq] = queue[sleepq]
    BY <1>1, <2>2, GetitemStep, Distinct DEF Ticks
  <2> QED
    BY <1>1, <1>2, <1>3, <2>3, ClockedSame
<1>4. CASE prstate[p] \in {"SLEEP", "RECTIM"}
  BY <1>1, <1>2, <1>4, UnsleepClocked
<1> QED
  BY <1>1, <1>3, <1>4

LEMMA SleepsClocked == ASSUME Ticks, Timely, Sleeps PROVE Clocked' /\ InFull
<1> DEFINE s == queue[sleepq]
<1>1. PICK d \in (Delays \ {0}) \cup Timeouts, v \in {"SLEEP", "RECTIM"} :
         insertd(d, v) /\ op.kind = "none" /\ prprio' = prprio /\ SameLoop
  BY DEF Sleeps
<1>2. d \in Int /\ d >= 1 /\ AsInt32(d) = d
  <2>1. d \in 0..(Half - 1) /\ d # 0 /\ Half \in Nat
    BY ArgumentAssumption DEF Timely
  <2> QED
    BY <2>1 DEF AsInt32
<1>3. /\ \E i \in DeltaPlaces(s, qkey, AsInt32(d)) :
            /\ queue'[sleepq] = InsertAfter(s, i, currpid)
            /\ qkey'[currpid] = AsInt32(d) - DueIn(s, qkey, i)
            /\ \A y \in Proc : y # currpid =>
                  qkey'[y] = IF i < Len(s) /\ y = s[i + 1]
                             THEN qkey[y] - (AsInt32(d) - DueIn(s, qkey, i))
                             ELSE qkey[y]
      /\ \A y \in Proc : y # currpid /\ prstate[y] # "READY" => prstate'[y] = prstate[y]
      /\ left' = [left EXCEPT ![currpid] = d]
  BY <1>1, InsertdOrder DEF Ticks
<1>4. /\ s \in Seq(Proc) /\ Once(s)
      /\ ~On(currpid, s) /\ currpid \in Proc /\ prstate[currpid] = "CURR"
      /\ qkey \in [Proc -> Int] /\ left \in [Proc -> Int] /\ Delta(s, qkey, left)
  BY Lists DEF Ticks, Order, Clocked
<1>5. PICK i \in DeltaPlaces(s, qkey, d) :
            /\ queue'[sleepq] = InsertAfter(s, i, currpid)
            /\ qkey'[currpid] = d - DueIn(s, qkey, i)
            /\ \A y \in Proc : y # currpid =>
                  qkey'[y] = IF i < Len(s) /\ y = s[i + 1]
                             THEN qkey[y] - (d - DueIn(s, qkey, i))
                             ELSE qkey[y]
  BY <1>2, <1>3
<1>6. InFull
  BY <1>3, <1>4 DEF InFull
<1> HIDE DEF s
<1>7. PutIn(Proc, s, i, currpid, d, qkey, left, qkey', left')
  BY <1>3, <1>4, <1>5 DEF PutIn
<1>8. Delta(InsertAfter(s, i, currpid), qkey', left')
  BY <1>2, <1>4, <1>7, DeltaInsert
<1>9. \A y \in Proc : On(y, InsertAfter(s, i, currpid)) <=> y = currpid \/ On(y, s)
  <2>1. i \in 0..Len(s)
    BY DEF DeltaPlaces
  <2> QED
    BY <1>4, <2>1, InsertAfterOnce
<1>10. \A y \in Proc : On(y, queue'[sleepq]) => left'[y] >= 1
  <2>1. \A y \in Proc : On(y, s) => left[y] >= 1
    BY <1>1 DEF s, Ticks, Clocked
  <2> QED
    BY <1>2, <1>3, <1>4, <1>5, <1>9, <2>1
<1>11. left' \in [Proc -> Int] /\ op'.kind # "wakeup"
  BY <1>1, <1>2, <1>3, <1>4 DEF SameLoop
<1> QED
  BY <1>5, <1>6, <1>8, <1>10, <1>11 DEF Clocked

LEMMA ClkhandlerClocked == ASSUME Ticks, clkhandler PROVE Clocked' /\ InFull
<1> DEFINE s == queue[sleepq]
<1>1. /\ op.kind = "none"
      /\ left' = [p \in Proc |-> IF On(p, s) THEN left[p] - 1 ELSE left[p]]
      /\ qkey' = IF s = <<>> THEN qkey ELSE [qkey EXCEPT ![Head(s)] = @ - 1]
      /\ UNCHANGED <<prstate, queue>>
  BY DEF clkhandler, At
<1>a. /\ s # <<>> /\ qkey[Head(s)] - 1 <= 0 => op'.kind = "wakeup"
      /\ ~(s # <<>> /\ qkey[Head(s)] - 1 <= 0) => op' = op
  <2>1. IF s # <<>> /\ qkey[Head(s)] - 1 <= 0
        THEN DeferStart([kind |-> "wakeup", sem |-> NoSem, n |-> 0])
        ELSE UNCHANGED <<Defer, op>>
    BY DEF clkhandler
  <2>2. DeferStart([kind |-> "wakeup", sem |-> NoSem, n |-> 0]) => op'.kind = "wakeup"
    BY DEF DeferStart
  <2> QED
    BY <2>1, <2>2
<1>2. /\ s \in Seq(Proc) /\ Once(s) /\ qkey \in [Proc -> Int] /\ left \in [Proc -> Int]
      /\ Delta(s, qkey, left)
      /\ \A y \in Proc : On(y, s) => left[y] >= 1
  BY <1>1, Lists DEF Ticks, Order, Clocked
<1>3. left' \in [Proc -> Int] /\ \A y \in Proc : On(y, s) => left'[y] = left[y] - 1
  BY <1>1, <1>2
<1>4. InFull
  BY <1>1 DEF InFull
<1>5. CASE s = <<>>
  <2>1. \A y : ~On(y, s)
    BY <1>5 DEF On
  <2>2. Delta(s, qkey', left')
    BY <1>5 DEF Delta
  <2> QED
    BY <1>1, <1>3, <1>4, <2>1, <2>2 DEF Clocked
<1>6. CASE s # <<>>
  <2>1. /\ Head(s) \in Proc /\ On(Head(s), s)
        /\ left[Head(s)] = qkey[Head(s)] /\ qkey[Head(s)] \in Int
        /\ \A p \in Proc : On(p, s) => left[p] \in Int /\ left[Head(s)] <= left[p]
    BY <1>6, HeadDue
  <2>2. /\ qkey'[Head(s)] = qkey[Head(s)] - 1
        /\ \A y \in Proc : y # Head(s) => qkey'[y] = qkey[y]
    BY <1>1, <1>2, <1>6, <2>1
  <2> DEFINE h == Head(s)
  <2> HIDE DEF s, h
  <2>3. Delta(s, qkey', left')
    BY <1>2, <1>3, <1>6, <2>2, DeltaTick
  <2>4. \A y \in Proc : On(y, s) => left'[y] >= 0
    BY <1>2, <1>3
  <2>5. CASE qkey[h] - 1 <= 0
    <3>1. op'.kind = "wakeup"
      BY <1>a, <1>6, <2>5 DEF h
    <3> QED
      BY <1>1, <1>3, <1>4, <2>3, <2>4, <3>1 DEF Clocked, s
  <2>6. CASE ~(qkey[h] - 1 <= 0)
    <3>1. op'.kind = "none"
      BY <1>1, <1>a, <1>6, <2>6 DEF h
    <3>2. \A y \in Proc : On(y, s) => left'[y] >= 1
      <4>1. left[h] >= 2 /\ left[h] \in Int
        BY <2>1, <2>6 DEF h
      <4>2. \A y \in Proc : On(y, s) =>
               left[y] \in Int /\ left[h] <= left[y] /\ left'[y] = left[y] - 1
        BY <1>3, <2>1 DEF h
      <4> QED
        BY <4>1, <4>2
    <3> QED
      BY <1>1, <1>3, <1>4, <2>3, <3>1, <3>2 DEF Clocked, s
  <2> QED
    BY <2>5, <2>6
<1> QED
  BY <1>5, <1>6

LEMMA WakeupClocked == ASSUME Ticks, wakeupLoop PROVE Clocked' /\ InFull
<1> DEFINE s == queue[sleepq]
           p == Head(s)
<1>1. /\ s # <<>> /\ p \in Proc /\ op.kind = "wakeup" /\ qkey[p] <= 0
      /\ queue'[sleepq] = Tail(s)
      /\ \A y \in Proc : y # currpid /\ y # p => qkey'[y] = qkey[y]
      /\ \A y \in Proc : y # currpid /\ y # p /\ prstate[y] # "READY" => prstate'[y] = prstate[y]
      /\ left' = [left EXCEPT ![p] = 0] /\ op' = op
  BY WakeupOrder DEF Ticks
<1>2. /\ s \in Seq(Proc) /\ Once(s) /\ ~On(currpid, s) /\ prstate[currpid] = "CURR"
      /\ qkey \in [Proc -> Int] /\ left \in [Proc -> Int] /\ Delta(s, qkey, left)
      /\ \A y \in Proc : On(y, s) => left[y] >= 0
  BY <1>1, Lists DEF Ticks, Order, Clocked
<1>3. On(p, s) /\ left[p] = qkey[p] /\ qkey[p] \in Int
  BY <1>1, HeadDue
<1>4. left[p] = 0
  BY <1>1, <1>2, <1>3
<1>5. InFull
  <2>1. \A y \in Proc : prstate[y] = "SLEEP" => y # currpid /\ prstate[y] # "READY"
    BY <1>2
  <2>2. \A y \in Proc : y # p /\ prstate[y] = "SLEEP" => prstate'[y] = "SLEEP"
    BY <1>1, <2>1
  <2> HIDE DEF p
  <2> QED
    BY <1>4, <2>2 DEF InFull
<1>6. \A y \in Proc : y # p /\ On(y, s) => qkey'[y] = qkey[y] /\ left'[y] = left[y]
  BY <1>1, <1>2
<1>7. \A y \in Proc : On(y, Tail(s)) => y # p /\ On(y, s)
  BY <1>1, <1>2, TailOnce
<1> HIDE DEF s
<1>8. Delta(Tail(s), qkey', left')
  <2>1. s # <<>> /\ left[Head(s)] = 0
    BY <1>1, <1>4
  <2>2. /\ s \in Seq(Proc) /\ Once(s)
        /\ qkey \in [Proc -> Int] /\ Delta(s, qkey, left)
    BY <1>2
  <2>3. \A y \in Proc : y # Head(s) /\ On(y, s) => qkey'[y] = qkey[y] /\ left'[y] = left[y]
    BY <1>6
  <2> HIDE DEF p
  <2> QED
    BY <2>1, <2>2, <2>3, DeltaTail
<1>9. \A y \in Proc : On(y, queue'[sleepq]) => left'[y] >= 0
  BY <1>1, <1>2, <1>6, <1>7
<1>10. left' \in [Proc -> Int]
  BY <1>1, <1>2
<1> QED
  BY <1>1, <1>5, <1>8, <1>9, <1>10 DEF Clocked

LEMMA StopsClocked == ASSUME Ticks, Stops PROVE Clocked' /\ InFull
<1> DEFINE s == queue[sleepq]
<1>1. op'.kind = "none" /\ left' = left /\ prprio' = prprio
  BY DEF Stops, DeferStop
<1>2. \A y \in Proc : On(y, s) => left[y] >= 1
  <2>1. CASE op.kind = "wakeup"
    <3>1. s # <<>> => qkey[Head(s)] > 0
      BY <2>1 DEF Stops
    <3>2. \A y \in Proc : On(y, s) => s # <<>>
      BY EmptySeq, Lists DEF On, Ticks
    <3> HIDE DEF s
    <3>3. s # <<>> => /\ left[Head(s)] = qkey[Head(s)] /\ qkey[Head(s)] \in Int
                      /\ \A p \in Proc : On(p, s) => left[p] \in Int /\ left[Head(s)] <= left[p]
      BY HeadDue DEF s
    <3> QED
      BY <3>1, <3>2, <3>3
  <2>2. CASE op.kind # "wakeup"
    BY <2>2 DEF Ticks, Clocked
  <2> QED
    BY <2>1, <2>2
<1>3. /\ queue'[sleepq] = s
      /\ \A y \in Proc : y # currpid => qkey'[y] = qkey[y]
      /\ \A y \in Proc : y # currpid /\ ~On(y, queue[readylist]) => prstate'[y] = prstate[y]
  <2>1. CASE Defer.ndefers = 1 /\ Defer.attempt
    <3>1. Switch(prstate, queue, qkey)
      BY <2>1 DEF Stops, DeferStop
    <3>2. Given(prstate, queue, qkey)
      BY <1>1, Lists, GivenHere DEF Order, Ticks
    <3>3. Settled(prstate, queue, qkey)
      BY <3>1, <3>2, Lists, SwitchOrder DEF Ticks
    <3> QED
      BY <3>3 DEF Settled
  <2>2. CASE ~(Defer.ndefers = 1 /\ Defer.attempt)
    BY <2>2 DEF Stops, DeferStop
  <2> QED
    BY <2>1, <2>2
<1>4. InFull
  BY <1>3, Lists DEF InFull, Ticks
<1>5. \A y \in Proc : On(y, s) => qkey'[y] = qkey[y]
  BY <1>3, Lists DEF Ticks
<1>6. left \in [Proc -> Int] /\ Delta(s, qkey, left) /\ s \in Seq(Proc)
  BY Lists DEF Ticks, Clocked
<1> HIDE DEF s
<1>7. Delta(s, qkey', left')
  BY <1>1, <1>5, <1>6, DeltaSame
<1> QED
  BY <1>1, <1>2, <1>3, <1>4, <1>6, <1>7 DEF Clocked

LEMMA ShapeClocked == ASSUME Ticks, Timely, Shape PROVE Clocked' /\ InFull
BY StaysClocked, BlocksClocked, ReleasesClocked, InterruptsClocked, SleepsClocked, LeavesClocked,
   StopsClocked, ClkhandlerClocked, WakeupClocked DEF Shape

-------------------------------------------------------------------------------
\* Every action does one of these things.

LEMMA StillStays ==
    ASSUME Order, UNCHANGED <<prstate, prprio, currpid, queue, qkey, left, stale>>, SameLoop,
           Defer' = Defer \/ (Defer.ndefers = 0 /\ ~Defer'.attempt)
    PROVE  Shape
BY DEF Order, Stays, Shape

\* A deferred loop other than wakeup() begins.
LEMMA StartStays ==
    ASSUME KInv, Order, op.kind = "none", NEW o, o.kind # "wakeup", DeferStart(o),
           UNCHANGED <<prstate, prprio, currpid, queue, qkey, left, stale>>
    PROVE  Shape
<1>1. Defer.ndefers = 0
  BY Quiet
<1>2. ~Defer'.attempt /\ op' = o
  BY <1>1 DEF DeferStart
<1> QED
  BY <1>1, <1>2, StillStays DEF SameLoop

\* The current process goes to state v, and to the end of the queue of a semaphore or to none.
LEMMA CurrentBlocks ==
    ASSUME KInv, NEW v \in State, NEW q \in [Queue -> Seq(Proc)],
           q[readylist] = queue[readylist], q[sleepq] = queue[sleepq],
           resched([prstate EXCEPT ![currpid] = v], q, qkey),
           UNCHANGED <<prprio, left>>, SameLoop
    PROVE  Shape
<1> DEFINE u == [prstate EXCEPT ![currpid] = v]
<1>1. u \in [Proc -> State] /\ \A y \in Proc : y # currpid => u[y] = prstate[y]
  BY Lists
<1> QED
  BY <1>1 DEF Blocks, Shape

LEMMA YieldBlocks ==
    ASSUME KInv, resched(prstate, queue, qkey), UNCHANGED <<prprio, left>>, SameLoop
    PROVE  Shape
BY Lists DEF Blocks, Shape

\* The first process in the queue of a semaphore is released.
LEMMA HeadReleased ==
    ASSUME KInv, NEW s \in Sem, queue[s] # <<>>,
           ready(Head(queue[s]), prstate, [queue EXCEPT ![s] = Tail(@)], qkey),
           UNCHANGED <<prprio, left>>, SameLoop
    PROVE  Shape
<1> DEFINE p == Head(queue[s])
           q == [queue EXCEPT ![s] = Tail(@)]
<1>1. s \in Queue /\ s # readylist /\ s # sleepq
  BY Distinct
<1>2. Good(prstate, prsem, queue)
  BY DEF KInv, Processes
<1>3. p \in Proc /\ Home(prstate[p], prsem[p]) = s
  BY <1>1, <1>2, LooseHead
<1>4. prstate[p] = "WAIT"
  BY <1>1, <1>2, <1>3, HomeReady DEF Good
<1>5. q \in [Queue -> Seq(Proc)] /\ q[readylist] = queue[readylist] /\ q[sleepq] = queue[sleepq]
  <2>1. Tail(queue[s]) \in Seq(Proc)
    BY <1>1, <1>2, TailOnce DEF Good
  <2> QED
    BY <1>1, <2>1, Lists, Distinct
<1> QED
  BY <1>3, <1>4, <1>5 DEF Releases, Shape

\* The body of wait().
LEMMA WaitOnShape ==
    ASSUME KInv, Order, NEW s \in Sem, NEW w, waitOn(s, w), UNCHANGED <<prprio, left, op>>
    PROVE  Shape
<1> DEFINE q == [queue EXCEPT ![s] = Append(@, currpid)]
<1>1. q \in [Queue -> Seq(Proc)] /\ q[readylist] = queue[readylist] /\ q[sleepq] = queue[sleepq]
  BY Lists, Distinct, AppendProperties
<1>2. \/ resched([prstate EXCEPT ![currpid] = "WAIT"], q, qkey)
      \/ UNCHANGED schedVars
  BY DEF waitOn
<1>3. CASE UNCHANGED schedVars
  BY <1>3, StillStays DEF schedVars, SameLoop
<1>4. CASE resched([prstate EXCEPT ![currpid] = "WAIT"], q, qkey)
  BY <1>1, <1>4, CurrentBlocks DEF State, SameLoop
<1> QED
  BY <1>2, <1>3, <1>4

\* The body of signal().
LEMMA SignalOnShape ==
    ASSUME KInv, Order, NEW s \in Sem,
           IF scount[s] < 0
           THEN ready(Head(queue[s]), prstate, [queue EXCEPT ![s] = Tail(@)], qkey)
           ELSE UNCHANGED schedVars,
           op.kind \in {"none", "signaln"}, sstate[s] = "USED",
           UNCHANGED <<prprio, left>>, SameLoop
    PROVE  Shape
<1>1. CASE scount[s] < 0
  <2>1. queue[s] # <<>>
    BY <1>1, CountOfUsed
  <2> QED
    BY <1>1, <2>1, HeadReleased
<1>2. CASE ~(scount[s] < 0)
  BY <1>2, StillStays DEF schedVars
<1> QED
  BY <1>1, <1>2

\* The body of send().
LEMMA DeliverShape ==
    ASSUME KInv, Order, NEW p \in Proc, deliver(p), UNCHANGED <<prprio, op>>
    PROVE  Shape
<1>1. CASE UNCHANGED <<schedVars, left>>
  BY <1>1, StillStays DEF schedVars, SameLoop
<1>2. CASE prstate[p] = "RECV" /\ ready(p, prstate, queue, qkey) /\ left' = left
  BY <1>2, Lists DEF Releases, Shape, SameLoop
<1>3. CASE /\ prstate[p] = "RECTIM" /\ ready(p, prstate, getitem(p), unsleepKeys(p))
           /\ left' = [left EXCEPT ![p] = 0]
  BY <1>3 DEF Interrupts, Shape, SameLoop
<1> QED
  BY <1>1, <1>2, <1>3 DEF deliver

LEMMA AwaitShape ==
    ASSUME KInv, Order, NEW w, AwaitMessage(w)
    PROVE  Shape
<1>1. UNCHANGED <<prprio, left, op>>
  BY DEF AwaitMessage, procVars
<1>2. CASE UNCHANGED schedVars
  BY <1>1, <1>2, StillStays DEF schedVars, SameLoop
<1>3. CASE resched([prstate EXCEPT ![currpid] = "RECV"], queue, qkey)
  BY <1>1, <1>3, Lists, CurrentBlocks DEF State, SameLoop
<1> QED
  BY <1>2, <1>3 DEF AwaitMessage

LEMMA ResumeShape == ASSUME KInv, Order, NEW p \in Proc, resume(p) PROVE Shape
BY Lists DEF resume, procVars, Releases, Shape, SameLoop

LEMMA SuspendShape == ASSUME KInv, Order, NEW p \in Proc, suspend(p) PROVE Shape
<1>1. UNCHANGED <<prprio, left, op>>
  BY DEF suspend, procVars
<1>2. CASE /\ prstate[p] = "READY"
           /\ prstate' = [prstate EXCEPT ![p] = "SUSP"] /\ queue' = getitem(p)
           /\ UNCHANGED <<currpid, qkey, Defer, stale>>
  BY <1>1, <1>2 DEF Leaves, Shape, SameLoop
<1>3. CASE prstate[p] = "CURR" /\ resched([prstate EXCEPT ![p] = "SUSP"], queue, qkey)
  <2>1. p = currpid
    BY <1>3 DEF KInv, Processes, OneCurrent
  <2> QED
    BY <1>1, <1>3, <2>1, Lists, CurrentBlocks DEF State, SameLoop
<1> QED
  BY <1>2, <1>3 DEF suspend

LEMMA YieldShape ==
    ASSUME KInv, Order, yield \/ clkPreempt
    PROVE  Shape
<1>1. UNCHANGED <<prprio, left, op>>
  BY DEF yield, clkPreempt, procVars
<1>2. CASE resched(prstate, queue, qkey)
  BY <1>1, <1>2, YieldBlocks DEF SameLoop
<1>3. CASE UNCHANGED schedVars
  BY <1>1, <1>3, StillStays DEF schedVars, SameLoop
<1> QED
  BY <1>2, <1>3 DEF yield, clkPreempt

LEMMA ChprioShape ==
    ASSUME KInv, Order, NEW p \in Proc, NEW new \in NewPrios, chprio(p, new)
    PROVE  Shape
<1>1. /\ prprio' = [prprio EXCEPT ![p] = new] /\ stale' = (stale \/ p = currpid)
      /\ UNCHANGED <<prstate, currpid, queue, qkey, Defer, left, op>>
  BY DEF chprio, procVars
<1>2. prprio \in [Proc -> Nat] /\ new \in Nat /\ stale \in BOOLEAN
  BY ArgumentAssumption DEF Order
<1>3. /\ prprio' \in [Proc -> Nat] /\ stale' \in BOOLEAN
      /\ ~stale' => ~stale /\ prprio'[currpid] = prprio[currpid]
  <2>1. prprio' \in [Proc -> Nat] /\ (p # currpid => prprio'[currpid] = prprio[currpid])
    BY <1>1, <1>2, Lists
  <2>2. stale' \in BOOLEAN /\ (~stale' => ~stale /\ p # currpid)
    BY <1>1, <1>2
  <2> QED
    BY <2>1, <2>2
<1> QED
  BY <1>1, <1>3 DEF Stays, Shape, SameLoop

LEMMA CreateShape ==
    ASSUME KInv, Order, NEW p \in Proc, NEW prio \in Prios, create(p, prio)
    PROVE  Shape
<1>1. /\ prstate[p] = "FREE" /\ prstate' = [prstate EXCEPT ![p] = "SUSP"]
      /\ prprio' = [prprio EXCEPT ![p] = prio]
      /\ UNCHANGED <<currpid, queue, qkey, Defer, stale, left, op>>
  BY DEF create
<1>2. prprio \in [Proc -> Nat] /\ prio \in Nat /\ stale \in BOOLEAN
  BY ArgumentAssumption DEF Order
<1>3. prstate \in [Proc -> State] /\ prstate[currpid] = "CURR" /\ p # currpid
  BY <1>1, Lists
<1>4. prprio' \in [Proc -> Nat] /\ prprio'[currpid] = prprio[currpid]
  BY <1>1, <1>2, <1>3
<1>5. \A y \in Proc : prstate[y] = "SLEEP" => prstate'[y] = "SLEEP"
  BY <1>1, <1>3
<1> QED
  BY <1>1, <1>2, <1>4, <1>5 DEF Stays, Shape, SameLoop

LEMMA SemcreateShape ==
    ASSUME KInv, Order, NEW s \in UserSem, NEW n \in Counts, semcreate(s, n)
    PROVE  Shape
BY StillStays DEF semcreate, schedVars, procVars, SameLoop

LEMMA StartShape ==
    ASSUME KInv, Order, NEW s \in UserSem,
           semdelete(s) \/ \E n \in Counts : semreset(s, n) \/ signaln(s, n)
    PROVE  Shape
<1>1. op.kind = "none"
  BY Caller DEF semdelete, semreset, signaln
<1>2. UNCHANGED <<prstate, prprio, currpid, queue, qkey, left, stale>>
  BY DEF semdelete, semreset, signaln, procVars
<1>3. PICK o : DeferStart(o) /\ o.kind # "wakeup"
  <2> DEFINE o(k, n) == [kind |-> k, sem |-> s, n |-> n]
  <2>1. \E k \in {"semdelete", "semreset", "signaln"}, n \in {0} \cup Counts : DeferStart(o(k, n))
    BY DEF semdelete, semreset, signaln
  <2>2. \A k, n : o(k, n).kind = k
    OBVIOUS
  <2> HIDE DEF o
  <2> QED
    BY <2>1, <2>2
<1> QED
  BY <1>1, <1>2, <1>3, StartStays

LEMMA WaitShape ==
    ASSUME KInv, Order, killWait \/ pfhandler \/ \E s \in UserSem : wait(s)
    PROVE  Shape
<1>1. UNCHANGED <<prprio, left, op>>
  BY DEF killWait, pfhandler, wait, procVars
<1>2. \E s \in Sem, w \in PC : waitOn(s, w)
  BY Distinct DEF killWait, pfhandler, wait, PC
<1> QED
  BY <1>1, <1>2, WaitOnShape

LEMMA SignalShape ==
    ASSUME KInv, Order, killFree \/ pfhandlerDone \/ \E s \in UserSem : signal(s)
    PROVE  Shape
<1>1. UNCHANGED <<prprio, left, op>> /\ op.kind = "none"
  BY Caller DEF killFree, pfhandlerDone, signal, procVars, At
<1>2. PICK s \in Sem :
         /\ sstate[s] = "USED"
         /\ IF scount[s] < 0
            THEN ready(Head(queue[s]), prstate, [queue EXCEPT ![s] = Tail(@)], qkey)
            ELSE UNCHANGED schedVars
  BY PrSem, Distinct DEF killFree, pfhandlerDone, signal, signalOn
<1> QED
  BY <1>1, <1>2, SignalOnShape DEF SameLoop

LEMMA TakeShape == ASSUME KInv, Order, receiveDone \/ recvtimeDone \/ recvclr PROVE Shape
<1>1. UNCHANGED <<schedVars, prprio, left, op>>
  BY DEF receiveDone, recvtimeDone, recvclr, TakeMessage, procVars
<1> QED
  BY <1>1, StillStays DEF schedVars, SameLoop

LEMMA SendShape == ASSUME KInv, Order, NEW p \in Proc, send(p) PROVE Shape
BY DeliverShape DEF send, procVars

LEMMA KillShape == ASSUME KInv, Order, NEW p \in Proc, kill(p) PROVE Shape
<1>1. CASE op' = [op EXCEPT !.kind = "halt"] /\ UNCHANGED <<schedVars, left>>
  <2>1. op.kind = "none"
    BY Caller DEF kill
  <2>2. SameLoop
    BY <1>1, <2>1 DEF SameLoop, KInv, Control
  <2> QED
    BY <1>1, <2>2, StillStays DEF schedVars, kill
<1>2. CASE deliver(prparent[p]) /\ op' = op
  <2>1. prparent[p] \in Proc
    BY DEF KInv, Kills
  <2> QED
    BY <1>2, <2>1, DeliverShape DEF kill
<1> QED
  BY <1>1, <1>2 DEF kill

LEMMA KillSwitchShape == ASSUME KInv, Order, killSwitch PROVE Shape
<1> DEFINE p == victim[currpid]
           u == [prstate EXCEPT ![p] = "FREE"]
<1>1. UNCHANGED <<prprio, op>> /\ p \in Proc
  BY Lists DEF killSwitch, At, procVars, KInv, Kills
<1>2. \/ prstate[p] = "CURR" /\ resched(u, queue, qkey) /\ left' = left
      \/ /\ prstate[p] \in {"SLEEP", "RECTIM"}
         /\ prstate' = u /\ queue' = getitem(p) /\ qkey' = unsleepKeys(p)
         /\ left' = [left EXCEPT ![p] = 0]
         /\ UNCHANGED <<currpid, Defer, stale>>
      \/ /\ prstate[p] \in {"READY", "WAIT"}
         /\ prstate' = u /\ queue' = getitem(p)
         /\ UNCHANGED <<currpid, qkey, Defer, stale, left>>
      \/ /\ prstate[p] \in {"SUSP", "RECV", "FREE"} /\ prstate' = u
         /\ UNCHANGED <<currpid, queue, qkey, Defer, stale, left>>
  BY DEF killSwitch
<1> HIDE DEF p
<1>3. CASE prstate[p] = "CURR" /\ resched(u, queue, qkey) /\ left' = left
  <2>1. p = currpid
    BY <1>1, <1>3 DEF KInv, Processes, OneCurrent
  <2> QED
    BY <1>1, <1>3, <2>1, Lists, CurrentBlocks DEF State, SameLoop
<1>4. CASE /\ prstate[p] \in {"SLEEP", "RECTIM"}
           /\ prstate' = u /\ queue' = getitem(p) /\ qkey' = unsleepKeys(p)
           /\ left' = [left EXCEPT ![p] = 0]
           /\ UNCHANGED <<currpid, Defer, stale>>
  BY <1>1, <1>4 DEF Leaves, Shape, SameLoop
<1>5. CASE /\ prstate[p] \in {"READY", "WAIT"}
           /\ prstate' = u /\ queue' = getitem(p)
           /\ UNCHANGED <<currpid, qkey, Defer, stale, left>>
  BY <1>1, <1>5 DEF Leaves, Shape, SameLoop
<1>6. CASE /\ prstate[p] \in {"SUSP", "RECV", "FREE"} /\ prstate' = u
           /\ UNCHANGED <<currpid, queue, qkey, Defer, stale, left>>
  <2>1. \A y \in Proc : prstate[y] = "SLEEP" => prstate'[y] = "SLEEP"
    BY <1>6, Lists
  <2> QED
    BY <1>1, <1>6, <2>1 DEF Order, Stays, Shape, SameLoop
<1> QED
  BY <1>2, <1>3, <1>4, <1>5, <1>6

LEMMA SleepShape ==
    ASSUME KInv, Order, (\E d \in Delays : sleepms(d)) \/ (\E w \in Timeouts : recvtime(w))
    PROVE  Shape
<1>1. UNCHANGED <<prprio, op>> /\ op.kind = "none"
  BY Caller DEF sleepms, recvtime, procVars
<1>2. CASE resched(prstate, queue, qkey) /\ left' = left
  BY <1>1, <1>2, YieldBlocks DEF SameLoop
<1>3. CASE UNCHANGED <<schedVars, left>>
  BY <1>1, <1>3, StillStays DEF schedVars, SameLoop
<1>4. CASE \E d \in (Delays \ {0}) \cup Timeouts, v \in {"SLEEP", "RECTIM"} : insertd(d, v)
  BY <1>1, <1>4 DEF Sleeps, Shape, SameLoop
<1> QED
  BY <1>2, <1>3, <1>4 DEF sleepms, recvtime

LEMMA EndShape == ASSUME KInv, Order, signalnEnd \/ semresetEnd \/ wakeupEnd PROVE Shape
BY DEF signalnEnd, semresetEnd, wakeupEnd, procVars, Stops, Shape

LEMMA SignalnLoopShape == ASSUME KInv, Order, signalnLoop PROVE Shape
<1>1. /\ op.kind = "signaln" /\ UNCHANGED <<prprio, left>> /\ op' = [op EXCEPT !.n = @ - 1]
      /\ IF scount[op.sem] < 0
         THEN ready(Head(queue[op.sem]), prstate, [queue EXCEPT ![op.sem] = Tail(@)], qkey)
         ELSE UNCHANGED schedVars
  BY DEF signalnLoop, procVars
<1>2. op.sem \in Sem /\ sstate[op.sem] = "USED"
  BY <1>1, Distinct DEF KInv, Control
<1>3. SameLoop
  BY <1>1 DEF SameLoop, KInv, Control
<1> QED
  BY <1>1, <1>2, <1>3, SignalOnShape

LEMMA SemdeleteLoopShape == ASSUME KInv, Order, semdeleteLoop PROVE Shape
<1> DEFINE s == op.sem
<1>1. op.kind = "semdelete" /\ UNCHANGED <<prprio, left>>
  BY DEF semdeleteLoop, procVars
<1>2. s \in Sem
  BY <1>1, Distinct DEF KInv, Control
<1>3. CASE scount[s] < 0
  <2>1. Len(queue[s]) = 0 - scount[s] /\ scount[s] \in Int
    BY <1>1, <1>2, <1>3 DEF KInv, Semaphores, SemCountIsQueue
  <2>2. queue[s] # <<>>
    BY <1>3, <2>1
  <2>3. ready(Head(queue[s]), prstate, [queue EXCEPT ![s] = Tail(@)], qkey) /\ op' = op
    BY <1>3 DEF semdeleteLoop
  <2> QED
    BY <1>1, <1>2, <2>2, <2>3, HeadReleased DEF SameLoop
<1>4. CASE ~(scount[s] < 0)
  BY <1>1, <1>4 DEF semdeleteLoop, Stops, Shape
<1> QED
  BY <1>3, <1>4

LEMMA SemresetLoopShape == ASSUME KInv, Order, semresetLoop PROVE Shape
<1> DEFINE s == op.sem
<1>1. /\ op.kind = "semreset" /\ queue[s] # <<>> /\ UNCHANGED <<prprio, left, op>>
      /\ ready(Head(queue[s]), prstate, [queue EXCEPT ![s] = Tail(@)], qkey)
  BY DEF semresetLoop, procVars
<1>2. s \in Sem
  BY <1>1, Distinct DEF KInv, Control
<1> QED
  BY <1>1, <1>2, HeadReleased DEF SameLoop

LEMMA NextShape == ASSUME KInv, Order, [Next]_vars PROVE Shape
<1>1. CASE ProcessCall
  BY <1>1, YieldShape, AwaitShape, TakeShape, WaitShape, ResumeShape, SuspendShape, SendShape,
     KillShape, CreateShape, ChprioShape, SignalShape, SemcreateShape, StartShape, SleepShape
     DEF ProcessCall, receive
<1>2. CASE Continue
  BY <1>2, TakeShape, AwaitShape, SignalShape, WaitShape, KillSwitchShape DEF Continue, rdsread
<1>3. CASE DeferredLoop
  BY <1>3, SignalnLoopShape, EndShape, SemdeleteLoopShape, SemresetLoopShape DEF DeferredLoop, Shape
<1>4. CASE Clock
  BY <1>4, YieldShape DEF Clock, Shape
<1>5. CASE UNCHANGED vars
  BY <1>5, StillStays DEF vars, SameLoop
<1> QED
  BY <1>1, <1>2, <1>3, <1>4, <1>5 DEF Next

-------------------------------------------------------------------------------
\* The results.

LEMMA ScheduleInit == Init => Order /\ Clocked
<1> SUFFICES ASSUME Init PROVE Order /\ Clocked
  OBVIOUS
<1>1. /\ prprio \in {[p \in Proc |-> IF p = Main THEN k ELSE 0] : k \in Prios}
      /\ currpid = Main /\ qkey = [p \in Proc |-> 0] /\ left = [p \in Proc |-> 0] /\ stale = FALSE
      /\ queue = [q \in Queue |-> IF q = readylist THEN <<NULLPROC>> ELSE <<>>]
      /\ op.kind = "none"
  BY DEF Init
<1>2. prprio \in [Proc -> Nat]
  BY <1>1, ArgumentAssumption
<1>3. queue[readylist] = <<NULLPROC>> /\ queue[sleepq] = <<>>
  BY <1>1, Distinct
<1>4. qkey[NULLPROC] = 0 /\ prprio[currpid] \in Nat
  BY <1>1, <1>2, ProcAssumption
<1>5. Order
  <2>1. \A i \in 1..Len(queue[readylist]) : qkey[queue[readylist][i]] = 0
    <3>1. Len(queue[readylist]) = 1 /\ queue[readylist][1] = NULLPROC
      BY <1>3
    <3>2. \A i \in 1..1 : i = 1
      OBVIOUS
    <3> QED
      BY <1>4, <3>1, <3>2
  <2>2. Descends(queue[readylist], qkey)
    BY <2>1 DEF Descends
  <2>3. \A i \in 1..Len(queue[readylist]) : qkey[queue[readylist][i]] <= prprio[currpid]
    BY <1>4, <2>1
  <2>4. qkey \in [Proc -> Int]
    BY <1>1
  <2>5. stale \in BOOLEAN
    BY <1>1
  <2> QED
    BY <1>2, <2>2, <2>3, <2>4, <2>5 DEF Order
<1>6. \A p : ~On(p, <<>>)
  BY DEF On
<1>7. Clocked
  BY <1>1, <1>3, <1>6 DEF Clocked, Delta
<1> QED
  BY <1>5, <1>7

LEMMA OrderInductive == Spec => []Order
<1>1. Init => Order
  BY ScheduleInit
<1>2. KInv /\ Order /\ [Next]_vars => Order'
  BY NextShape, ShapeOrder
<1> QED
  BY KInductive, <1>1, <1>2, PTL DEF Spec

\* Outside of a deferred loop the ready list holds nobody above the current process, unless
\* chprio() lowered it: resched() picks the head of a list whose keys descend, and a
\* reschedule asked for during a deferral is made up for at its end.
THEOREM CurrentHighestHolds == Spec => []CurrentHighest
<1>1. Order => CurrentHighest
  BY DEF Order, CurrentHighest
<1> QED
  BY OrderInductive, <1>1, PTL

LEMMA ClockedInductive ==
    ASSUME Timely
    PROVE  Spec => []Clocked
<1>1. Init => Clocked
  BY ScheduleInit
<1>2. KInv /\ Order /\ Clocked /\ [Next]_vars => Clocked'
  BY NextShape, ShapeClocked DEF Ticks
<1> QED
  BY KInductive, OrderInductive, <1>1, <1>2, PTL DEF Spec

\* For delays that fit in a signed integer: whatever insertd(), unsleep(), wakeup() and the
\* clock do to the delta list, the sum of the keys up to a process is what it has left.
THEOREM DeltaListExactHolds ==
    ASSUME Timely
    PROVE  Spec => []DeltaListExact
<1>1. KInv /\ Order /\ Clocked => DeltaListExact
  <2> SUFFICES ASSUME KInv, Order, Clocked PROVE DeltaListExact
    OBVIOUS
  <2>1. /\ queue[sleepq] \in Seq(Proc) /\ qkey \in [Proc -> Int] /\ left \in [Proc -> Int]
        /\ Delta(queue[sleepq], qkey, left)
    BY Lists DEF Order, Clocked
  <2> QED
    BY <2>1, DueInIsDelay, ZenonT(60) DEF DeltaListExact
<1> QED
  BY KInductive, OrderInductive, ClockedInductive, <1>1, PTL

\* The clock handler wakes everybody whose time has come, at the tick at which it comes.
THEOREM SleepersOnTimeHolds ==
    ASSUME Timely
    PROVE  Spec => []SleepersOnTime
<1>1. KInv /\ Clocked => SleepersOnTime
  <2> SUFFICES ASSUME KInv, Clocked, op.kind # "wakeup", NEW i \in 1..Len(queue[sleepq])
               PROVE  left[queue[sleepq][i]] > 0
    BY DEF SleepersOnTime
  <2>1. queue[sleepq][i] \in Proc /\ On(queue[sleepq][i], queue[sleepq])
    BY Lists, ElementOfSeq DEF On
  <2>2. left[queue[sleepq][i]] >= 1 /\ left[queue[sleepq][i]] \in Int
    BY <2>1 DEF Clocked
  <2> QED
    BY <2>2
<1> QED
  BY KInductive, ClockedInductive, <1>1, PTL

\* A process that sleeps runs again only when its delay is over: no message, resume() or
\* deferred loop wakes it early.
THEOREM SleepsInFullHolds ==
    ASSUME Timely
    PROVE  Spec => SleepsInFull
<1>1. KInv /\ Order /\ Clocked /\ [Next]_vars =>
         [\A p \in Proc : (prstate[p] = "SLEEP" /\ prstate'[p] \notin {"SLEEP", "FREE"}) =>
             left[p] <= 0]_vars
  BY NextShape, ShapeClocked DEF Ticks, InFull
<1> QED
  BY KInductive, OrderInductive, ClockedInductive, <1>1, PTL DEF Spec, SleepsInFull
===============================================================================
