------------------------------- MODULE MCKernel -------------------------------
(***************************************************************************)
(* Instances of Kernel for TLC: the null process, main() and two slots.     *)
(* The run has two parts, which differ in the programs of the processes:    *)
(* one in which they synchronize and one in which they wait for the clock.  *)
(***************************************************************************)
EXTENDS Kernel, TLC

CONSTANTS n0, m0, p1, p2, s1

VARIABLE part

\* Programs.  Main starts everything and ends by killing the others.
Synchronize ==
    (n0 :> {}) @@
    (m0 :> {"create", "resume", "semcreate", "semdelete", "semreset", "signaln", "send", "receive"}) @@
    (p1 :> {"wait", "receive", "suspend", "pfhandler"}) @@
    (p2 :> {"wait", "signal", "send", "kill", "yield"})

TimeOut ==
    (n0 :> {}) @@
    (m0 :> {"create", "resume", "sleepms", "send", "kill"}) @@
    (p1 :> {"recvclr", "sleepms"}) @@
    (p2 :> {"recvtime", "sleepms", "chprio"})

Sync == INSTANCE Kernel WITH Program <- Synchronize

MCInit == part \in {"synchronize", "time out"} /\ Init

MCNext ==
    /\ IF part = "synchronize" THEN Sync!Next ELSE Next
    /\ UNCHANGED part

MCSpec == MCInit /\ [][MCNext]_<<vars, part>>

\* What a process's node and prsem hold is read only while it is on a queue.  The types of the
\* two make TLC evaluate them, which it must before it can store a state.
OnQueue == [p \in Proc |-> Home(prstate[p], prsem[p])]
Seen == <<part, prstate, prprio, prparent, prhasmsg, pc, victim, prcount, currpid, queue, Defer, op,
          sstate, scount, left, stale, OnQueue,
          [p \in Proc |-> IF OnQueue[p] \in {readylist, sleepq} THEN qkey[p] ELSE 0],
          qkey \in [Proc -> Int], prsem \in [Proc -> Sem \cup {NoSem}]>>
===============================================================================
