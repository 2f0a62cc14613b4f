------------------------------ MODULE Semaphores ------------------------------
(***************************************************************************)
(* Semaphores as the rest of the kernel sees them.  Kernel models           *)
(* wait.c and signal.c with the ready list and the priorities; the modules  *)
(* of the devices keep from it what they rely on: a call of wait() that     *)
(* takes the count below zero leaves the caller in the queue, signal()      *)
(* hands over to the head of the queue, and a process goes on when it is in *)
(* no queue.  Which of several ready processes goes on first depends on     *)
(* their priorities, which are arbitrary.                                   *)
(***************************************************************************)
EXTENDS Integers, Sequences

\* semcreate()
Semaphore(n) == [used |-> TRUE, count |-> n, queue |-> <<>>]

\* What a failed semcreate() or semdelete() leaves: wait() and signal() return SYSERR.
NoSemaphore == [used |-> FALSE, count |-> 0, queue |-> <<>>]

Wait(s, p) ==
    IF ~s.used THEN s
    ELSE [s EXCEPT !.count = @ - 1,
                   !.queue = IF s.count <= 0 THEN Append(@, p) ELSE @]

Signal(s) ==
    IF ~s.used THEN s
    ELSE [s EXCEPT !.count = @ + 1,
                   !.queue = IF s.count < 0 THEN Tail(@) ELSE @]

\* signaln(): n processes at most are let in, in the order of the queue.
SignalN(s, n) ==
    [s EXCEPT !.count = @ + n,
              !.queue = SubSeq(@, (IF n < Len(@) THEN n ELSE Len(@)) + 1, Len(@))]

Waits(s, p) == \E i \in 1..Len(s.queue) : s.queue[i] = p

\* A negative count is the number of processes that wait.
CountIsQueue(s) == Len(s.queue) = IF s.count < 0 THEN 0 - s.count ELSE 0
===============================================================================
