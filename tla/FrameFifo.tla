-------------------------------- MODULE FrameFifo --------------------------------
(***************************************************************************)
(* The replacement list of frame.c as the code keeps it: doubly linked      *)
(* through the entries of frametab, with fifoHead in front and no pointer   *)
(* to the end.  Shown to implement FifoList, the sequence of Paging.        *)
(*                                                                          *)
(* The functions are called with prSem held, so calls do not overlap, but   *)
(* removeFifo() gives the processor away, while the victim is written to    *)
(* its store, with the list already changed and the victim's own pointers   *)
(* still as they were.                                                      *)
(***************************************************************************)
EXTENDS Tables, Naturals, FiniteSets, SequencesExt

CONSTANTS
    Frame,       \* numbers of the page frames in frametab
    Owner,       \* processes
    NoOwner,
    fifoHead,
    NULL

VARIABLES
    next, prev,  \* of fifoHead, of each frame, and of the words at address 0
    pid,         \* owner of each frame, NoOwner if it is free
    victim,      \* the frame that removeFifo() is writing to its store
    leaving      \* the process whose frames freeFrames() is going through

ffvars == <<next, prev, pid, victim, leaving>>

ListNode == Frame \cup {fifoHead}

\* There are frames, finitely many; fifoHead is not one of them, and a null pointer points
\* to neither.
Placed ==
    /\ IsFiniteSet(Frame) /\ Frame # {}
    /\ fifoHead \notin Frame
    /\ NULL \notin ListNode
    /\ NoOwner \notin Owner

ASSUME FramesPlaced == Placed

\* initialize_paging()
Init ==
    /\ next = [f \in ListNode |-> NULL]
    /\ prev = [f \in ListNode \cup {NULL} |-> NULL]
    /\ pid = [f \in Frame |-> NoOwner]
    /\ victim = NULL
    /\ leaving = NoOwner

Free == {f \in Frame : pid[f] = NoOwner}
Between == victim = NULL /\ leaving = NoOwner   \* nobody is inside

\* The nodes met by following next from fifoHead, which ends at NULL.
Walk ==
    LET step[k \in 1..(Cardinality(Frame) + 1)] ==
            IF k = 1 THEN <<fifoHead>>
            ELSE LET w == step[k - 1]
                 IN  IF next[Last(w)] = NULL THEN w ELSE Append(w, next[Last(w)])
    IN  step[Cardinality(Frame) + 1]

\* addFifo() goes to the end and leaves the next pointer of the new frame as it is.
addFifo(f) ==
    /\ next' = [next EXCEPT ![Last(Walk)] = f]
    /\ prev' = [prev EXCEPT ![f] = Last(Walk)]

\* getPFrame() takes the first free frame if there is one.
getPFrame(p) ==
    /\ Between
    /\ \E f \in First(Free) : addFifo(f) /\ pid' = [pid EXCEPT ![f] = p]
    /\ UNCHANGED <<victim, leaving>>

\* removeFifo() until the victim has been saved.  If it was alone in the list the second
\* assignment goes through a null pointer.
removeFifo ==
    /\ Between /\ Free = {}
    /\ victim' = next[fifoHead]
    /\ next' = [next EXCEPT ![fifoHead] = next[victim']]
    /\ prev' = [prev EXCEPT ![next[victim']] = fifoHead]
    /\ UNCHANGED <<pid, leaving>>

\* The rest of removeFifo(), and getPFrame() from there on.
replaced(p) ==
    /\ victim # NULL
    /\ next' = [next EXCEPT ![victim] = NULL, ![Last(Walk)] = victim]
    /\ prev' = [prev EXCEPT ![victim] = Last(Walk)]
    /\ pid' = [pid EXCEPT ![victim] = p]
    /\ victim' = NULL
    /\ UNCHANGED leaving

\* Mutation: freeFrames() leaves the frame's next pointer, which addFifo() does not set.
deleteFifoKeepsNext(f) ==
    /\ next' = [next EXCEPT ![prev[f]] = next[f]]
    /\ prev' = IF next[f] = NULL THEN [prev EXCEPT ![f] = NULL]
               ELSE [prev EXCEPT ![next[f]] = prev[f], ![f] = NULL]

\* deleteFifo(), and the two pointers that freeFrames() clears after it.
deleteFifo(f) ==
    /\ next' = [next EXCEPT ![prev[f]] = next[f], ![f] = NULL]
    /\ prev' = IF next[f] = NULL THEN [prev EXCEPT ![f] = NULL]
               ELSE [prev EXCEPT ![next[f]] = prev[f], ![f] = NULL]

\* freeFrames() begins and goes on with the next frame of the process.
freeFrames(p) ==
    /\ victim = NULL /\ leaving \in {NoOwner, p}
    /\ \E f \in First({g \in Frame : pid[g] = p}) :
          /\ deleteFifo(f)
          /\ pid' = [pid EXCEPT ![f] = NoOwner]
    /\ leaving' = IF p \in {pid'[f] : f \in Frame} THEN p ELSE NoOwner
    /\ UNCHANGED victim

Next ==
    \/ removeFifo
    \/ \E p \in Owner : getPFrame(p) \/ replaced(p) \/ freeFrames(p)

Spec == Init /\ [][Next]_ffvars

List == INSTANCE FifoList WITH fifo <- Tail(Walk)

\* Whatever is added, removed and deleted, also when the last frame goes and the code
\* writes through a null pointer, the frames met from fifoHead on are those of a sequence
\* to which each call does what Paging takes it to do: nothing is cut off, kept after it
\* was freed, listed twice or closed to a ring.
ImplementsList == List!Spec
==================================================================================
