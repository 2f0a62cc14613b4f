------------------------------- MODULE MCExits -------------------------------
(***************************************************************************)
(* Two instances of Paging for TLC in one run, each with its variables: in  *)
(* one three interchangeable processes with a page each compete for the     *)
(* frames while translations are cached; in the other, Leaving, two         *)
(* processes use several pages each and one of them exits.                  *)
(***************************************************************************)
EXTENDS MCPaging

VARIABLES
    part,
    xPc, xCur, xPrSem, xVictim, xJob, xCr2, xFault, xFrametab, xFifo, xProctab, xPdmem,
    xPtmem, xTlb, xBstab, xBsdtab, xContent, xStore, xCreated, xMem, xRaced

leavingVars == <<xPc, xCur, xPrSem, xVictim, xJob, xCr2, xFault, xFrametab, xFifo,
                 xProctab, xPdmem, xPtmem, xTlb, xBstab, xBsdtab, xContent,
                 xStore, xCreated, xMem, xRaced>>

Two == {m0, p1, p2}

Leaving == INSTANCE Paging
           WITH Proc <- Two, NDSFRAMES <- 5, NFRAMES <- 7, NBSDS <- 2, MaxPages <- 2, Sizes <- {2},
                Value <- Two, Writes <- [p \in Two |-> IF p = p1 THEN {p1} ELSE {}],
                CacheTLB <- FALSE, Exits <- {p1}, MaxCreate <- 2,
                pc <- xPc, cur <- xCur, prSem <- xPrSem, victim <- xVictim, job <- xJob, cr2 <- xCr2,
                fault <- xFault, frametab <- xFrametab, fifo <- xFifo, proctab <- xProctab,
                pdmem <- xPdmem, ptmem <- xPtmem, tlb <- xTlb, bstab <- xBstab, bsdtab <- xBsdtab,
                content <- xContent, store <- xStore, created <- xCreated, mem <- xMem, raced <- xRaced

\* Bound: the three are created in this order, as newpid() would.
InOrder == \A pair \in {<<p1, p2>>, <<p2, p3>>} : pc[pair[1]] = "free" => pc[pair[2]] = "free"

MCInit == part \in {"three", "leaving"} /\ Init /\ Leaving!Init

MCNext ==
    \/ part = "three" /\ Next /\ InOrder' /\ UNCHANGED <<part, leavingVars>>
    \/ part = "leaving" /\ Leaving!Next /\ UNCHANGED <<part, vars>>

MCSpec == MCInit /\ [][MCNext]_<<part, vars, leavingVars>>

\* The variables of the part that does not run stay as they are and need not be told apart,
\* and what the pages hold decides nothing and is in no property of the second part.
Seen == IF part = "three" THEN <<part, vars>>
        ELSE <<part, xPc, xCur, xPrSem, xVictim, xJob, xCr2, xFrametab, xFifo, xProctab, xPdmem, xPtmem,
               xTlb, xBstab, xBsdtab, xCreated>>

\* Also while a process with frames in use exits at any moment of a service to another, the
\* frame table, the FIFO, the stores and the use counts stay as kill() and pfhandler() need them.
ExitsConsistent ==
    /\ Leaving!FrameTableConsistent
    /\ Leaving!FifoExact
    /\ Leaving!StoresOwned
    /\ Leaving!UseCountsBalanced
===============================================================================
