# A TLA+ development of Xinu with demand paging

The code is Embedded Xinu for the Galileo (x86), as taught at Purdue, with demand paging added by
the repository's author: `src/xinu-fall2018-paging/`.  Paths below are relative to that directory.
`system/README2.md` documents the paging work.

## 1. Inventory

| Part | State | Operations | Interacts with |
|---|---|---|---|
| Demand paging (`paging/frame.c`, `page.c`, `pregs.c`, `system/pfHandler.c`, `pfisr.S`) | `frametab`, replacement FIFO, page directories and tables, CR2/CR3, TLB, `pfErrCode`, `pfCount` | `pfhandler`, `getPFrame`, `removeFifo`/`removeRand`, `addFifo`, `deleteFifo`, `freeFrames`, `getPD`, `getPT`, `updatePT`, `isDirty` | backing stores; `kill`; the scheduler through `prSem` |
| Backing stores (`paging/*bs*.c`, `psinit.c`) | `bstab` (allocated, use count, size), `bsdtab` (which pages hold data) | `allocate_bs`, `get_bs`, `open_bs`, `close_bs`, `read_bs`, `write_bs`, `deallocate_bs`, `release_bs`, `addMapping`, `sendBs`, `getBs`, `removeMapping`, `psinit` | remote disk (blocks the caller) |
| Process table (`create.c`, `vcreate.c`, `kill.c`) | `proctab`, `prcount` | `create`, `vcreate`, `resume`, `suspend`, `kill`, `xdone` | paging, stack allocator, messages |
| Virtual heap (`vgetmem.c`, `vfreemem.c`) | a free list inside the heap | `vgetmem`, `vfreemem` | paging |
| Scheduler (`resched.c`, `ready.c`, `queue.c`, `insert.c`, ...) | `currpid`, ready list, `Defer`, `preempt` | `resched`, `resched_cntl`, `ready`, `yield`, `chprio` | everything |
| Semaphores | `semtab`: state, count, queue | `wait`, `signal`, `signaln`, `semcreate`, `semdelete`, `semreset` | scheduler |
| Messages | `prmsg`, `prhasmsg` | `send`, `receive`, `recvclr`, `recvtime` | scheduler, sleep queue |
| Clock and sleep queue | `clktime`, `count1000`, delta list `sleepq` | `clkhandler`, `sleepms`, `wakeup`, `unsleep`, `insertd` | scheduler |
| Ports (`pt*.c`) | `porttab`, free list of messages | `ptcreate`, `ptsend`, `ptrecv`, `ptreset`, `ptdelete` | semaphores, deferral |
| Memory, buffer pools | free list; pools with a semaphore | `getmem`, `freemem`, `getstk`, `getbuf`, `freebuf`, `mkbufpool` | semaphores |
| Remote disk driver (`device/rds`) | block cache, request queue, semaphores, server process | `rdsread`, `rdswrite`, `rdscontrol`, `rdsopen`, `rdsclose`, `rdsprocess`, `rdscomm` | UDP, messages |
| Remote disk server (`rdserver`) | open files | request loop | the driver |
| Terminal (`device/tty`) | input and output rings, modes | upper and lower half | semaphores, interrupts |
| Local file system (`device/lfs`) | directory, index blocks, free lists | open, seek, getc, putc, truncate | RAM disk |
| Remote files (`device/rfs`) | pseudo-devices with mode and position, sequence number | `rfsopen`, `rflread`, `rflwrite`, `rflseek`, `rflclose`, `rfscontrol`, `rfscomm` | UDP, a server |
| Name space (`device/nam`, `open.c`) | table of prefixes | `mount`, `nammap`, `namopen` | every device |
| RAM disk, SD card | blocks | read, write | local files |
| Ethernet driver (`device/eth`) | two descriptor rings, multicast list | `ethread`, `ethwrite`, `ethcontrol`, `ethhandler` | the DMA engine, interrupts |
| Network stack (`net`) | ARP cache; UDP and ICMP endpoints; IP output queue; pool of packet buffers | `netin`, `ipout`, `arp_*`, `ip_*`, `udp_*`, `icmp_*` | semaphores, `recvtime` |
| Shell (`shell`) | the line, its redirections, the command it waits for | `lexan`, `shell`, `addargs`, `kill`, `exit` | names, files, processes, messages |
| C library, boot, configuration | mostly sequential | | |

What is hard here.  Interrupts are off inside system calls, so one call is atomic *until it
reschedules*; every hazard lies where a call blocks or readies another process half-way.  The
page-fault handler does so in the middle of its work: it holds the semaphore `prSem`, but programs
run, fault, exit and write to pages while an eviction waits for the remote disk.

What makes each part correct:

* paging: a page keeps its last value through eviction and reload; the frame table, the page tables
  and the replacement list describe the same mapping; no two processes share a frame or a store; a
  dead process leaves nothing behind; every fault is served; nobody waits for a `prSem` that
  nobody holds;
* scheduler, semaphores, messages: the current process has the highest priority among the
  eligible; a process is on exactly one queue; counts and queues agree; no wake-up is lost;
* clock: a sleeper wakes at its time and not before; the delta list stays sorted;
* ports: no message lost, duplicated or reordered within a port, also across a reset;
* allocators: free and allocated blocks partition memory;
* remote disk: what was written is what is read, through the cache, lost packets and retries;
* terminal: characters arrive in order, once; counts of the semaphores match the ring contents;
* local files: every block is free or in one file; a file holds what was written; a closed file is
  on the disk;
* network: no packet buffer is lost or used twice; whoever waits for a packet is woken by it; an
  address that ARP returns is that of the host; rings agree with the DMA engine;
* remote files: what was answered has been done once, in order;
* shell: a line means what its syntax says; the shell hears of every command it waits for; files
  are closed when their command is over.

## 2. Plan

Done:

1. `Paging` with `MCPaging`, `MCExits`, `FrameProofs` and `DataProofs`: the core, because every other part is a textbook
   kernel and this is what the repository adds.
2. `Queues` with `QueueProofs`: the lists of `queuetab` as sequences (insertion by key, removal from
   the middle, the delta list), with lemmas about them that both kernel modules cite; `QueueProofs` also has what the device proofs share, `Semaphores` and
   arithmetic on rings.
3. `Kernel` with `MCKernel` and `KernelProofs`: ready list, `resched`, deferral, semaphores,
   messages, clock and sleep queue, creation and termination.  `Paging` uses the contract of
   `Kernel` that any runnable process may be dispatched next, and takes from `Kernel` that the
   queue of `prSem` is first come first served and that its count tells its length.
4. `Rds` with `MCRds` and `DiskProofs`: the remote disk from the driver to the server, shown to implement `Disk`, the
   memory that `Paging` takes it for.
5. `FrameFifo` with `FifoProofs`: the linked list of `frame.c`, shown to implement `FifoList`, the
   sequence that `Paging` uses.
6. `Semaphores` (what the devices use of a semaphore), `Ports`, `Memory`, `Tty`, and `Namespace` with `Shell`;
   `MCDevices` checks them.
7. `Lfs` with `MCFiles`: the local file system on its RAM disk.
8. `Arp`, `Net`, `Eth` and `Rfs`: the network from the descriptor rings to remote files; `MCNet` checks them.
   `Tables` has the search for the first entry of a table that will do, which `Arp` and `Net` share.
9. `ServiceProofs` and `EthProofs`: theorems on what the users of `Ports`, `Memory`, `Tty`, `Arp`, `Rfs` and `Eth` may rely on.

Next, in this order:

10. More theorems: the counts of `Net`, the blocks of `Lfs`.
11. `psinit` and the boot sequence with DHCP; TFTP; `rdscontrol` with the server's delete and close.
12. Pure algorithms of the library (`doprnt`, `doscan`, `qsort`) against reference definitions over
    bounded inputs.

## 3. The paging model

`Paging.tla`.  A process is at one of the points of control named by `pc`; the code between two
such points runs with interrupts disabled and is one action.

| Code | Actions |
|---|---|
| `resched` dispatches and loads CR3 | `Switch` |
| `vcreate` (with `getPD`, `addMapping`, `allocate_bs`, `get_bs`) and `resume` | `vcreate` |
| loads and stores of programs; the processor's page-table walk | `Read`, `Write`, `Fault` (which includes the first call of `pfhandler`, `wait(prSem)`) |
| `pfhandler` | `pfhandlerOutOfRange`, `pfhandlerNewTable`, `pfhandlerNewPage`, `pfhandlerNothing` |
| `getPFrame`, free frame | `getPFrameFree` |
| `removeFifo`, `removeRand` | `removeClean`, `removeDirty` |
| `sendBs` with `write_bs` | `removeDirty` (opens the store), `sendBsCopy`, `sendBsDone` |
| `getBs` with `read_bs` | `assignFresh`, `assignStored`, `getBsDone` |
| `kill` | `kill` (up to `send`), `killWait` (`freestk`, `wait(prSem)`), `freeFrames`, `killUnmap` (`removeMapping`, `signal`), `killDone` |

Abstractions:

* A page is one value.  `write_bs` and `read_bs` move eight blocks; the model moves the page in one
  step with other processes running before and after it.
* The remote disk is a memory that answers each request once.  Its driver is a component of its own.
* Heap addresses lie under one page-directory entry (200 pages at most, `BSD_PAGES`), so a directory
  is one entry, `pdmem`.  The shared tables for physical memory are always present and left out.
* `newpid` takes any free slot; `vcreate` and the `resume` that follows it are one step.
* The TLB never evicts; entries disappear on a context switch.  With `CacheTLB` false the
  processor walks the tables on each access.
* The error-code branch (`pfHandler.c:21-26`) is left out: mappings are supervisor, writable, so
  a protection fault cannot arise.  `prcount`, `xdone` and descriptors are left out.
* `bs_sem` is taken and released with no reschedule in between, so nobody ever waits for it.
  `isopen` and `isallocated` of `bstab` always agree.
* A process whose directory or page-table frame is `SYSERR` (`"lost"`, or `prpd = NoFrame`) has no
  defined behaviour and takes no further step.
* The replacement list is a sequence.  `FrameFifo` has the list of `frame.c` itself (section 6).
* Histories: `fault` (the address each process faulted on), `mem` (the value last written to each
  page), `raced` (pages written between copy and unmapping).

## 4. The kernel model

`Queues.tla` holds what `queue.c`, `insert.c`, `insertd.c` and `getitem.c` do to a list.  A process has
one node in `queuetab`, so its key is a function of the process (`qkey`) and survives the process's
leaving the list; `Insert` puts a process behind those with an equal key, `DeltaPlaces` finds its
place in a delta list, `Unlink` takes a process out of wherever it is.

`Kernel.tla`.  Interrupts are disabled within a system call, so a call is one action up to the point
where it reschedules.  `pc` says where the process goes on when it runs again.

| Code | Actions |
|---|---|
| `resched`, `resched_cntl`, `ready` | operators `resched`, `DeferStart`, `DeferStop`, `ready`, used by every action that calls them |
| `resume`, `suspend`, `yield`, `chprio` | the same names |
| `wait`, `signal`, `semcreate` | the same names; `waitOn` and `signalOn` are their bodies, also for `prSem` |
| `signaln`, `semdelete`, `semreset` | `signaln`, `signalnLoop`, `signalnEnd`; `semdelete`, `semdeleteLoop`; `semreset`, `semresetLoop`, `semresetEnd` |
| `sleepms`, `clkhandler`, `wakeup` | `sleepms`; `clkhandler` (tick and test), `wakeupLoop`, `wakeupEnd`, `clkPreempt` |
| `send`, `receive`, `recvclr`, `recvtime` | `send`; `receive`, `receiveDone`; `recvclr`; `recvtime`, `recvtimeDone` |
| `pfhandler` as the scheduler sees it | `pfhandler` (`wait(prSem)`), `rdsread` (waits for the driver's message), `pfhandlerDone` (`signal`) |
| `create` | `create` |
| `kill` | `kill` (up to the death notice), `killWait`, `killFree`, `killSwitch` (the switch on `prstate`) |

* A loop that releases several processes calls `ready` with rescheduling deferred.  `op` names the
  loop in progress, each iteration is an action, and nothing else is enabled meanwhile.  This shows the
  deferral itself: were `Defer` not counted, another process would run inside the loop.
* `victim` is the argument of the `kill` a process is in.  Two processes may be killing the same
  third one, or each other, and the target may have changed state, died, and been created anew by the
  time `killSwitch` looks at it.
* `Program[p]` is the set of calls that process `p`'s program makes; an instance gives each process
  the calls whose interplay it is about.  The invariants are proved for every `Program`.
* Times are small numbers; `Half` stands for 2^31, because `insertd` takes the delay as a signed
  number.  `sleepms(d)` with `d` at or above it is allowed by the code and wakes at the next tick.
* `left` (what remains of a sleeper's delay) and `stale` (the current process's priority was changed
  and `resched` has not looked since) are histories that no guard reads.
* Memory, names, descriptors and register contexts are left out; so is the preemption
  counter, since `clkPreempt` may find the time slice used up at any tick.

## 5. The remote disk model

`Disk.tla` is what the users of the disk count on: a memory, written at once, read as last written.
`Rds.tla` is the driver, the network and the server; `ImplementsDisk` says that it behaves as `Disk` to
its clients, with `last`, the value most recently handed to `rdswrite`, as the memory.

| Code | Actions |
|---|---|
| `rdsread` | `rdsreadHere` (found in the cache or as a write in the queue), `rdsreadMiss` (a request), `rdsreadDone` (from `receive` on) |
| `rdswrite` | `rdswriteReplace` (a write in the queue), `rdswriteCached` (an unused copy in the cache), `rdswriteNew` |
| `rdsbufalloc` | `waitAvail` (`wait`), `rdsbufalloc` (the rest), `granted` (the rest, after a wait) |
| `rdsopen`, `rdsclose` | the same names; the exchange of an open is the caller's |
| `rdsprocess` | `rdsprocessRead` and `rdsprocessWrite` up to the exchange, `readDone` after it, `rdsprocessSleep` |
| `rdscomm` with `udp_sendto` and `udp_recv` | `exchange` (sequence number), `rdscommSend`, `rdscommTimeout`, `rdscommRefuse`, `rdscommDone`, `rdscommExhausted` |
| `udp_in` | `udp_in` |
| network | `wire`, a queue each way; `lose` |
| `rdserver` with `rdread`, `rdwrite`, `rdopen` | `rdserver`, `reply` with `snderr` and `sndok` |

* Both sides run with interrupts disabled and are atomic between the points where they wait.  Sending
  may wait for a packet buffer, so a client may run before each transmission.
* A queue, the cache and the free list are sequences.  Where the code would corrupt the links, spin for
  ever or panic, `halted` says so and nothing follows: `"tangled"` (`rdsprocess.c:118`), `"hung"`
  (`rdsread.c:103`), `"panic"`.  Hence deadlock is not checked: an exhausted exchange really stops the
  system, and the bounds stop it otherwise.  The properties about counts say nothing of a stopped system.
* `snderr` keeps the 16 bits of `htonl(1)`, which are 0, so the driver takes every reply for success and the branch of `rdscommDone`
  for an error is not reached.  It does no harm in the runs: no request for a block reaches the server before it has opened the file, and callers read
  blocks that were written.  The server's own failures (no room for the file, a failing `read` or `write`) are left out.
* One disk and one file, so identifiers are left out.  A write of the value a block already has is left
  out, since nothing could tell its effect.
* `rdscontrol` (sync, delete) and the server's close and delete requests are left out: nothing in
  the repository issues them.

## 6. The device models

`Semaphores.tla` is the part of `wait`, `signal`, `signaln`, `semcreate` and `semdelete` that a device needs: a count,
a queue and whether the entry is in use.  A process that has been let in is no longer in the queue and takes its next
step at any later time; that gap is where most of the hazards of the devices lie.  That `Kernel` gives semaphores this
behaviour is `SemCountIsQueue` there.

In this section and the next ones `halted` names a place where the code goes out of step by its own doing (a buffer
overrun, a stale index, a lost count): the model stops there, the place is listed under the hazards, and the
properties say what holds up to it.

**`FrameFifo`** is the list of page frames, linked through the table, with `fifoHead`.

| Code | Actions |
|---|---|
| `getPFrame`, free frame, with `addFifo` | `getPFrame` |
| `removeFifo`, and its return to `getPFrame` | `removeFifo`, `replaced` |
| `freeFrames` with `deleteFifo` | `freeFrames` |

`addFifo` walks to the end of the list and leaves the next pointer of the frame it appends as it was.  What `removeFifo` writes
through the null pointer when it takes the last frame (`frame.c:334`) goes to address 0 and does not reach the list;
the model has that write (`prev` of `NULL`).  `ImplementsList`: seen from `fifoHead`, every step is a step of `FifoList`.

**`Ports`** has `ptcreate`, `ptsend` and `ptrecv` up to their `wait`; `ptsendLink`, `ptrecvUnlink` and `gone` are what they do
when they are let in, and find the port as it was, cleared, deleted, or created anew.  `_ptclear` is `clear`, `clearSecond`
and `clearEnd`, since `ptreset` and `ptdelete` release the waiters of two semaphores one after the other.

**`Memory`** has the heap with `getmem` from the low end and `getstk` from the high end, `freemem` and `freestk`, also
of a block that is free already (`freeAgain`); `vcreate`'s path on which a block is given back (`createFails`); the virtual heap (`vgetmem`, `vfreemem`, `vend`); and
buffer pools (`mkbufpool`, `getbuf`, `getbufTake` after the wait, `freebuf`).  Only addresses and lengths of free blocks are state, as in the code;
`owned` says what the callers hold.

**`Tty`** has an upper half (`ttyread`, `ttygetc`, `ttywrite`, `ttyputc`, `ttycontrol` with `nextc` and `nextcDone`) and a lower half (`ttyhandle_in` with one operator per
case: `raw`, `flow`, `cbreak`, and for cooked mode `killLine`, `erase`, `endLine`, `ordinary`; `ttyhandle_out`), and the UART (`sent`).
Interrupts come between any two steps of the upper half that do not run with interrupts disabled.
The places where the code goes out of step: the number of characters to send also counts places of writers that were
let in and have not written (`ttyhandle_out.c:57`); raw mode wraps the wrong pointer (`ttyhandle_in.c:43`); a line kill across the end of the buffer moves the head
(`ttyhandle_in.c:100`); EOF is stored without wrapping (156), and a newline without looking for room.  `TC_NEXTC` looks at the
tail (`ttycontrol.c:27`), and character-break mode never signals readers (`ttyhandle_in.c:79`); the model does the same, and
`InputExact` counts them (`uncounted`).  `thalted` stops the model where a pointer has left its buffer (`"outside"`), a character is stored over one not read yet
(`"overrun"`), or places of writers that have not stored anything are sent (`"stale"`).

## 7. The shell and the name space

A line is a sequence of pieces (words, blanks, operators, quotes), and a name is a sequence of pieces of which none
begins another.  `interpret` follows `shell()` with `lexan()` on `tokbuf`, `tok`, `toktyp` and `tlen`, the two tests for
redirection and `addargs()`; `Meaning` says the same from the syntax in the comment on `shell()`, by places in the line, and `CommandExact` compares
them.  `nammap` follows the table of prefixes that `naminit()` builds from `devtab`, and `StandsFor` says what a name stands for.

| Code | Actions |
|---|---|
| `shell()` up to `cbuiltin` | `readLine`, `refuse` |
| `open(NAMESPACE, ...)` for input and output | `openFile` |
| `create`, `addargs`, `recvclr`, `resume` | `spawn`, `createFails` |
| `receive` in a loop | `receive` |
| `xsh_kill` with `kill` | `kill`, `killEnd` |
| end of file, `xsh_exit` | `exit` |
| a command returns: `kill(getpid())` | `finish` (the notice), `closeFiles`, `freed` |

* `main()` starts the shell with priority 50, above its commands (20); after `exit` it is created again with 20, the same as theirs (`main.c:90-101`; these
  lines are commented out in this repository, whose `main` runs the tests of paging).  With the higher priority commands run only while the shell is blocked,
  with the same one steps interleave.
* `kill()` sends the notice first, closes the descriptors, waits for `prSem` and then frees the entry.  A command that is killed meanwhile has its descriptors closed
  again; `halted` is `"closed again"` if one of them belongs to another command by then.
* Files that a failing line or a failing `create()` leaves open are in `leaked`.
* `kill` and `exit` stand for the builtins (`argecho` and `clear` change nothing), `cat` for all other commands.
* A notice that comes after `exit` goes nowhere: the parent's slot is free.  That its process id may be in use again is left out.

## 8. The local file system

`Lfs.tla`.  The disk is the RAM disk, so it holds its content until the next boot; the instance starts after `lfscreate()`.

| Code | Actions |
|---|---|
| `lflread`, `lflgetc`; `lflwrite`, `lflputc` (with `lfsetup`, `lfiballoc`, `lfdballoc`) | `lflread`, `lflwrite` |
| `lflseek`; `lflcontrol` with `lftruncate` | `lflseek`, `lflcontrol` |
| `lfsopen` | `lfsopen` |
| `lflclose` with `lfflush` | `lflclose` |

* `open`, `close`, `read`, `write`, `seek` and `control` (`system/*.c`) keep interrupts off for the whole call, and a RAM disk never waits, so no process comes in
  between: a call is one step, and the mutexes of the files and of the directory are never found taken.  Which process makes a call does not matter, and there are no processes in the model.
* A call moves one byte; a longer one is several in a row.
* The mode bits of an open file are stored and never looked at again; they are left out.
* The new entry that `lfsopen` makes does not set `lf_dirdirty`: the name of a file that is created and never written is in memory only.
* `halted`: `"twice"` (a file opened on two pseudo-devices, which `LfsTwice` is about), `"panic"` (no free block of one kind).
* A crash with files open is left out: with the RAM the disk is gone.

## 9. The network

**`Arp`**: `arp_resolve` (answer in the cache), `arp_resolveAsk` (up to `recvtime`), `arp_resolveTimeout`, `arp_resolveWake`, `arp_in`.  Hosts send what they like, so replies are late, lost,
repeated or unasked.  `send` is any other message to a process that waits: it counts as the answer (`arp.c:133`).

**`Net`**: a packet is its addresses and ports, a buffer is a count.

| Code | Actions |
|---|---|
| `netin` with `ip_in`, `ip_local`, `udp_in`, `icmp_in` | `netin` (the buffer), `ip_in` |
| `ip_enqueue`, `ipout` | `ip_enqueue`, `echoed`; `ipoutWait`, `ipoutTake`, `ipout` |
| `ip_send` with `arp_resolve` and `write` | `ip_send`, `resolved` |
| `udp_register`, `udp_recv`, `udp_send`, `udp_sendto`, `udp_release` | the same names, `udp_recvEnd`, `udp_sendtoFill` after a wait |
| `icmp_register`, `icmp_send`, `icmp_recv`, `icmp_release` | the same names, `icmp_recvEnd` |
| `getlocalip` | `getlocalip` (from then on `ipvalid`) |

A process gives up the processor where it waits for a buffer, a packet, `ipout`'s semaphore or ARP, and where it signals; which process goes on is left open.
`halted`: `"overrun"` and `"empty"` (two readers of one endpoint, limits that ICMP does not test), `"unsent"` (a packet that `ipout` was let in for is overwritten, `ip.c:453`), `"changed"` (the
state of an endpoint that was released meanwhile is written, `udp.c:190`), `"outside"` (the head of an ICMP queue wraps at the number of slots, not at the size of the queue).

**`Eth`**: the DMA engine is external: `receive` drops a frame if its descriptor is not its own, `transmit` stops there; the interrupt is raised while one of the two
status bits is set.  `ethhandler` acknowledges, `ethhandlerTx` and `ethhandlerRx` count descriptors and signal: the device goes on in between.  Processes use the driver through `read`, `write` and `control`, also `netin` and
`ipout`, which otherwise run with interrupts enabled (`ip_out()` and `arp_resolve()` call `write`); these calls keep interrupts off, so each is a step up to its `wait()` (`ethreadWait`, `ethwriteWait`) and one
from there on (`ethread`, `ethwrite`); `ethcontrol` is the list of multicast addresses.  With a full transmit ring
the handler counts nothing (`EthStall`); with a full receive ring it counts again what was counted.  `halted`: `"counted twice"`, the second of these; `"outside"`, the shift past the end of a full multicast list.

**`Rfs`**: every call waits for `rf_mutex` (`enter`) and makes one exchange or none: `rfsopen`, `rflread`, `rflwrite`, `rflseek`, `rflclose`, `rfscontrol` (`rfsndmsg`); `rfscommNoReply` and `rfscommReply`
are the two ways on from `udp_recv`.  The network loses and delays messages and keeps their order.  The server (`serve`) is external and does what `rfilesys.h` says of the messages, once for each copy it gets.
`restart` is a restart of the machine: sequence numbers begin again at 1.  `possible` is the set of contents the file may have as far as the callers know, `gotOld` whether a read returned
anything else.  A retried delete or creation whose first reply was lost reports an error although it was done; `RemoteExact` allows that.

## 10. Runs

| Run | What it shows | Distinct states |
|---|---|---|
| `PagingExits` | in one part three children, one page each, cached translations: `FrameTableConsistent`, `FifoExact`, `StoresOwned`, `UseCountsBalanced`, a page survives eviction and reload (`DataPreserved`), no stale translation is used (`TlbCoherent`); in the other two children with two pages each, one of which exits: `ExitsConsistent`, the first four of that part | 557,660 |
| `PagingRogue` | stray addresses, kills of others, cached translations, random replacement with a single page frame, table frames run out: `PrSemConsistent` | 525,967 |
| `PagingLive` | random replacement, one page frame, fairness: `FaultServed` | 18,542 |
| `Kernel` | in one part programs that synchronize, in the other programs that wait for the clock: `OneQueue`, `OneCurrent`, `SemCountIsQueue`, `MessageWakes`, `CurrentHighest`, `DeltaListExact`, `SleepersOnTime`, `SleepsInFull` | 1,448,988 |
| `RdsDisk` | `BuffersPartitioned`, `AvailExact`, `RequestsCounted`, `ReaderQueued` (no lost wake-up), `Durable`, `ImplementsDisk` | 380,379 |
| `Devices` | `PortsExact`, `MemoryExact`, `InputExact`, `OutputExact`, `OutputMoves`, `CommandExact`, `CommandsTracked`, `ImplementsList` | 1,009,735 |
| `Files` | `BlocksPartitioned`, `FileIsContent`, `ClosedOnDisk` | 1,050,501 |
| `NetStack` | `ArpExact`, `BuffersConserved`, `QueuesExact`, `StuckOnlyByEcho`, `RingsExact`, `RemoteExact` | about 1,468,000 |

`PagingExits`, `Kernel`, `Devices` and `NetStack` check several instances in one run: `part` is chosen in the initial state, the parts share no state, and each
behaviour exercises one of them.

Bounds of `Paging`.  Main plus two or three children, one or two page frames, heaps
of one to three pages, at most `MaxCreate` calls of `vcreate`.  With two frames and three or more pages every
allocation path occurs (free frame, clean victim, dirty victim, fresh page, stored page), a service
is interrupted at each point by faults of every other process, and frames and stores are reused.
Outside `PagingRogue` all heaps have the same size.  With different sizes the process that reads
another's address from CR2 (below) may find it past its own heap and kill itself, and from then
on nothing else holds.  Likewise only the programs of `PagingRogue` kill another process, which is why processes really stop there
and deadlock is not checked.  The three children are created in a fixed order, since they differ in nothing;
two of them write.  What pages hold is left out of the view of the second part of `PagingExits`: it decides nothing there.

Bounds of `Kernel`.  The null process, main and two more slots, of which each can be freed and reused;
one user semaphore and `prSem`; priorities 1 and 2, so that equal, higher and lower occur; delays 1 and
2, so that delta keys of zero and one and three sleepers in the list occur; counts 0 and 2 up to
`MaxCount`.  Every queue reaches the length at which order and middle removal matter.  `VIEW Seen`
ignores a key and a `prsem` that no code reads, those of a process on no queue that uses
them.  Deadlock is not checked because `xdone` halts the system when the last process ends.

Bounds of `Rds`.  One client, since paging uses the disk with `prSem` held; three blocks and two buffers, so
that the cache misses, evicts, and runs out of buffers; two values; two attempts per exchange with two losses, so that each
packet of an exchange can be lost and an exchange can fail; five exchanges, which is an open, a read, three writes, or
a close and a second open in between.  Buffers are interchangeable, and so are blocks, as the file starts with one value
everywhere: `SYMMETRY` uses both.  `Late = FALSE`: no reply takes longer than `RD_TIMEOUT`.  Messages from elsewhere
reach the client between its calls.

Bounds of `Devices`.  Ports: two processes, two ports that can hold more messages together than there are nodes, three lives of a port.
Memory: ten words of heap and four of virtual heap, at most three blocks in use, so that each end of a block meets a free
neighbour or none; a pool of two buffers.  Terminal: an input buffer of three, which wraps and fills up, with all three modes; and separately (part `writing`, in
which no input is stored and the echo is that of line kill) an output buffer of three, a FIFO of two and an echo buffer of three, which overflows.  Echo switched off
and echo of ordinary characters with output at the same time are left to the theorems.  Frames: four, two owners.  Shell: to a new shell, every line of up to five pieces over
words, blanks, operators and both quotes, and of up to seven words and operators, with `SHELL_MAXTOK` 6 in place of 32, so that there can be too many; 342 names of files;
afterwards seven commands, two processes to run them and two pseudo-devices.  Names that fit on a line of the terminal are shorter than
128 characters, so the `char` that holds their length (`nammap.c:55`) does not overflow.

Bounds of `Files`.  Blocks of two bytes, index blocks of two pointers; two index blocks and three data blocks, so that a file has two of the first kind and both kinds run out; one
file of up to five bytes, one of up to two and one that stays empty, of which two are in the directory and two are open at a time.  A file grows by one value of a byte, its own
(`First`), and at positions 1 and 4 another value may be written over it (`Rewritten`).

Bounds of `NetStack`.  ARP: three hosts, two entries, two tries.  UDP: two endpoints with one packet each, or one with two; ICMP: two slots with one packet, an output queue of one; the pool has one buffer more than the
queues hold, as in the code.  Ethernet: rings of three, so that partly full differs from both full and empty; two writers besides `ipout`; `part` chooses between
`Receives`, more frames than descriptors and more multicast addresses than fit, and `Sends`, with one frame to read at most; that both go on at
once is left to the theorem.  Remote files: one file of one byte, which may be deleted, one device, two
processes, two tries, three exchanges from one restart to the next, two messages each way; no second restart while a message from before the first is on its way.

Deadlock is also unchecked in `Devices`, `Files` and `NetStack`, because `halted` stops the system, and in `RdsDisk`, because an exhausted exchange does.

Type invariants stand beside the variables of each module (`KTypeOK`, `RTypeOK`, `LTypeOK`, `PtTypeOK`, `MTypeOK`, `TtyTypeOK`) as documentation; that of `Paging` is part of `FrameTableConsistent`.

Fairness (`FairSpec` of `Paging`).  `resched` gives the processor to equal priorities in turn at every clock
quantum, so each runnable process is dispatched again and again; a process that has it, or that gets
a disk answer, takes the next step of the handler or of `kill`.  Enabledness of these steps comes and
goes with the processor, hence strong fairness.  Programs owe nothing: they may loop, or never touch
memory again.  `Kernel` has no liveness property: with strict priorities nothing obliges a low
one to run.  The devices have properties of states in place of liveness: `OutputMoves`, `ReaderQueued`, `QueuesExact` and `StuckOnlyByEcho` say
that whoever waits has somebody who will wake it.

### Disagreements between the code and its documentation

| Run | What happens |
|---|---|
| `PagingWrongAddress` | CR2 is read after `wait(prSem)`: a fault meanwhile overwrites it (`pfHandler.c:13`) |
| `PagingReloadLost` | a free frame is used without reading the page back from its store (`frame.c:98`) |
| `LfsTwice` | the name of an open file is never kept, so a file can be opened twice (`lfsopen.c:161`) |
| `EthStall` | a transmit interrupt that finds the ring full counts nothing, and all writers wait for ever (`ethhandler.c:44`) |

These are visible in the models too and stated as exceptions or hazards instead of runs:

* a write between the copy and the unmapping of a page is lost (`frame.c:337`; `raced` in
  `DataPreserved`);
* `invlpg` is given the address of a variable, so a process that evicts a page of its own keeps the
  old translation (`frame.c:353`; `TlbCoherent` is checked with one page per process);
* store 0 counts as "no store" (`kill.c:41`; excepted in `StoresOwned`);
* `kill` inside the critical section waits for the semaphore its caller holds (`pfHandler.c:32`; `PagingRogue` reaches it);
* page directories are recorded as the creator's and go when it exits (`frame.c:77`, `vcreate.c:62`; in the runs only main creates, and stays);
* `kill` blocks on a stack it has freed (`kill.c:32`);
* `recvtime(0)` puts a zero key in the delta list (`sleepms` treats zero apart, `sleep.c:23`); the tick
  that removes it is not counted for those behind it (`clkhandler.c:33`), who sleep one tick too long
  (the run has delays of 1 and 2);
* a reply older than the request is refused only if its type differs (`rdscomm.c:88`; with `Late = TRUE`, a second answer to one read
  is returned for the next and `ImplementsDisk` fails);
* a death notice that reaches a process in `rdsread` is used as the address of its buffer
  (`rdsread.c:90`; with `NoticeAt = {"receive"}`, `ImplementsDisk` fails at once);
* `chprio` neither moves a ready process nor reschedules (`stale`, and the keys rather than the
  priorities, in `CurrentHighest`);
* a receive interrupt that finds the ring full counts frames again that were counted, and one more: `netin` is let in for frames that have
  not come (`ethhandler.c:91`; `halted` in `RingsExact`);
* the shift after a removal reads and clears one entry past a full multicast list (`ethmcast.c:62`; `halted`);
* a name that begins with `/dev/namespace` is mapped again and again from the same string and always fails (`nammap.c:32`);
* a shell that was created again can miss the notice of the command it waits for (`shell.c:302`; `missed` in `CommandsTracked`).

## 11. Proofs

Each theorem holds for every value of the constants that meets the assumptions of its module.

| Theorem | Statement |
|---|---|
| `FrameProofs!PrSemAlwaysConsistent` | `Spec => []PrSemConsistent`: `prSem`'s count and its queue agree with who is inside |
| `FrameProofs!PagingMutualExclusion` | `Spec => []MutualExclusion`: at most one process is in the paging structures |
| `FrameProofs!FrameTableAlwaysConsistent` | `Orderly` implies `Spec => []FrameTableConsistent` |
| `FrameProofs!FifoAlwaysExact` | `Orderly` and the FIFO policy imply `Spec => []FifoExact` |
| `FrameProofs!StoresAlwaysOwned` | `Orderly` implies `Spec => []StoresOwned` |
| `FrameProofs!UseCountsAlwaysBalanced` | `Orderly` implies `Spec => []UseCountsBalanced` |
| `DataProofs!DataAlwaysPreserved` | `Steady` implies `Spec => []DataPreserved` |
| `DataProofs!TlbAlwaysCoherent` | `Steady` implies `Spec => []TlbCoherent` |
| `FifoProofs!FifoImplemented` | `Spec => ImplementsList`: the refinement of `FifoList` |
| `KernelProofs!OneQueueHolds` | `Spec => []OneQueue` |
| `KernelProofs!OneCurrentHolds` | `Spec => []OneCurrent` |
| `KernelProofs!SemCountIsQueueHolds` | `Spec => []SemCountIsQueue` |
| `KernelProofs!MessageWakesHolds` | `Spec => []MessageWakes` |
| `KernelProofs!CurrentHighestHolds` | `Spec => []CurrentHighest` |
| `KernelProofs!DeltaListExactHolds` | `Timely` implies `Spec => []DeltaListExact` |
| `KernelProofs!SleepersOnTimeHolds` | `Timely` implies `Spec => []SleepersOnTime` |
| `KernelProofs!SleepsInFullHolds` | `Timely` implies `Spec => SleepsInFull`, which is about steps |
| `DiskProofs!BuffersPartitionedHolds` | `Spec => []BuffersPartitioned` |
| `DiskProofs!RequestsCountedHolds` | `Spec => []RequestsCounted` |
| `DiskProofs!AvailAlwaysExact` | `Alone` implies `Spec => []AvailExact` |
| `DiskProofs!ReaderAlwaysQueued` | `Alone` implies `Spec => []ReaderQueued` |
| `DiskProofs!AlwaysDurable` | `Alone` implies `Spec => []Durable` |
| `DiskProofs!DiskImplemented` | `Alone` implies `Spec => ImplementsDisk`: the refinement of `Disk` |
| `ServiceProofs!ArpIsExact` | `ArpSpec => []ArpExact` |
| `ServiceProofs!RemoteIsExact` | `RfsSpec => []RemoteExact` |
| `ServiceProofs!PortsAreExact` | `PtSpec => []PortsExact` |
| `ServiceProofs!MemoryIsExact` | `MemSpec => []MemoryExact` |
| `ServiceProofs!TtyInputIsExact` | `TtySpec => [](TtyTypeOK /\ InputExact)` |
| `ServiceProofs!TtyOutputIsExact` | `TtySpec => []OutputExact` |
| `ServiceProofs!TtyOutputMoves` | `TtySpec => []OutputMoves` |
| `EthProofs!RingsAreExact` | `EthSpec => []RingsExact` |

**Paging.** The invariant is `SemInv`: `PrSemConsistent` together with `SemTypeOK`, the facts that make its terms
well typed.  One of them is not obvious: a `kill()` in progress names a process.  `sendBs` kills the
owner of a frame it cannot save, so page frames in use must be owned by processes, which is why the
frame table appears in an invariant about a semaphore.  The induction splits by action; `QuietStep`,
`WaitStep`, `SignalStep` and `KillDoneInv` say what each way to touch the semaphore preserves, and
`DropAtProperties` and `UnlinkProperties` of `QueueProofs` what taking a process out of the middle of the queue
leaves.

**The paging structures.** `FrameProofs` shows that the inverted page table, the page tables, the
replacement list, the stores and their use counts agree, for any number of processes, frames, stores
and pages and either policy, if the programs are `Orderly`, and if the disk carries out every transfer, as `Rds` says it does as long as it does not panic.  On the
paths of `bsdent.c` for a failed transfer, and when `kill()` cuts a service short, the use count stays raised; `UseCountsAlwaysBalanced` does not speak of them.  Each conjunct of that hypothesis is one
the code needs (`PrSemConsistent` is what `PagingRogue` checks without them):
* no process touches an address beyond its heap (`~Stray`), or kills another (`Targets = {}`): then
  the handler would call `kill()` while it holds `prSem`, and somebody else's frames, half served,
  would be taken back;
* a process that creates others does not exit: the directories of its children are recorded as its
  own (`vcreate.c:62`), and `freeFrames()` would free them;
* heaps have one size: `pfhandler()` reads CR2 after it has waited, so it may serve the address
  another process faulted at (`PagingWrongAddress`), and with a smaller heap that address would be
  out of range.  With heaps of one size the wrong page is a page of the heap, and serving it does no
  harm: this is part of what is proved (`FaultsInHeap`).

None of the four properties is inductive, nor are they together.  The invariant is `FrameInv`, twelve
named parts.  Beyond the properties it has to say what a service in progress relies on
(`Services`: the page marked present, no frame recorded for it yet, the frame in hand in use until it
is unmapped and then free), whose page tables a frame number may name (`Directories`, `Tables`: a
table belongs to one process, until its own `kill()` begins to free frames), and what is still
true between the steps of a `kill()` (`Standing`, `Holding`).  `FramesMapped` and `PagesFramed` are the two
directions of `FrameTableConsistent`: the first is what lets `sendBs` find the entry of the page it
evicts, the second what keeps an eviction from hitting somebody else's page.  The proof has one lemma for
each action of `Paging` (`FaultFrames` to `KillDoneFrames`); `EntrySet` says what storing one page
table entry leaves alone, the lemmas with `Kept` in their names which parts survive a step that changes none of
what they are about, and `SemInv` that only one process serves at a time
(`OneCritical`).  TLC checked `FrameInv` before it was proved.

**What the pages hold.** `DataProofs` shows that an eviction and a later reload lose nothing, and that no stale
translation is used, if the programs are `Steady`: orderly, none of them exits, and heaps have one page if
translations are cached.  The second condition cannot be left out: once a process has left, `getPFrame()` gives its
frames away without looking in the store (`PagingReloadLost`).  Nor can the third: nothing but the switch of
directories in `resched()` flushes the translations, so a process that evicts one of its own pages could go on
using it.  The invariant is `DataInv`, which adds to `FrameInv`:
* `PagesKept`: what is to be kept is in the page's frame, and in the store too unless the page is marked
  dirty or `sendBs()` is copying it at this moment (it clears the dirty bit first); without a frame it is
  in the store;
* `Copied`: between the copy and the end of `sendBs()` the store has what the frame had;
* `NoneToSpare`: once a page has gone out, no frame is free but the one the service in progress has
  emptied.  This is why a page that is in a store always comes back from it, and exactly what an exit
  destroys;
* `Written`: only pages of heaps have values; `Translations`: what is cached is from the tables of the
  process that runs.

**The replacement list.** `FifoProofs` shows that the list of `frame.c` is the sequence that `Paging` takes it
for.  It assumes (`FramesPlaced`) that there are frames, finitely many, and that `fifoHead` and the null
pointer are none of them.  The refinement mapping is what the code would meet: `Tail(Walk)`, where `Walk` follows `next`
from `fifoHead` as `addFifo()` does.  The invariant is `FifoInv`: `Chain`, that the nodes of `Walk` are
linked in both directions, each once, and end at a null pointer; and `Listing`, that they are the frames in use
but the victim that is being written to its store, and that the `next` pointer of a free frame is
null.  That last part is what `addFifo()` relies on when it appends a frame whose pointer it does not
set, and what the mutant `deleteFifoKeepsNext` breaks.  `WalkIsChain` says that nothing but `Walk` is a
chain, so a step is understood by giving the chain it leaves: `ChainAdded` and `ChainRemoved` do this for
the pointers that the three functions write, and the lemmas about `Tail` carry it over to the sequence.

**Kernel.** None of the first four invariants is inductive alone, and no subset of them is: taking the head
of a semaphore's queue is safe because the count says there is one (`SemCountIsQueue`), the count
agrees with the queue because `killSwitch` adds one to the semaphore in `prsem` exactly when the process
is on that queue (`OneQueue`), and `resched` finds somebody because the null process is never
anywhere else (`OneCurrent`).  The inductive invariant is

    KInv = Processes /\ Control /\ Semaphores /\ Messages /\ Kills

`Processes` has the two queue invariants and that a waiting process's `prsem` is a semaphore; `Control`
says that a deferred loop is on iff `Defer.ndefers` is one and which semaphore it is about;
`Semaphores` and `Messages` are the two remaining invariants with what makes them well typed; `Kills` that a
`kill` in progress is not aimed at the null process, which itself is never inside a call.  The lemmas
`ReschedStep`, `ReadyStep`, `BlockStep` and `GetitemStep` say what one rescheduling preserves whatever the caller
left; every action is then one of them with the caller's part filled in.  `QueueProofs` has the facts about the
lists: what insertion and removal do to membership, to the length, and to occurring once.

**Scheduler and clock.** `CurrentHighest` needs `Order`: the keys of the ready list descend, and nobody on
it is above the current process unless `chprio()` has changed a priority or a deferred loop has asked
for a reschedule and not had it yet.  The second part is wider than the property, which says nothing about deferred
loops: it is what `DeferStop` relies on when it does not reschedule because nobody asked.  The three properties of the
delta list follow from `Clocked`: each key is the step from one delay to the next, the delays ascend, and
outside of `wakeup()` every delay is at least one tick.  They hold if the delays are `Timely`, that is below 2^31 and,
for `recvtime()`, not zero; both conditions are needed, as the hazards at `sleep.c:41` and `clkhandler.c:33` say
(section 10).  For these two invariants most of what an action does is beside the point, so `NextShape`
first shows that every action is one of nine things done to the lists, the keys and the delays (`Shape`: nobody moves,
the current process blocks, a process is released, a timed wait is interrupted, ...), and
`ShapeOrder` and `ShapeClocked` treat only those.

`DueIn` sums keys with a recursive function.  That it is the function its equation asks for, and that its values are the
delays, is shown by induction over the place in the list.  The theorems of the library that state induction
take a predicate as a parameter, which the provers cannot instantiate; `LeastNatural` and `Induction` of
`QueueProofs` state it for a set instead, from `WFMin` and `NatLessThanWellFounded`.
`DeltaInsert`, `DeltaUnlink`, `DeltaTail` and `DeltaTick` then say what `insertd()`, `unsleep()`, `wakeup()` and a tick do to a list in
which keys and delays agree.

**Remote disk.** `BuffersPartitioned` and `RequestsCounted` are proved together, for any number of clients and with
late packets and messages at any moment: `readDone` takes the head of the queue, and that there is one follows
from the count (the read in hand is a request whose signal was taken), once it is known that only the communication process
can be in the exchange of a read (`Exchanges`).  The invariant is `RdsInv`; the moves of a buffer between the lists
(`FreeToRequests`, `CacheToRequests`, `RequestToCache`, `CacheToFree`) are lemmas about sequences.  With several clients the
model stops at `"tangled"`, so what the lists look like after that is not part of the theorem.

**The disk that paging sees.** `DiskProofs` shows that the driver, its process, the network and the server
together are a memory, for any numbers of blocks and buffers, any program and any losses, if the client is
`Alone`.  Each conjunct of that hypothesis is one the code needs:
* there is one client at a time, as with paging, which uses the disk with `prSem` held.  With two, a
  second request for a block is taken out of the queue with the wrong links (`rdsprocess.c:118`), and
  `semreset()` loses a count;
* no message comes from elsewhere while the client waits in `rdsread()` (`rdsread.c:90`);
* no reply comes later than `RD_TIMEOUT`: a smaller sequence number does not stop `rdscomm()` from
  accepting a reply (`rdscomm.c:88`), so the second answer to one read would be taken for the answer to the next.

The invariant is `DiskInv`: `RdsInv` and, while nothing has stopped, two halves that need each other.
`Driver` says where the last value of a block is: a valid copy in the cache (`Cached`) and a write in the
queue (`Queue`) have it, a block is queued at most once and never while a valid copy is in the cache, what the client waits for
is the last request (`Wanted`), and the server has the rest, except for the write that is being sent
(`Content`).  `Opened` says that no request for a block is on its way before the server has opened the file, so that it has no error to report, which the driver would take for success.  `Network` says why a reply can be believed although numbers are not compared for
equality: of the exchange in progress one packet at most that still counts is under way (`Single`), it is this
exchange's own and what it says is true now (`Truthful`), and when the driver sends again nothing is
left of the last attempt (`Unsent`).  A reply that is not the exchange's own is that of an open, whose
number differs (`Distinct`), and since replies come in the order of their numbers (`Sorted`) it is not the
sign of a lost one.  `First` is about the number 1, with which a client makes the server start anew: it is
gone before any block is sent.  The lemmas are one per action and half (`DriverSend`, `NetSend`, ...); `Fewer`
says that losing or taking packets keeps `Network`, and `DriverRequest` what putting a request into
the queue does, wherever its buffer came from.  TLC checked each part of `DiskInv` before it was proved.

**ARP.** `ServiceProofs` shows `ArpExact` for any number of processes, hosts, entries and tries.  The invariant
`ArpInv` adds to it the types and, for each process (`CallSound`), what it may still find when its message or its
timeout comes: an entry that was not kicked out under it is its own, pending without an answer or resolved with one.  `CacheSound` is the part about the cache
alone; `AllocIs`, `Placed`, `Freed` and `LearntIs` say what `arp_alloc()`, a new entry, a freed one and
`arp_in()` do to a table.

**Remote files.** `RemoteExact` speaks of the file and of what the callers know of it, and these differ while a request, or a
copy of one that was given up, is on its way.  `RfsInv` says how.  While nobody waits for a reply, the requests on their way, each
lost or served, in order, can lead only to contents in `possible` (`ChainTo`).  While somebody does,
either no copy of the request was served, and then all copies are behind everything else (`Pending`); or one was, and then nothing but copies
is left and every reply to it tells the truth (`Done`).  `ChangedTwice` is why the copies do no harm: what the
server does for a message, done again, changes nothing.  That it is one process that waits follows from the mutex
(`LockSound`), and that replies of earlier exchanges are told apart from the numbers (`Numbered`), which is what a
restart breaks: after the reply it makes the machine accept, `rhalted` is set.

**Ports.** `PtInv` has for each port (`PortSound`) what its two semaphores say.  The number that `wait()` leaves as it is, the count plus the
calls let in plus those that wait (`Balance`), is the number of places left, or of messages; the calls let in count until
they run, which may be after the port was cleared: hence `CallersSound`, by which a call that was let in in an
earlier life of the port can be told from its `seq`, and `OneClears`, by which two calls cannot clear
one port at the same time (the state `LIMBO` is its lock, and `ptcreate()` does not take such a port).  The lists of messages are a
property of all ports together: `Spread` says that each node is on one of them or on the free list, once, and
`SpreadMove` what moving a piece of one list to another does.  `WaitSound` and `SignalSound` are the contract of a
semaphore that this and the proof about remote files rest on.

**Memory.** `MemInv` has a half for the heaps and one for the pool, as `PoolArea` is all that the one sees of the other.  A free list is
`Sound` if its blocks are aligned, ascend and do not touch; `CutIs` and `ReturnedIs` say what taking words from the
edge of a block and putting a block back do to the words of a sound list (`FreeOf`), whichever neighbours there are to join.  With that the code's
lists are sets of words, and `Tiled` says of both heaps that the free words, the blocks in use and the rest make up
the region without overlap: a call moves words from one of the three to another (`TiledTake`, `TiledGive`, `TiledMove`).  A block
that is freed twice never gets that far (`FreeOverlaps`).  `Counted` is about `memlist.mlength`, which both heaps share.  For the
pool, `PoolSound` has the same balance as a port: the count, the processes let in and those that wait
make up the list (`SumIs`), so whoever is let in finds a buffer; and `BuffersFill` says that the buffers `mkbufpool()` cuts
fill its memory without overlap.  The theorem assumes that both heaps have an even number of words and that nobody asks for none (`MemoryAssumption`).

**Terminal.** `TtyInv` has the two halves (`InSound`, `OutSound`), which share nothing but the calls, and `Moving` about the UART.  In a half, a ring
holds the characters of the history (`RingAt`), and the semaphore has a balance as that of a port (`Stock`: its count, and the
calls it stands before, those that wait and those let in).  What was typed is the stock of the input semaphore, the line and what cbreak mode did not announce;
what was written and the stock of the output semaphore fill the buffer.  Every case of the code then changes one term for another: an ordinary character goes to the line
(`StoreQuietly`), the end of a line moves all of it to the semaphore (`StoreLine`), erase and line kill take from the line only (`CutLine`),
a reader takes what it was let in for (`InTake`), and `signaln()` gives back as many places as characters are sent (`SendStep`).  In `RingAt` the tail may be
one length behind or ahead of where it should be: raw mode leaves it at the end of the buffer (`ttyhandle_in.c:43`).  `Moving` says
that the interrupt is on while there is anything to send; turning it off needs an output semaphore at `TY_OBUFLEN`, and by the balance the buffer is empty then.
The theorems speak of runs up to the moment `thalted` is set; what the code does to a buffer after that is not part of them.

**Descriptor rings.** `EthProofs` shows `RingsExact` for rings of any size, any number of writers, and receiving and sending at once.  The property speaks of the cells
that hold frames; `EthInv` speaks of all of them.  In the receive ring (`RxSound`) the frames begin at the head, and the rest belong to the DMA, which is where it and the loop of
`ethhandler()` that counts frames stop.  In the transmit ring (`TxSound`) there come from the head on the descriptors that were sent and not counted, those to be sent, and those that may be taken.
The places of the tails follow from the balance of the semaphores (`Lets`, `Free`: the forms of `Frames` and `Slots` that the proof counts with), in which a process counts from its `wait()` until it moves the head or the tail.  `Noticed` is why no frame is overlooked: one that has come and
was not counted has its interrupt still to come, or the handler is about to count it.  `Place` is the place of a cell without a remainder, and `PlaceIs` and `DistanceIs` say that the code's remainders
are it; `LeastIs` is where a loop that looks for the first cell of a kind stops; each step of the driver or the DMA is a lemma about a ring (`RxCounted`, `TxTransmit`, ...) and one about the semaphores (`GateWait`,
`GateLeave`, `GateSignalN`).  What holds with a full ring is part of it as far as the property goes: the handler that counts nothing (`EthStall`) leaves `Free` at 0.
The theorem assumes that a ring has a descriptor, that the writers are finitely many and that `netin` is not one of them (`EthAssumption`).  It ends where `halted` is set, that is at the two faults of the
code that section 9 names.
TLC checked `EthInv` before it was proved.

Only model-checked: the paging properties for programs that are not `Orderly` or `Steady` but keep them all
the same; the remote disk with several clients, of which only `BuffersPartitioned` and `RequestsCounted` are proved;
the local files, packet buffers and queues, which have no theorems yet; and the shell, whose `lexan` is a `RECURSIVE` operator.  Liveness (`FaultServed`)
is beyond the proof system's reach.

## 12. Not modelled

* `psinit()`, `netstart()`, DHCP, TFTP and PXE run one after the other at boot, before anything that is modelled; `rdscontrol()` and the server's close and delete requests are
  called by nothing in the repository.
* The reset and PHY negotiation of `ethinit()`, the registers of the SD card and of PCI, interrupt vectors and hardware discovery are sequences of register accesses whose other side is not in the repository.
* The printing and parsing functions of the library and the shell commands that only print have no state; `config` and the build tools run before the
  system does.
* The values of messages, register contexts, the contents of stacks and the time of day are abstracted away.
