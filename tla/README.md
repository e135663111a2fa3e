# A verification of JaeOS

JaeOS is a small operating system for the uARM emulator, in three phases:
queues (`src/phase1`), the nucleus (`src/phase2`) and a support level with
virtual memory and user SYSCALLs (`src/phase3`). These modules describe what
the code does. TLC checks them on small instances. TLAPS proves, for instances
of any size, the safety of the nucleus with its exception handlers, devices and
clock, of virtual semaphores and delays, that virtual memory keeps the pages
of the user processes, and that the linked structures under all of them stay
sound; two of these, the process queues and the delay list, are proved to do all
that is specified of them.

## The system

| Component | Source | State | Operations |
|---|---|---|---|
| Process queues and blocks | `phase1/pcb.c` | `pcbList_h`, `p_next`, `p_prev`, tail pointers | `allocPcb`, `freePcb`, `insertProcQ`, `removeProcQ`, `outProcQ`, `headProcQ` |
| Process tree | `phase1/pcb.c` | `p_prnt`, `p_child`, `p_nextSib`, `p_prevSib` | `insertChild`, `removeChild`, `outChild`, `emptyChild` |
| Active semaphore list | `phase1/asl.c` | `semdTable`, `semdList_h`, `activeSemdList_h` | `insertBlocked`, `removeBlocked`, `outBlocked`, `headBlocked` |
| Nucleus | `phase2/initial.c`, `scheduler.c`, `exceptions.c`, `interrupts.c` | `readyQueue`, `currentProcess`, `processCount`, `softBlockCount`, `semaphoreArray` | boot, `getNewJob`, SYSCALLs 1-4, 7, 8, `nukeItTilItPukes`, the interrupts |
| Exception handlers | `phase2/exceptions.c` | the saved states, the trap vectors of each process | SYSCALLs 5 and 6, `passUpOrDie`, the mode test, program and TLB traps |
| Device I/O | `phase2/interrupts.c`, `exceptions.c` | device registers, device semaphores, `devStatus` | SYSCALL 8, `interruptHandler`, `handleTerminal` |
| Clocks | `phase2/scheduler.c`, `interrupts.c` | `timeLeft`, `intTimerFlag`, `startTOD`, `p_time`, the interval timer | `processJob`, `getNewJob`, the tick, the end of a quantum |
| Virtual semaphores | `phase3/avsl.c`, `vmIOsupport.c` | a circular list, the values in user memory, `Tp_sem` of each user process | SYSCALLs 11 and 12, `vInsertBlocked`, `vRemoveBlocked` |
| Delays | `phase3/adl.c`, `initProc.c` | a singly linked list, by wake-up time behind its head | SYSCALL 13, `insertDelay`, `removeDelay`, `delayDaemon` |
| Virtual memory | `phase3/vmIOsupport.c` | `swapPool`, `nextFrame`, page tables, TLB, backing store, `swapSem` | `vmMemHandler`, `chooseFrame`, `readWriteBacking`, `virtualDeath` |
| User SYSCALLs | `phase3/vmIOsupport.c` | `mutexSemArray`, disk buffers | SYSCALLs 9, 10, 14 to 18, `copyPage` |
| Start of user processes | `phase3/initProc.c` | `masterSem`, tape buffers | `test`, `uProcInit` |

**How they interact.** A process enters the kernel by a SYSCALL or a trap, and
a device or the timer by an interrupt. Each handler runs with interrupts masked
on the state of phase 1, and leaves through `headBackHome` (the same process) or
`getNewJob`. Phase 3 is processes and trap handlers in system mode on top of the
SYSCALLs. It masks interrupts itself between a device command and SYSCALL 8 and
around each change of page tables and TLB. Everything else in it can be
interrupted, also the handlers of page faults and user SYSCALLs.

**What is hard.** Processes interleave at every SYSCALL and every interrupt. A
process may be killed wherever it is: ready, waiting for a semaphore, a device
or the clock, with children in any of those places. The interrupt of a dead
waiter comes anyway. The kernel trusts several invariants without a test: a V
uses the result of `removeBlocked` unchecked, a P ignores that `insertBlocked`
may fail, the scheduler halts or panics by two counters alone. A single timer
serves for two purposes. Blocks and descriptors are limited and used again.
In phase 3 a virtual semaphore is counted on and its list searched with
interrupts on and no mutex; the daemon works from a clock it read before; a page
fault may come in the midst of a SYSCALL that holds a device, and a frame is
taken from its owner in several steps while the owner runs.

**What makes each component correct.** The queues: links that agree in both
directions, and first-in-first-out order. The tree: children known to their
parents and to both siblings. The ASL: sorted, nothing leaked, one queue for
each address. The nucleus: each block in one place, exact counters, values that
count waiters, one tree, halting and panicking only when right, no starvation,
deaths that end. The exception handlers: a user mode process gets nothing from
the nucleus. Devices: one answer for each operation, its own. Clocks: time
charged once to whoever used it, and ticks one interval apart. Virtual
semaphores and delays: for each waiter exactly one wake-up, never early. Virtual
memory: tables, TLB and swap pool agree, a page holds what was last written to
it, faults are served and deaths counted. `PROJECT.json`
lists the hazards line by line with the properties aimed at each.

## The modules

`FifoQueues`, `ChildLists`, `SemaphoreQueues`, `Semaphore`, `VirtualWaiters`
and `DelayList` are abstract specifications. The others describe the code.

| Module | Models | Implements |
|---|---|---|
| `ProcQ` | the doubly linked circular queues and the free list of `pcb.c`, link by link | `FifoQueues` |
| `ProcTree` | the four tree links of `pcb.c` | `ChildLists` |
| `Asl` | descriptors, free stack and sorted active list of `asl.c` | `SemaphoreQueues` |
| `Nucleus` | every handler of phase 2 that changes queues, tree, semaphores or counters | `Semaphore` (through `NucleusSemaphore`) |
| `Traps` | `Nucleus` with mode, trap vectors and register a1 around it | `Nucleus` |
| `DeviceIO` | SYSCALL 8 and both device interrupt handlers, with the status registers | |
| `PseudoClock` | the timer, `timeLeft`, `intTimerFlag`, `startTOD` and `p_time` | |
| `Avsl` | the circle and the free stack of `avsl.c`, link by link | `VirtualWaiters` |
| `Adl` | the delay list and the free stack of `adl.c`, link by link | `DelayList` |
| `VirtualSync` | SYSCALLs 11 to 13 and the daemon, step by step, over what those lists promise | |
| `UserMemory` | loading from tape, page faults, SYSCALLs for devices, death, `test()` | |

`Links` says what is met along a link: it is what the five linked structures
(`ProcQ`, `ProcTree`, `Asl`, `Avsl` and `Adl`) have in common. `Lists` puts
the five side by side, and `MCLists` says which abstract specification each
implements. `MCx` instantiates `x` for TLC. The proofs are in `QueueLemmas`,
`ListProofs`, `ListRefinement`, `NucleusProofs` (with the exception handlers),
`DeviceProofs`, `ClockProofs`, `UserMemoryProofs` and `VirtualSyncProofs`.

**Phase 1 and the nucleus.** `ProcQ`, `ProcTree` and `Asl` have the pointers.
`Nucleus` uses sequences in their place, and the three refinements are what
entitles it to: `free`, `ready` and each `asl[s]` are queues as `FifoQueues` and
`SemaphoreQueues` promise, `children[p]` is a list as `ChildLists` promises. In
`Nucleus` a descriptor is in use exactly when its queue is not empty, and there
are as many descriptors as blocks.

**`Nucleus`.** A handler is one action, because it runs with interrupts masked
and on one processor. `nukeItTilItPukes` is unrolled: the variable `dying` is
its stack of activations, `NukeChild` one turn of its loop, `NukeProgeny` and
`NukeCurrent` the rest of an activation for a descendant and for the process
that dies. No other action is enabled while it runs. `cpu` says whether a
process runs, the machine idles (`WAIT`), has stopped (`HALT`, `PANIC`), or has
gone on with a null pointer (`fault`) or a freed block still on the ready queue
(`tangled`). From the last two the program's behaviour is undefined, and the
model stops. Whether a timer interrupt is a tick or the end of a quantum is left
open, since `PseudoClock` has the rules and they do not keep the two apart.

**`Traps`.** Its actions are those of `Nucleus` under the test of
`sysCallHandler`, and the ones that touch only modes, vectors and a1. A handler's
new state lies in the memory of the process, so that its mode may be any. Of
registers there is a1, which says whether the process goes on with a result of the
kernel or with the number of its own call: SYSCALL 1 leaves the latter.

**`DeviceIO`.** Of scheduling, only who waits matters: any process that does
not wait may take a step. A channel is a device or one direction of a terminal.
On most channels
the command and SYSCALL 8 are one step, as between the two calls of
`enableInterrupts` in phase 3. On a `Console` an interrupt may come in between,
as in `print` of `p2test.c`. A command needs the mutex
of the channel (`MayStart`). No line of the code tests that the device is ready, as
that guard does; it stands for a mutex that nobody gets any more. A process killed while
it waits never releases it, and who does release it has left the device
acknowledged: a masked operation ends with the acknowledging interrupt, and `print`
panics over any other answer. Once the interrupt of a dead process has been
acknowledged the model lets others use the channel, which the code does not.
One process at a time uses a terminal, since each
belongs to one user process (`vmIOsupport.c:469`). That does not keep its two
directions apart when a reader is killed: its interrupt is not acknowledged, and
`handleTerminal` takes the busy transmitter of the next writer for a finished one
(`interrupts.c:290`). `OwnStatus` excepts exactly that state (`Alone`).

**`PseudoClock`.** Time is relative and discrete: `elapsed` is the time of day
minus `startTOD`, and `uncharged[p]` is what `p` has run minus what `p_time` has.
The timer register is unsigned, so a negative `timeLeft` becomes `Forever`.
Kernel code takes no time, and an expired timer may wait up to `MaxMask` for its
interrupt, as when a process has masked it. `sinceTick` and `missed` are no part
of the code: they keep the time since the last tick, and whether the machine has
idled or a process died since, which `timeLeft` does not count.

**`Avsl` and `Adl`.** A call is one action. `vRemoveBlocked` is split by its
cases: the only node, the head of several, one of the others, none. The second
case mends the wrong links. `Avsl` describes its result and then makes no more
calls (`torn`); up to there the circle is a list of waiters. `DelayList` states
what the header of `adl.c` does: a list in increasing order, into which each
sleeper goes at its proper place. The code does that for all but those
that are to wake before the head. `BehindHead` is what it does with these: they get the
proper place among those behind the head. `DelaysAreListed` allows this one
departure and no other, and `delay_order` shows that with it the list is out
of order.

**`VirtualSync`.** The lists are sequences here, as `Avsl` and `Adl` entitle it
to: the model ends (`stopped`) when the head of several is removed, or when two
are inside one list at once, each of whose interleavings would need its links.
It also ends when a V finds nobody and goes on with process number 0
(`astray`). The build does not optimise, so a virtual P or V loads the count,
stores it and loads it again for its test: three steps, between which others
come in. `raced` remembers the semaphores on which that has happened, `deaf` the
processes for which no node was left. All times are relative to now. The daemon
reads the clock (`since` is 0), then takes from the list what is due at that
time while ticks pass. `Place` is `insertDelay` as the code has it, so that an early
sleeper may stand behind a later head. He oversleeps, which neither `NeverEarly` nor
`DelayEnds` forbids: the one says that nobody wakes too soon, the other
that everybody wakes.

**`UserMemory`.** A step ends where the program may be interrupted with
effect: at a semaphore, a device, an access of a page. `Fault` is
`vmMemHandler` up to its P; `Choose`, `WriteOut`, `ReadIn` and `Map` are the
rest. `resume` says where the process goes on, in its program or inside
`copyPage` or a terminal SYSCALL. A semaphore is the queue of its holder and
those who wait. Of contents, `mem` says for each frame, sector, buffer and disk
block which page's (or process's) last written contents it holds, or `OLD`.
A transfer may fail with a status nobody reads; from then on contents are not
followed (`failed`), but faults and deaths are. The TLB keeps each translation
until it is cleared, which is the most it can do.

Three things are explored both ways, because the code leaves them unfinished:
whether `test()` initialises the lists and creates the daemon (`started`; the
calls are commented out, `initProc.c:151-159`), and whether the handlers of
phase 3 run in system mode (`served`; their cpsr is 0, `initProc.c:218`, and then
their SYSCALLs 3 and 4 are not served and become program traps without end).
`MAXUSERPROC` is 1 in this build and a constant here.

External, modelled from their use: devices, the bus's pending interrupts, the
acknowledgement, `setTIMER` and the time of day clock, address translation and
the TLB, and the programs of the user processes.

## The runs

| Run | Instance | Shows |
|---|---|---|
| `nucleus` | 3 blocks, 1 semaphore of processes, 1 device, clock | `OnePlace`, `Counts`, `SemaphoreCount`, `NoFault`, `StopsOnlyWhenStuck`, `ProcessTree`; the semaphore of the processes implements `Semaphore`; `EventuallyRuns`; `DeathEnds` |
| `lists` | 4 blocks in a free list and 2 queues; 5 in a tree; 3 with 3 descriptors and 4 addresses; 3 virtual and 3 delay nodes | links woven, no leak, and each structure implements its abstract specification, the delay list but for who is to wake before its head |
| `traps` | 2 blocks, 1 semaphore, 1 device, clock | the handlers refine the nucleus, user mode is contained, no vector outlives its process, the answer to SYSCALL 8 is there when its caller runs again |
| `device` | 2 processes, a disk, a terminal of phase 3 and a console | no lost wake-up, a dead waiter's count is not handed on, each answer is one's own, disks answer |
| `pseudo_clock` | 3 processes, quantum 2, interval 5 | time charged exactly, the timer never beyond quantum and tick, no tick early unless the machine idled |
| `nucleus_tangled` | as `nucleus` | violated: a block is freed while on the ready queue |
| `virtual_sync` | 3 user processes, 1 semaphore, 2 virtual nodes, delays of 1 and 2 ticks | one wake-up for each waiter, counts that say who waits, where a V goes astray, no delay ends early, each ends |
| `user_memory` | 2 user processes, 3 pages, 2 frames, 1 disk | tables, TLB and swap pool agree, contents are kept, buffers are one's own, faults are served, deaths are joined |
| `removed_head` | as `lists` | violated: a removed node is free and out of the list |
| `delay_order` | as `lists` | violated: the delay list is in increasing order of wake-up times |
| `shared_page` | as `user_memory`, with a page of `kUSeg3` | violated: what was written to a shared page is found in it |
| `every_case` | 1 process, a disk, a console | violated: each interrupt is acknowledged and its status stored |

**Bounds.** `MaxInit` is the greatest initial value of a semaphore, `MaxVal`
stops V operations and interrupts, and `MaxDebt` SYSCALLs 7 and 8, on a
semaphore that has gone that far; interrupts of dead waiters would otherwise
count without end. With `MaxDebt` 3 every block can be waiting and its death be
counted. Three blocks are a parent with two children or a chain of three, a
queue from which the middle is removed, and a semaphore with two waiters while
the third process runs. The semaphore may start with or without a permit. Four blocks
in the queues are needed for a removal between head and tail that touches neither.
Five in the tree give a child between two siblings and a level below. The semaphore
list has more addresses than descriptors so that the free stack runs empty.
`lists` works on one structure in each behaviour (`under`), since they share
nothing. Three nodes in a circle give a head, a tail and one between; three in the
delay list a head, and two behind it to be ordered. `traps` has two
blocks so that one is used again after its process died; what matters there is
one process at a time. In `device` two processes suffice for one to be killed
and the other to use the device after it. In `pseudo_clock` the interval is two
and a half quanta, so that quanta end before the tick and at it; `MaxSince` lies
beyond two intervals, and `MaxMask` is one unit.

In `virtual_sync`, `Programs` assigns to each process the SYSCALLs it may make,
in three ways: a P against a V with delays of both, so that the nodes DELAY keeps
use up the list; a P, a V and a delay apart; and two Ps against two Vs, so that two
count at once. Two nodes are few enough to run out. Delays of one and two ticks (`MaxDelay`)
arrive in either order. `MaxVal` stops Vs; an overdue time beyond `MaxLate` is
counted as `MaxLate`, and a tick waits while the daemon is that far behind its
clock, for ticks further apart than a scan differ in nothing. In `user_memory` three
pages compete for two frames, so that a page goes out and comes back while
its owner runs, faults or dies; the code has two frames for each process, which
only makes this rarer. One tape has two blocks. The programs are: a disk from both, with deaths
inside the SYSCALL; and a terminal, with such deaths, beside a process that ends.
The disk is number 2, because the buffer of disk 1 is that of the second tape
(`vmIOsupport.c:617`, `initProc.c:263`): with `MAXUSERPROC` above 1 a disk below
it would make `BuffersAreOwn` fail, as the property's mutant shows. With
`MAXUSERPROC` 1 no disk does. Shared pages are left to `shared_page`.

The proofs need none of the bounds: they hold for all values, and the bounded
guards only make the step relation smaller, without any proof step that relies
on one.

**Symmetry** is used where all properties of a run are safety properties.
`CHECK_DEADLOCK FALSE` stands where the model may stop: the machine halts in
`PseudoClock`; in `DeviceIO` a terminal that interrupts for ever ends at
`MaxVal`; a list may be ruined in `lists`. In `Nucleus`, `Traps` and
`VirtualSync` a stopped machine stutters in `Rest`, and any other deadlock would
be reported. `UserMemory` stutters in `Halted`, which names the places where the
whole may stop: all joined, a panic, handlers not served, and the mutex of
a disk whose holder died in `copyPage`. The absence of any other deadlock is part of
what the run shows.

**Fairness.** `Nucleus`: `WF(Nuke)`, because kernel code runs to its end; and
`WF(Preempt(p))` for each process, because `processJob` always sets the timer
and a process that keeps the processor is interrupted (provided that it does not
keep interrupts masked for ever). Nothing is assumed of SYSCALLs or devices.
`DeviceIO`: a device finishes (`WF(Complete)`), and the interrupt of a disk,
on the lines the handler serves before the terminals', comes
(`WF(DiskInterrupt)`). Terminals get no such assumption: their line may starve
behind others, and `Answered` is stated for disks only.
`VirtualSync` and `UserMemory`: weak fairness of each process inside a SYSCALL or
a fault, of the daemon, of `test()` and of the tick, since the scheduler is round
robin (`EventuallyRuns`), disks and tapes answer (`Answered`) and the pseudo-clock
ticks. Nothing is assumed of the programs, and terminals need not answer.

Each property of a passing run has a mutant: an operator marked as a slip in the
module, which changes a definition the way a plausible bug would and makes the
property fail.

## What is proved

**The nucleus.** For any finite set of process blocks, any semaphores and any
bounds (`NucleusAssumption`: the sets are disjoint, and there is at least one block):

- `NucleusProofs`: `Spec => []IInv`, and from it `TypeOK`, `OnePlace`, `Counts`,
  `SemaphoreCount`, `NoFault`, `StopsOnlyWhenStuck` and `ProcessTree`; and that
  the nucleus implements `Semaphore` for any one semaphore of the processes
  (`sem \in UserSem`);
- also in `NucleusProofs`: `Traps` refines `Nucleus`, so all of the above hold with the
  exception handlers in place; `UserModeContained` and `TrapTypeOK`, which says that
  no free block has trap vectors.

The checked properties hold each other up. A V finds its
waiter (`NoFault`) because the value counts the queue (`SemaphoreCount`). It counts
the queue because a P always gets into it, for which a descriptor must be
left; there are as many descriptors as blocks, each active one has a waiter, no
block is in two queues (`OnePlace`) and the caller is in none. The scheduler
stops rightly because the counters are cardinalities (`Counts`), which again needs
each block to be in one place. Two parts are there only to make `IInv`
inductive: `DyingStack`, without which nothing says that the process an
activation buries is still allocated and, in the middle of a recursive death,
hangs below the one that unhooked it; and `WaitsWhereItSays`, that a process in
a semaphore's queue has that address in `p_semAdd`, by which
`nukeItTilItPukes` looks for it.

The converse of `WaitsWhereItSays` is false in this code: a block used again
keeps the `p_semAdd` of its last owner. This is the run `nucleus_tangled`. The
moment a block is freed while still on the ready queue, `cpu` becomes
`tangled`; most invariants are stated up to it. So the theorems say: up to
that one defect the nucleus keeps its invariants.

`QueueLemmas` says what `Append`, `Tail`, `Cons`, concatenation, `RemoveFirst`,
`RemoveAt` and `InsertAt` do to members, injectivity and length, and how often an
element is in the result; and what linking a node in or out does to a sequence that
links spell. `NucleusProofs` has lemmas
on how each kind of move of a block, and each change of the tree, preserves
`Partition` and `Tree`, and then one lemma for each action.

**Linked structures.** `ListProofs`, for any blocks, queues, descriptors,
addresses and nodes (`ListsAssumption`): `TypeOK`, `Woven`, `Sorted` and `NoLeak`,
that of `Avsl` up to the removal of a head (`torn`). The
invariant `LInv` says of each structure that there *are* sequences which its
links spell: `QueueInv` one ring for each process queue, no block twice;
`TreeInv` one list of children for each process, whose members know their
parent; `SemdInv` an active list and a free stack that are together all the descriptors,
the active one ascending and each of its members with waiters; `VirtInv` a ring and a stack; `DelayInv` a list,
in order behind its head, and a stack. An operation gives
new sequences for the old: a node linked in, or out, at some place. This is why `outProcQ`
needs its three cases and `insertBlocked` its order. What the models compute by
following links (`Walk`, `Linked`) and by searching (`getPrevSemd`,
`findPreviousDelayd`) is then read off the sequence. Those are recursive
functions; that they have values everywhere, and which, is shown from
the least position at which they would not, so no induction over data is needed.

`ListRefinement` goes on to what two of the structures are for: `QueuesAreFifo` and
`DelaysAreListed`. The refinement mappings read contents off the links, by the loop of
`outProcQ` and by `Linked`, and the first step is that these are the sequences of
`LInv`. Each operation's lemma then says what it makes of the sequences, and that
is an action of the abstract specification. For `insertDelay` this needs the
order behind the head: the search stops at the first node that does not wake
earlier, so that no node from the second on that wakes earlier stands behind the
new one. Whether the new node's place is proper in the whole list or only behind the head
(`BehindHead`) depends on its time and the head's.

**Devices.** `DeviceProofs`, for any processes, disks and terminals
(`DeviceAssumption`): `NoLostWakeup`, `Balanced` and `OwnStatus`. The invariant
says that a channel has at most one process with an operation under way, that who
waits on it is that process, alone (`OneUser`), that with interrupts masked an
operation is a wait (`MaskedWaits`), and that the device of an operation is not
ready (`Underway`). So an acknowledgement, which makes the device ready, comes
when the operation's process is released, or has died; and a masked SYSCALL 8, which
starts on a ready device, finds its semaphore at zero and waits.

**Clocks.** `ClockProofs`, for any processes, quantum, interval and masking, with the
quantum no longer than the interval and that shorter than `MaxSince`
(`ClockAssumption`): `ChargedExactly` and
`TimerInTime`, with the fact that one process runs at a time; `CountsDown` and
`TickNotEarly`. For the last, `CountInv` says what `intTimerFlag` is for: unless the
machine has idled, the timer of a process that runs with the flag up goes on at least
to the end of the interval, and no more than a quantum of that was left.

**Virtual semaphores and delays.** `VirtualSyncProofs`, for any processes,
semaphores, nodes, programs and bounds (`SyncAssumption`): `TypeOK` (which no run
checks), `OneWakeUp`, `ValueCounts`,
`AstrayOnlyOverGap` and `NeverEarly`. The invariant has four parts beside types.
`PlaceInv` says what a process has with it at each step of its SYSCALL. `WhyInv` says what
each wake-up is for: a node with a semaphore names a process in a P on it, an entry
of the delay list one in DELAY, whose time it has, and who is to be woken from
DELAY has waited his time.
`WakeInv` is `OneWakeUp` in a form that each step keeps:
the wake-ups of a process (nodes, entries, Vs about to be made, `Tp_sem`) are as many
as it has asked for, none or one. `ValueInv` is `ValueCounts` with the steps
between a count and its test taken in: while one process stands there, the
value is one ahead of the queue. Each list operation changes a count of
positions by one, which is what the lemmas on `RemoveAt` and `InsertAt` are for.
`AstrayOnlyOverGap` and `NeverEarly` follow from the invariant and one step: a V
that finds no node has a value that says there is a waiter, so that one is in the
gap; and what the daemon takes was due at a time it had read before.

**Virtual memory.** `UserMemoryProofs`, for any processes, frames, pages, disks and programs
(`MemoryAssumption`):

- `FramesAgree`. With shared pages the run `shared_page` shows
  how paging goes wrong, and the theorem assumes that there are none (`Shared = {}`);
- `Coherent` and `BuffersAreOwn`, without shared pages and if no disk uses the
  buffer of a tape (`BuffersApart`: no disk in use has a number less than that of a
  process by one, which is so for every disk in this build, where `MAXUSERPROC` is 1);
- `TypeOK`, which no run checks, with shared pages too. It rests on the mutexes: a process is in the queue
  of a semaphore only where its program has asked for it (`May`), and at the front
  where it uses what the semaphore guards (`Must`). So it never asks twice, and each
  V is one of the holder. `masterSem` and `joined` count the processes that have
  ended (`DeathsCounted`).

`FramesAgree` rests on `swapSem`: its queue repeats nobody, and only its head is
between `Choose` and `Map` (`SwapMutex`). What the holder has done so far is in
`Missing` and `Emptied`: the page it brings in is in no frame, and the entry of the
frame it replaces names a page that nobody reaches any more. The others say what
may be assumed at every other frame and page (`Mapped`, `Occupied`, `Translated`) and
that a death leaves only entries that are never used again (`Garbage`). For the contents, each page is
followed from its tape to its sector (`Fresh`, `InTransit`), from there into a frame
(`InFrame`, `Callers`) and back (`InSector`, `Replaced`); for the
buffers of disks, the mutex of a disk orders the steps of `copyPage` and the
transfer (`DiskMutex`, `OnDisk`).

**Model-checked only.** Liveness (it needs fairness and `ENABLED`): `EventuallyRuns`,
`DeathEnds`, `Answered`, `DelayEnds`, `FaultServed` and `DeathIsJoined`. That the
linked structures implement the abstract ones: `TreeIsLists`, `SemdsAreQueues` and
`VirtsAreWaiters`, for the process tree, `asl.c` and `avsl.c`. And `AnswerIsFound`.

## Where code and comments disagree

- `nukeItTilItPukes` trusts `p_semAdd`, which `freePcb` does not reset: a
  reused block, ready but never blocked, is killed as if it waited, and is freed
  while still on the ready queue (`FreedIsUnused`).
- SYSCALL 1 stores its result in the old area after the state was copied from
  it, so the caller never sees it (`Create` and `LeaveA1` in `Traps`; `exceptions.c:118` says
  it returns whether it was successful, and `p2test.c:221` tests what it returned).
- `sysFiveHandle` has no `break`: a second SYSCALL 5 for a trap goes on to the
  next trap instead of killing (`Sesv` in `Traps`; `exceptions.c:475` says that it kills).
- A terminal interrupt without a waiter is not acknowledged, and the status of
  an interrupt before SYSCALL 8 is not stored (`InEveryCase`). After a kill this
  is also why the next writer of that terminal may get a status that is not its own.
- `intTimerFlag` survives from an idle time into the quantum that follows it, so a
  quantum's end is taken for a tick; idle time is not taken off `timeLeft`, and
  neither is the time of a process that dies since it was last charged
  (`p2test.c:30` calls the interval the one "to V clock semaphore"). `TickNotEarly` says
  that no tick is early without idling, `CountsDown` that `timeLeft` is right without
  either.
- `insertDelay` never puts a node in front of the head (`adl.c:178-182`), though
  the list "is maintained in increasing order based on the wake time of the
  node" (`adl.c:8-10`): who is to wake before the head comes behind it and
  oversleeps, because the daemon looks at the head alone (`DelaysAscend`). With
  `MAXUSERPROC` 1, as here, there is one sleeper at most.
- `vRemoveBlocked` of the head of several changes the head's links instead of its
  neighbours', so that the list still holds the freed node (`RemovedIsFree`).
- A second process that faults on the same shared page brings it in again, into
  another frame and from another sector (`SharedIsCoherent`).

Seen on the way, and part of the models: a V between the count and the
insertion of a P goes to process number 0 (`AstrayOnlyOverGap` says when);
DELAY uses up a virtual node for good; the death of a process in `copyPage` keeps
the disk from all others; `virtualDeath` leaves page table entries valid, with an
address of all ones.

## Not modelled

Values of registers other than a1, the program counter, cause codes and what the
TLB holds besides frames; the layout of the device registers; the ten-fold choice
among device lines, except that terminals come last. `GetCpuTime` has no value in
`Traps` and a time in `PseudoClock`. The 32-bit wrap of the time of day. The
characters of terminals and printers, and what `WRITEPRINTER` makes of its
arguments (`vmIOsupport.c:318` passes s_a1 and s_a2 where the terminal's SYSCALL
passes s_a2 and s_a3). SYSCALL 17, which only reads the clock. The stacks, segment
tables and the sizes of page tables that `test()` and `uProcInit` fill in, and the
clamping of page numbers. Two processes inside one list of phase 3 at once
(`Tear`). The lists after their head was removed. The test programs
`p1test.c` and `p2test.c` were read for how the kernel is used.

## Plan

What is left to prove is that the process tree, the semaphore list and the
virtual semaphores implement their abstract specifications, as `ListRefinement`
shows of the process queues and the delay list. `LInv` has the sequences that
`ChildLists`, `SemaphoreQueues` and `VirtualWaiters` speak of, and the lemmas on the
operations say what becomes of them; what is missing is that `Offspring`,
`WaitingOn` and `Waiting` are those sequences. And `AnswerIsFound`, by the partition
of the blocks that `NucleusProofs` has.
