----------------------------- MODULE Nucleus -----------------------------
(***************************************************************************)
(* The JaeOS nucleus (src/phase2): the scheduler, SYSCALLs 1-4, 7 and 8,   *)
(* the death of a process and its progeny, the pseudo-clock tick, the end  *)
(* of a quantum and the device interrupt, over the phase 1 free list,      *)
(* queues, process tree and active semaphore list.                         *)
(*                                                                         *)
(* Kernel code runs with interrupts masked, so a handler is one step; only *)
(* nukeItTilItPukes is unrolled, one activation of the recursion per step. *)
(* SYSCALLs 5 and 6 and a trap that is passed up change none of this       *)
(* state.  A timer interrupt is a tick or the end of a quantum as the      *)
(* clock decides; here either may come.                                    *)
(***************************************************************************)
EXTENDS Integers, FiniteSets, SequencesExt

CONSTANTS PCB,       \* the process blocks of procTable; MAXPROC of them
          UserSem,   \* the semaphores processes keep in their own memory
          DevSem,    \* the device semaphores: semaphoreArray[0..47]
          Clock,     \* the pseudo-clock semaphore: semaphoreArray[CLCKTIMER]
          NULL,      \* the null pointer
          MaxInit,   \* bound: the initial value a process gives a semaphore
          MaxVal,    \* bound: no V or interrupt once a semaphore is this high
          MaxDebt    \* bound: no SYSCALL 7 or 8 with a semaphore this far below 0

ASSUME NucleusAssumption ==
  /\ IsFiniteSet(PCB) /\ PCB # {}
  /\ UserSem \cap DevSem = {}
  /\ Clock \notin UserSem \cup DevSem
  /\ NULL \notin PCB \cup UserSem \cup DevSem \cup {Clock}
  /\ MaxInit \in Nat /\ MaxVal \in Nat /\ MaxDebt \in Nat

MAXPROC == Cardinality(PCB)
KernelSem == DevSem \cup {Clock}     \* the semaphores of semaphoreArray
Sem == UserSem \cup KernelSem

VARIABLES free,             \* pcbList_h: the free list, a queue
          ready,            \* readyQueue
          asl,              \* s_procQ of each active semaphore descriptor
          current,          \* currentProcess
          parent,           \* p_prnt
          children,         \* p_child and its siblings, newest child first
          semAdd,           \* p_semAdd
          value,            \* the integer at each semaphore's address
          processCount,
          softBlockCount,
          dying,            \* the activations of nukeItTilItPukes, deepest last
          cpu               \* what the processor is doing

queues == <<free, ready, asl, semAdd>>
tree   == <<parent, children>>
vars   == <<queues, tree, current, value, processCount, softBlockCount,
            dying, cpu>>

(* "tangled": a process block was freed while still linked in readyQueue.  *)
(* "fault":  kernel code went on with a null process pointer.  What the    *)
(* program does from either is undefined, and the model stops there.       *)
Stopped == {"halt", "panic", "tangled", "fault"}

Live == PCB \ Range(free)
Waiters(a, S) == UNION {Range(a[s]) : s \in S}   \* on the semaphores S
SoftBlocked == Waiters(asl, KernelSem)
--------------------------------------------------------------------------
(* getNewJob: dispatch the head of the ready queue q, or decide what to do *)
(* without a job.  With softBlockCount below zero none of its branches is  *)
(* taken: it returns, and its caller uses the null currentProcess.         *)
GetNewJob(q, procs, soft) ==
  \/ /\ q # <<>>
     /\ current' = Head(q)
     /\ ready' = Tail(q)
     /\ cpu' = "user"
  \/ /\ q = <<>>
     /\ current' = NULL
     /\ ready' = q
     /\ cpu' = CASE procs = 0 -> "halt"
                 [] procs > 0 /\ soft = 0 -> "panic"
                 [] procs > 0 /\ soft > 0 -> "wait"
                 [] OTHER -> "fault"

(* returnFromInterrupt, when the handler leaves the ready queue as q.      *)
ReturnFromInterrupt(q, soft) ==
  IF current # NULL
    THEN ready' = q /\ UNCHANGED <<current, cpu>>
    ELSE GetNewJob(q, processCount, soft)

(* The semaphores that own a descriptor.  initASL makes MAXPROC of them    *)
(* besides the dummy head.                                                 *)
Active == {s \in Sem : asl[s] # <<>>}

(* Slip: the dummy head taken out of the MAXPROC descriptors.              *)
InsertBlockedShort(s, p) ==
  IF s \in Active \/ Cardinality(Active) < MAXPROC - 1
    THEN /\ asl' = [asl EXCEPT ![s] = Append(@, p)]
         /\ semAdd' = [semAdd EXCEPT ![p] = s]
    ELSE UNCHANGED <<asl, semAdd>>

(* insertBlocked: when s has no descriptor and none is left it returns     *)
(* TRUE, a result no caller looks at, and p is on no queue.                *)
InsertBlocked(s, p) ==
  IF s \in Active \/ Cardinality(Active) < MAXPROC
    THEN /\ asl' = [asl EXCEPT ![s] = Append(@, p)]
         /\ semAdd' = [semAdd EXCEPT ![p] = s]
    ELSE UNCHANGED <<asl, semAdd>>

(* The blocking half of SYSCALLs 4, 7 and 8: the current process waits on  *)
(* s and another gets the processor.                                       *)
BlockCurrent(s, soft) ==
  /\ InsertBlocked(s, current)
  /\ softBlockCount' = soft
  /\ GetNewJob(ready, processCount, soft)

(* removeBlocked and what its callers do with the process it returns.      *)
Wake(s) ==
  /\ asl' = [asl EXCEPT ![s] = Tail(@)]
  /\ semAdd' = [semAdd EXCEPT ![Head(asl[s])] = NULL]
--------------------------------------------------------------------------
(* main: the first process is allocated, queued and dispatched.            *)
Init ==
  \E procTable \in Bijection(1..MAXPROC, PCB) :
    /\ free = Tail(procTable)
    /\ current = Head(procTable)
    /\ ready = <<>>
    /\ asl = [s \in Sem |-> <<>>]
    /\ parent = [p \in PCB |-> NULL]
    /\ children = [p \in PCB |-> <<>>]
    /\ semAdd = [p \in PCB |-> NULL]
    /\ value \in [Sem -> 0..MaxInit]
    /\ \A s \in KernelSem : value[s] = 0
    /\ processCount = 1
    /\ softBlockCount = 0
    /\ dying = <<>>
    /\ cpu = "user"

(* SYSCALL 1.  With an empty free list only the return code changes.       *)
CreateProcess ==
  /\ cpu = "user"
  /\ \/ /\ free = <<>>
        /\ UNCHANGED vars
     \/ /\ free # <<>>
        /\ LET p == Head(free) IN
             /\ parent' = [parent EXCEPT ![p] = current]
             /\ children' = [children EXCEPT ![p] = <<>>,
                                             ![current] = Cons(p, @)]
             /\ ready' = Append(ready, p)
        /\ free' = Tail(free)
        /\ processCount' = processCount + 1
        /\ UNCHANGED <<asl, semAdd, current, value, softBlockCount, dying, cpu>>

(* SYSCALL 2, and a trap with no vector: the current process is to die     *)
(* with all its progeny.  nukeItTilItPukes(currentProcess) is called.      *)
TerminateProcess ==
  /\ cpu = "user"
  /\ dying' = <<current>>
  /\ cpu' = "nuke"
  /\ UNCHANGED <<queues, tree, current, value, processCount, softBlockCount>>

(* Slip: a loop that looks at the newest child and does not remove it.     *)
NukeChildForgotten ==
  /\ cpu = "nuke"
  /\ children[Last(dying)] # <<>>
  /\ UNCHANGED vars

(* The while loop of nukeItTilItPukes: its newest child is unhooked and    *)
(* dies first.                                                             *)
NukeChild ==
  /\ cpu = "nuke"
  /\ LET p == Last(dying) IN
       /\ children[p] # <<>>
       /\ dying' = Append(dying, Head(children[p]))
       /\ parent' = [parent EXCEPT ![Head(children[p])] = NULL]
       /\ children' = [children EXCEPT ![p] = Tail(@)]
  /\ UNCHANGED <<queues, current, value, processCount, softBlockCount, cpu>>

(* Slip: the handler of SYSCALL 2 counts the death as well.                *)
BuryTwice(p) ==
  /\ free' = Append(free, p)
  /\ processCount' = processCount - 2
  /\ dying' = Front(dying)
  /\ semAdd' = semAdd

(* The end of an activation for p: freePcb and processCount--.  freePcb    *)
(* clears the tree links and leaves p_semAdd as it is.                     *)
Bury(p) ==
  /\ free' = Append(free, p)
  /\ processCount' = processCount - 1
  /\ dying' = Front(dying)
  /\ semAdd' = semAdd

(* What an activation does to the queues when p_semAdd is NULL ...         *)
LeaveReadyQueue(p) ==
  /\ semAdd[p] = NULL
  /\ ready' = RemoveFirst(ready, p)
  /\ UNCHANGED <<asl, value, softBlockCount>>

(* Slips: the pseudo-clock semaphore left out of the kernel's (< for <=),  *)
(* and no V for a process killed on a semaphore of its own.                *)
LeaveSemaphoreLess(p) ==
  LET s == semAdd[p] IN
  /\ s # NULL
  /\ asl' = [asl EXCEPT ![s] = RemoveFirst(@, p)]
  /\ IF s \in DevSem
       THEN softBlockCount' = softBlockCount - 1 /\ UNCHANGED value
       ELSE value' = [value EXCEPT ![s] = @ + 1] /\ UNCHANGED softBlockCount
  /\ UNCHANGED ready

LeaveSemaphoreNoV(p) ==
  LET s == semAdd[p] IN
  /\ s # NULL
  /\ asl' = [asl EXCEPT ![s] = RemoveFirst(@, p)]
  /\ softBlockCount' = IF s \in KernelSem THEN softBlockCount - 1 ELSE softBlockCount
  /\ UNCHANGED <<ready, value>>

(* ... and when it is not: outBlocked finds p on that semaphore or does    *)
(* nothing; a kernel semaphore keeps its value, another is incremented.    *)
LeaveSemaphore(p) ==
  LET s == semAdd[p] IN
  /\ s # NULL
  /\ asl' = [asl EXCEPT ![s] = RemoveFirst(@, p)]
  /\ IF s \in KernelSem
       THEN softBlockCount' = softBlockCount - 1 /\ UNCHANGED value
       ELSE value' = [value EXCEPT ![s] = @ + 1] /\ UNCHANGED softBlockCount
  /\ UNCHANGED ready

(* The rest of an activation for a descendant whose children are all dead. *)
NukeProgeny ==
  /\ cpu = "nuke"
  /\ LET p == Last(dying) IN
       /\ children[p] = <<>>
       /\ p # current
       /\ LeaveReadyQueue(p) \/ LeaveSemaphore(p)
       /\ Bury(p)
       /\ cpu' = IF p \in Range(ready') THEN "tangled" ELSE "nuke"
  /\ UNCHANGED <<tree, current>>

(* Slip: outChild forgotten.                                               *)
NukeCurrentHooked ==
  /\ cpu = "nuke"
  /\ current = Last(dying)
  /\ children[current] = <<>>
  /\ Bury(current)
  /\ GetNewJob(ready, processCount - 1, softBlockCount)
  /\ UNCHANGED <<tree, asl, value, softBlockCount>>

(* The rest of the activation for the current process, the outermost one:  *)
(* outChild takes it from its parent, and its caller gets a new job.       *)
NukeCurrent ==
  /\ cpu = "nuke"
  /\ current = Last(dying)
  /\ children[current] = <<>>
  /\ IF parent[current] = NULL
       THEN UNCHANGED tree
       ELSE /\ children' = [children EXCEPT ![parent[current]] =
                                              RemoveFirst(@, current)]
            /\ parent' = [parent EXCEPT ![current] = NULL]
  /\ Bury(current)
  /\ GetNewJob(ready, processCount - 1, softBlockCount)
  /\ UNCHANGED <<asl, value, softBlockCount>>

(* Slip: < for <= in the test of SYSCALL 3.                                *)
VerhogenLess(s) ==
  /\ cpu = "user"
  /\ value[s] < MaxVal
  /\ value' = [value EXCEPT ![s] = @ + 1]
  /\ IF value[s] + 1 < 0
       THEN /\ Wake(s)
            /\ ready' = Append(ready, Head(asl[s]))
            /\ UNCHANGED free
       ELSE UNCHANGED queues
  /\ UNCHANGED <<tree, current, processCount, softBlockCount, dying, cpu>>

(* SYSCALL 3 on a semaphore of the process.  With nobody to wake at or     *)
(* below zero, removeBlocked returns NULL and the code writes through it.  *)
Verhogen(s) ==
  /\ cpu = "user"
  /\ value[s] < MaxVal
  /\ value' = [value EXCEPT ![s] = @ + 1]
  /\ IF value[s] + 1 <= 0 /\ asl[s] # <<>>
       THEN /\ Wake(s)
            /\ ready' = Append(ready, Head(asl[s]))
            /\ UNCHANGED free
       ELSE UNCHANGED queues
  /\ cpu' = IF value[s] + 1 <= 0 /\ asl[s] = <<>> THEN "fault" ELSE cpu
  /\ UNCHANGED <<tree, current, processCount, softBlockCount, dying>>

(* SYSCALL 4 on a semaphore of the process.                                *)
Passeren(s) ==
  /\ cpu = "user"
  /\ value' = [value EXCEPT ![s] = @ - 1]
  /\ IF value[s] - 1 < 0
       THEN BlockCurrent(s, softBlockCount)
       ELSE UNCHANGED <<asl, semAdd, ready, current, softBlockCount, cpu>>
  /\ UNCHANGED <<free, tree, processCount, dying>>

(* SYSCALL 7.  When the semaphore was above zero the code panics.          *)
WaitForClock ==
  /\ cpu = "user"
  /\ value[Clock] > -MaxDebt
  /\ value' = [value EXCEPT ![Clock] = @ - 1]
  /\ IF value[Clock] - 1 < 0
       THEN BlockCurrent(Clock, softBlockCount + 1)
       ELSE /\ cpu' = "panic"
            /\ UNCHANGED <<asl, semAdd, ready, current, softBlockCount>>
  /\ UNCHANGED <<free, tree, processCount, dying>>

(* Slip: softBlockCount++ forgotten.                                       *)
WaitForIOUncounted(d) ==
  /\ cpu = "user"
  /\ value[d] > -MaxDebt
  /\ value' = [value EXCEPT ![d] = @ - 1]
  /\ IF value[d] - 1 < 0
       THEN BlockCurrent(d, softBlockCount)
       ELSE UNCHANGED <<asl, semAdd, ready, current, softBlockCount, cpu>>
  /\ UNCHANGED <<free, tree, processCount, dying>>

(* SYSCALL 8 on device semaphore d.                                        *)
WaitForIO(d) ==
  /\ cpu = "user"
  /\ value[d] > -MaxDebt
  /\ value' = [value EXCEPT ![d] = @ - 1]
  /\ IF value[d] - 1 < 0
       THEN BlockCurrent(d, softBlockCount + 1)
       ELSE UNCHANGED <<asl, semAdd, ready, current, softBlockCount, cpu>>
  /\ UNCHANGED <<free, tree, processCount, dying>>

(* The interval timer, pseudo-clock branch: everyone waiting for the clock *)
(* joins the ready queue and the semaphore goes back to zero.              *)
Tick ==
  /\ cpu \in {"user", "wait"}
  /\ asl' = [asl EXCEPT ![Clock] = <<>>]
  /\ semAdd' = [p \in PCB |-> IF p \in Range(asl[Clock]) THEN NULL ELSE semAdd[p]]
  /\ value' = [value EXCEPT ![Clock] = 0]
  /\ softBlockCount' = softBlockCount - Len(asl[Clock])
  /\ ReturnFromInterrupt(ready \o asl[Clock], softBlockCount')
  /\ UNCHANGED <<free, tree, processCount, dying>>

(* Slip: the preempted process goes to the front of the ready queue.       *)
QuantumEndInFront ==
  /\ cpu = "user"
  /\ GetNewJob(Cons(current, ready), processCount, softBlockCount)
  /\ UNCHANGED <<free, asl, semAdd, tree, value, processCount, softBlockCount,
                 dying>>

(* The interval timer, quantum branch.  An idle processor has set          *)
(* intTimerFlag, so this branch finds a current process.                   *)
QuantumEnd ==
  /\ cpu = "user"
  /\ GetNewJob(Append(ready, current), processCount, softBlockCount)
  /\ UNCHANGED <<free, asl, semAdd, tree, value, processCount, softBlockCount,
                 dying>>

(* An interrupt from the device of semaphore d: V, with a check for a      *)
(* semaphore whose waiter was killed.                                      *)
DeviceInterrupt(d) ==
  /\ cpu \in {"user", "wait"}
  /\ value[d] < MaxVal
  /\ value' = [value EXCEPT ![d] = @ + 1]
  /\ IF value[d] + 1 <= 0 /\ asl[d] # <<>>
       THEN /\ Wake(d)
            /\ softBlockCount' = softBlockCount - 1
            /\ ReturnFromInterrupt(Append(ready, Head(asl[d])), softBlockCount')
       ELSE /\ UNCHANGED <<asl, semAdd, softBlockCount>>
            /\ ReturnFromInterrupt(ready, softBlockCount)
  /\ UNCHANGED <<free, tree, processCount, dying>>

(* The machine has halted or panicked, or the program is beyond the model. *)
Rest == cpu \in Stopped /\ UNCHANGED vars

Nuke == NukeChild \/ NukeProgeny \/ NukeCurrent

Next ==
  \/ CreateProcess
  \/ TerminateProcess
  \/ NukeChild
  \/ NukeProgeny
  \/ NukeCurrent
  \/ \E s \in UserSem : Verhogen(s)
  \/ \E s \in UserSem : Passeren(s)
  \/ WaitForClock
  \/ \E d \in DevSem : WaitForIO(d)
  \/ Tick
  \/ QuantumEnd
  \/ \E d \in DevSem : DeviceInterrupt(d)
  \/ Rest

Spec == Init /\ [][Next]_vars

(* A kernel routine runs to its end, and the timer that processJob sets    *)
(* interrupts a process that keeps the processor.  A process that gives it *)
(* up sooner is never preempted, and no interrupt or SYSCALL need come.    *)
Preempt(p) == current = p /\ QuantumEnd

FairSpec == Spec /\ WF_vars(Nuke) /\ \A p \in PCB : WF_vars(Preempt(p))
--------------------------------------------------------------------------
(* Every variable has its type; the counters stay within the number of     *)
(* process blocks, and a process runs exactly when currentProcess is set   *)
(* and no death is under way.                                              *)
TypeOK ==
  /\ free \in Seq(PCB) /\ ready \in Seq(PCB) /\ dying \in Seq(PCB)
  /\ asl \in [Sem -> Seq(PCB)]
  /\ current \in PCB \cup {NULL}
  /\ parent \in [PCB -> PCB \cup {NULL}]
  /\ children \in [PCB -> Seq(PCB)]
  /\ semAdd \in [PCB -> Sem \cup {NULL}]
  /\ value \in [Sem -> Int]
  /\ processCount \in 0..MAXPROC
  /\ softBlockCount \in Int
  /\ cpu \in {"user", "wait", "nuke"} \cup Stopped
  /\ cpu # "tangled" => (cpu \in {"user", "nuke"} <=> current # NULL)

(* Each process block is in exactly one place, once: the free list, the    *)
(* ready queue, the queue of one semaphore, or the processor.  A block in  *)
(* no place is lost, one in two places ties two lists together.            *)
Partition(f, r, a, c) ==
  /\ IsInjective(f) /\ IsInjective(r) /\ \A s \in Sem : IsInjective(a[s])
  /\ Range(f) \cap Range(r) = {}
  /\ c \notin Range(f) \cup Range(r)
  /\ \A s \in Sem : Range(a[s]) \cap (Range(f) \cup Range(r) \cup {c}) = {}
  /\ \A s, t \in Sem : s # t => Range(a[s]) \cap Range(a[t]) = {}
  /\ PCB \subseteq Range(f) \cup Range(r) \cup {c} \cup Waiters(a, Sem)

OnePlace == cpu # "tangled" => Partition(free, ready, asl, current)

(* processCount is the number of allocated process blocks and              *)
(* softBlockCount the number waiting for a device or the clock, whatever   *)
(* creations, deaths, wake-ups and ticks came before: getNewJob halts,     *)
(* panics or waits by these two counters alone.                            *)
Counts ==
  cpu # "tangled" =>
    /\ processCount = Cardinality(Live)
    /\ softBlockCount = Cardinality(SoftBlocked)

(* A semaphore of the processes that is below zero counts its waiters; a   *)
(* kernel semaphore may count more, those killed while they waited.        *)
SemaphoreCount ==
  cpu # "tangled" =>
    /\ \A s \in UserSem :
         Len(asl[s]) = IF value[s] < 0 THEN -value[s] ELSE 0
    /\ \A d \in DevSem : asl[d] # <<>> => Len(asl[d]) <= -value[d]
    /\ value[Clock] <= 0 /\ Len(asl[Clock]) <= -value[Clock]

(* No handler runs on with a null process pointer: a V at or below zero    *)
(* finds a waiter, and the scheduler never falls through its branches.     *)
NoFault == cpu # "fault"

(* The nucleus gives up only when nothing can ever run again: it halts     *)
(* when every block is free, panics when each live process waits for       *)
(* another process, and idles only when a device or the clock will wake    *)
(* somebody.                                                               *)
StopsOnlyWhenStuck ==
  /\ cpu = "halt" => Live = {}
  /\ cpu = "panic" => Live # {} /\ Live = Waiters(asl, UserSem)
  /\ cpu = "wait" => ready = <<>> /\ SoftBlocked # {}

(* Who p descends from: its parent par[p] or, once removeChild has         *)
(* unhooked it to die, the activation in the stack d that did so.          *)
Up(d, par, p) ==
  IF \E i \in 2..Len(d) : d[i] = p
    THEN d[(CHOOSE i \in 2..Len(d) : d[i] = p) - 1]
    ELSE par[p]

(* The live processes form one tree: parents and child lists agree, no     *)
(* live process hangs under a freed block, none is its own ancestor, and   *)
(* only one has no ancestor.  A death that spared a descendant would leave *)
(* an orphan here.                                                         *)
Tree(live, par, ch, d) ==
  /\ \A p \in PCB : IsInjective(ch[p])
  /\ \A p, c \in PCB : c \in Range(ch[p]) <=> par[c] = p
  /\ \A c \in PCB : par[c] # NULL => c \in live /\ par[c] \in live
  /\ \A p, q \in live : Up(d, par, p) = NULL /\ Up(d, par, q) = NULL => p = q
  /\ \A S \in SUBSET live : S # {} => \E p \in S : Up(d, par, p) \notin S

ProcessTree == cpu # "tangled" => Tree(Live, parent, children, dying)

(* The activations of nukeItTilItPukes: one process each, all still        *)
(* allocated, the current process outermost and the others unhooked.       *)
Stack(live, par, d) ==
  /\ IsInjective(d) /\ Range(d) \subseteq live
  /\ \A i \in 2..Len(d) : par[d[i]] = NULL

DyingStack ==
  cpu # "tangled" =>
    /\ cpu = "nuke" <=> dying # <<>>
    /\ dying # <<>> => dying[1] = current
    /\ Stack(Live, parent, dying)

(* A process in the queue of a semaphore has its address in p_semAdd.  The *)
(* converse does not hold: see freePcb.                                    *)
WaitsWhereItSays ==
  cpu # "tangled" => \A s \in Sem : \A p \in Range(asl[s]) : semAdd[p] = s

(* The inductive invariant of the nucleus.                                 *)
IInv ==
  /\ TypeOK /\ OnePlace /\ Counts /\ SemaphoreCount /\ NoFault
  /\ StopsOnlyWhenStuck /\ ProcessTree /\ DyingStack /\ WaitsWhereItSays

(* A process on the ready queue gets the processor, unless it is killed or *)
(* the machine stops: round robin starves nobody.                          *)
EventuallyRuns ==
  \A p \in PCB :
    p \in Range(ready) ~> (p = current \/ p \in Range(free) \/ cpu \in Stopped)

(* The recursion of nukeItTilItPukes ends, whatever the shape of the tree. *)
DeathEnds == cpu = "nuke" ~> cpu # "nuke"

(* pcb.c: freePcb adds "a PCB that is no longer in use" to the free list.  *)
FreedIsUnused == Range(free) \cap Range(ready) = {}
==========================================================================
