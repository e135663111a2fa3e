---------------------------- MODULE UserMemory ---------------------------
(***************************************************************************)
(* The virtual memory of the user processes (vmIOsupport.c, initProc.c):   *)
(* each process copies its tape to the backing store and then runs in      *)
(* pages that page faults bring into the frames of the swap pool.  The     *)
(* SYSCALLs for disks and terminals touch its pages too, and may fault in  *)
(* the midst.  The nucleus is its fair scheduling and its semaphores,      *)
(* first in, first out; the queue of each has its holder in front.         *)
(*                                                                         *)
(* Contents are told apart only as far as this: what a page of a process   *)
(* was last given, what a process has last put on a disk, and anything     *)
(* that has been superseded.                                               *)
(***************************************************************************)
EXTENDS Integers, FiniteSets, SequencesExt

CONSTANTS MAXUSERPROC, SWAPSIZE,
          Page,       \* for each process the pages of its segment it uses
          TapeBlocks, \* how many blocks the tape of each has
          Shared,     \* the pages of the segment kUSeg3 that are in use
          Disk,       \* numbers of the disks that are in use
          Programs    \* bound: what the program of each process may do

Proc   == 1..MAXUSERPROC
Frame  == 0..SWAPSIZE - 1
AllPages == Shared \cup UNION {Page[p] : p \in Proc}
Key    == (UNION {{p} \X Page[p] : p \in Proc}) \cup ({0} \X Shared)   \* segment, page

ASSUME MemoryAssumption ==
  /\ MAXUSERPROC \in Nat \ {0} /\ SWAPSIZE \in Nat \ {0}
  /\ TapeBlocks \in [Proc -> Nat \ {0}] /\ Shared \subseteq Nat
  /\ \A p \in Proc : Page[p] \subseteq Nat /\ 0..TapeBlocks[p] - 1 \subseteq Page[p]
  /\ Disk \subseteq 1..7
  /\ Programs \subseteq [Proc -> SUBSET {"DISK", "TERMINAL", "END", "ERROR"}]

OLD     == <<0, -1>>                 \* contents that have been superseded
File(p) == <<p, -1>>                 \* what p has last put on a disk

FrameOf(f)    == <<"frame", f>>      \* places where contents are
Sector(p, pg) == <<"backing", p, pg>>
Buffer(i)     == <<"buffer", i>>     \* the pages from OSCODETOP on
Block(d)      == <<"disk", d>>

TapeBuffer(p) == Buffer(p - 1)

(* Slip: numbered from 0, as those of the tapes are.                       *)
DiskBufferLow(d) == Buffer(d - 1)
DiskBuffer(d)    == Buffer(d)

Place == {FrameOf(f) : f \in Frame} \cup {Sector(p, pg) : p \in Proc, pg \in AllPages}
           \cup {TapeBuffer(p) : p \in Proc}
           \cup {DiskBuffer(d) : d \in Disk} \cup {Block(d) : d \in Disk}

INVALID == -1                        \* page table entries that are no frame
GARBAGE == -2                        \* valid, with an address of all ones
FREE    == <<0, OLD>>                \* a swap pool entry with sw_asid -1

swapSem     == <<"swap", 0>>
backingSem  == <<"backing", 0>>
diskSem(d)  == <<"disk", d>>
termSem(p)  == <<"terminal", p>>

VARIABLES mem,       \* what is in each place
          pte, tlb,  \* the frame of each page, in the tables and in the TLB
          swapPool,  \* for each frame sw_asid and what page it has
          nextFrame,
          queue,     \* each semaphore's holder and the processes that wait
          at,        \* where each process is
          page, disk,  \* the page it needs and the disk it uses
          resume,    \* where it goes on after a page fault
          block,     \* currentBlock while it loads
          masterSem, joined,  \* test(): the Ps it has done
          program,   \* one of Programs
          served,    \* whether the handlers of phase 3 run in system mode
          failed,    \* some transfer has failed
          panic

paging == <<pte, tlb, swapPool, nextFrame>>
proc   == <<at, page, disk, resume, block>>
test   == <<masterSem, joined>>
rest   == <<program, served, panic>>
vars   == <<mem, paging, queue, proc, test, rest, failed>>

Unloaded == UNION {{Sector(p, pg) : pg \in 0..TapeBlocks[p] - 1} : p \in Proc}

(* After the loops of test().  A page that is not on the tape is whatever  *)
(* the backing store has.  initProc.c:218 gives the new areas a cpsr of 0, *)
(* in which the nucleus serves no SYSCALL 4; both ways are explored.       *)
Init ==
  /\ mem = [c \in Place |-> IF c[1] = "backing" /\ c \notin Unloaded
                              THEN <<c[2], c[3]>> ELSE OLD]
  /\ pte = [k \in Key |-> INVALID] /\ tlb = [k \in Key |-> INVALID]
  /\ swapPool = [f \in Frame |-> FREE] /\ nextFrame = 0
  /\ queue = [l \in {swapSem, backingSem} \cup {diskSem(d) : d \in Disk}
                      \cup {termSem(p) : p \in Proc} |-> <<>>]
  /\ at = [p \in Proc |-> "tape"]
  /\ page = [p \in Proc |-> OLD] /\ disk = [p \in Proc |-> 0]
  /\ resume = [p \in Proc |-> "user"] /\ block = [p \in Proc |-> 0]
  /\ masterSem = 0 /\ joined = 0
  /\ program \in Programs /\ served \in BOOLEAN
  /\ failed = FALSE /\ panic = FALSE

---------------------------------------------------------------------------
At(p, where) == ~panic /\ at[p] = where
Go(p, where) == at' = [at EXCEPT ![p] = where]

Has(p, l) == queue[l] # <<>> /\ Head(queue[l]) = p
Ask(q, p, l) == [q EXCEPT ![l] = Append(@, p)]        \* SYSCALL 4
Leave(q, l)  == [q EXCEPT ![l] = Tail(@)]             \* SYSCALL 3

(* The first P of a handler.  When it is not served it becomes a program   *)
(* trap, whose handler makes another, and the process goes no further.     *)
Enter(p, l) == queue' = IF served THEN Ask(queue, p, l) ELSE queue

(* Contents are followed until a transfer fails.                           *)
Keep(m) == mem' = IF failed' THEN [c \in Place |-> OLD] ELSE m

(* New contents x in place c: the old ones are superseded everywhere.      *)
Renew(c, x) == Keep([d \in Place |-> IF d = c THEN x
                                     ELSE IF mem[d] = x THEN OLD ELSE mem[d]])

(* A transfer that a device does or, with a status nobody reads, does not. *)
Transfer(from, to) ==
  /\ failed' \in {failed, TRUE}
  /\ Keep([mem EXCEPT ![to] = mem[from]])

(* uProcInit: a block of the tape into a buffer; an error ends the loop,   *)
(* but not before the buffer has been stored.                              *)
TapeRead(p) ==
  /\ At(p, "tape")
  /\ \/ UNCHANGED failed /\ Renew(TapeBuffer(p), <<p, block[p]>>)
        /\ Go(p, IF block[p] = TapeBlocks[p] - 1 THEN "store last" ELSE "store")
     \/ failed' = TRUE /\ Keep(mem) /\ Go(p, "store last")
  /\ queue' = Ask(queue, p, backingSem)
  /\ UNCHANGED <<paging, page, disk, resume, block, test, rest>>

(* The buffer to the backing store.                                        *)
Store(p) ==
  /\ At(p, "store") \/ At(p, "store last")
  /\ Has(p, backingSem)
  /\ Transfer(TapeBuffer(p), Sector(p, block[p]))
  /\ queue' = Leave(queue, backingSem)
  /\ IF at[p] = "store"
       THEN Go(p, "tape") /\ block' = [block EXCEPT ![p] = @ + 1]
       ELSE Go(p, "user") /\ block' = [block EXCEPT ![p] = 0]
  /\ UNCHANGED <<paging, page, disk, resume, test, rest>>

---------------------------------------------------------------------------
Pages(p) == {k \in Key : k[1] \in {p, 0}}

(* What an access of a page finds: the TLB first, then the page table.     *)
Reach(k) == IF tlb[k] \in Frame THEN tlb[k] ELSE pte[k]

(* An access fills the TLB.                                                *)
Access(k) == Reach(k) \in Frame /\ tlb' = [tlb EXCEPT ![k] = Reach(k)]

Write(k) == Access(k) /\ Renew(FrameOf(Reach(k)), k)

Use(p, k) ==
  /\ At(p, "user") /\ k \in Pages(p)
  /\ UNCHANGED <<pte, swapPool, nextFrame, queue, proc, test, rest, failed>>
  /\ Write(k)

(* A page fault, in the program or in the midst of a SYSCALL:              *)
(* vmMemHandler as far as its P.                                           *)
Fault(p, k) ==
  /\ \/ At(p, "user") /\ k \in Pages(p)
     \/ (At(p, "copy out") \/ At(p, "copy in") \/ At(p, "terminal")) /\ k = page[p]
  /\ at[p] = "copy out" => Has(p, diskSem(disk[p]))
  /\ at[p] = "terminal" => served
  /\ Reach(k) = INVALID
  /\ page' = [page EXCEPT ![p] = k]
  /\ resume' = [resume EXCEPT ![p] = at[p]]
  /\ Go(p, "choose")
  /\ Enter(p, swapSem)
  /\ UNCHANGED <<mem, paging, disk, block, test, rest, failed>>

Owner(f)  == swapPool[f][1]
PageIn(f) == swapPool[f][2]

(* Slip: the TLB is not cleared when a frame is taken.                     *)
ClearedNot == tlb
Cleared    == [k \in Key |-> INVALID]

chooseFrame == (nextFrame + 1) % SWAPSIZE

(* chooseFrame, and an occupant of the frame made invalid.                 *)
Choose(p) ==
  LET f == chooseFrame IN
  /\ At(p, "choose") /\ Has(p, swapSem)
  /\ nextFrame' = f
  /\ IF swapPool[f] # FREE
       THEN /\ pte' = [pte EXCEPT ![PageIn(f)] = INVALID]
            /\ tlb' = Cleared
            /\ Go(p, "write out")
       ELSE UNCHANGED <<pte, tlb>> /\ Go(p, "read in")
  /\ queue' = Ask(queue, p, backingSem)
  /\ UNCHANGED <<mem, swapPool, page, disk, resume, block, test, rest, failed>>

(* Slip: the page of the wrong process.                                    *)
WriteOutAsOwn(p) ==
  /\ At(p, "write out") /\ Has(p, backingSem)
  /\ Transfer(FrameOf(nextFrame), Sector(p, PageIn(nextFrame)[2]))
  /\ Go(p, "read in")
  /\ queue' = Ask(Leave(queue, backingSem), p, backingSem)
  /\ UNCHANGED <<paging, page, disk, resume, block, test, rest>>

(* readWriteBacking for the occupant ...                                   *)
WriteOut(p) ==
  /\ At(p, "write out") /\ Has(p, backingSem)
  /\ Transfer(FrameOf(nextFrame), Sector(Owner(nextFrame), PageIn(nextFrame)[2]))
  /\ Go(p, "read in")
  /\ queue' = Ask(Leave(queue, backingSem), p, backingSem)
  /\ UNCHANGED <<paging, page, disk, resume, block, test, rest>>

(* Slip: again and again after a failure.                                  *)
ReadInAgain(p) ==
  /\ At(p, "read in") /\ Has(p, backingSem)
  /\ Transfer(Sector(p, page[p][2]), FrameOf(nextFrame))
  /\ IF failed' THEN UNCHANGED <<at, queue>>
                ELSE Go(p, "map") /\ queue' = Leave(queue, backingSem)
  /\ UNCHANGED <<paging, page, disk, resume, block, test, rest>>

(* ... and for the missing page.                                           *)
ReadIn(p) ==
  /\ At(p, "read in") /\ Has(p, backingSem)
  /\ Transfer(Sector(p, page[p][2]), FrameOf(nextFrame))
  /\ Go(p, "map")
  /\ queue' = Leave(queue, backingSem)
  /\ UNCHANGED <<paging, page, disk, resume, block, test, rest>>

(* The end of vmMemHandler.                                                *)
Map(p) ==
  LET k == page[p] IN
  /\ At(p, "map")
  /\ swapPool' = [swapPool EXCEPT ![nextFrame] = <<p, k>>]
  /\ pte' = [pte EXCEPT ![k] = nextFrame]
  /\ tlb' = Cleared
  /\ Go(p, resume[p]) /\ resume' = [resume EXCEPT ![p] = "user"]
  /\ page' = [page EXCEPT ![p] = IF resume[p] = "user" THEN OLD ELSE k]
  /\ queue' = Leave(queue, swapSem)
  /\ UNCHANGED <<mem, nextFrame, disk, block, test, rest, failed>>

---------------------------------------------------------------------------
(* SYSCALLs 14 and 15, as far as diskIO's P.                               *)
DiskCall(p, d, k) ==
  /\ At(p, "user") /\ "DISK" \in program[p] /\ k \in Pages(p)
  /\ page' = [page EXCEPT ![p] = k] /\ disk' = [disk EXCEPT ![p] = d]
  /\ Go(p, "copy out") \/ Go(p, "get")
  /\ Enter(p, diskSem(d))
  /\ UNCHANGED <<mem, paging, resume, block, test, rest, failed>>

(* copyPage into the buffer, which makes it what p has last put.           *)
CopyOut(p) ==
  /\ At(p, "copy out") /\ Has(p, diskSem(disk[p]))
  /\ UNCHANGED <<pte, swapPool, nextFrame, queue, page, disk, resume, block, test, rest, failed>>
  /\ Access(page[p]) /\ Renew(DiskBuffer(disk[p]), File(p))
  /\ Go(p, "put")

Return(p) ==
  /\ Go(p, "user")
  /\ page' = [page EXCEPT ![p] = OLD] /\ disk' = [disk EXCEPT ![p] = 0]

Put(p) ==
  /\ At(p, "put")
  /\ Transfer(DiskBuffer(disk[p]), Block(disk[p]))
  /\ Return(p)
  /\ queue' = Leave(queue, diskSem(disk[p]))
  /\ UNCHANGED <<paging, resume, block, test, rest>>

Get(p) ==
  /\ At(p, "get") /\ Has(p, diskSem(disk[p]))
  /\ Transfer(Block(disk[p]), DiskBuffer(disk[p]))
  /\ Go(p, "copy in")
  /\ UNCHANGED <<paging, queue, page, disk, resume, block, test, rest>>

CopyIn(p) ==
  /\ At(p, "copy in")
  /\ UNCHANGED <<pte, swapPool, nextFrame, resume, block, test, rest, failed>>
  /\ Write(page[p])
  /\ Return(p)
  /\ queue' = Leave(queue, diskSem(disk[p]))

(* SYSCALLs 9, 10 and 16: a character at a time of a page, under a mutex   *)
(* that no other process uses.                                             *)
TermCall(p, k) ==
  /\ At(p, "user") /\ "TERMINAL" \in program[p] /\ k \in Pages(p)
  /\ page' = [page EXCEPT ![p] = k]
  /\ Go(p, "terminal")
  /\ Enter(p, termSem(p))
  /\ UNCHANGED <<mem, paging, disk, resume, block, test, rest, failed>>

TermChar(p) ==
  /\ At(p, "terminal") /\ served
  /\ UNCHANGED <<pte, swapPool, nextFrame, queue, proc, test, rest, failed>>
  /\ (Access(page[p]) /\ UNCHANGED mem) \/ Write(page[p])

TermEnd(p) ==
  /\ At(p, "terminal") /\ served
  /\ Return(p)
  /\ queue' = Leave(queue, termSem(p))
  /\ UNCHANGED <<mem, paging, resume, block, test, rest, failed>>

(* A status that is not that of a character sent or received.              *)
TermPanic(p) ==
  /\ At(p, "terminal") /\ served
  /\ panic' = TRUE
  /\ UNCHANGED <<mem, paging, queue, proc, test, program, served, failed>>

---------------------------------------------------------------------------
(* virtualDeath as far as its P: for SYSCALL 18, a program trap, a bad     *)
(* disk or address, a TLB exception of another cause.  Inside a SYSCALL    *)
(* the semaphore of the device is kept.                                    *)
Die(p) ==
  /\ \/ At(p, "user") /\ "END" \in program[p]
     \/ /\ "ERROR" \in program[p]
        /\ \/ At(p, "copy out") /\ Has(p, diskSem(disk[p]))
           \/ At(p, "copy in") \/ (At(p, "terminal") /\ served)
  /\ Go(p, "dying")
  /\ Enter(p, swapSem)
  /\ UNCHANGED <<mem, paging, page, disk, resume, block, test, rest, failed>>

Owned(p) == {f \in Frame : Owner(f) = p}

(* Its frames given back: entryLO | ~VALID leaves an entry valid.          *)
Bury(p) ==
  /\ At(p, "dying") /\ Has(p, swapSem)
  /\ pte' = [k \in Key |-> IF \E f \in Owned(p) : PageIn(f) = k THEN GARBAGE ELSE pte[k]]
  /\ swapPool' = [f \in Frame |-> IF f \in Owned(p) THEN FREE ELSE swapPool[f]]
  /\ tlb' = IF Owned(p) = {} THEN tlb ELSE Cleared
  /\ queue' = Leave(queue, swapSem)
  /\ Go(p, "buried")
  /\ UNCHANGED <<mem, nextFrame, page, disk, resume, block, test, rest, failed>>

(* Slip: the V forgotten.                                                  *)
TerminateUnsung(p) ==
  /\ At(p, "buried")
  /\ Go(p, "ended")
  /\ UNCHANGED <<mem, paging, queue, page, disk, resume, block, test, rest, failed>>

(* The V of masterSem, and SYSCALL 2.                                      *)
Terminate(p) ==
  /\ At(p, "buried")
  /\ masterSem' = masterSem + 1
  /\ Go(p, "ended")
  /\ UNCHANGED <<mem, paging, queue, page, disk, resume, block, joined, rest, failed>>

(* A P of test() on masterSem; after the last test() ends.                 *)
Join ==
  /\ ~panic /\ joined < MAXUSERPROC /\ masterSem > 0
  /\ masterSem' = masterSem - 1 /\ joined' = joined + 1
  /\ UNCHANGED <<mem, paging, queue, proc, rest, failed>>

(* A disk whose mutex a process has taken to its grave.                    *)
Abandoned(d) == queue[diskSem(d)] # <<>> /\ at[Head(queue[diskSem(d)])] = "ended"

(* Where the system may stop, and nowhere else: test() has ended, or the   *)
(* nucleus gave up, or the handlers are not served.                        *)
Halted ==
  /\ panic \/ ~served \/ joined = MAXUSERPROC \/ \E d \in Disk : Abandoned(d)
  /\ UNCHANGED vars

Kernel(p) ==
  \/ TapeRead(p) \/ Store(p)
  \/ Choose(p) \/ WriteOut(p) \/ ReadIn(p) \/ Map(p)
  \/ CopyOut(p) \/ Put(p) \/ Get(p) \/ CopyIn(p)
  \/ Bury(p) \/ Terminate(p)
  \/ at[p] # "user" /\ \E k \in Key : Fault(p, k)

Program(p) ==
  \/ \E k \in Key : Use(p, k) \/ Fault(p, k) \/ TermCall(p, k)
                      \/ \E d \in Disk : DiskCall(p, d, k)
  \/ TermChar(p) \/ TermEnd(p) \/ TermPanic(p) \/ Die(p)

Next == (\E p \in Proc : Kernel(p) \/ Program(p)) \/ Join \/ Halted

(* The scheduler serves every ready process in turn, and devices answer.   *)
Fairness == (\A p \in Proc : WF_vars(Kernel(p))) /\ WF_vars(Join)

Spec == Init /\ [][Next]_vars /\ Fairness

---------------------------------------------------------------------------
Faulting == {"choose", "write out", "read in", "map"}
Content  == Key \cup (Proc \X AllPages) \cup {File(p) : p \in Proc} \cup {OLD}

TypeOK ==
  /\ mem \in [Place -> Content]
  /\ pte \in [Key -> Frame \cup {INVALID, GARBAGE}] /\ tlb \in [Key -> Frame \cup {INVALID}]
  /\ swapPool \in [Frame -> (Proc \X Key) \cup {FREE}] /\ nextFrame \in Frame
  /\ \A l \in DOMAIN queue : queue[l] \in Seq(Proc) /\ IsInjective(queue[l])
  /\ at \in [Proc -> Faulting \cup {"tape", "store", "store last", "user", "copy out", "put",
                      "get", "copy in", "terminal", "dying", "buried", "ended"}]
  /\ page \in [Proc -> Key \cup {OLD}] /\ disk \in [Proc -> Disk \cup {0}]
  /\ resume \in [Proc -> {"user", "copy out", "copy in", "terminal"}]
  /\ \A p \in Proc : block[p] \in 0..TapeBlocks[p] - 1
  /\ masterSem \in 0..MAXUSERPROC /\ joined \in 0..MAXUSERPROC

Ended   == {p \in Proc : at[p] = "ended"}
Gone(p) == at[p] \in {"buried", "ended"}
Live(k) == k[1] = 0 \/ ~Gone(k[1])

(* Page tables, TLB and swap pool agree, in whatever order processes fault *)
(* and die: a page that can be reached is in the frame whose entry names   *)
(* it, no frame serves two pages, an entry that is not free names a page   *)
(* that is in the frame unless it is being replaced, and no frame belongs  *)
(* to a process that has died (vmMemHandler, virtualDeath).                *)
FramesAgree ==
  /\ \A k \in Key : Live(k) /\ Reach(k) # INVALID =>
       Reach(k) = pte[k] /\ pte[k] \in Frame /\ PageIn(pte[k]) = k
  /\ \A f \in Frame : swapPool[f] # FREE =>
       /\ ~Gone(Owner(f))
       /\ \/ pte[PageIn(f)] = f
          \/ f = nextFrame /\ \E p \in Proc : at[p] \in Faulting \ {"choose"}

(* Unless a transfer has failed, what a process finds in a page is what    *)
(* was last written there, by its tape, its program or a SYSCALL, however  *)
(* often the page has been out (vmMemHandler, readWriteBacking).           *)
Coherent == ~failed =>
  \A k \in Key : Live(k) /\ Reach(k) # INVALID =>
    Reach(k) \in Frame /\ mem[FrameOf(Reach(k))] = k

(* Unless a transfer has failed, a buffer holds what the process that uses *)
(* it has put there, also when that process has faulted meanwhile: its     *)
(* tape's block, its page for the disk, the disk's block (uProcInit,       *)
(* diskIO).                                                                *)
BuffersAreOwn == ~failed => \A p \in Proc :
  /\ at[p] \in {"store", "store last"} => mem[TapeBuffer(p)] = <<p, block[p]>>
  /\ at[p] = "put" => mem[DiskBuffer(disk[p])] = File(p)
  /\ at[p] = "copy in" \/ (at[p] \in Faulting /\ resume[p] = "copy in") =>
       mem[DiskBuffer(disk[p])] = mem[Block(disk[p])]

(* If the handlers run in system mode, every page fault is served, also    *)
(* one inside a SYSCALL that holds the mutex of a device.                  *)
FaultServed == \A p \in Proc :
  served /\ at[p] \in Faulting ~> at[p] \notin Faulting \/ panic

(* And every process that is to die ends and is counted by test(), also    *)
(* one that dies in the midst of a SYSCALL.                                *)
DeathIsJoined == \A p \in Proc :
  served /\ at[p] = "dying" ~> (p \in Ended /\ joined = Cardinality(Ended)) \/ panic

(* A page fault "brings in the missing page" and "backs up any necessary   *)
(* information to backingstore" (vmIOsupport.c:66-68): while what was last *)
(* written to a page of the shared segment is kept anywhere, it is what    *)
(* every process finds in the page.                                        *)
SharedIsCoherent == ~failed =>
  \A k \in {0} \X Shared : (\E c \in Place : mem[c] = k) /\ Reach(k) \in Frame =>
    mem[FrameOf(Reach(k))] = k
===========================================================================
