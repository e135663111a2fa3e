------------------------------ MODULE Traps ------------------------------
(***************************************************************************)
(* The exception handlers of exceptions.c around the nucleus: the mode a   *)
(* SYSCALL is made in, SYSCALL 5 and the trap vectors it sets, and traps   *)
(* that are passed up to the process or kill it.                           *)
(*                                                                         *)
(* Of the saved state p_s only the mode and register a1 matter here.  A    *)
(* vector is a pointer: the state a handler starts in lies in the memory of*)
(* the process, and its mode is any when the trap comes.                   *)
(***************************************************************************)
EXTENDS Nucleus

VARIABLES mode,   \* of each process: the mode bits of p_s.s_cpsr
          vec,    \* the traps each process has an old and a new area for
          a1      \* p_s.s_a1: the process's "own", the number of the "call"
                  \* it made, or a "result" the kernel put there

trapVars == <<vars, mode, vec, a1>>

TLBTRAP  == 0
PROGTRAP == 1
SYSTRAP  == 2
Trap == {TLBTRAP, PROGTRAP, SYSTRAP}
Mode == {"system", "user"}

(* Slip: oldTlb left out of the dishes.                                    *)
WashedButTlb(v, p) == [v EXCEPT ![p] = @ \cap {TLBTRAP}]

(* freePcb and allocPcb both clear the vectors of the block.               *)
Washed(v, p) == [v EXCEPT ![p] = {}]

(* main: the first process starts in system mode.                          *)
TrapInit ==
  /\ Init
  /\ mode = [p \in PCB |-> "system"]
  /\ vec = [p \in PCB |-> {}]
  /\ a1 = [p \in PCB |-> "own"]
--------------------------------------------------------------------------
(* Slip: the mode not looked at.                                           *)
GateOpen == cpu = "user"

(* The test of sysCallHandler: SYSCALLs 1-8 are served in system mode.     *)
Gate == cpu = "user" /\ mode[current] = "system"

(* Every SYSCALL saves the caller's state, with its number in a1, before   *)
(* it is served; a result is one that is stored in p_s after that.         *)
LeaveA1(what) == a1' = [a1 EXCEPT ![current] = what]

(* SYSCALL 1 stores its return code in the old area, which is not loaded   *)
(* again.  The new process starts in the state its parent points to.       *)
Create ==
  /\ Gate
  /\ CreateProcess
  /\ IF free = <<>>
       THEN LeaveA1("call") /\ UNCHANGED <<mode, vec>>
       ELSE /\ a1' = [a1 EXCEPT ![current] = "call", ![Head(free)] = "own"]
            /\ vec' = Washed(vec, Head(free))
            /\ \E m \in Mode : mode' = [mode EXCEPT ![Head(free)] = m]

Terminate ==
  /\ Gate
  /\ TerminateProcess
  /\ LeaveA1("call")
  /\ UNCHANGED <<mode, vec>>

(* SYSCALLs 3, 4 and 7.                                                    *)
SemaphoreCall ==
  /\ Gate
  /\ WaitForClock \/ \E s \in UserSem : Verhogen(s) \/ Passeren(s)
  /\ LeaveA1("call")
  /\ UNCHANGED <<mode, vec>>

(* SYSCALL 6: the time is put into p_s.                                    *)
GetCpuTime ==
  /\ Gate
  /\ LeaveA1("result")
  /\ UNCHANGED <<vars, mode, vec>>

(* SYSCALL 8 returns the device status at once, or when the interrupt wakes*)
(* its caller.                                                             *)
InputOutput ==
  /\ Gate
  /\ \E d \in DevSem : WaitForIO(d) /\ LeaveA1(IF value[d] > 0 THEN "result" ELSE "call")
  /\ UNCHANGED <<mode, vec>>

(* Slip: the process is taken off the processor but not killed.            *)
DieAlone ==
  /\ cpu = "user"
  /\ GetNewJob(ready, processCount, softBlockCount)
  /\ UNCHANGED <<free, asl, semAdd, tree, value, processCount, softBlockCount,
                 dying, mode, vec, a1>>

(* Kill the job and get a new one.                                         *)
Die ==
  /\ TerminateProcess
  /\ UNCHANGED <<mode, vec, a1>>

(* The areas that SYSCALL 5 finds free for a trap of type t.  The cases of *)
(* sysFiveHandle fall through into each other; a type that is no trap has  *)
(* no case.                                                                *)
Unset(t) == {u \in Trap : u >= t /\ u \notin vec[current]}

Sesv(t) ==
  /\ Gate
  /\ \/ /\ Unset(t) # {}
        /\ vec' = [vec EXCEPT ![current] = @ \cup {Min(Unset(t))}]
        /\ LeaveA1("call")
        /\ UNCHANGED <<vars, mode>>
     \/ Unset(t) = {} /\ Die

(* passUpOrDie: the process goes on in its handler, or dies.               *)
PassUpOrDie(t) ==
  /\ cpu = "user"
  /\ \/ /\ t \in vec[current]
        /\ \E m \in Mode : mode' = [mode EXCEPT ![current] = m]
        /\ LeaveA1("own")
        /\ UNCHANGED <<vars, vec>>
     \/ t \notin vec[current] /\ Die

ProgTrpHandler == PassUpOrDie(PROGTRAP)
TlbHandler     == PassUpOrDie(TLBTRAP)

(* SYSCALLs 1-8 in user mode are program traps with cause RESERVED, other  *)
(* numbers SYSCALL traps in either mode.                                   *)
PrivilegedCall == ~Gate /\ ProgTrpHandler
UnknownCall    == PassUpOrDie(SYSTRAP)

(* A process in system mode loads a state in user mode: LDST in uProcInit. *)
EnterUserMode ==
  /\ Gate
  /\ mode' = [mode EXCEPT ![current] = "user"]
  /\ UNCHANGED <<vars, vec, a1>>

(* nukeItTilItPukes; freePcb at the end of an activation.                  *)
Death ==
  /\ \/ NukeChild /\ UNCHANGED vec
     \/ (NukeProgeny \/ NukeCurrent) /\ vec' = Washed(vec, Last(dying))
  /\ UNCHANGED <<mode, a1>>

(* Slip: the status put into a1 of the process that is interrupted.        *)
DeliverHere(d) == [a1 EXCEPT ![current] = "result"]

(* The interrupt of d puts its status into a1 of the process it wakes.     *)
Deliver(d) == [a1 EXCEPT ![Head(asl[d])] = "result"]

(* Interrupts save and restore the state of whom they interrupt.           *)
Interrupt ==
  /\ \/ (Tick \/ QuantumEnd) /\ UNCHANGED a1
     \/ \E d \in DevSem :
          /\ DeviceInterrupt(d)
          /\ a1' = IF value[d] + 1 <= 0 /\ asl[d] # <<>>
                     THEN Deliver(d) ELSE a1
  /\ UNCHANGED <<mode, vec>>

TrapNext ==
  \/ Create \/ Terminate \/ SemaphoreCall \/ GetCpuTime \/ InputOutput
  \/ \E t \in Trap \cup {3} : Sesv(t)
  \/ ProgTrpHandler \/ TlbHandler \/ PrivilegedCall \/ UnknownCall
  \/ EnterUserMode
  \/ Death
  \/ Interrupt
  \/ Rest /\ UNCHANGED <<mode, vec, a1>>

TrapSpec == TrapInit /\ [][TrapNext]_trapVars
--------------------------------------------------------------------------
(* The variables have their types, and a block on the free list has no     *)
(* vectors: whoever gets it next does not inherit the handlers of a dead   *)
(* process.                                                                *)
TrapTypeOK ==
  /\ mode \in [PCB -> Mode]
  /\ vec \in [PCB -> SUBSET Trap]
  /\ a1 \in [PCB -> {"own", "call", "result"}]
  /\ \A p \in Range(free) : vec[p] = {}

(* With its handlers around it the nucleus makes only the steps of         *)
(* Nucleus.tla: a trap changes its state by a complete death or not at     *)
(* all, so whatever holds there holds here.                                *)
ImplementsNucleus == Spec

(* A process in user mode gets nothing from the kernel: while it runs the  *)
(* nucleus changes by interrupts and by its death alone, and it enters     *)
(* system mode only through a vector it has.                               *)
UserModeContained ==
  [][cpu = "user" /\ mode[current] = "user" =>
       /\ \/ UNCHANGED vars
          \/ TerminateProcess
          \/ Tick \/ QuantumEnd \/ \E d \in DevSem : DeviceInterrupt(d)
       /\ mode'[current] = "system" => vec[current] # {}]_trapVars

(* Whoever SYSCALL 8 let wait finds the answer of the device when he runs  *)
(* again: it is put into the state that will be loaded, and what others do *)
(* meanwhile, who call the kernel, trap, create or die, leaves it there.   *)
AnswerIsFound ==
  [][\A p \in PCB :
       /\ (\E d \in DevSem : p \in Range(asl[d])) \/ (p \in Range(ready) /\ a1[p] = "result")
       /\ p \in Range(ready') \/ p = current'
      => a1'[p] = "result"]_trapVars
==========================================================================
