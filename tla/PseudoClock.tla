--------------------------- MODULE PseudoClock ---------------------------
(***************************************************************************)
(* Time in the nucleus: one interval timer serves as the end of a quantum  *)
(* and as the tick of the pseudo-clock, and processes are charged for the  *)
(* time they run.  All times are relative, in units of the model's clock.  *)
(* Kernel code takes no time; that interrupts stay masked for a while, in  *)
(* a handler or in a process of phase 3, shows as a timer that has been due*)
(* for up to MaxMask.  The ready queue is a set: its order is in Nucleus.  *)
(***************************************************************************)
EXTENDS Integers, FiniteSetsExt

CONSTANTS Proc, NULL,
          QUANTUM, INTERVALTIME,
          MaxMask,     \* bound: how long an expired timer waits for its interrupt
          MaxSince,    \* bound: sinceTick counts no further
          Forever      \* what a negative number is as an unsigned timer value

ASSUME ClockAssumption ==
  /\ NULL \notin Proc
  /\ QUANTUM \in Nat \ {0} /\ INTERVALTIME \in Nat /\ QUANTUM <= INTERVALTIME
  /\ MaxMask \in Nat /\ Forever \in Nat
  /\ MaxSince \in Nat /\ INTERVALTIME < MaxSince

VARIABLES where,          \* each process: "free", "ready", "running", or waiting
                          \* for the "clock" or for a "device"
          timer,          \* the interval timer; at or below zero it interrupts
          timeLeft,
          intTimerFlag,
          elapsed,        \* the time of day minus startTOD
          uncharged,      \* the time each process ran minus its p_time
          sinceTick,      \* the time since the clock semaphore was last V'd
          missed          \* what timeLeft does not count has happened since then:
                          \* an "idle" machine, the "death" of who was running

vars == <<where, timer, timeLeft, intTimerFlag, elapsed, uncharged, sinceTick, missed>>

Those(w) == {p \in Proc : where[p] = w}
Idle == Those("running") = {}
SoftBlocked == Those("clock") \cup Those("device")
Halted == Idle /\ SoftBlocked = {}

SetTimer(t) == IF t < 0 THEN Forever ELSE t

(* Slip: every job gets a full quantum.                                    *)
ProcessJobFull(p, w, left, flag) ==
  /\ where' = [w EXCEPT ![p] = "running"]
  /\ timeLeft' = Max({left, 0})
  /\ timer' = QUANTUM
  /\ intTimerFlag' = (flag \/ left < QUANTUM)
  /\ elapsed' = 0

(* processJob: the job runs to the end of a quantum or to the tick.        *)
ProcessJob(p, w, left, flag) ==
  LET l == Max({left, 0}) IN
  /\ where' = [w EXCEPT ![p] = "running"]
  /\ timeLeft' = l
  /\ timer' = Min({l, QUANTUM})
  /\ intTimerFlag' = (flag \/ l < QUANTUM)
  /\ elapsed' = 0

(* getNewJob, when every process is where w says, left is timeLeft and flag*)
(* intTimerFlag.  With nobody ready the timer is set to the tick, or the   *)
(* machine stops.                                                          *)
GetNewJob(w, left, flag) ==
  \/ \E p \in Proc : w[p] = "ready" /\ ProcessJob(p, w, left, flag)
  \/ /\ \A p \in Proc : w[p] # "ready"
     /\ where' = w
     /\ timeLeft' = left
     /\ timer' = SetTimer(left)
     /\ intTimerFlag' = TRUE
     /\ elapsed' = 0

(* When what has been missed since the tick, the next job is got or not.   *)
Miss(what) == missed' = what \cup IF Idle' THEN {"idle"} ELSE {}

(* main, and the first job.                                                *)
Init ==
  /\ \E p \in Proc : where = [q \in Proc |-> IF q = p THEN "running" ELSE "free"]
  /\ timer = QUANTUM
  /\ timeLeft = INTERVALTIME
  /\ intTimerFlag = FALSE
  /\ elapsed = 0
  /\ uncharged = [p \in Proc |-> 0]
  /\ sinceTick = 0
  /\ missed = {}

(* The time of day goes on.                                                *)
PassTime ==
  /\ ~Halted
  /\ timer > 0 \/ (~Idle /\ timer > -MaxMask)
  /\ timer' = timer - 1
  /\ elapsed' = IF Idle THEN 0 ELSE elapsed + 1
  /\ uncharged' = [p \in Proc |-> uncharged[p] + IF where[p] = "running" THEN 1 ELSE 0]
  /\ sinceTick' = Min({sinceTick + 1, MaxSince})
  /\ UNCHANGED <<where, timeLeft, intTimerFlag, missed>>
--------------------------------------------------------------------------
(* STCK and the addition to p_time, for the running process.               *)
Charged == [p \in Proc |-> uncharged[p] - IF where[p] = "running" THEN elapsed ELSE 0]

(* SYSCALLs 4, 7 and 8 that block: p_time and timeLeft get the time that   *)
(* has passed.                                                             *)
Block(p, w) ==
  /\ where[p] = "running"
  /\ uncharged' = Charged
  /\ GetNewJob([where EXCEPT ![p] = w], timeLeft - elapsed, intTimerFlag)
  /\ UNCHANGED sinceTick /\ Miss(missed)

(* SYSCALL 1 as far as time goes.                                          *)
CreateProcess(p) ==
  /\ ~Idle /\ where[p] = "free"
  /\ where' = [where EXCEPT ![p] = "ready"]
  /\ UNCHANGED <<timer, timeLeft, intTimerFlag, elapsed, uncharged, sinceTick, missed>>

(* SYSCALL 2 as far as time goes: freePcb clears p_time, and nothing is    *)
(* taken off timeLeft.                                                     *)
TerminateProcess(p) ==
  /\ where[p] = "running"
  /\ uncharged' = [uncharged EXCEPT ![p] = 0]
  /\ GetNewJob([where EXCEPT ![p] = "free"], timeLeft, intTimerFlag)
  /\ UNCHANGED sinceTick /\ Miss(missed \cup {"death"})

(* Slip: startTOD kept.                                                    *)
GetCpuTimeAgain ==
  /\ ~Idle
  /\ uncharged' = Charged
  /\ timeLeft' = timeLeft - elapsed
  /\ UNCHANGED <<where, timer, intTimerFlag, elapsed, sinceTick, missed>>

(* SYSCALL 6.                                                              *)
GetCpuTime ==
  /\ ~Idle
  /\ uncharged' = Charged
  /\ timeLeft' = timeLeft - elapsed
  /\ elapsed' = 0
  /\ UNCHANGED <<where, timer, intTimerFlag, sinceTick, missed>>

(* The prologue of interruptHandler: timeLeft is charged when somebody was *)
(* running.                                                                *)
LeftNow == IF Idle THEN timeLeft ELSE timeLeft - elapsed

(* An interrupt from a device, which may wake a process.                   *)
DeviceInterrupt ==
  /\ ~Halted
  /\ uncharged' = Charged
  /\ \E w \in {where} \cup {[where EXCEPT ![p] = "ready"] : p \in Those("device")} :
       IF Idle
         THEN GetNewJob(w, LeftNow, intTimerFlag)
         ELSE /\ where' = w
              /\ timeLeft' = LeftNow
              /\ elapsed' = 0
              /\ UNCHANGED <<timer, intTimerFlag>>
  /\ UNCHANGED sinceTick /\ Miss(missed)

(* The timer interrupt, pseudo-clock branch: all who wait for the clock are*)
(* ready and a new interval begins.                                        *)
Tick ==
  /\ timer <= 0 /\ ~Halted
  /\ intTimerFlag \/ LeftNow < 0
  /\ uncharged' = Charged
  /\ sinceTick' = 0
  /\ LET w == [p \in Proc |-> IF where[p] = "clock" THEN "ready" ELSE where[p]] IN
     IF Idle
       THEN GetNewJob(w, INTERVALTIME, FALSE)
       ELSE /\ where' = w
            /\ timeLeft' = INTERVALTIME
            /\ timer' = QUANTUM
            /\ intTimerFlag' = FALSE
            /\ elapsed' = 0
  /\ Miss({})

(* The timer interrupt, quantum branch.                                    *)
QuantumEnd ==
  /\ timer <= 0 /\ ~Halted
  /\ ~intTimerFlag /\ LeftNow >= 0
  /\ uncharged' = Charged
  /\ GetNewJob([p \in Proc |-> IF where[p] = "running" THEN "ready" ELSE where[p]],
               LeftNow, intTimerFlag)
  /\ UNCHANGED sinceTick /\ Miss(missed)

Next ==
  \/ PassTime
  \/ \E p \in Proc : Block(p, "clock") \/ Block(p, "device")
  \/ \E p \in Proc : CreateProcess(p) \/ TerminateProcess(p)
  \/ GetCpuTime
  \/ DeviceInterrupt
  \/ Tick
  \/ QuantumEnd

Spec == Init /\ [][Next]_vars
--------------------------------------------------------------------------
(* Every process is charged for the time it ran, all of it and once: what  *)
(* is not in p_time yet is what passed since startTOD, and only for the    *)
(* process that runs.                                                      *)
ChargedExactly ==
  \A p \in Proc : uncharged[p] = IF where[p] = "running" THEN elapsed ELSE 0

(* While a process runs the timer is set for no more than a quantum and no *)
(* later than the tick that timeLeft counts down to: no process outruns    *)
(* its quantum or the clock.                                               *)
TimerInTime == ~Idle => timer <= QUANTUM /\ timer <= timeLeft - elapsed

(* No tick comes before the interval is over unless the machine has idled  *)
(* since the last one: through blocking, quanta, interrupts, masking and   *)
(* deaths, whoever ends a quantum does not pass for the clock.             *)
TickNotEarly ==
  [][Tick /\ "idle" \notin missed => sinceTick >= INTERVALTIME]_vars
==========================================================================
