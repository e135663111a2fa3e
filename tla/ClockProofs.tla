--------------------------- MODULE ClockProofs ---------------------------
(***************************************************************************)
(* Charging and timer setting for any number of processes, any quantum and *)
(* any interval: each process is charged for the time it ran, and the timer*)
(* is set for no more than a quantum and no later than the tick.  The      *)
(* inductive invariant adds that one process runs at a time.  CountInv says*)
(* of the same steps what timeLeft and intTimerFlag have to do with the    *)
(* time since the last tick.                                               *)
(***************************************************************************)
EXTENDS PseudoClock, TLAPS

ClockTypes ==
  /\ where = [p \in Proc |-> where[p]]
  /\ timer \in Int /\ timeLeft \in Int /\ elapsed \in Int
  /\ uncharged \in [Proc -> Int]

OneRuns == \A p, q \in Proc : where[p] = "running" /\ where[q] = "running" => p = q

IInv == ClockTypes /\ OneRuns /\ ChargedExactly /\ TimerInTime

(* timeLeft counts down what is left of the interval, exactly, while the   *)
(* machine neither idles nor loses the time of a process that dies.        *)
CountsDown ==
  missed = {} /\ sinceTick <= INTERVALTIME => timeLeft - elapsed = INTERVALTIME - sinceTick

(* Unless the machine has idled, at least what timeLeft leaves is left of  *)
(* the interval, and intTimerFlag says that the timer runs to its end.     *)
CountInv ==
  /\ elapsed \in Nat /\ sinceTick \in Nat /\ intTimerFlag \in BOOLEAN
  /\ Idle => "idle" \in missed
  /\ "idle" \notin missed =>
       /\ sinceTick < INTERVALTIME => INTERVALTIME - sinceTick <= timeLeft - elapsed
       /\ intTimerFlag => timeLeft <= QUANTUM /\ timeLeft - elapsed <= timer
  /\ CountsDown
--------------------------------------------------------------------------
(* The larger and the smaller of two numbers, as processJob picks them.    *)
LEMMA MaxOfTwo ==
  ASSUME NEW a \in Int, NEW b \in Int
  PROVE  (Max({a, b}) = a \/ Max({a, b}) = b) /\ Max({a, b}) \in Int /\ Max({a, b}) >= a /\ Max({a, b}) >= b
  <1>1. \E x \in {a, b} : \A y \in {a, b} : x >= y
    OBVIOUS
  <1>2. Max({a, b}) \in {a, b} /\ \A y \in {a, b} : Max({a, b}) >= y
    BY <1>1 DEF Max
  <1> QED
    BY <1>2

LEMMA MinOfTwo ==
  ASSUME NEW a \in Int, NEW b \in Int
  PROVE  (Min({a, b}) = a \/ Min({a, b}) = b) /\ Min({a, b}) \in Int /\ Min({a, b}) <= a /\ Min({a, b}) <= b
  <1>1. \E x \in {a, b} : \A y \in {a, b} : x <= y
    OBVIOUS
  <1>2. Min({a, b}) \in {a, b} /\ \A y \in {a, b} : Min({a, b}) <= y
    BY <1>1 DEF Min
  <1> QED
    BY <1>2

(* getNewJob when nobody is left running and all have been charged.        *)
LEMMA NewJobKeeps ==
  ASSUME NEW w, w = [p \in Proc |-> w[p]], \A p \in Proc : w[p] # "running",
         NEW left \in Int, NEW flag, GetNewJob(w, left, flag),
         uncharged' = [p \in Proc |-> 0]
  PROVE  IInv'
  <1>1. CASE \E p \in Proc : w[p] = "ready" /\ ProcessJob(p, w, left, flag)
    <2>1. PICK p \in Proc : ProcessJob(p, w, left, flag)
      BY <1>1
    <2> DEFINE l == Max({left, 0})
               m == Min({l, QUANTUM})
    <2>2. l \in Int
      BY MaxOfTwo
    <2> HIDE DEF l
    <2>3. m \in Int /\ m <= l /\ m <= QUANTUM
      BY <2>2, ClockAssumption, MinOfTwo
    <2>4. /\ where' = [w EXCEPT ![p] = "running"]
          /\ timeLeft' = l /\ timer' = m /\ elapsed' = 0
      BY <2>1 DEF ProcessJob, l
    <2> HIDE DEF m
    <2>5. ClockTypes' /\ OneRuns'
      BY <2>2, <2>3, <2>4 DEF ClockTypes, OneRuns
    <2>6. ChargedExactly'
      BY <2>4 DEF ChargedExactly
    <2>7. TimerInTime'
      <3>1. timer' <= timeLeft' - elapsed' /\ timer' <= QUANTUM
        BY <2>2, <2>3, <2>4
      <3> QED
        BY <3>1 DEF TimerInTime
    <2> QED
      BY <2>5, <2>6, <2>7 DEF IInv
  <1>2. CASE /\ where' = w /\ timeLeft' = left
             /\ timer' = SetTimer(left) /\ elapsed' = 0
    <2>1. ClockTypes' /\ OneRuns' /\ ChargedExactly'
      BY <1>2, ClockAssumption DEF ClockTypes, OneRuns, ChargedExactly, SetTimer
    <2>2. TimerInTime'
      BY <1>2 DEF TimerInTime, Idle, Those
    <2> QED
      BY <2>1, <2>2 DEF IInv
  <1> QED
    BY <1>1, <1>2 DEF GetNewJob

(* Once charged for what passed since startTOD, nobody has time open.      *)
LEMMA AllCharged == IInv => Charged = [p \in Proc |-> 0]
  <1> SUFFICES ASSUME IInv, NEW p \in Proc
               PROVE  uncharged[p] - (IF where[p] = "running" THEN elapsed ELSE 0) = 0
    BY DEF Charged
  <1> QED
    BY DEF IInv, ChargedExactly, ClockTypes
--------------------------------------------------------------------------
LEMMA InitIInv == Init => IInv
  <1> SUFFICES ASSUME Init PROVE IInv
    OBVIOUS
  <1>1. PICK p \in Proc : where = [q \in Proc |-> IF q = p THEN "running" ELSE "free"]
    BY DEF Init
  <1> QED
    BY <1>1, ClockAssumption
    DEF Init, IInv, ClockTypes, OneRuns, ChargedExactly, TimerInTime

LEMMA PassTimeKeeps == IInv /\ PassTime => IInv'
  <1> SUFFICES ASSUME IInv, PassTime PROVE IInv'
    OBVIOUS
  <1> USE DEF IInv
  <1>1. /\ timer' = timer - 1 /\ UNCHANGED <<where, timeLeft>>
        /\ elapsed' = IF Idle THEN 0 ELSE elapsed + 1
        /\ uncharged' = [p \in Proc |-> uncharged[p] + IF where[p] = "running" THEN 1 ELSE 0]
    BY DEF PassTime
  <1>2. ClockTypes' /\ OneRuns'
    BY <1>1 DEF ClockTypes, OneRuns
  <1>3. ChargedExactly'
    <2> SUFFICES ASSUME NEW p \in Proc
                 PROVE  uncharged'[p] = IF where[p] = "running" THEN elapsed' ELSE 0
      BY <1>1 DEF ChargedExactly
    <2>1. CASE where[p] = "running"
      <3>1. elapsed' = elapsed + 1
        BY <1>1, <2>1 DEF Idle, Those
      <3> QED
        BY <1>1, <2>1, <3>1 DEF ChargedExactly, ClockTypes
    <2>2. CASE where[p] # "running"
      BY <1>1, <2>2 DEF ChargedExactly, ClockTypes
    <2> QED
      BY <2>1, <2>2
  <1>4. TimerInTime'
    <2> SUFFICES ASSUME ~Idle
                 PROVE  timer - 1 <= QUANTUM /\ timer - 1 <= timeLeft - (elapsed + 1)
      BY <1>1 DEF TimerInTime, Idle, Those
    <2> QED
      BY ClockAssumption DEF TimerInTime, ClockTypes
  <1> QED
    BY <1>2, <1>3, <1>4

LEMMA BlockKeeps ==
  ASSUME IInv, NEW p \in Proc, NEW w \in {"clock", "device"}, Block(p, w)
  PROVE  IInv'
  <1> USE DEF IInv
  <1> DEFINE v == [where EXCEPT ![p] = w]
  <1>1. v = [q \in Proc |-> v[q]] /\ \A q \in Proc : v[q] # "running"
    BY DEF ClockTypes, OneRuns, Block
  <1>2. uncharged' = [q \in Proc |-> 0] /\ timeLeft - elapsed \in Int
    BY AllCharged DEF Block, ClockTypes
  <1>3. GetNewJob(v, timeLeft - elapsed, intTimerFlag)
    BY DEF Block
  <1> QED
    BY <1>1, <1>2, <1>3, NewJobKeeps

LEMMA CreateProcessKeeps ==
  ASSUME IInv, NEW p \in Proc, CreateProcess(p)
  PROVE  IInv'
  <1> USE DEF IInv
  <1>1. /\ where[p] = "free" /\ where' = [where EXCEPT ![p] = "ready"] /\ ~Idle
        /\ UNCHANGED <<timer, timeLeft, elapsed, uncharged>>
    BY DEF CreateProcess
  <1> QED
    BY <1>1 DEF ClockTypes, OneRuns, ChargedExactly, TimerInTime

(* The time of a process that dies goes with its block.                    *)
LEMMA TerminateProcessKeeps ==
  ASSUME IInv, NEW p \in Proc, TerminateProcess(p)
  PROVE  IInv'
  <1> USE DEF IInv
  <1> DEFINE v == [where EXCEPT ![p] = "free"]
  <1>1. v = [q \in Proc |-> v[q]] /\ \A q \in Proc : v[q] # "running"
    BY DEF ClockTypes, OneRuns, TerminateProcess
  <1>2. uncharged' = [q \in Proc |-> 0]
    <2>1. ASSUME NEW q \in Proc, q # p PROVE uncharged[q] = 0
      BY <2>1 DEF TerminateProcess, OneRuns, ChargedExactly
    <2>2. uncharged' = [uncharged EXCEPT ![p] = 0]
      BY DEF TerminateProcess
    <2> QED
      BY <2>1, <2>2 DEF ClockTypes
  <1>3. GetNewJob(v, timeLeft, intTimerFlag) /\ timeLeft \in Int
    BY DEF TerminateProcess, ClockTypes
  <1> QED
    BY <1>1, <1>2, <1>3, NewJobKeeps

(* SYSCALL 6 and the prologue of an interrupt move what passed from the    *)
(* time of day to p_time and timeLeft.                                     *)
LEMMA SettledKeeps ==
  ASSUME IInv, ~Idle, uncharged' = Charged, timeLeft' = timeLeft - elapsed,
         elapsed' = 0, timer' = timer, NEW w, where' = w,
         w = [q \in Proc |-> w[q]],
         \A q \in Proc : w[q] = "running" => where[q] = "running"
  PROVE  IInv'
  <1> USE DEF IInv
  <1>1. ClockTypes'
    BY AllCharged DEF ClockTypes
  <1>2. OneRuns'
    BY DEF OneRuns
  <1>3. ChargedExactly'
    BY AllCharged DEF ChargedExactly
  <1>4. TimerInTime'
    <2>1. timer <= QUANTUM /\ timer <= timeLeft - elapsed - 0
      BY DEF TimerInTime, ClockTypes
    <2> QED
      BY <2>1 DEF TimerInTime
  <1> QED
    BY <1>1, <1>2, <1>3, <1>4

LEMMA GetCpuTimeKeeps == IInv /\ GetCpuTime => IInv'
  BY SettledKeeps DEF GetCpuTime, IInv, ClockTypes

LEMMA DeviceInterruptKeeps == IInv /\ DeviceInterrupt => IInv'
  <1> SUFFICES ASSUME IInv, DeviceInterrupt PROVE IInv'
    OBVIOUS
  <1> USE DEF IInv
  <1>1. PICK w \in {where} \cup {[where EXCEPT ![p] = "ready"] : p \in Those("device")} :
          IF Idle
            THEN GetNewJob(w, LeftNow, intTimerFlag)
            ELSE /\ where' = w
                 /\ timeLeft' = LeftNow
                 /\ elapsed' = 0
                 /\ UNCHANGED <<timer, intTimerFlag>>
    BY DEF DeviceInterrupt
  <1>2. uncharged' = Charged
    BY DEF DeviceInterrupt
  <1>3. w = [q \in Proc |-> w[q]]
    BY DEF ClockTypes
  <1>4. \A q \in Proc : w[q] = "running" => where[q] = "running"
    BY DEF ClockTypes
  <1>5. LeftNow \in Int
    BY DEF LeftNow, ClockTypes
  <1>6. CASE Idle
    <2>1. \A q \in Proc : w[q] # "running"
      BY <1>4, <1>6 DEF Idle, Those
    <2> QED
      BY <1>1, <1>2, <1>3, <1>5, <1>6, <2>1, AllCharged, NewJobKeeps
  <1>7. CASE ~Idle
    BY <1>1, <1>2, <1>3, <1>4, <1>7, SettledKeeps DEF LeftNow
  <1> QED
    BY <1>6, <1>7

LEMMA TickKeeps == IInv /\ Tick => IInv'
  <1> SUFFICES ASSUME IInv, Tick PROVE IInv'
    OBVIOUS
  <1> USE DEF IInv
  <1> DEFINE w == [p \in Proc |-> IF where[p] = "clock" THEN "ready" ELSE where[p]]
  <1>1. \A q \in Proc : w[q] = "running" => where[q] = "running"
    OBVIOUS
  <1>2. uncharged' = [p \in Proc |-> 0]
    BY AllCharged DEF Tick
  <1>3. \/ Idle /\ GetNewJob(w, INTERVALTIME, FALSE)
        \/ ~Idle /\ where' = w /\ timeLeft' = INTERVALTIME /\ timer' = QUANTUM /\ elapsed' = 0
    BY Zenon DEF Tick
  <1>4. w = [q \in Proc |-> w[q]]
    OBVIOUS
  <1> HIDE DEF w
  <1>5. CASE Idle
    <2>1. \A q \in Proc : w[q] # "running"
      BY <1>1, <1>5 DEF Idle, Those
    <2>2. INTERVALTIME \in Int
      BY ClockAssumption
    <2>3. GetNewJob(w, INTERVALTIME, FALSE)
      BY <1>3, <1>5, Zenon
    <2> QED
      BY <1>2, <1>4, <2>1, <2>2, <2>3, NewJobKeeps, Zenon
  <1>6. CASE ~Idle
    <2>1. where' = w /\ timeLeft' = INTERVALTIME /\ timer' = QUANTUM /\ elapsed' = 0
      BY <1>3, <1>6, Zenon
    <2>2. ClockTypes'
      BY <1>2, <1>4, <2>1, ClockAssumption DEF ClockTypes
    <2>3. OneRuns' /\ ChargedExactly'
      BY <1>1, <1>2, <2>1 DEF OneRuns, ChargedExactly
    <2>4. TimerInTime'
      BY <2>1, ClockAssumption DEF TimerInTime
    <2> QED
      BY <2>2, <2>3, <2>4
  <1> QED
    BY <1>5, <1>6

LEMMA QuantumEndKeeps == IInv /\ QuantumEnd => IInv'
  <1> SUFFICES ASSUME IInv, QuantumEnd PROVE IInv'
    OBVIOUS
  <1> USE DEF IInv
  <1> DEFINE w == [p \in Proc |-> IF where[p] = "running" THEN "ready" ELSE where[p]]
  <1>1. w = [q \in Proc |-> w[q]] /\ \A q \in Proc : w[q] # "running"
    OBVIOUS
  <1>2. uncharged' = [p \in Proc |-> 0] /\ LeftNow \in Int
    BY AllCharged DEF QuantumEnd, LeftNow, ClockTypes
  <1>3. GetNewJob(w, LeftNow, intTimerFlag)
    BY DEF QuantumEnd
  <1> QED
    BY <1>1, <1>2, <1>3, NewJobKeeps
--------------------------------------------------------------------------
(* getNewJob, when left is no less than what is left of the interval, and  *)
(* flag, if it is up, is so at the end of one.                             *)
LEMMA NewJobCounts ==
  ASSUME NEW w, \A p \in Proc : w[p] # "running",
         NEW left \in Int, NEW flag \in BOOLEAN, GetNewJob(w, left, flag), NEW what, Miss(what), sinceTick' \in Nat,
         "idle" \notin what =>
           /\ sinceTick' < INTERVALTIME => INTERVALTIME - sinceTick' <= left
           /\ flag => left <= QUANTUM,
         what = {} /\ sinceTick' <= INTERVALTIME => left = INTERVALTIME - sinceTick'
  PROVE  CountInv'
  <1>1. /\ what \subseteq missed'
        /\ Idle' => "idle" \in missed'
    BY DEF Miss
  <1>2. CASE \E p \in Proc : w[p] = "ready" /\ ProcessJob(p, w, left, flag)
    <2>1. PICK p \in Proc : ProcessJob(p, w, left, flag)
      BY <1>2
    <2> DEFINE l == Max({left, 0})
               m == Min({l, QUANTUM})
    <2>2. l \in Nat /\ l >= left /\ (left >= 0 => l = left) /\ (left < 0 => l = 0)
      <3>0. 0 \in Int
        OBVIOUS
      <3>1. (l = left \/ l = 0) /\ l \in Int /\ l >= left /\ l >= 0
        BY <3>0, MaxOfTwo, Zenon
      <3> HIDE DEF l
      <3> QED
        BY <3>1
    <2>3. timeLeft' = l /\ timer' = m /\ elapsed' = 0 /\ intTimerFlag' = (flag \/ l < QUANTUM)
      BY <2>1 DEF ProcessJob
    <2> HIDE DEF l
    <2>4. m \in Int /\ (l <= QUANTUM => m = l)
      <3>1. QUANTUM \in Int /\ l \in Int
        BY <2>2, ClockAssumption
      <3>2. (m = l \/ m = QUANTUM) /\ m \in Int /\ m <= l /\ m <= QUANTUM
        BY <3>1, MinOfTwo
      <3> HIDE DEF m
      <3> QED
        BY <3>1, <3>2
    <2> HIDE DEF m
    <2>5. ASSUME "idle" \notin missed'
          PROVE  /\ sinceTick' < INTERVALTIME => INTERVALTIME - sinceTick' <= timeLeft' - elapsed'
                 /\ intTimerFlag' => timeLeft' <= QUANTUM /\ timeLeft' - elapsed' <= timer'
      <3>1. /\ sinceTick' < INTERVALTIME => INTERVALTIME - sinceTick' <= left
            /\ flag => left <= QUANTUM
        BY <1>1, <2>5
      <3>2. INTERVALTIME \in Nat /\ QUANTUM \in Nat
        BY ClockAssumption
      <3>3. ASSUME sinceTick' < INTERVALTIME PROVE INTERVALTIME - sinceTick' <= l - 0
        <4> DEFINE t == sinceTick'
        <4>1. INTERVALTIME - t <= left /\ t \in Nat
          BY <3>1, <3>3
        <4> HIDE DEF t
        <4>2. INTERVALTIME - t <= l - 0
          BY <2>2, <3>2, <4>1
        <4> QED
          BY <4>2 DEF t
      <3>4. flag \/ l < QUANTUM => l <= QUANTUM /\ l - 0 <= m
        BY <2>2, <2>4, <3>1, <3>2
      <3> QED
        BY <2>3, <3>3, <3>4
    <2>6. CountsDown'
      <3> SUFFICES ASSUME missed' = {}, sinceTick' <= INTERVALTIME
                   PROVE  timeLeft' - elapsed' = INTERVALTIME - sinceTick'
        BY DEF CountsDown
      <3>1. left = INTERVALTIME - sinceTick' /\ INTERVALTIME \in Nat
        BY <1>1, ClockAssumption
      <3> DEFINE t == sinceTick'
      <3>2. left = INTERVALTIME - t /\ t \in Nat /\ t <= INTERVALTIME /\ INTERVALTIME \in Nat
        BY <3>1
      <3> HIDE DEF t
      <3>3. left >= 0
        BY <3>2
      <3>4. l = left
        BY <2>2, <3>3
      <3> QED
        BY <2>3, <3>1, <3>4
    <2> QED
      BY <1>1, <2>2, <2>3, <2>5, <2>6 DEF CountInv
  <1>3. CASE /\ \A p \in Proc : w[p] # "ready"
             /\ where' = w /\ timeLeft' = left /\ intTimerFlag' = TRUE /\ elapsed' = 0
    <2>1. Idle'
      BY <1>3 DEF Idle, Those
    <2> QED
      BY <1>1, <1>3, <2>1 DEF CountInv, CountsDown
  <1> QED
    BY <1>2, <1>3 DEF GetNewJob

LEMMA InitCounts == Init => CountInv
  <1> SUFFICES ASSUME Init PROVE CountInv
    OBVIOUS
  <1>1. PICK p \in Proc : where = [q \in Proc |-> IF q = p THEN "running" ELSE "free"]
    BY DEF Init
  <1>2. ~Idle
    BY <1>1 DEF Idle, Those
  <1>3. /\ timer = QUANTUM /\ timeLeft = INTERVALTIME /\ intTimerFlag = FALSE
        /\ elapsed = 0 /\ sinceTick = 0 /\ INTERVALTIME \in Nat
    BY ClockAssumption DEF Init
  <1>4. CountsDown
    BY <1>3 DEF CountsDown
  <1>5. INTERVALTIME - sinceTick <= timeLeft - elapsed
    BY <1>3
  <1> QED
    BY <1>2, <1>3, <1>4, <1>5 DEF CountInv

LEMMA PassTimeCounts == IInv /\ CountInv /\ PassTime => CountInv'
  <1> SUFFICES ASSUME IInv, CountInv, PassTime PROVE CountInv'
    OBVIOUS
  <1>1. /\ timer' = timer - 1 /\ UNCHANGED <<where, timeLeft, intTimerFlag, missed>>
        /\ elapsed' = IF Idle THEN 0 ELSE elapsed + 1
        /\ sinceTick' = Min({sinceTick + 1, MaxSince})
    BY DEF PassTime
  <1>2. /\ timer \in Int /\ timeLeft \in Int /\ elapsed \in Nat /\ sinceTick \in Nat
        /\ intTimerFlag \in BOOLEAN
    BY DEF IInv, ClockTypes, CountInv
  <1>3. /\ sinceTick' \in Nat
        /\ sinceTick' <= INTERVALTIME => sinceTick' = sinceTick + 1
    <2> DEFINE m == Min({sinceTick + 1, MaxSince})
    <2> DEFINE s == sinceTick + 1
    <2>0. s \in Int /\ MaxSince \in Int
      BY <1>2, ClockAssumption
    <2> HIDE DEF s
    <2>1. m = s \/ m = MaxSince
      <3>1. m = Min({s, MaxSince})
        BY DEF s
      <3> HIDE DEF m
      <3> QED
        BY <2>0, <3>1, MinOfTwo, Zenon
    <2> USE DEF s
    <2> HIDE DEF m
    <2> QED
      BY <1>1, <1>2, <2>1, ClockAssumption DEF m
  <1>4. (Idle <=> Idle') /\ (Idle => "idle" \in missed')
    BY <1>1 DEF CountInv, Idle, Those
  <1>5. ASSUME "idle" \notin missed
        PROVE  /\ elapsed' = elapsed + 1
               /\ sinceTick' < INTERVALTIME => INTERVALTIME - sinceTick' <= timeLeft' - elapsed'
               /\ intTimerFlag' => timeLeft' <= QUANTUM /\ timeLeft' - elapsed' <= timer'
    <2>1. elapsed' = elapsed + 1
      BY <1>1, <1>4, <1>5
    <2> QED
      BY <1>1, <1>2, <1>3, <1>5, <2>1, ClockAssumption DEF CountInv
  <1>6. CountsDown'
    <2> SUFFICES ASSUME missed = {}, sinceTick' <= INTERVALTIME
                 PROVE  timeLeft - elapsed' = INTERVALTIME - sinceTick'
      BY <1>1 DEF CountsDown
    <2> QED
      BY <1>2, <1>3, <1>5, ClockAssumption DEF CountInv, CountsDown
  <1> QED
    BY <1>1, <1>2, <1>3, <1>4, <1>5, <1>6 DEF CountInv

LEMMA BlockCounts ==
  ASSUME IInv, CountInv, NEW p \in Proc, NEW w \in {"clock", "device"}, Block(p, w)
  PROVE  CountInv'
  <1> DEFINE v == [where EXCEPT ![p] = w]
  <1>1. \A q \in Proc : v[q] # "running"
    BY DEF IInv, ClockTypes, OneRuns, Block
  <1>2. /\ timeLeft \in Int /\ elapsed \in Nat /\ sinceTick \in Nat /\ intTimerFlag \in BOOLEAN
        /\ timeLeft - elapsed \in Int
    BY DEF IInv, ClockTypes, CountInv
  <1>3. /\ GetNewJob(v, timeLeft - elapsed, intTimerFlag)
        /\ sinceTick' = sinceTick /\ Miss(missed)
    BY DEF Block
  <1>4. "idle" \notin missed =>
          /\ sinceTick < INTERVALTIME => INTERVALTIME - sinceTick <= timeLeft - elapsed
          /\ intTimerFlag => timeLeft - elapsed <= QUANTUM
    BY <1>2, ClockAssumption DEF CountInv
  <1>5. missed = {} /\ sinceTick <= INTERVALTIME => timeLeft - elapsed = INTERVALTIME - sinceTick
    BY DEF CountInv, CountsDown
  <1> HIDE DEF v
  <1> QED
    BY <1>1, <1>2, <1>3, <1>4, <1>5, NewJobCounts

LEMMA CreateProcessCounts ==
  ASSUME IInv, CountInv, NEW p \in Proc, CreateProcess(p)
  PROVE  CountInv'
  <1>1. /\ UNCHANGED <<timer, timeLeft, intTimerFlag, elapsed, sinceTick, missed>>
        /\ ~Idle /\ where[p] = "free" /\ where' = [where EXCEPT ![p] = "ready"]
    BY DEF CreateProcess
  <1>2. ~Idle'
    BY <1>1 DEF Idle, Those, IInv, ClockTypes
  <1> QED
    BY <1>1, <1>2 DEF CountInv, CountsDown

LEMMA TerminateProcessCounts ==
  ASSUME IInv, CountInv, NEW p \in Proc, TerminateProcess(p)
  PROVE  CountInv'
  <1> DEFINE v == [where EXCEPT ![p] = "free"]
  <1>1. \A q \in Proc : v[q] # "running"
    BY DEF IInv, ClockTypes, OneRuns, TerminateProcess
  <1>2. /\ timeLeft \in Int /\ elapsed \in Nat /\ sinceTick \in Nat /\ intTimerFlag \in BOOLEAN
    BY DEF IInv, ClockTypes, CountInv
  <1>3. /\ GetNewJob(v, timeLeft, intTimerFlag)
        /\ sinceTick' = sinceTick /\ Miss(missed \cup {"death"})
    BY DEF TerminateProcess
  <1>4. "idle" \notin missed \cup {"death"} =>
          /\ sinceTick < INTERVALTIME => INTERVALTIME - sinceTick <= timeLeft
          /\ intTimerFlag => timeLeft <= QUANTUM
    BY <1>2, ClockAssumption DEF CountInv
  <1>5. missed \cup {"death"} # {}
    OBVIOUS
  <1> HIDE DEF v
  <1> QED
    BY <1>1, <1>2, <1>3, <1>4, <1>5, NewJobCounts

(* What passed since startTOD goes from there into timeLeft.               *)
LEMMA SettledCounts ==
  ASSUME IInv, CountInv, ~Idle', timeLeft' = timeLeft - elapsed, elapsed' = 0,
         UNCHANGED <<timer, intTimerFlag, sinceTick>>, missed' = missed
  PROVE  CountInv'
  <1>1. /\ timer \in Int /\ timeLeft \in Int /\ elapsed \in Nat /\ sinceTick \in Nat
        /\ intTimerFlag \in BOOLEAN
    BY DEF IInv, ClockTypes, CountInv
  <1>2. CountsDown'
    BY <1>1 DEF CountInv, CountsDown
  <1>3. "idle" \notin missed =>
          /\ sinceTick < INTERVALTIME => INTERVALTIME - sinceTick <= timeLeft' - elapsed'
          /\ intTimerFlag => timeLeft' <= QUANTUM /\ timeLeft' - elapsed' <= timer
    BY <1>1, ClockAssumption DEF CountInv
  <1> QED
    BY <1>1, <1>2, <1>3 DEF CountInv

LEMMA GetCpuTimeCounts == IInv /\ CountInv /\ GetCpuTime => CountInv'
  <1> SUFFICES ASSUME IInv, CountInv, GetCpuTime PROVE CountInv'
    OBVIOUS
  <1>1. ~Idle'
    BY DEF GetCpuTime, Idle, Those
  <1> QED
    BY <1>1, SettledCounts DEF GetCpuTime

LEMMA DeviceInterruptCounts == IInv /\ CountInv /\ DeviceInterrupt => CountInv'
  <1> SUFFICES ASSUME IInv, CountInv, DeviceInterrupt PROVE CountInv'
    OBVIOUS
  <1>1. PICK w \in {where} \cup {[where EXCEPT ![p] = "ready"] : p \in Those("device")} :
          IF Idle
            THEN GetNewJob(w, LeftNow, intTimerFlag)
            ELSE /\ where' = w
                 /\ timeLeft' = LeftNow
                 /\ elapsed' = 0
                 /\ UNCHANGED <<timer, intTimerFlag>>
    BY DEF DeviceInterrupt
  <1>2. sinceTick' = sinceTick /\ Miss(missed)
    BY DEF DeviceInterrupt
  <1>3. \A q \in Proc : w[q] = "running" <=> where[q] = "running"
    BY DEF IInv, ClockTypes, Those
  <1>4. CASE Idle
    <2>1. \A q \in Proc : w[q] # "running"
      BY <1>3, <1>4 DEF Idle, Those
    <2>2. timeLeft \in Int /\ intTimerFlag \in BOOLEAN /\ sinceTick \in Nat /\ "idle" \in missed
      BY <1>4 DEF IInv, ClockTypes, CountInv
    <2>3. GetNewJob(w, timeLeft, intTimerFlag)
      BY <1>1, <1>4 DEF LeftNow
    <2> QED
      BY <1>2, <2>1, <2>2, <2>3, NewJobCounts
  <1>5. CASE ~Idle
    <2>1. ~Idle'
      BY <1>1, <1>3, <1>5 DEF Idle, Those
    <2>2. missed' = missed
      BY <1>2, <2>1 DEF Miss
    <2> QED
      BY <1>1, <1>2, <1>5, <2>1, <2>2, SettledCounts DEF LeftNow
  <1> QED
    BY <1>4, <1>5

LEMMA TickCounts == IInv /\ CountInv /\ Tick => CountInv'
  <1> SUFFICES ASSUME IInv, CountInv, Tick PROVE CountInv'
    OBVIOUS
  <1> DEFINE w == [p \in Proc |-> IF where[p] = "clock" THEN "ready" ELSE where[p]]
  <1>1. \A q \in Proc : w[q] = "running" <=> where[q] = "running"
    OBVIOUS
  <1>2. sinceTick' = 0 /\ Miss({})
    BY DEF Tick
  <1>3. \/ Idle /\ GetNewJob(w, INTERVALTIME, FALSE)
        \/ /\ ~Idle /\ where' = w /\ timeLeft' = INTERVALTIME /\ timer' = QUANTUM
           /\ elapsed' = 0 /\ intTimerFlag' = FALSE
    BY Zenon DEF Tick
  <1> HIDE DEF w
  <1>4. CASE Idle
    <2>1. \A q \in Proc : w[q] # "running"
      BY <1>1, <1>4 DEF Idle, Those
    <2>2. GetNewJob(w, INTERVALTIME, FALSE)
      BY <1>3, <1>4, Zenon
    <2>3. /\ INTERVALTIME \in Int /\ sinceTick' \in Nat
          /\ sinceTick' < INTERVALTIME => INTERVALTIME - sinceTick' <= INTERVALTIME
          /\ sinceTick' <= INTERVALTIME => INTERVALTIME = INTERVALTIME - sinceTick'
      BY <1>2, ClockAssumption
    <2> QED
      BY <1>2, <2>1, <2>2, <2>3, NewJobCounts
  <1>5. CASE ~Idle
    <2>1. /\ where' = w /\ timeLeft' = INTERVALTIME /\ timer' = QUANTUM
          /\ elapsed' = 0 /\ intTimerFlag' = FALSE
      BY <1>3, <1>5, Zenon
    <2>2. ~Idle'
      BY <1>1, <1>5, <2>1 DEF Idle, Those
    <2>3. INTERVALTIME \in Nat
      BY ClockAssumption
    <2>4. CountsDown'
      BY <1>2, <2>1, <2>3 DEF CountsDown
    <2>5. INTERVALTIME - sinceTick' <= timeLeft' - elapsed'
      BY <1>2, <2>1, <2>3
    <2> QED
      BY <1>2, <2>1, <2>2, <2>4, <2>5 DEF CountInv
  <1> QED
    BY <1>4, <1>5

LEMMA QuantumEndCounts == IInv /\ CountInv /\ QuantumEnd => CountInv'
  <1> SUFFICES ASSUME IInv, CountInv, QuantumEnd PROVE CountInv'
    OBVIOUS
  <1> DEFINE w == [p \in Proc |-> IF where[p] = "running" THEN "ready" ELSE where[p]]
  <1>1. \A q \in Proc : w[q] # "running"
    OBVIOUS
  <1>2. /\ timeLeft \in Int /\ elapsed \in Nat /\ sinceTick \in Nat /\ intTimerFlag \in BOOLEAN
        /\ LeftNow \in Int
    BY DEF IInv, ClockTypes, CountInv, LeftNow
  <1>3. GetNewJob(w, LeftNow, intTimerFlag) /\ sinceTick' = sinceTick /\ Miss(missed)
    BY DEF QuantumEnd
  <1>4. "idle" \notin missed =>
          /\ LeftNow = timeLeft - elapsed
          /\ sinceTick < INTERVALTIME => INTERVALTIME - sinceTick <= LeftNow
          /\ intTimerFlag => LeftNow <= QUANTUM
    BY <1>2, ClockAssumption DEF CountInv, LeftNow
  <1>5. missed = {} /\ sinceTick <= INTERVALTIME => LeftNow = INTERVALTIME - sinceTick
    BY <1>4 DEF CountInv, CountsDown
  <1> HIDE DEF w
  <1> QED
    BY <1>1, <1>2, <1>3, <1>4, <1>5, NewJobCounts
--------------------------------------------------------------------------
(* IInv is an invariant.                                                   *)
THEOREM ClockInvariance == Spec => []IInv
  <1>1. Init => IInv
    BY InitIInv
  <1>2. IInv /\ [Next]_vars => IInv'
    <2>1. IInv /\ UNCHANGED vars => IInv'
      BY DEF vars, IInv, ClockTypes, OneRuns, ChargedExactly, TimerInTime, Idle, Those
    <2> QED
      BY <2>1, PassTimeKeeps, BlockKeeps, CreateProcessKeeps, TerminateProcessKeeps,
         GetCpuTimeKeeps, DeviceInterruptKeeps, TickKeeps, QuantumEndKeeps
      DEF Next
  <1> QED
    BY <1>1, <1>2, PTL DEF Spec

(* Every process is charged for all the time it ran, and once: through     *)
(* SYSCALLs that block, SYSCALL 6, interrupts, quanta and ticks.           *)
THEOREM TimeIsCharged == Spec => []ChargedExactly
  <1>1. IInv => ChargedExactly
    BY DEF IInv
  <1> QED
    BY <1>1, ClockInvariance, PTL

(* processJob and the handlers never let a process outrun its quantum or   *)
(* the tick that timeLeft counts down to.                                  *)
THEOREM TimerIsInTime == Spec => []TimerInTime
  <1>1. IInv => TimerInTime
    BY DEF IInv
  <1> QED
    BY <1>1, ClockInvariance, PTL

(* With what is said of timeLeft and intTimerFlag it stays one.            *)
THEOREM CountInvariance == Spec => []CountInv
  <1>1. Init => CountInv
    BY InitCounts
  <1>2. IInv /\ CountInv /\ [Next]_vars => CountInv'
    <2>1. CountInv /\ UNCHANGED vars => CountInv'
      BY DEF vars, CountInv, CountsDown, Idle, Those
    <2> QED
      BY <2>1, PassTimeCounts, BlockCounts, CreateProcessCounts, TerminateProcessCounts,
         GetCpuTimeCounts, DeviceInterruptCounts, TickCounts, QuantumEndCounts
      DEF Next
  <1> QED
    BY <1>1, <1>2, ClockInvariance, PTL DEF Spec

(* While the machine neither idles nor loses the time of a dying process,  *)
(* timeLeft is what is left of the interval.                               *)
THEOREM TimeIsCountedDown == Spec => []CountsDown
  <1>1. CountInv => CountsDown
    BY DEF CountInv
  <1> QED
    BY <1>1, CountInvariance, PTL

(* Unless the machine has idled since the last tick, the timer interrupt is*)
(* not taken for a tick before the interval is over.                       *)
THEOREM TicksAreNotEarly == Spec => TickNotEarly
  <1>1. IInv /\ CountInv => (Tick /\ "idle" \notin missed => sinceTick >= INTERVALTIME)
    <2> SUFFICES ASSUME IInv, CountInv, Tick, "idle" \notin missed
                 PROVE  sinceTick >= INTERVALTIME
      OBVIOUS
    <2>1. /\ timer <= 0 /\ (intTimerFlag \/ LeftNow < 0)
          /\ LeftNow = timeLeft - elapsed
      BY DEF Tick, CountInv, LeftNow
    <2>2. timer \in Int /\ timeLeft \in Int /\ elapsed \in Nat /\ sinceTick \in Nat
      BY DEF IInv, ClockTypes, CountInv
    <2>3. timeLeft - elapsed <= 0
      BY <2>1, <2>2 DEF CountInv
    <2> QED
      BY <2>2, <2>3, ClockAssumption DEF CountInv
  <1> QED
    BY <1>1, ClockInvariance, CountInvariance, PTL DEF Spec, TickNotEarly
==========================================================================
