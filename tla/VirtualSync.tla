--------------------------- MODULE VirtualSync ---------------------------
(***************************************************************************)
(* Virtual semaphores and delays (SYSCALLs 11 to 13 of vmIOsupport.c, the  *)
(* delay daemon of initProc.c).  A process waits on a private semaphore    *)
(* Tp_sem.  Who wakes it is told by a node on the virtual semaphore list   *)
(* (Avsl.tla has its links) or on the delay list (Adl.tla).  The handlers  *)
(* run with interrupts enabled and hold no semaphore: each of their steps  *)
(* on shared memory is an action of its own.                               *)
(*                                                                         *)
(* The build does not optimise, so a count is loaded, stored and loaded    *)
(* again for the test.                                                     *)
(*                                                                         *)
(* Time passes from tick to tick of the pseudo-clock, and all times are    *)
(* relative to now.                                                        *)
(***************************************************************************)
EXTENDS Integers, FiniteSets, SequencesExt

CONSTANTS User,       \* the user processes; MAXUSERPROC of them
          Programs,   \* bound: which SYSCALLs the program of each may make
          Sem,        \* virtual semaphores
          VirtNodes,  \* nodes of the virtual semaphore list
          MaxDelay,   \* bound: no process asks to be delayed longer
          MaxVal,     \* bound: no V beyond this value, no P below -Cardinality(User)
          MaxLate,    \* bound: more overdue than this counts as this much
          NONE

ASSUME SyncAssumption ==
  /\ IsFiniteSet(User) /\ User # {} /\ Programs \subseteq [User -> SUBSET {"P", "V", "DELAY", "END"}]
  /\ NONE \notin User \cup Sem
  /\ VirtNodes \in Nat /\ MaxDelay \in Nat /\ MaxVal \in Nat \ {0} /\ MaxLate \in Nat

Delay      == 1..MaxDelay
DelayNodes == Cardinality(User) + 1

VARIABLES sem,       \* the values of the virtual semaphores
          Tp_sem,    \* the values of the private semaphores
          at, on,    \* where each process is, and in what semaphore's SYSCALL
          seen,      \* in a SYSCALL that counts: the value it has loaded
          to,        \* whom it is about to wake
          left,      \* in a DELAY: how long until its wake-up time
          avsl, adl, \* the two lists
          daemon,    \* the delay daemon
          deaf,      \* processes that wait though no node was left for them
          raced,     \* semaphores that two processes have counted on at once
          calls,     \* one of Programs
          started,   \* whether test() initialises the lists, and has a daemon
          served,    \* whether the handlers run in system mode
          stopped    \* where the program's behaviour becomes undefined

procs == <<at, on, seen, to, left>>
lists == <<avsl, adl>>
setup == <<calls, started, served>>
vars  == <<sem, Tp_sem, procs, lists, daemon, deaf, raced, setup, stopped>>

(* initADL, initAVSL and the creation of the daemon are commented out in   *)
(* test(), so the lists have no nodes, and initProc.c:218 gives the new    *)
(* areas a cpsr of 0, in which the nucleus serves no SYSCALLs 3 and 4: they *)
(* become a program trap, whose handler makes another, and the process     *)
(* goes no further.  Each is explored both ways.                           *)
Init ==
  /\ sem \in [Sem -> 0..1]
  /\ Tp_sem = [p \in User |-> 0]
  /\ at = [p \in User |-> "user"] /\ on = [p \in User |-> NONE]
  /\ seen = [p \in User |-> 0] /\ left = [p \in User |-> 0]
  /\ to = [p \in User |-> NONE]
  /\ avsl = <<>> /\ adl = <<>>
  /\ calls \in Programs /\ started \in BOOLEAN /\ served \in BOOLEAN
  /\ daemon = [at |-> IF started THEN "asleep" ELSE "none", to |-> NONE, since |-> 0]
  /\ deaf = {} /\ raced = {}
  /\ stopped = "no"

(* A list that is full stays as it is.                                     *)
Unless(full, list, x) == IF full THEN list ELSE Append(list, x)

VirtFull  == Len(avsl) = IF started THEN VirtNodes ELSE 0
DelayFull == Len(adl) = IF started THEN DelayNodes ELSE 0

At(p, where)    == stopped = "no" /\ at[p] = where
DaemonAt(where) == stopped = "no" /\ daemon.at = where

Go(p, where) == at' = [at EXCEPT ![p] = where]

(* The count of SYSCALLs 11 and 12 (V and P on a virtual semaphore): load. *)
Load(p, s, where) ==
  /\ At(p, "user")
  /\ seen' = [seen EXCEPT ![p] = sem[s]]
  /\ Go(p, where) /\ on' = [on EXCEPT ![p] = s]
  /\ UNCHANGED <<sem, Tp_sem, to, left, lists, daemon, deaf, raced, setup, stopped>>

(* Whether another process counts on the semaphore of p's SYSCALL.         *)
Counting == {"P store", "P test", "V store", "V test"}
Contended(p) == \E q \in User \ {p} : on[q] = on[p] /\ at[q] \in Counting

(* Store.                                                                  *)
Store(p, d, where) ==
  /\ sem' = [sem EXCEPT ![on[p]] = seen[p] + d]
  /\ seen' = [seen EXCEPT ![p] = 0]
  /\ raced' = IF Contended(p) THEN raced \cup {on[p]} ELSE raced
  /\ Go(p, where)
  /\ UNCHANGED <<Tp_sem, on, to, left, lists, daemon, deaf, setup, stopped>>

(* Test: wait, or wake, if so, and else return.                            *)
Test(p, needed, where) ==
  /\ IF needed
       THEN Go(p, where) /\ UNCHANGED on
       ELSE Go(p, "user") /\ on' = [on EXCEPT ![p] = NONE]
  /\ UNCHANGED <<sem, Tp_sem, seen, to, left, lists, daemon, deaf, raced, setup, stopped>>

PLoad(p, s) == "P" \in calls[p] /\ sem[s] > -Cardinality(User) /\ Load(p, s, "P store")
PStore(p)   == At(p, "P store") /\ Store(p, -1, "P test")
PTest(p)    == At(p, "P test") /\ Test(p, sem[on[p]] < 0, "vInsert")

VLoad(p, s) == "V" \in calls[p] /\ sem[s] < MaxVal /\ Load(p, s, "V store")
VStore(p)   == At(p, "V store") /\ Store(p, 1, "V test")

(* Slips: a V that brings the count to 0 wakes nobody; one to 1 somebody.  *)
VTestStrict(p) == At(p, "V test") /\ Test(p, sem[on[p]] < 0, "vRemove")
VTestPast(p)   == At(p, "V test") /\ Test(p, sem[on[p]] <= 1, "vRemove")
VTest(p)       == At(p, "V test") /\ Test(p, sem[on[p]] <= 0, "vRemove")

(* The vInsertBlocked of a P, whose result is ignored.                     *)
VInsert(p) ==
  /\ At(p, "vInsert")
  /\ avsl' = Unless(VirtFull, avsl, [sem |-> on[p], proc |-> p])
  /\ deaf' = IF VirtFull THEN deaf \cup {p} ELSE deaf
  /\ Go(p, "wait")
  /\ UNCHANGED <<sem, Tp_sem, on, seen, to, left, adl, daemon, raced, setup, stopped>>

(* The P on the private semaphore that ends SYSCALLs 12 and 13.            *)
PSem(p) ==
  /\ At(p, "wait") /\ served
  /\ Tp_sem' = [Tp_sem EXCEPT ![p] = @ - 1]
  /\ IF Tp_sem'[p] < 0
       THEN Go(p, "asleep") /\ UNCHANGED on
       ELSE Go(p, "user") /\ on' = [on EXCEPT ![p] = NONE]
  /\ UNCHANGED <<sem, seen, to, left, lists, daemon, deaf, raced, setup, stopped>>

Waiters(s) == {i \in DOMAIN avsl : avsl[i].sem = s}

(* Slip: the node stays in the list.                                       *)
VRemoveKeep(p) ==
  /\ At(p, "vRemove") /\ Waiters(on[p]) # {}
  /\ to' = [to EXCEPT ![p] = avsl[Min(Waiters(on[p]))].proc]
  /\ Go(p, "post")
  /\ UNCHANGED <<sem, Tp_sem, on, seen, left, lists, daemon, deaf, raced, setup, stopped>>

(* The vRemoveBlocked of a V finds somebody ...                            *)
VRemove(p) ==
  LET i == Min(Waiters(on[p])) IN
  /\ At(p, "vRemove") /\ Waiters(on[p]) # {}
  /\ i = 1 => Len(avsl) = 1
  /\ avsl' = RemoveAt(avsl, i)
  /\ to' = [to EXCEPT ![p] = avsl[i].proc]
  /\ Go(p, "post")
  /\ UNCHANGED <<sem, Tp_sem, on, seen, left, adl, daemon, deaf, raced, setup, stopped>>

(* ... or the head of several, which ruins the list (RemoveHead of Avsl),  *)
(* or nobody.  For nobody it returns FALSE, which is not FAILURE, and the  *)
(* V goes to the private semaphore of a process number 0.                  *)
VRemoveBad(p) ==
  /\ At(p, "vRemove")
  /\ \/ Waiters(on[p]) = {} /\ stopped' = "astray"
     \/ 1 \in Waiters(on[p]) /\ Len(avsl) > 1 /\ stopped' = "torn"
  /\ UNCHANGED <<sem, Tp_sem, procs, lists, daemon, deaf, raced, setup>>

(* SYSCALL 3 on the private semaphore of q.                                *)
Verhogen(q) == Tp_sem' = [Tp_sem EXCEPT ![q] = @ + 1]

Woken(q) == IF at[q] = "asleep" THEN {q} ELSE {}

Post(p) ==
  LET ready == Woken(to[p]) \cup {p} IN
  /\ At(p, "post") /\ served
  /\ Verhogen(to[p])
  /\ at' = [q \in User |-> IF q \in ready THEN "user" ELSE at[q]]
  /\ on' = [q \in User |-> IF q \in ready THEN NONE ELSE on[q]]
  /\ to' = [to EXCEPT ![p] = NONE]
  /\ UNCHANGED <<sem, seen, left, lists, daemon, deaf, raced, setup, stopped>>

(* SYSCALL 13, as far as vInsertBlocked ...                                *)
DelayCall(p) ==
  /\ At(p, "user") /\ "DELAY" \in calls[p]
  /\ Go(p, "list")
  /\ UNCHANGED <<sem, Tp_sem, on, seen, to, left, lists, daemon, deaf, raced, setup, stopped>>

(* ... which puts a node for Tp_sem on the list that nothing will remove;  *)
(* then the time is read ...                                               *)
DelayNode(p, d) ==
  /\ At(p, "list")
  /\ avsl' = Unless(VirtFull, avsl, [sem |-> NONE, proc |-> p])
  /\ left' = [left EXCEPT ![p] = d]
  /\ Go(p, "delay")
  /\ UNCHANGED <<sem, Tp_sem, on, seen, to, adl, daemon, deaf, raced, setup, stopped>>

(* The place of d: in front of the first that does not wake earlier, but   *)
(* never of the head.                                                      *)
Place(list, d) ==
  LET later == {i \in 2..Len(list) : list[i].wake >= d.wake}
  IN  InsertAt(list, IF later = {} THEN Len(list) + 1 ELSE Min(later), d)

(* ... and insertDelay, whose result is ignored, called.                   *)
InsertDelay(p) ==
  /\ At(p, "delay")
  /\ adl' = IF DelayFull THEN adl ELSE Place(adl, [wake |-> left[p], proc |-> p])
  /\ deaf' = IF DelayFull THEN deaf \cup {p} ELSE deaf
  /\ Go(p, "wait")
  /\ UNCHANGED <<sem, Tp_sem, on, seen, to, left, avsl, daemon, raced, setup, stopped>>

(* SYSCALL 18: virtualDeath touches neither list.                          *)
End(p) ==
  /\ At(p, "user") /\ "END" \in calls[p]
  /\ Go(p, "dead")
  /\ UNCHANGED <<sem, Tp_sem, on, seen, to, left, lists, daemon, deaf, raced, setup, stopped>>

(* The daemon, awake, reads the clock ...                                  *)
DaemonReads ==
  /\ DaemonAt("woken")
  /\ daemon' = [daemon EXCEPT !.at = "scan", !.since = 0]
  /\ UNCHANGED <<sem, Tp_sem, procs, lists, deaf, raced, setup, stopped>>

(* Slips: due within the next tick; due only at its very time.             *)
DueSoon  == adl # <<>> /\ Head(adl).wake <= 1 - daemon.since
DueSharp == adl # <<>> /\ Head(adl).wake = -daemon.since
Due      == adl # <<>> /\ Head(adl).wake <= -daemon.since

(* ... and takes from the list while its head is due at that time ...      *)
DaemonScans ==
  /\ DaemonAt("scan")
  /\ IF Due
       THEN /\ daemon' = [daemon EXCEPT !.at = "post", !.to = Head(adl).proc]
            /\ adl' = Tail(adl)
       ELSE /\ daemon' = [daemon EXCEPT !.at = "asleep", !.since = 0]
            /\ UNCHANGED adl
  /\ UNCHANGED <<sem, Tp_sem, procs, avsl, deaf, raced, setup, stopped>>

(* ... waking whom it has taken.                                           *)
DaemonPosts ==
  /\ DaemonAt("post")
  /\ Verhogen(daemon.to)
  /\ at' = [q \in User |-> IF q \in Woken(daemon.to) THEN "user" ELSE at[q]]
  /\ daemon' = [daemon EXCEPT !.at = "scan", !.to = NONE]
  /\ UNCHANGED <<sem, on, seen, to, left, lists, deaf, raced, setup, stopped>>

Delayed(p) == at[p] = "delay" \/ (at[p] \in {"wait", "asleep"} /\ on[p] = NONE)

Sooner(t) == IF t > -MaxLate THEN t - 1 ELSE t

(* A tick, which wakes the daemon if it waits for one (SYSCALL 7).         *)
Tick ==
  /\ stopped = "no"
  /\ daemon.since < MaxLate
  /\ left' = [p \in User |-> IF Delayed(p) /\ p \notin deaf THEN Sooner(left[p]) ELSE 0]
  /\ adl' = [i \in DOMAIN adl |-> [adl[i] EXCEPT !.wake = Sooner(@)]]
  /\ daemon' = CASE daemon.at = "asleep" -> [daemon EXCEPT !.at = "woken"]
                 [] daemon.at \in {"scan", "post"} -> [daemon EXCEPT !.since = @ + 1]
                 [] OTHER -> daemon
  /\ UNCHANGED <<sem, Tp_sem, at, on, seen, to, avsl, deaf, raced, setup, stopped>>

(* Two that are inside the same list at once, each interrupted by the      *)
(* other, may leave it in any state.                                       *)
Tear ==
  /\ stopped = "no" /\ started
  /\ \/ \E p, q \in User : p # q /\ {at[p], at[q]} \subseteq {"vInsert", "vRemove", "list"}
     \/ \E p, q \in User : p # q /\ {at[p], at[q]} \subseteq {"delay"}
     \/ \E p \in User : at[p] = "delay" /\ daemon.at = "scan" /\ Due
  /\ stopped' = "torn"
  /\ UNCHANGED <<sem, Tp_sem, procs, lists, daemon, deaf, raced, setup>>

(* What the kernel does for a process, its SYSCALL once called.            *)
Kernel(p) ==
  \/ PStore(p) \/ PTest(p) \/ VInsert(p) \/ PSem(p)
  \/ VStore(p) \/ VTest(p) \/ VRemove(p) \/ VRemoveBad(p) \/ Post(p)
  \/ \E d \in Delay : DelayNode(p, d)
  \/ InsertDelay(p)

Daemon == DaemonReads \/ DaemonScans \/ DaemonPosts

(* The program is no longer defined.                                       *)
Rest == stopped # "no" /\ UNCHANGED vars

Next ==
  \/ \E p \in User : Kernel(p) \/ DelayCall(p) \/ End(p)
  \/ \E p \in User, s \in Sem : PLoad(p, s) \/ VLoad(p, s)
  \/ Daemon \/ Tick \/ Tear \/ Rest

(* The scheduler serves all ready processes in turn, the daemon too, and   *)
(* the pseudo-clock ticks.                                                 *)
Fairness ==
  /\ \A p \in User : WF_vars(Kernel(p))
  /\ WF_vars(Daemon) /\ WF_vars(Tick)

Spec == Init /\ [][Next]_vars /\ Fairness

---------------------------------------------------------------------------
TypeOK ==
  /\ sem \in [Sem -> -Cardinality(User)..MaxVal] /\ seen \in [User -> -Cardinality(User)..MaxVal]
  /\ Tp_sem \in [User -> -1..1]
  /\ at \in [User -> Counting \cup {"user", "vInsert", "vRemove", "wait", "asleep",
                                    "post", "list", "delay", "dead"}]
  /\ on \in [User -> Sem \cup {NONE}] /\ to \in [User -> User \cup {NONE}]
  /\ left \in [User -> -MaxLate..MaxDelay]
  /\ avsl \in Seq([sem : Sem \cup {NONE}, proc : User]) /\ Len(avsl) <= VirtNodes
  /\ adl \in Seq([wake : -MaxLate..MaxDelay, proc : User]) /\ Len(adl) <= DelayNodes
  /\ daemon \in [at : {"none", "asleep", "woken", "scan", "post"},
                 to : User \cup {NONE}, since : 0..MaxLate]
  /\ deaf \subseteq User /\ raced \subseteq Sem
  /\ stopped \in {"no", "astray", "torn"}

Nodes(p)   == Cardinality({i \in DOMAIN avsl : avsl[i].proc = p /\ avsl[i].sem # NONE})
Entries(p) == Cardinality({i \in DOMAIN adl : adl[i].proc = p})
Posters(p) == Cardinality({q \in User : to[q] = p}) + IF daemon.to = p THEN 1 ELSE 0

(* Who waits, for a V or for a time, will be woken exactly once: by a node *)
(* of one list, by somebody on the way to its private semaphore or by a    *)
(* count already there; who does not wait has no wake-up pending that      *)
(* would end a later wait at once.  Only a process for which no node was   *)
(* left has none, which the delay list, with a node for each process and   *)
(* one more, has not (vmIOsupport.c, SYSCALLs 11 to 13, delayDaemon).      *)
OneWakeUp == stopped = "no" =>
  \A p \in User :
    /\ Nodes(p) + Entries(p) + Posters(p) + (IF Tp_sem[p] > 0 THEN 1 ELSE 0) =
         IF at[p] \in {"wait", "asleep"} /\ p \notin deaf THEN 1 ELSE 0
    /\ Tp_sem[p] < 0 <=> at[p] = "asleep"
    /\ started /\ p \in deaf => ~Delayed(p)

On(s, where) == Cardinality({p \in User : on[p] = s /\ at[p] \in where})
Deaf(s)      == Cardinality({p \in deaf : on[p] = s})

(* While no process is between counting and its test, a virtual semaphore  *)
(* on which no two have counted at once says how many wait for it, on the  *)
(* list or on the way there, less those whom a V on its way will wake      *)
(* (vmIOsupport.c, SYSCALLs 11 and 12).                                    *)
ValueCounts == stopped = "no" =>
  \A s \in Sem \ raced : On(s, {"P test", "V test"}) = 0 =>
    On(s, {"vInsert"}) + Cardinality(Waiters(s)) + Deaf(s) - On(s, {"vRemove"}) =
      IF sem[s] < 0 THEN -sem[s] ELSE 0

(* A V finds nobody to wake, and goes astray, only on a semaphore where a  *)
(* P has counted and not yet reached the list, or found it full, or where  *)
(* two processes counted at once (vmIOsupport.c:232-239).                  *)
AstrayOnlyOverGap ==
  [][stopped = "no" /\ stopped' = "astray" =>
       \E p \in User : /\ at[p] = "vRemove" /\ Waiters(on[p]) = {}
                       /\ \/ On(on[p], {"P test", "vInsert"}) + Deaf(on[p]) > 0
                          \/ on[p] \in raced]_vars

(* Nobody returns from a DELAY before its time has passed, whoever else is *)
(* delayed or woken meanwhile (SYSCALL 13 and delayDaemon).                *)
NeverEarly == [][\A p \in User : Delayed(p) /\ at'[p] = "user" => left[p] <= 0]_vars

(* With the lists initialised, the daemon running and the handlers served, *)
(* every DELAY ends, also one that insertDelay has put behind a later head.*)
DelayEnds == \A p \in User :
  started /\ served /\ at[p] = "delay" ~> at[p] = "user" \/ stopped # "no"
==========================================================================
