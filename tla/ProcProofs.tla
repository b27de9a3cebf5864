----------------------------- MODULE ProcProofs -----------------------------
(***************************************************************************)
(* Proofs about Sched and Proc, for any number of CPUs and slots.  Sched:  *)
(* one CPU to a kernel stack, contexts saved.  Proc implements Sched, so   *)
(* that what is proved of the scheduler holds of it; its types, pids and   *)
(* slots are right; no exit is lost on a sleeping parent; and, of the      *)
(* processes as a tree, a zombie stays dead, a kill hits a process, and    *)
(* every process but init has a live parent older than itself.             *)
(***************************************************************************)
EXTENDS Proc, TLAPS

-----------------------------------------------------------------------------
(* The scheduler.                                                          *)

(* A CPU's current process and the slot it scans. *)
Current ==
  \A c \in CPU : /\ on[c] # NoSlot => on[c] = cproc[c]
                 /\ cproc[c] # NoSlot => scan[c] = cproc[c]

(* A slot is at most one CPU's current process ... *)
Exclusive ==
  \A c, d \in CPU : c # d /\ cproc[c] # NoSlot => cproc[c] # cproc[d]

(* ... for which it is RUNNING or holds its lock for a hand-over, and the
   lock is held by nobody else. *)
HandOver ==
  /\ \A c \in CPU : cproc[c] # NoSlot =>
        \/ plock[cproc[c]] = c
        \/ on[c] # NoSlot /\ plock[cproc[c]] = None /\ state[cproc[c]] = "RUNNING"
  /\ \A c \in CPU : SwitchedBack(c) => state[cproc[c]] # "RUNNING"
  /\ \A s \in Slot : plock[s] # None => cproc[plock[s]] = s

SchedInv == SchedTypeOK /\ Current /\ Exclusive /\ HandOver /\ RunningIsCurrent

-----------------------------------------------------------------------------
(* The state that userinit() leaves satisfies the invariant. *)
LEMMA InitInv == SchedInit => SchedInv
  BY NPROCAssumption, NoneAssumption
     DEF SchedInit, SchedInv, SchedTypeOK, Current, Exclusive, HandOver, SwitchedBack,
         RunningIsCurrent, Slot, NoSlot, InitProc, procstate

(* The loop of scheduler() and the hand-overs preserve it. *)
LEMMA SchedulerInv ==
  ASSUME SchedInv, NEW c \in CPU,
         SchedulerStep(c) \/ Wfi(c) \/ Swtch(c) \/ Resume(c)
  PROVE  SchedInv'
<1> USE NPROCAssumption, NoneAssumption
    DEF SchedInv, SchedTypeOK, Slot, NoSlot, procstate
<1>1. CASE SchedSkip(c)
  BY <1>1 DEF SchedSkip, InScheduler, Current, Exclusive, HandOver, SwitchedBack, RunningIsCurrent
<1>2. CASE SchedRun(c)
  BY <1>2 DEF SchedRun, InScheduler, Current, Exclusive, HandOver, SwitchedBack, RunningIsCurrent
<1>3. CASE SchedBack(c)
  BY <1>3 DEF SchedBack, Current, Exclusive, HandOver, SwitchedBack, RunningIsCurrent
<1>4. CASE SchedAgain(c) \/ Wfi(c)
  <2>1. cproc[c] = NoSlot /\ NewScan(c)
    BY <1>4 DEF SchedAgain, Wfi, ScanOver, InScheduler
  <2>2. SchedTypeOK' /\ Current'
    BY <2>1 DEF NewScan, Current
  <2>3. Exclusive' /\ HandOver' /\ RunningIsCurrent'
    BY <2>1 DEF NewScan, Exclusive, HandOver, SwitchedBack, RunningIsCurrent
  <2> QED BY <2>2, <2>3
<1>5. CASE Swtch(c)
  BY <1>5 DEF Swtch, Current, Exclusive, HandOver, SwitchedBack, RunningIsCurrent
<1>6. CASE Resume(c)
  BY <1>6 DEF Resume, Current, Exclusive, HandOver, SwitchedBack, RunningIsCurrent
<1> QED BY <1>1, <1>2, <1>3, <1>4, <1>5, <1>6 DEF SchedulerStep

(* A process on its CPU is RUNNING and nobody holds its lock. *)
LEMMA RunsRunning ==
  ASSUME SchedInv, NEW c \in CPU, NEW s \in Slot, Runs(c, s)
  PROVE  cproc[c] = s /\ state[s] = "RUNNING" /\ plock[s] = None
  BY NPROCAssumption, NoneAssumption
     DEF SchedInv, SchedTypeOK, Current, HandOver, Runs, Slot, NoSlot

(* yield(), sleep() and the end of exit() preserve it. *)
LEMMA EnterSchedInv ==
  ASSUME SchedInv, NEW c \in CPU, NEW s \in Slot, NEW st \in procstate \ {"RUNNING"},
         EnterSched(c, s, st), chan' \in [Slot -> Chan \cup {None}]
  PROVE  SchedInv'
<1>1. cproc[c] = s /\ state[s] = "RUNNING" /\ plock[s] = None /\ on[c] = s
  BY RunsRunning DEF EnterSched, Runs
<1>2. SchedTypeOK' /\ Current' /\ Exclusive'
  BY <1>1, NPROCAssumption DEF EnterSched, cpuVars, SchedInv, SchedTypeOK, Current, Exclusive, Slot, NoSlot
<1>3. HandOver'
  BY <1>1, NPROCAssumption, NoneAssumption
     DEF EnterSched, cpuVars, SchedInv, SchedTypeOK, Exclusive, HandOver, SwitchedBack, Slot, NoSlot
<1>4. RunningIsCurrent'
  BY <1>1 DEF EnterSched, cpuVars, SchedInv, SchedTypeOK, RunningIsCurrent
<1> QED BY <1>2, <1>3, <1>4 DEF SchedInv

(* So does a change of the state of a slot that is not RUNNING and whose lock
   is free, to another such state. *)
LEMMA SetStateInv ==
  ASSUME SchedInv, NEW t \in Slot, NEW st \in procstate \ {"RUNNING"},
         state[t] # "RUNNING", SetState(t, st), chan' \in [Slot -> Chan \cup {None}]
  PROVE  SchedInv'
<1>1. ASSUME NEW c \in CPU, cproc[c] = t PROVE FALSE
  <2>1. plock[t] = None /\ plock[t] # c /\ t # NoSlot
    BY NPROCAssumption, NoneAssumption DEF SetState, Slot, NoSlot
  <2> QED BY <1>1, <2>1 DEF SchedInv, HandOver
<1>2. SchedTypeOK' /\ Current' /\ Exclusive'
  BY DEF SetState, cpuVars, SchedInv, SchedTypeOK, Current, Exclusive
<1>3. HandOver'
  BY <1>1 DEF SetState, cpuVars, SchedInv, SchedTypeOK, HandOver, SwitchedBack
<1>4. RunningIsCurrent'
  BY <1>1 DEF SetState, cpuVars, SchedInv, SchedTypeOK, RunningIsCurrent
<1> QED BY <1>2, <1>3, <1>4 DEF SchedInv

LEMMA ProcessInv ==
  ASSUME SchedInv, NEW c \in CPU, NEW s \in Slot, ProcessStep(c, s)
  PROVE  SchedInv'
<1> USE DEF SchedInv, SchedTypeOK, procstate
<1>1. CASE Yield(c, s) \/ Die(c, s)
  BY <1>1, EnterSchedInv DEF Yield, Die
<1>2. ASSUME NEW ch \in Chan, Sleep(c, s, ch) PROVE SchedInv'
  <2>1. chan' \in [Slot -> Chan \cup {None}]
    BY <1>2 DEF Sleep
  <2> QED BY <1>2, <2>1, EnterSchedInv DEF Sleep
<1>3. ASSUME NEW t \in Slot, Alloc(t) \/ Ready(t) \/ Free(t) \/ Wake(t) PROVE SchedInv'
  <2>1. state[t] # "RUNNING" /\ chan' \in [Slot -> Chan \cup {None}]
    BY <1>3 DEF Alloc, Ready, Free, Wake
  <2> QED BY <1>3, <2>1, SetStateInv DEF Alloc, Ready, Free, Wake
<1> QED BY <1>1, <1>2, <1>3 DEF ProcessStep

LEMMA NextInv == SchedInv /\ [SchedNext]_schedVars => SchedInv'
<1> SUFFICES ASSUME SchedInv, [SchedNext]_schedVars PROVE SchedInv'
  OBVIOUS
<1>1. CASE SchedNext
  BY <1>1, SchedulerInv, ProcessInv DEF SchedNext
<1>2. CASE UNCHANGED schedVars
  BY <1>2 DEF schedVars, SchedInv, SchedTypeOK, Current, Exclusive, HandOver, SwitchedBack, RunningIsCurrent
<1> QED BY <1>1, <1>2

(* The invariant holds in every behaviour of the scheduler. *)
THEOREM SchedInvariant == SchedSpec => []SchedInv
  BY InitInv, NextInv, PTL DEF SchedSpec

(* No two CPUs ever execute on one kernel stack. *)
THEOREM SchedOneStack == SchedSpec => []OneStack
<1>1. SchedInv => OneStack
  BY DEF SchedInv, Current, Exclusive, OneStack
<1> QED BY <1>1, SchedInvariant, PTL

(* A slot that is not RUNNING and whose lock is free is on no CPU: its context
   is saved, and it may be run, freed or reused. *)
THEOREM SchedContextSaved == SchedSpec => []ContextSaved
<1>1. SchedInv => ContextSaved
  BY NPROCAssumption, NoneAssumption DEF SchedInv, SchedTypeOK, HandOver, ContextSaved, Slot, NoSlot
<1> QED BY <1>1, SchedInvariant, PTL

(* A RUNNING process is some CPU's current process. *)
THEOREM SchedRunningIsCurrent == SchedSpec => []RunningIsCurrent
<1>1. SchedInv => RunningIsCurrent
  BY DEF SchedInv
<1> QED BY <1>1, SchedInvariant, PTL

-----------------------------------------------------------------------------
(* The processes.                                                          *)

ForkLabels == {"setparent", "runnable"}
ExitLabels == {"reparent", "wakeinit", "wakeparent", "zombie"}

(* Between allocproc() and RUNNABLE the new slot is USED and belongs to the
   one fork that allocated it, whose process can still run. *)
ForkOwns ==
  /\ \A s \in Slot : pc[s] \in ForkLabels =>
        /\ arg[s] \in Slot
        /\ state[arg[s]] = "USED"
        /\ state[s] \in {"RUNNING", "RUNNABLE"}
  /\ \A s, t \in Slot : s # t /\ pc[s] \in ForkLabels /\ pc[t] \in ForkLabels => arg[s] # arg[t]

InitStays == pc[InitProc] \notin ExitLabels

(* getppid dereferences a pointer into the table; reparent() wakes init for a
   slot of the table. *)
LocalsInTable ==
  \A s \in Slot : /\ pc[s] = "getppid2" => arg[s] \in Slot
                  /\ pc[s] = "wakeinit" => idx[s] \in Slot

ProcInv == TypeOK /\ SchedInv /\ ForkOwns /\ InitStays /\ LocalsInTable

-----------------------------------------------------------------------------
LEMMA ProcInitInv == Init => ProcInv
<1> SUFFICES ASSUME Init PROVE ProcInv
  OBVIOUS
<1>1. SchedInv
  BY InitInv DEF Init
<1>2. TypeOK
  BY <1>1, NPROCAssumption DEF SchedInv, Init, TypeOK, ProcTypeOK, Slot, NoSlot, InitProc, Labels, Index
<1>3. ForkOwns /\ InitStays /\ LocalsInTable
  BY NPROCAssumption DEF Init, ForkOwns, InitStays, LocalsInTable, ForkLabels, ExitLabels, Slot, InitProc
<1> QED BY <1>1, <1>2, <1>3 DEF ProcInv

(* The process that takes a step is RUNNING, its own lock free. *)
LEMMA AtRunning ==
  ASSUME ProcInv, NEW c \in CPU, NEW s \in Slot, Runs(c, s)
  PROVE  cproc[c] = s /\ state[s] = "RUNNING" /\ plock[s] = None
  BY RunsRunning DEF ProcInv

-----------------------------------------------------------------------------
(* Every step of Proc is a step of Sched or leaves its variables alone. *)

LEMMA TrapSched ==
  ASSUME ProcInv, NEW c \in CPU, NEW s \in Slot,
         Ecall(c, s) \/ TrapKilled(c, s) \/ Fault(c, s) \/ ReturnToUser(c, s)
  PROVE  UNCHANGED schedVars
  BY DEF Ecall, TrapKilled, Fault, ReturnToUser

LEMMA ForkSched ==
  ASSUME ProcInv, NEW c \in CPU, NEW s \in Slot, Fork(c, s)
  PROVE  UNCHANGED schedVars \/ ProcessStep(c, s)
<1>1. CASE ForkAlloc(c, s)
  <2>1. Runs(c, s) /\ state[s] = "RUNNING" /\ idx[s] \in Slot
    BY <1>1, AtRunning DEF ForkAlloc, At
  <2>2. Alloc(idx[s]) /\ idx[s] # s
    BY <1>1, <2>1 DEF ForkAlloc, Alloc
  <2> QED BY <2>1, <2>2 DEF ProcessStep
<1>2. CASE ForkRunnable(c, s)
  <2>1. Runs(c, s) /\ state[s] = "RUNNING" /\ arg[s] \in Slot /\ state[arg[s]] = "USED"
    BY <1>2, AtRunning DEF ForkRunnable, At, ProcInv, ForkOwns, ForkLabels
  <2>2. Ready(arg[s]) /\ arg[s] # s
    BY <1>2, <2>1 DEF ForkRunnable, Ready
  <2> QED BY <2>1, <2>2 DEF ProcessStep
<1> QED
  BY <1>1, <1>2 DEF Fork, ForkSkip, ForkFull, ForkNoMem, ForkSetParent

LEMMA WakeupSched ==
  ASSUME ProcInv, NEW c \in CPU, NEW s \in Slot, NEW ch, Runs(c, s), WakeupSlot(s, ch)
  PROVE  UNCHANGED schedVars \/ ProcessStep(c, s)
<1>1. CASE widx[s] # s /\ state[widx[s]] = "SLEEPING" /\ chan[widx[s]] = ch
  <2>1. Wake(widx[s]) /\ widx[s] \in Slot \ {s}
    BY <1>1 DEF WakeupSlot, Wake
  <2> QED BY <2>1 DEF ProcessStep
<1> QED BY <1>1 DEF WakeupSlot

LEMMA ExitSched ==
  ASSUME ProcInv, NEW c \in CPU, NEW s \in Slot, Exit(c, s)
  PROVE  UNCHANGED schedVars \/ ProcessStep(c, s)
<1>1. CASE WakeInit(c, s) \/ WakeParent(c, s)
  BY <1>1, WakeupSched DEF WakeInit, WakeParent, At
<1>2. CASE ExitZombie(c, s)
  BY <1>2 DEF ExitZombie, At, ProcInv, InitStays, ExitLabels, ProcessStep
<1> QED
  BY <1>1, <1>2 DEF Exit, ExitLock, ReparentSkip, ReparentChild, ReparentDone,
                    WakeInitOver, WakeParentOver

LEMMA WaitSched ==
  ASSUME ProcInv, NEW c \in CPU, NEW s \in Slot, Wait(c, s)
  PROVE  UNCHANGED schedVars \/ ProcessStep(c, s)
<1>1. CASE WaitReap(c, s)
  <2>1. Runs(c, s) /\ state[s] = "RUNNING" /\ idx[s] \in Slot
    BY <1>1, AtRunning DEF WaitReap, At
  <2>2. Free(idx[s]) /\ idx[s] # s
    BY <1>1, <2>1 DEF WaitReap, Freeproc, Free
  <2> QED BY <2>1, <2>2 DEF ProcessStep
<1>2. CASE WaitSleep(c, s)
  BY <1>2, ChanAssumption DEF WaitSleep, ProcessStep
<1> QED
  BY <1>1, <1>2 DEF Wait, WaitLock, WaitSkip, WaitLive, WaitBadAddr, WaitFails, WaitMustSleep

LEMMA KillSched ==
  ASSUME ProcInv, NEW c \in CPU, NEW s \in Slot, Kill(c, s) \/ Getppid(c, s)
  PROVE  UNCHANGED schedVars \/ ProcessStep(c, s)
<1>1. CASE KillHit(c, s)
  <2>1. Runs(c, s) /\ state[s] = "RUNNING" /\ idx[s] \in Slot
    BY <1>1, AtRunning DEF KillHit, At
  <2>2. CASE state[idx[s]] = "SLEEPING"
    BY <1>1, <2>1, <2>2 DEF KillHit, ProcessStep
  <2> QED BY <1>1, <2>2 DEF KillHit
<1> QED
  BY <1>1 DEF Kill, KillSkip, KillMiss, Getppid, GetppidParent, GetppidPid

LEMMA StepSched ==
  ASSUME ProcInv, [Next]_vars
  PROVE  [SchedNext]_schedVars
<1>1. ASSUME NEW c \in CPU, CpuStep(c) \/ Wfi(c) PROVE SchedNext
  BY <1>1 DEF CpuStep, SchedNext
<1>2. ASSUME NEW c \in CPU, NEW s \in Slot,
             Ecall(c, s) \/ Fault(c, s) \/ KernelStep(c, s) \/ Preempt(c, s)
      PROVE  UNCHANGED schedVars \/ ProcessStep(c, s)
  <2>1. CASE Preempt(c, s)
    BY <2>1 DEF Preempt, ProcessStep
  <2> QED
    BY <1>2, <2>1, TrapSched, ForkSched, ExitSched, WaitSched, KillSched DEF KernelStep
<1>3. CASE UNCHANGED vars
  BY <1>3 DEF vars
<1> QED BY <1>1, <1>2, <1>3 DEF Next, SchedNext

-----------------------------------------------------------------------------
(* The types. *)

LEMMA SchedStepTypeOK ==
  ASSUME ProcInv, SchedInv', UNCHANGED procVars
  PROVE  TypeOK'
  BY DEF ProcInv, TypeOK, ProcTypeOK, SchedInv, procVars

LEMMA WakeupStep ==
  ASSUME NEW s, NEW ch, WakeupSlot(s, ch)
  PROVE  widx[s] \in Slot /\ widx' = [widx EXCEPT ![s] = @ + 1]
  BY DEF WakeupSlot

LEMMA ProcStepTypeOK ==
  ASSUME ProcTypeOK, LocalsInTable, NEW c \in CPU, NEW s \in Slot,
         Ecall(c, s) \/ Fault(c, s) \/ KernelStep(c, s)
  PROVE  ProcTypeOK'
<1>0. /\ 1 \in Index /\ 0 \in Nat /\ InitProc \in Slot
      /\ \A i \in Slot : i \in Nat /\ i + 1 \in Index
      /\ \A i \in Nat : i + 1 \in Nat
  BY NPROCAssumption DEF Slot, Index, InitProc
<1> USE <1>0 DEF ProcTypeOK, Labels, NoSlot, At, Go, Return, locals
<1>1. CASE Ecall(c, s)
  BY <1>1, CallAssumption DEF Ecall, MayCall
<1>2. CASE Fault(c, s)
  BY <1>2 DEF Fault
<1>3. CASE TrapKilled(c, s)
  BY <1>3 DEF TrapKilled
<1>4. CASE ReturnToUser(c, s)
  BY <1>4 DEF ReturnToUser
<1>5. CASE Fork(c, s)
  <2>1. CASE ForkSkip(c, s)
    BY <2>1 DEF ForkSkip
  <2>2. CASE ForkFull(c, s)
    BY <2>2 DEF ForkFull
  <2>3. CASE ForkAlloc(c, s)
    BY <2>3 DEF ForkAlloc
  <2>4. CASE ForkNoMem(c, s)
    BY <2>4 DEF ForkNoMem
  <2>5. CASE ForkSetParent(c, s)
    BY <2>5 DEF ForkSetParent
  <2>6. CASE ForkRunnable(c, s)
    BY <2>6 DEF ForkRunnable
  <2> QED BY <1>5, <2>1, <2>2, <2>3, <2>4, <2>5, <2>6 DEF Fork
<1>6. CASE Exit(c, s)
  <2>1. CASE ExitLock(c, s)
    BY <2>1 DEF ExitLock
  <2>2. CASE ReparentSkip(c, s)
    BY <2>2 DEF ReparentSkip
  <2>3. CASE ReparentChild(c, s)
    BY <2>3 DEF ReparentChild
  <2>4. CASE ReparentDone(c, s)
    BY <2>4 DEF ReparentDone
  <2>5. CASE WakeInit(c, s)
    BY <2>5, WakeupStep DEF WakeInit
  <2>6. CASE WakeInitOver(c, s)
    BY <2>6 DEF WakeInitOver, WakeupOver, LocalsInTable
  <2>7. CASE WakeParent(c, s)
    BY <2>7, WakeupStep DEF WakeParent
  <2>8. CASE WakeParentOver(c, s)
    BY <2>8 DEF WakeParentOver, WakeupOver
  <2>9. CASE ExitZombie(c, s)
    BY <2>9 DEF ExitZombie
  <2> QED BY <1>6, <2>1, <2>2, <2>3, <2>4, <2>5, <2>6, <2>7, <2>8, <2>9 DEF Exit
<1>7. CASE Wait(c, s)
  <2>1. CASE WaitLock(c, s)
    BY <2>1 DEF WaitLock
  <2>2. CASE WaitSkip(c, s)
    BY <2>2 DEF WaitSkip
  <2>3. CASE WaitLive(c, s)
    BY <2>3 DEF WaitLive
  <2>4. CASE WaitReap(c, s)
    BY <2>4 DEF WaitReap, Freeproc
  <2>5. CASE WaitBadAddr(c, s)
    BY <2>5 DEF WaitBadAddr
  <2>6. CASE WaitFails(c, s)
    BY <2>6 DEF WaitFails
  <2>7. CASE WaitMustSleep(c, s)
    BY <2>7 DEF WaitMustSleep
  <2>8. CASE WaitSleep(c, s)
    BY <2>8 DEF WaitSleep
  <2> QED BY <1>7, <2>1, <2>2, <2>3, <2>4, <2>5, <2>6, <2>7, <2>8 DEF Wait
<1>8. CASE Kill(c, s)
  <2>1. CASE KillSkip(c, s)
    BY <2>1 DEF KillSkip
  <2>2. CASE KillHit(c, s)
    BY <2>2 DEF KillHit
  <2>3. CASE KillMiss(c, s)
    BY <2>3 DEF KillMiss
  <2> QED BY <1>8, <2>1, <2>2, <2>3 DEF Kill
<1>9. CASE Getppid(c, s)
  <2>1. CASE GetppidParent(c, s)
    BY <2>1 DEF GetppidParent
  <2>2. CASE GetppidPid(c, s)
    BY <2>2 DEF GetppidPid, LocalsInTable
  <2> QED BY <1>9, <2>1, <2>2 DEF Getppid
<1> QED BY <1>1, <1>2, <1>3, <1>4, <1>5, <1>6, <1>7, <1>8, <1>9 DEF KernelStep

-----------------------------------------------------------------------------
(* The slot that a fork fills stays its own. *)

LEMMA ForkOwnsKept ==
  ASSUME ForkOwns,
         \A s \in Slot : state[s] = "USED" => state'[s] = "USED",
         \A s \in Slot : pc'[s] \in ForkLabels =>
            pc[s] \in ForkLabels /\ arg'[s] = arg[s] /\ state'[s] \in {"RUNNING", "RUNNABLE"}
  PROVE  ForkOwns'
  BY DEF ForkOwns

(* What a step of s may do to the states of the others ... *)
StateKept(s) ==
  \A t \in Slot : /\ state[t] = "USED" => state'[t] = "USED"
                  /\ t # s /\ state[t] \in {"RUNNING", "RUNNABLE"} =>
                       state'[t] \in {"RUNNING", "RUNNABLE"}

(* ... and to its own locals. *)
Tame(s) ==
  /\ \A t \in Slot \ {s} : pc'[t] = pc[t] /\ arg'[t] = arg[t] /\ idx'[t] = idx[t]
  /\ pc'[s] = "getppid2" => arg'[s] \in Slot
  /\ pc'[s] = "wakeinit" => idx'[s] \in Slot
  /\ s = InitProc => pc'[s] \notin ExitLabels

LEMMA TameLocals ==
  ASSUME InitStays, LocalsInTable, NEW s \in Slot, Tame(s), InitProc \in Slot
  PROVE  InitStays' /\ LocalsInTable'
  BY DEF InitStays, LocalsInTable, Tame

LEMMA TameForkOwns ==
  ASSUME ForkOwns, NEW s \in Slot, Tame(s), StateKept(s), pc'[s] \notin ForkLabels
  PROVE  ForkOwns'
  BY ForkOwnsKept DEF Tame, StateKept, ForkOwns

LEMMA SetStateKept ==
  ASSUME SchedTypeOK, NEW s \in Slot, NEW t \in Slot, NEW st, SetState(t, st),
         state[t] \in {"SLEEPING", "ZOMBIE", "UNUSED"}
  PROVE  StateKept(s)
  BY DEF SetState, SchedTypeOK, StateKept

LEMMA EnterSchedKept ==
  ASSUME SchedTypeOK, NEW c \in CPU, NEW s \in Slot, NEW st, EnterSched(c, s, st),
         state[s] = "RUNNING"
  PROVE  StateKept(s)
  BY DEF EnterSched, SchedTypeOK, StateKept

LEMMA WakeupKept ==
  ASSUME SchedTypeOK, NEW s \in Slot, NEW ch, WakeupSlot(s, ch)
  PROVE  StateKept(s)
<1>1. CASE UNCHANGED schedVars
  BY <1>1 DEF schedVars, StateKept
<1>2. CASE state[widx[s]] = "SLEEPING" /\ SetState(widx[s], "RUNNABLE")
  BY <1>2, SetStateKept DEF WakeupSlot
<1> QED BY <1>1, <1>2 DEF WakeupSlot

LEMMA SchedulerForkOwns ==
  ASSUME ProcInv, NEW c \in CPU, SchedulerStep(c) \/ Swtch(c) \/ Resume(c) \/ Wfi(c),
         UNCHANGED procVars
  PROVE  ForkOwns'
<1>1. \A s \in Slot : state[s] = "USED" => state'[s] = "USED"
  BY DEF SchedulerStep, SchedSkip, SchedRun, SchedBack, SchedAgain, NewScan, Swtch, Resume, Wfi,
         ProcInv, SchedInv, SchedTypeOK
<1>2. \A s \in Slot : state[s] \in {"RUNNING", "RUNNABLE"} => state'[s] \in {"RUNNING", "RUNNABLE"}
  BY DEF SchedulerStep, SchedSkip, SchedRun, SchedBack, SchedAgain, NewScan, Swtch, Resume, Wfi,
         ProcInv, SchedInv, SchedTypeOK
<1>3. ForkOwns
  BY DEF ProcInv
<1> QED BY <1>1, <1>2, <1>3, ForkOwnsKept DEF ForkOwns, procVars

(* No step but those of a fork under way touches what a fork relies on. *)
LEMMA TameStep ==
  ASSUME ProcInv, NEW c \in CPU, NEW s \in Slot,
         \/ Ecall(c, s) \/ Fault(c, s) \/ TrapKilled(c, s) \/ ReturnToUser(c, s)
         \/ ForkSkip(c, s) \/ ForkFull(c, s) \/ ForkNoMem(c, s)
         \/ Exit(c, s) \/ Wait(c, s) \/ Kill(c, s) \/ Getppid(c, s)
  PROVE  Tame(s) /\ StateKept(s) /\ pc'[s] \notin ForkLabels
<1>0. /\ state[s] = "RUNNING" /\ SchedTypeOK /\ ProcTypeOK
      /\ s = InitProc => pc[s] \notin ExitLabels
      /\ pc[s] = "wakeinit" => idx[s] \in Slot
      /\ UNCHANGED schedVars => StateKept(s)
  <2>1. Runs(c, s)
    BY DEF Ecall, Fault, TrapKilled, ReturnToUser, ForkSkip, ForkFull, ForkNoMem, Exit,
           ExitLock, ReparentSkip, ReparentChild, ReparentDone, WakeInit, WakeInitOver, WakeParent,
           WakeParentOver, ExitZombie, Wait, WaitLock, WaitSkip, WaitLive, WaitReap, WaitBadAddr,
           WaitFails, WaitMustSleep, WaitSleep, Kill, KillSkip, KillHit, KillMiss, Getppid,
           GetppidParent, GetppidPid, At
  <2> QED BY <2>1, AtRunning DEF ProcInv, TypeOK, InitStays, LocalsInTable, schedVars, StateKept
<1> USE <1>0 DEF ProcTypeOK, Tame, ForkLabels, ExitLabels, At, Go, Return, locals
<1>1. CASE Ecall(c, s)
  BY <1>1, CallAssumption DEF Ecall, MayCall
<1>2. CASE Fault(c, s)
  BY <1>2 DEF Fault
<1>3. CASE TrapKilled(c, s)
  BY <1>3 DEF TrapKilled
<1>4. CASE ReturnToUser(c, s)
  BY <1>4 DEF ReturnToUser
<1>5. CASE ForkSkip(c, s)
  BY <1>5 DEF ForkSkip
<1>6. CASE ForkFull(c, s)
  BY <1>6 DEF ForkFull
<1>7. CASE ForkNoMem(c, s)
  BY <1>7 DEF ForkNoMem
<1>8. CASE Exit(c, s)
  <2>1. CASE ExitLock(c, s)
    BY <2>1 DEF ExitLock
  <2>2. CASE ReparentSkip(c, s)
    BY <2>2 DEF ReparentSkip
  <2>3. CASE ReparentChild(c, s)
    BY <2>3 DEF ReparentChild
  <2>4. CASE ReparentDone(c, s)
    BY <2>4 DEF ReparentDone
  <2>5. CASE WakeInit(c, s)
    BY <2>5, WakeupKept, WakeupStep DEF WakeInit
  <2>6. CASE WakeInitOver(c, s)
    BY <2>6 DEF WakeInitOver
  <2>7. CASE WakeParent(c, s)
    BY <2>7, WakeupKept, WakeupStep DEF WakeParent
  <2>8. CASE WakeParentOver(c, s)
    BY <2>8 DEF WakeParentOver
  <2>9. CASE ExitZombie(c, s)
    BY <2>9, EnterSchedKept DEF ExitZombie, Die
  <2> QED BY <1>8, <2>1, <2>2, <2>3, <2>4, <2>5, <2>6, <2>7, <2>8, <2>9 DEF Exit
<1>9. CASE Wait(c, s)
  <2>1. CASE WaitLock(c, s)
    BY <2>1 DEF WaitLock
  <2>2. CASE WaitSkip(c, s)
    BY <2>2 DEF WaitSkip
  <2>3. CASE WaitLive(c, s)
    BY <2>3 DEF WaitLive
  <2>4. CASE WaitReap(c, s)
    BY <2>4, SetStateKept DEF WaitReap, Freeproc, Free
  <2>5. CASE WaitBadAddr(c, s)
    BY <2>5 DEF WaitBadAddr
  <2>6. CASE WaitFails(c, s)
    BY <2>6 DEF WaitFails
  <2>7. CASE WaitMustSleep(c, s)
    BY <2>7 DEF WaitMustSleep
  <2>8. CASE WaitSleep(c, s)
    BY <2>8, EnterSchedKept DEF WaitSleep, Sleep
  <2> QED BY <1>9, <2>1, <2>2, <2>3, <2>4, <2>5, <2>6, <2>7, <2>8 DEF Wait
<1>10. CASE Kill(c, s)
  <2>1. CASE KillSkip(c, s)
    BY <2>1 DEF KillSkip
  <2>2. CASE KillHit(c, s)
    <3>1. StateKept(s)
      <4>1. CASE Wake(idx[s])
        BY <2>2, <4>1, SetStateKept DEF KillHit, Wake
      <4> QED BY <2>2, <4>1 DEF KillHit
    <3> QED BY <2>2, <3>1 DEF KillHit
  <2>3. CASE KillMiss(c, s)
    BY <2>3 DEF KillMiss
  <2> QED BY <1>10, <2>1, <2>2, <2>3 DEF Kill
<1>11. CASE Getppid(c, s)
  <2>1. CASE GetppidParent(c, s)
    BY <2>1 DEF GetppidParent, NoSlot
  <2>2. CASE GetppidPid(c, s)
    BY <2>2 DEF GetppidPid
  <2> QED BY <1>11, <2>1, <2>2 DEF Getppid
<1> QED BY <1>1, <1>2, <1>3, <1>4, <1>5, <1>6, <1>7, <1>8, <1>9, <1>10, <1>11

LEMMA StepForkOwns ==
  ASSUME ProcInv, NEW c \in CPU, NEW s \in Slot,
         ForkAlloc(c, s) \/ ForkSetParent(c, s) \/ ForkRunnable(c, s) \/ Preempt(c, s)
  PROVE  ForkOwns'
<1>0. /\ state[s] = "RUNNING" /\ SchedTypeOK /\ ProcTypeOK /\ ForkOwns
  <2>1. Runs(c, s)
    BY DEF ForkAlloc, ForkSetParent, ForkRunnable, Preempt, Yield, EnterSched, At
  <2> QED BY <2>1, AtRunning DEF ProcInv, TypeOK
<1> USE <1>0 DEF SchedTypeOK, ProcTypeOK, ForkLabels, At, Go, Return
<1>1. CASE ForkAlloc(c, s)
  <2> DEFINE n == idx[s]
  <2>1. /\ n \in Slot /\ n # s /\ state[n] = "UNUSED"
        /\ state' = [state EXCEPT ![n] = "USED"]
        /\ pc' = [pc EXCEPT ![s] = "setparent", ![n] = "user"]
        /\ arg' = [arg EXCEPT ![s] = n]
    BY <1>1 DEF ForkAlloc, Alloc, SetState
  <2>2. \A t \in Slot : pc[t] \in ForkLabels => t # n /\ arg[t] # n
    BY <2>1 DEF ForkOwns
  <2>3. \A t \in Slot : pc'[t] \in ForkLabels =>
           \/ t = s /\ arg'[t] = n
           \/ t # s /\ pc[t] \in ForkLabels /\ arg'[t] = arg[t]
    BY <2>1
  <2> HIDE DEF n
  <2>4. n \in Slot /\ state'[n] = "USED" /\ state'[s] = "RUNNING"
    BY <2>1
  <2>5. \A t \in Slot : t # n => state'[t] = state[t]
    BY <2>1
  <2> QED BY <2>2, <2>3, <2>4, <2>5 DEF ForkOwns
<1>2. CASE ForkSetParent(c, s)
  <2>1. state' = state /\ arg' = arg /\ pc' = [pc EXCEPT ![s] = "runnable"] /\ pc[s] = "setparent"
    BY <1>2 DEF ForkSetParent, schedVars, locals
  <2> QED BY <2>1, ForkOwnsKept DEF ForkOwns
<1>3. CASE ForkRunnable(c, s)
  <2> DEFINE n == arg[s]
  <2>1. /\ n \in Slot /\ state[n] = "USED" /\ pc[s] = "runnable"
        /\ state' = [state EXCEPT ![n] = "RUNNABLE"]
        /\ pc' = [pc EXCEPT ![s] = "ret"]
        /\ arg' = [arg EXCEPT ![s] = 0]
    BY <1>3 DEF ForkRunnable, SetState, ForkOwns
  <2>2. \A t \in Slot : pc'[t] \in ForkLabels => t # s /\ pc[t] \in ForkLabels /\ arg'[t] = arg[t]
    BY <2>1
  <2>3. \A t \in Slot : t # s /\ pc[t] \in ForkLabels => t # n /\ arg[t] # n
    BY <2>1 DEF ForkOwns
  <2>4. \A t \in Slot : t # n => state'[t] = state[t]
    BY <2>1
  <2> QED BY <2>2, <2>3, <2>4 DEF ForkOwns
<1>4. CASE Preempt(c, s)
  <2>1. state' = [state EXCEPT ![s] = "RUNNABLE"] /\ pc' = pc /\ arg' = arg
    BY <1>4 DEF Preempt, Yield, EnterSched, procVars
  <2> QED BY <2>1, ForkOwnsKept DEF ForkOwns
<1> QED BY <1>1, <1>2, <1>3, <1>4

LEMMA StepLocals ==
  ASSUME ProcInv, NEW c \in CPU, NEW s \in Slot,
         ForkAlloc(c, s) \/ ForkSetParent(c, s) \/ ForkRunnable(c, s) \/ Preempt(c, s)
  PROVE  InitStays' /\ LocalsInTable'
<1> USE NPROCAssumption DEF ProcInv, TypeOK, ProcTypeOK, InitStays, LocalsInTable, ExitLabels,
                            At, Go, Return
<1>1. InitProc \in Slot
  BY DEF InitProc, Slot
<1>2. CASE ForkAlloc(c, s)
  BY <1>1, <1>2 DEF ForkAlloc
<1>3. CASE ForkSetParent(c, s)
  BY <1>1, <1>3 DEF ForkSetParent, locals
<1>4. CASE ForkRunnable(c, s)
  BY <1>1, <1>4 DEF ForkRunnable
<1>5. CASE Preempt(c, s)
  BY <1>1, <1>5 DEF Preempt, procVars
<1> QED BY <1>2, <1>3, <1>4, <1>5

-----------------------------------------------------------------------------
LEMMA ProcNextInv == ProcInv /\ [Next]_vars => ProcInv'
<1> SUFFICES ASSUME ProcInv, [Next]_vars PROVE ProcInv'
  OBVIOUS
<1>1. SchedInv'
  BY StepSched, NextInv DEF ProcInv
<1>2. CASE UNCHANGED vars
  <2>1. UNCHANGED schedVars /\ UNCHANGED procVars
    BY <1>2 DEF vars
  <2>2. TypeOK' /\ ForkOwns' /\ InitStays' /\ LocalsInTable'
    BY <2>1 DEF schedVars, procVars, ProcInv, TypeOK, SchedTypeOK, ProcTypeOK, ForkOwns,
                InitStays, LocalsInTable
  <2> QED BY <1>1, <2>2 DEF ProcInv
<1>3. ASSUME NEW c \in CPU, CpuStep(c) \/ (Wfi(c) /\ UNCHANGED procVars) PROVE ProcInv'
  <2>1. UNCHANGED procVars /\ (SchedulerStep(c) \/ Swtch(c) \/ Resume(c) \/ Wfi(c))
    BY <1>3 DEF CpuStep
  <2>2. ForkOwns'
    BY <2>1, SchedulerForkOwns
  <2>3. InitStays' /\ LocalsInTable'
    BY <2>1 DEF ProcInv, InitStays, LocalsInTable, procVars
  <2> QED BY <1>1, <2>1, <2>2, <2>3, SchedStepTypeOK DEF ProcInv
<1>4. ASSUME NEW c \in CPU, NEW s \in Slot,
             Ecall(c, s) \/ Fault(c, s) \/ KernelStep(c, s) \/ Preempt(c, s)
      PROVE  ProcInv'
  <2>1. TypeOK'
    <3>1. CASE Preempt(c, s)
      BY <1>1, <3>1, SchedStepTypeOK DEF Preempt
    <3> QED BY <1>1, <1>4, <3>1, ProcStepTypeOK DEF ProcInv, TypeOK, SchedInv
  <2>2. CASE ForkAlloc(c, s) \/ ForkSetParent(c, s) \/ ForkRunnable(c, s) \/ Preempt(c, s)
    BY <1>1, <2>1, <2>2, StepForkOwns, StepLocals DEF ProcInv
  <2>3. CASE ~(ForkAlloc(c, s) \/ ForkSetParent(c, s) \/ ForkRunnable(c, s) \/ Preempt(c, s))
    <3>1. Tame(s) /\ StateKept(s) /\ pc'[s] \notin ForkLabels
      BY <1>4, <2>3, TameStep DEF KernelStep, Fork
    <3>2. InitProc \in Slot
      BY NPROCAssumption DEF InitProc, Slot
    <3> QED BY <1>1, <2>1, <3>1, <3>2, TameLocals, TameForkOwns DEF ProcInv
  <2> QED BY <2>2, <2>3
<1> QED BY <1>2, <1>3, <1>4 DEF Next

(* The invariant, and the types with it, hold in every behaviour of Proc. *)
THEOREM ProcInvariant == Spec => []ProcInv
  BY ProcInitInv, ProcNextInv, PTL DEF Spec

THEOREM ProcTypes == Spec => []TypeOK
<1>1. ProcInv => TypeOK
  BY DEF ProcInv
<1> QED BY <1>1, ProcInvariant, PTL

(* The system calls keep to the scheduler's protocol: each of their steps is
   a step of Sched or leaves its variables alone, so everything proved of
   Sched holds of them. *)
THEOREM ProcImplementsSched == Spec => SchedSpec
<1>1. Init => SchedInit
  BY DEF Init
<1>2. ProcInv /\ [Next]_vars => [SchedNext]_schedVars
  BY StepSched
<1> QED BY <1>1, <1>2, ProcInvariant, PTL DEF Spec, SchedSpec

(* No two CPUs execute on one kernel stack while processes fork, exit, wait
   and are killed. *)
THEOREM ProcOneStack == Spec => []OneStack
  BY ProcImplementsSched, SchedOneStack, PTL

-----------------------------------------------------------------------------
(* Process ids. *)

PidInv == PidUnique /\ nextpid > 0 /\ \A s \in Slot : pid[s] < nextpid

SameSlots == \A t \in Slot : state'[t] = "UNUSED" <=> state[t] = "UNUSED"

LEMMA SetStateSame ==
  ASSUME SchedTypeOK, NEW t \in Slot, NEW st, SetState(t, st), st # "UNUSED", state[t] # "UNUSED"
  PROVE  SameSlots
  BY DEF SetState, SchedTypeOK, SameSlots

LEMMA EnterSchedSame ==
  ASSUME ProcInv, NEW c \in CPU, NEW s \in Slot, NEW st, EnterSched(c, s, st), st # "UNUSED"
  PROVE  SameSlots
  BY AtRunning DEF EnterSched, ProcInv, SchedInv, SchedTypeOK, SameSlots

LEMMA CpuStepSame ==
  ASSUME ProcInv, NEW c \in CPU, SchedulerStep(c) \/ Swtch(c) \/ Resume(c) \/ Wfi(c)
  PROVE  SameSlots
  BY DEF SchedulerStep, SchedSkip, SchedRun, SchedBack, SchedAgain, NewScan, Swtch, Resume, Wfi,
         SameSlots, ProcInv, SchedInv, SchedTypeOK

(* Only fork and the reaping wait change the pids or the use of a slot. *)
LEMMA PidSame ==
  ASSUME ProcInv, NEW c \in CPU, NEW s \in Slot,
         \/ Ecall(c, s) \/ Fault(c, s) \/ Preempt(c, s) \/ KernelStep(c, s),
         ~(ForkAlloc(c, s) \/ ForkNoMem(c, s) \/ WaitReap(c, s))
  PROVE  UNCHANGED <<pid, nextpid>> /\ SameSlots
<1>0. UNCHANGED schedVars => SameSlots
  BY DEF schedVars, SameSlots
<1>1. CASE Ecall(c, s) \/ Fault(c, s) \/ TrapKilled(c, s) \/ ReturnToUser(c, s)
  BY <1>0, <1>1 DEF Ecall, Fault, TrapKilled, ReturnToUser
<1>2. CASE Preempt(c, s)
  BY <1>2, EnterSchedSame DEF Preempt, Yield, procVars
<1>3. CASE Fork(c, s)
  <2>1. CASE ForkRunnable(c, s)
    <3>1. arg[s] \in Slot /\ state[arg[s]] = "USED"
      BY <2>1 DEF ForkRunnable, At, ProcInv, ForkOwns, ForkLabels
    <3> QED BY <2>1, <3>1, SetStateSame DEF ForkRunnable, ProcInv, TypeOK
  <2> QED BY <1>0, <1>3, <2>1 DEF Fork, ForkSkip, ForkFull, ForkSetParent
<1>4. CASE Exit(c, s)
  <2>1. CASE WakeInit(c, s) \/ WakeParent(c, s)
    BY <1>0, <2>1, SetStateSame DEF WakeInit, WakeParent, WakeupSlot, ProcInv, TypeOK
  <2>2. CASE ExitZombie(c, s)
    BY <2>2, EnterSchedSame DEF ExitZombie, Die
  <2> QED
    BY <1>0, <1>4, <2>1, <2>2 DEF Exit, ExitLock, ReparentSkip, ReparentChild,
       ReparentDone, WakeInitOver, WakeParentOver
<1>5. CASE Wait(c, s)
  <2>1. CASE WaitSleep(c, s)
    BY <2>1, EnterSchedSame DEF WaitSleep, Sleep
  <2> QED
    BY <1>0, <1>5, <2>1 DEF Wait, WaitLock, WaitSkip, WaitLive, WaitBadAddr, WaitFails, WaitMustSleep
<1>6. CASE Kill(c, s) \/ Getppid(c, s)
  <2>1. CASE KillHit(c, s)
    BY <1>0, <2>1, SetStateSame DEF KillHit, Wake, ProcInv, TypeOK
  <2> QED
    BY <1>0, <1>6, <2>1 DEF Kill, KillSkip, KillMiss, Getppid, GetppidParent, GetppidPid
<1> QED BY <1>1, <1>2, <1>3, <1>4, <1>5, <1>6 DEF KernelStep

LEMMA PidNextInv ==
  ASSUME ProcInv, ProcInv', PidInv, [Next]_vars
  PROVE  PidInv'
<1> USE DEF PidInv, PidUnique
<1>1. ASSUME UNCHANGED <<pid, nextpid>>, SameSlots PROVE PidInv'
  BY <1>1 DEF SameSlots
<1>2. CASE UNCHANGED vars
  BY <1>1, <1>2 DEF vars, schedVars, procVars, SameSlots
<1>3. ASSUME NEW c \in CPU, CpuStep(c) \/ (Wfi(c) /\ UNCHANGED procVars) PROVE PidInv'
  BY <1>1, <1>3, CpuStepSame DEF CpuStep, procVars
<1>4. ASSUME NEW c \in CPU, NEW s \in Slot, ForkAlloc(c, s) PROVE PidInv'
  <2> DEFINE n == idx[s]
  <2>1. /\ n \in Slot /\ state[n] = "UNUSED" /\ nextpid' = nextpid + 1 /\ nextpid \in Nat
        /\ pid \in [Slot -> Nat] /\ state \in [Slot -> procstate]
        /\ pid' = [pid EXCEPT ![n] = nextpid] /\ state' = [state EXCEPT ![n] = "USED"]
    BY <1>4 DEF ForkAlloc, Alloc, SetState, ProcInv, TypeOK, SchedTypeOK, ProcTypeOK
  <2> HIDE DEF n
  <2> QED BY <2>1
<1>5. ASSUME NEW c \in CPU, NEW s \in Slot, ForkNoMem(c, s) PROVE PidInv'
  BY <1>5 DEF ForkNoMem, schedVars, ProcInv, TypeOK, ProcTypeOK
<1>6. ASSUME NEW c \in CPU, NEW s \in Slot, WaitReap(c, s) PROVE PidInv'
  <2> DEFINE n == idx[s]
  <2>1. /\ n \in Slot /\ nextpid' = nextpid
        /\ pid \in [Slot -> Nat] /\ state \in [Slot -> procstate]
        /\ pid' = [pid EXCEPT ![n] = 0] /\ state' = [state EXCEPT ![n] = "UNUSED"]
    BY <1>6 DEF WaitReap, Freeproc, Free, SetState, ProcInv, TypeOK, SchedTypeOK, ProcTypeOK
  <2> HIDE DEF n
  <2> QED BY <2>1
<1> QED BY <1>1, <1>2, <1>3, <1>4, <1>5, <1>6, PidSame DEF Next

(* A pid names at most one process, and only slots in use have one. *)
THEOREM ProcPidUnique == Spec => []PidUnique
<1>1. Init => PidInv
  BY NPROCAssumption DEF Init, SchedInit, PidInv, PidUnique, Slot, InitProc
<1>2. PidInv => PidUnique
  BY DEF PidInv
<1> QED BY <1>1, <1>2, PidNextInv, ProcInvariant, PTL DEF Spec

-----------------------------------------------------------------------------
(* What kill() marks.  Its argument must be a real pid: with 0 it matches a
   free slot. *)

KillArg == \A s \in Slot : pc[s] = "kill" => arg[s] \in KillPids
KillInv == KillArg /\ FreeSlotNotKilled

(* A step of s leaves the other processes at their labels ... *)
LEMMA KillArgStep ==
  ASSUME KillArg, ProcInv, NEW c \in CPU, NEW s \in Slot,
         Ecall(c, s) \/ Fault(c, s) \/ KernelStep(c, s) \/ Preempt(c, s)
  PROVE  KillArg'
<1> USE DEF KillArg, ProcInv, TypeOK, ProcTypeOK, At, Go, Return, locals
<1>1. CASE Ecall(c, s)
  BY <1>1 DEF Ecall
<1>2. CASE Fault(c, s) \/ TrapKilled(c, s) \/ ReturnToUser(c, s)
  BY <1>2 DEF Fault, TrapKilled, ReturnToUser
<1>3. CASE Preempt(c, s)
  BY <1>3 DEF Preempt, procVars
<1>4. CASE Fork(c, s)
  <2>1. CASE ForkAlloc(c, s)
    BY <2>1 DEF ForkAlloc
  <2> QED
    BY <1>4, <2>1 DEF Fork, ForkSkip, ForkFull, ForkNoMem, ForkSetParent, ForkRunnable
<1>5. CASE Exit(c, s)
  BY <1>5 DEF Exit, ExitLock, ReparentSkip, ReparentChild, ReparentDone, WakeInit,
              WakeInitOver, WakeParent, WakeParentOver, ExitZombie
<1>6. CASE Wait(c, s)
  BY <1>6 DEF Wait, WaitLock, WaitSkip, WaitLive, WaitReap, WaitBadAddr, WaitFails,
              WaitMustSleep, WaitSleep
<1>7. CASE Kill(c, s) \/ Getppid(c, s)
  BY <1>7 DEF Kill, KillSkip, KillHit, KillMiss, Getppid, GetppidParent, GetppidPid
<1> QED BY <1>1, <1>2, <1>3, <1>4, <1>5, <1>6, <1>7 DEF KernelStep

(* ... and p->killed is set only by a fault and by a kill. *)
LEMMA KilledSame ==
  ASSUME ProcInv, NEW c \in CPU, NEW s \in Slot,
         Ecall(c, s) \/ KernelStep(c, s) \/ Preempt(c, s),
         ~(ForkNoMem(c, s) \/ WaitReap(c, s) \/ KillHit(c, s))
  PROVE  UNCHANGED killed
<1>1. CASE Ecall(c, s) \/ TrapKilled(c, s) \/ ReturnToUser(c, s) \/ Preempt(c, s)
  BY <1>1 DEF Ecall, TrapKilled, ReturnToUser, Preempt, procVars
<1>2. CASE Fork(c, s)
  BY <1>2 DEF Fork, ForkSkip, ForkFull, ForkAlloc, ForkSetParent, ForkRunnable
<1>3. CASE Exit(c, s)
  BY <1>3 DEF Exit, ExitLock, ReparentSkip, ReparentChild, ReparentDone, WakeInit,
              WakeInitOver, WakeParent, WakeParentOver, ExitZombie
<1>4. CASE Wait(c, s)
  BY <1>4 DEF Wait, WaitLock, WaitSkip, WaitLive, WaitBadAddr, WaitFails, WaitMustSleep, WaitSleep
<1>5. CASE Kill(c, s) \/ Getppid(c, s)
  BY <1>5 DEF Kill, KillSkip, KillMiss, Getppid, GetppidParent, GetppidPid
<1> QED BY <1>1, <1>2, <1>3, <1>4, <1>5 DEF KernelStep

(* With a real pid the slot that a kill hits is in use. *)
LEMMA KillHitInUse ==
  ASSUME 0 \notin KillPids, ProcInv, PidInv, KillArg,
         NEW c \in CPU, NEW s \in Slot, KillHit(c, s)
  PROVE  idx[s] \in Slot /\ state[idx[s]] # "UNUSED"
  BY DEF KillHit, At, KillArg, PidInv, PidUnique

LEMMA KillNextInv ==
  ASSUME 0 \notin KillPids, ProcInv, PidInv, KillInv, [Next]_vars
  PROVE  KillInv'
<1> USE DEF KillInv, FreeSlotNotKilled
<1>0. killed \in [Slot -> BOOLEAN] /\ state \in [Slot -> procstate]
  BY DEF ProcInv, TypeOK, SchedTypeOK, ProcTypeOK
<1>1. CASE UNCHANGED vars
  BY <1>1 DEF vars, schedVars, procVars, KillArg
<1>2. ASSUME NEW c \in CPU, CpuStep(c) \/ (Wfi(c) /\ UNCHANGED procVars) PROVE KillInv'
  <2>1. UNCHANGED procVars /\ SameSlots
    BY <1>2, CpuStepSame DEF CpuStep
  <2> QED BY <2>1 DEF procVars, SameSlots, KillArg
<1>3. ASSUME NEW c \in CPU, NEW s \in Slot,
             Ecall(c, s) \/ Fault(c, s) \/ KernelStep(c, s) \/ Preempt(c, s)
      PROVE  KillInv'
  <2>1. KillArg'
    BY <1>3, KillArgStep
  <2>2. FreeSlotNotKilled'
    <3>1. CASE ForkAlloc(c, s)
      <4>1. UNCHANGED killed /\ state' = [state EXCEPT ![idx[s]] = "USED"]
        BY <3>1 DEF ForkAlloc, Alloc, SetState
      <4> QED BY <1>0, <4>1
    <3>2. CASE ForkNoMem(c, s)
      BY <1>0, <3>2 DEF ForkNoMem, schedVars
    <3>3. CASE WaitReap(c, s)
      <4>1. /\ killed' = [killed EXCEPT ![idx[s]] = FALSE]
            /\ state' = [state EXCEPT ![idx[s]] = "UNUSED"]
        BY <3>3 DEF WaitReap, Freeproc, Free, SetState
      <4> QED BY <1>0, <4>1
    <3>4. CASE Fault(c, s)
      <4>1. state[s] = "RUNNING"
        BY <3>4, AtRunning DEF Fault, At
      <4> QED BY <1>0, <3>4, <4>1 DEF Fault, schedVars
    <3>5. CASE KillHit(c, s)
      <4>1. ~(ForkAlloc(c, s) \/ ForkNoMem(c, s) \/ WaitReap(c, s))
        BY <3>5 DEF KillHit, ForkAlloc, ForkNoMem, WaitReap, At
      <4>2. SameSlots
        BY <1>3, <4>1, PidSame
      <4>3. killed' = [killed EXCEPT ![idx[s]] = TRUE]
        BY <3>5 DEF KillHit
      <4>4. idx[s] \in Slot /\ state[idx[s]] # "UNUSED"
        BY <3>5, KillHitInUse
      <4> QED BY <1>0, <4>2, <4>3, <4>4 DEF SameSlots
    <3>6. CASE ~(ForkAlloc(c, s) \/ ForkNoMem(c, s) \/ WaitReap(c, s) \/ Fault(c, s) \/ KillHit(c, s))
      BY <1>3, <3>6, PidSame, KilledSame DEF SameSlots
    <3> QED BY <3>1, <3>2, <3>3, <3>4, <3>5, <3>6
  <2> QED BY <2>1, <2>2
<1> QED BY <1>1, <1>2, <1>3 DEF Next

LEMMA KillInvariant ==
  ASSUME 0 \notin KillPids
  PROVE  Spec => []KillInv
<1>1. Init => KillInv /\ PidInv
  BY NPROCAssumption DEF Init, SchedInit, KillInv, KillArg, FreeSlotNotKilled, PidInv, PidUnique,
     Slot, InitProc
<1>2. KillInv /\ ProcInv /\ ProcInv' /\ PidInv /\ [Next]_vars => KillInv' /\ PidInv'
  BY KillNextInv, PidNextInv
<1> QED BY <1>1, <1>2, ProcInvariant, PTL DEF Spec

(* As long as nobody calls kill(0), a slot waits for its next process with
   p->killed clear: no process is born killed. *)
THEOREM ProcFreeSlotNotKilled ==
  ASSUME 0 \notin KillPids
  PROVE  Spec => []FreeSlotNotKilled
<1>1. KillInv => FreeSlotNotKilled
  BY DEF KillInv
<1> QED BY <1>1, KillInvariant, PTL

-----------------------------------------------------------------------------
(* No exit is lost. *)

(* Who is in a critical section of wait_lock, and RUNNING there, interrupts
   off. *)
WaitLockLabels == {"reparent", "wakeinit", "wakeparent", "zombie", "scankids", "waitsleep"}

HolderRuns ==
  \A s \in Slot : /\ pc[s] \in WaitLockLabels <=> wlock = s
                  /\ pc[s] \in WaitLockLabels => state[s] = "RUNNING"

(* Only wait() sleeps, on the process itself. *)
SleepsOnItself == \A s \in Slot : state[s] = "SLEEPING" => chan[s] = s

WakeupAtStart == \A s \in Slot : pc[s] \notin {"wakeinit", "wakeparent"} => widx[s] = 1

(* What wait() has seen of the table, and before sleep() of all of it. *)
ScanSeen ==
  \A s, t \in Slot :
     parent[t] = s /\ (pc[s] = "waitsleep" \/ (pc[s] = "scankids" /\ t < idx[s])) =>
        state[t] # "ZOMBIE"

(* exit() has woken the parent once wakeup() is past its slot. *)
ParentWoken ==
  \A s \in Slot :
     (pc[s] = "zombie" \/ (pc[s] = "wakeparent" /\ parent[s] < widx[s])) /\ parent[s] \in Slot =>
        state[parent[s]] # "SLEEPING"

(* A sleeping parent of a zombie is init, about to be woken by reparent(). *)
SleeperHasNoZombie ==
  \A s, t \in Slot :
     state[s] = "SLEEPING" /\ parent[t] = s /\ state[t] = "ZOMBIE" =>
        s = InitProc /\ \E h \in Slot : pc[h] = "wakeinit" /\ widx[h] = InitProc

(* Outside its loops over the table a process has its loop variable at the
   start, and a slot without a live process is at no label of a loop. *)
Gone == {"UNUSED", "USED", "ZOMBIE"}
LoopLabels == {"fork", "reparent", "wakeinit", "scankids", "kill"}

LoopInv ==
  \A s \in Slot : /\ pc[s] \notin LoopLabels => idx[s] = 1
                  /\ state[s] \in Gone => pc[s] \in {"user", "dead"}

ExitInv ==
  HolderRuns /\ SleepsOnItself /\ WakeupAtStart /\ ScanSeen /\ ParentWoken /\ SleeperHasNoZombie

-----------------------------------------------------------------------------
LEMMA ExitInitInv == Init => ExitInv
  BY NPROCAssumption DEF Init, SchedInit, ExitInv, HolderRuns, SleepsOnItself, WakeupAtStart, ScanSeen,
     ParentWoken, SleeperHasNoZombie, WaitLockLabels, Slot, NoSlot, InitProc

(* The scheduler makes RUNNABLE processes RUNNING, and nothing else here. *)
LEMMA CpuStepExit ==
  ASSUME ProcInv, ExitInv, NEW c \in CPU, UNCHANGED procVars,
         SchedulerStep(c) \/ Swtch(c) \/ Resume(c) \/ Wfi(c)
  PROVE  ExitInv'
<1>1. \A t \in Slot : \/ state'[t] = state[t]
                      \/ state[t] = "RUNNABLE" /\ state'[t] = "RUNNING"
  BY DEF SchedulerStep, SchedSkip, SchedRun, SchedBack, SchedAgain, NewScan, Swtch, Resume, Wfi,
         ProcInv, TypeOK, SchedTypeOK
<1>2. \A t \in Slot : chan'[t] = chan[t] \/ state'[t] = "RUNNING"
  BY DEF SchedulerStep, SchedSkip, SchedRun, SchedBack, SchedAgain, NewScan, Swtch, Resume, Wfi,
         ProcInv, TypeOK, SchedTypeOK
<1>3. HolderRuns' /\ SleepsOnItself' /\ WakeupAtStart'
  BY <1>1, <1>2 DEF ExitInv, HolderRuns, SleepsOnItself, WakeupAtStart, procVars
<1>4. ScanSeen' /\ ParentWoken' /\ SleeperHasNoZombie'
  BY <1>1 DEF ExitInv, ScanSeen, ParentWoken, SleeperHasNoZombie, procVars
<1> QED BY <1>3, <1>4 DEF ExitInv

(* A step of s outside wait_lock's critical sections, which changes no parent
   and makes nobody SLEEPING or a ZOMBIE. *)
Harmless(s) ==
  /\ UNCHANGED <<wlock, parent, widx>>
  /\ \A t \in Slot \ {s} : pc'[t] = pc[t] /\ idx'[t] = idx[t]
  /\ pc[s] \notin WaitLockLabels /\ pc'[s] \notin WaitLockLabels
  /\ \A t \in Slot : /\ state'[t] = "SLEEPING" => state[t] = "SLEEPING" /\ chan'[t] = chan[t]
                     /\ state'[t] = "ZOMBIE" => state[t] = "ZOMBIE"
                     /\ t # s /\ state[t] = "RUNNING" => state'[t] = "RUNNING"

LEMMA HarmlessExit ==
  ASSUME ExitInv, ProcTypeOK, NEW s \in Slot, Harmless(s)
  PROVE  ExitInv'
<1>1. HolderRuns'
  BY DEF Harmless, ExitInv, HolderRuns
<1>2. SleepsOnItself' /\ WakeupAtStart'
  BY DEF Harmless, ExitInv, SleepsOnItself, WakeupAtStart, WaitLockLabels
<1>3. ScanSeen'
  BY DEF Harmless, ExitInv, ScanSeen, WaitLockLabels
<1>4. ParentWoken'
  BY DEF Harmless, ExitInv, ParentWoken, WaitLockLabels, ProcTypeOK
<1>5. SleeperHasNoZombie'
  BY DEF Harmless, ExitInv, SleeperHasNoZombie, WaitLockLabels
<1> QED BY <1>1, <1>2, <1>3, <1>4, <1>5 DEF ExitInv

LEMMA HarmlessSteps ==
  ASSUME ProcInv, ExitInv, NEW c \in CPU, NEW s \in Slot,
         \/ Ecall(c, s) \/ Fault(c, s) \/ TrapKilled(c, s) \/ ReturnToUser(c, s) \/ Preempt(c, s)
         \/ ForkSkip(c, s) \/ ForkFull(c, s) \/ ForkNoMem(c, s) \/ ForkRunnable(c, s)
         \/ Kill(c, s) \/ Getppid(c, s)
  PROVE  Harmless(s)
<1> USE DEF ProcInv, TypeOK, ProcTypeOK, Harmless, WaitLockLabels, At, Go, Return, locals, schedVars
<1>1. CASE Ecall(c, s)
  BY <1>1, CallAssumption DEF Ecall, MayCall
<1>2. CASE Fault(c, s) \/ TrapKilled(c, s) \/ ReturnToUser(c, s)
  BY <1>2 DEF Fault, TrapKilled, ReturnToUser
<1>3. CASE Preempt(c, s)
  BY <1>3 DEF Preempt, Preemptible, Yield, EnterSched, procVars, SchedTypeOK
<1>4. CASE ForkSkip(c, s) \/ ForkFull(c, s) \/ ForkNoMem(c, s)
  BY <1>4 DEF ForkSkip, ForkFull, ForkNoMem
<1>5. CASE ForkRunnable(c, s)
  <2>1. arg[s] \in Slot /\ state[arg[s]] = "USED"
    BY <1>5 DEF ForkRunnable, ForkOwns, ForkLabels
  <2> QED BY <1>5, <2>1 DEF ForkRunnable, SetState, SchedTypeOK
<1>6. CASE Kill(c, s)
  <2>1. CASE KillHit(c, s)
    BY <2>1 DEF KillHit, Wake, SetState, SchedTypeOK
  <2> QED BY <1>6, <2>1 DEF Kill, KillSkip, KillMiss
<1>7. CASE Getppid(c, s)
  BY <1>7 DEF Getppid, GetppidParent, GetppidPid
<1> QED BY <1>1, <1>2, <1>3, <1>4, <1>5, <1>6, <1>7

-----------------------------------------------------------------------------
(* fork: the new slot has no history, and is no zombie when it is given its
   parent. *)
LEMMA ForkAllocExit ==
  ASSUME ProcInv, ExitInv, NEW c \in CPU, NEW s \in Slot, ForkAlloc(c, s)
  PROVE  ExitInv'
<1> DEFINE n == idx[s]
<1>1. /\ n \in Slot /\ n # s /\ state[n] = "UNUSED" /\ state[s] = "RUNNING"
      /\ state' = [state EXCEPT ![n] = "USED"]
      /\ pc[s] = "fork" /\ pc' = [pc EXCEPT ![s] = "setparent", ![n] = "user"]
      /\ idx' = [idx EXCEPT ![s] = 1]
      /\ UNCHANGED <<chan, parent, wlock, widx>>
  BY AtRunning DEF ForkAlloc, At, Alloc, SetState
<1>2. /\ state \in [Slot -> procstate] /\ pc \in [Slot -> Labels] /\ idx \in [Slot -> Index]
  BY DEF ProcInv, TypeOK, SchedTypeOK, ProcTypeOK
<1>3. pc[n] \notin WaitLockLabels
  BY <1>1 DEF ExitInv, HolderRuns
<1> HIDE DEF n
<1>4. HolderRuns'
  BY <1>1, <1>2, <1>3 DEF ExitInv, HolderRuns, WaitLockLabels
<1>5. SleepsOnItself' /\ WakeupAtStart'
  BY <1>1, <1>2, <1>3 DEF ExitInv, SleepsOnItself, WakeupAtStart, WaitLockLabels
<1>6. ScanSeen' /\ ParentWoken' /\ SleeperHasNoZombie'
  BY <1>1, <1>2, <1>3 DEF ExitInv, ScanSeen, ParentWoken, SleeperHasNoZombie, WaitLockLabels
<1> QED BY <1>4, <1>5, <1>6 DEF ExitInv

LEMMA ForkSetParentExit ==
  ASSUME ProcInv, ExitInv, NEW c \in CPU, NEW s \in Slot, ForkSetParent(c, s)
  PROVE  ExitInv'
<1> DEFINE n == arg[s]
<1>1. /\ n \in Slot /\ state[n] = "USED" /\ wlock = NoSlot
      /\ parent' = [parent EXCEPT ![n] = s]
      /\ pc[s] = "setparent" /\ pc' = [pc EXCEPT ![s] = "runnable"]
      /\ UNCHANGED <<state, chan, wlock, idx, widx>>
  BY DEF ForkSetParent, At, Go, locals, schedVars, ProcInv, ForkOwns, ForkLabels
<1>2. pc \in [Slot -> Labels] /\ parent \in [Slot -> Slot \cup {NoSlot}]
  BY DEF ProcInv, TypeOK, ProcTypeOK
<1> HIDE DEF n
<1>3. HolderRuns' /\ SleepsOnItself' /\ WakeupAtStart'
  BY <1>1, <1>2 DEF ExitInv, HolderRuns, SleepsOnItself, WakeupAtStart, WaitLockLabels
<1>4. \A t \in Slot : pc[t] \notin WaitLockLabels
  BY <1>1 DEF ExitInv, HolderRuns, Slot, NoSlot
<1>5. ScanSeen' /\ ParentWoken' /\ SleeperHasNoZombie'
  BY <1>1, <1>2, <1>4 DEF ExitInv, ScanSeen, ParentWoken, SleeperHasNoZombie, WaitLockLabels
<1> QED BY <1>3, <1>5 DEF ExitInv

-----------------------------------------------------------------------------
(* The loop variables. *)

LEMMA LoopStep ==
  ASSUME LoopInv, ProcTypeOK, NEW s \in Slot, state[s] = "RUNNING",
         \A t \in Slot \ {s} : pc'[t] = pc[t] /\ idx'[t] = idx[t],
         pc'[s] \notin LoopLabels => idx'[s] = 1,
         \A t \in Slot : state'[t] \in Gone => state[t] \in Gone \/ (t = s /\ pc'[s] = "dead")
  PROVE  LoopInv'
  BY DEF LoopInv, Gone

LEMMA LoopKept ==
  ASSUME ProcInv, LoopInv, NEW c \in CPU, NEW s \in Slot,
         Ecall(c, s) \/ Fault(c, s) \/ KernelStep(c, s) \/ Preempt(c, s), ~ForkAlloc(c, s)
  PROVE  LoopInv'
<1>0. /\ Runs(c, s) => state[s] = "RUNNING"
      /\ UNCHANGED schedVars => \A t \in Slot : state'[t] = state[t]
      /\ ProcTypeOK /\ state \in [Slot -> procstate]
  BY AtRunning DEF ProcInv, TypeOK, SchedTypeOK, schedVars
<1> USE DEF ProcTypeOK, At, Go, Return, locals
<1>1. CASE Ecall(c, s)
  <2>1. pc[s] \notin LoopLabels
    BY <1>1 DEF Ecall, LoopLabels
  <2> QED BY <1>0, <1>1, <2>1, LoopStep DEF Ecall, LoopInv
<1>2. CASE Fault(c, s) \/ TrapKilled(c, s) \/ ReturnToUser(c, s)
  <2>1. pc[s] \notin LoopLabels
    BY <1>2 DEF Fault, TrapKilled, ReturnToUser, LoopLabels
  <2> QED BY <1>0, <1>2, <2>1, LoopStep DEF Fault, TrapKilled, ReturnToUser, LoopInv
<1>3. CASE Preempt(c, s)
  BY <1>0, <1>3, LoopStep DEF Preempt, Yield, EnterSched, procVars, LoopInv, Gone
<1>4. CASE Fork(c, s)
  <2>1. CASE ForkRunnable(c, s)
    <3>1. arg[s] \in Slot /\ state' = [state EXCEPT ![arg[s]] = "RUNNABLE"] /\ Runs(c, s)
      BY <2>1 DEF ForkRunnable, SetState, ProcInv, ForkOwns, ForkLabels
    <3> QED BY <1>0, <2>1, <3>1, LoopStep DEF ForkRunnable, Gone
  <2>2. CASE ForkSetParent(c, s)
    <3>1. pc[s] \notin LoopLabels
      BY <2>2 DEF ForkSetParent, LoopLabels
    <3> QED BY <1>0, <2>2, <3>1, LoopStep DEF ForkSetParent, LoopInv
  <2>3. CASE ForkSkip(c, s) \/ ForkFull(c, s) \/ ForkNoMem(c, s)
    BY <1>0, <2>3, LoopStep DEF ForkSkip, ForkFull, ForkNoMem, LoopLabels
  <2> QED BY <1>4, <2>1, <2>2, <2>3 DEF Fork
<1>5. CASE Exit(c, s)
  <2>1. CASE WakeInit(c, s) \/ WakeParent(c, s)
    <3>1. \A t \in Slot : state'[t] \in Gone => state[t] \in Gone
      BY <1>0, <2>1 DEF WakeInit, WakeParent, WakeupSlot, SetState, Gone
    <3>2. Runs(c, s) /\ UNCHANGED <<pc, idx>>
      BY <2>1 DEF WakeInit, WakeParent
    <3> QED BY <1>0, <3>1, <3>2, LoopStep DEF LoopInv
  <2>2. CASE ExitZombie(c, s)
    <3>1. pc[s] \notin LoopLabels /\ Runs(c, s) /\ state' = [state EXCEPT ![s] = "ZOMBIE"]
      BY <2>2 DEF ExitZombie, Die, EnterSched, LoopLabels
    <3> QED BY <1>0, <2>2, <3>1, LoopStep DEF ExitZombie, LoopInv
  <2>3. CASE WakeParentOver(c, s)
    <3>1. pc[s] \notin LoopLabels
      BY <2>3 DEF WakeParentOver, LoopLabels
    <3> QED BY <1>0, <2>3, <3>1, LoopStep DEF WakeParentOver, LoopInv
  <2>4. CASE \/ ExitLock(c, s) \/ ReparentSkip(c, s) \/ ReparentChild(c, s) \/ ReparentDone(c, s)
             \/ WakeInitOver(c, s)
    BY <1>0, <2>4, LoopStep DEF ExitLock, ReparentSkip, ReparentChild, ReparentDone, WakeInitOver,
       LoopLabels
  <2> QED BY <1>5, <2>1, <2>2, <2>3, <2>4 DEF Exit
<1>6. CASE Wait(c, s)
  <2>1. CASE WaitReap(c, s)
    <3>1. Runs(c, s) /\ idx[s] \in Slot /\ state[idx[s]] = "ZOMBIE"
          /\ state' = [state EXCEPT ![idx[s]] = "UNUSED"]
      BY <2>1 DEF WaitReap, Freeproc, Free, SetState
    <3> QED BY <1>0, <2>1, <3>1, LoopStep DEF WaitReap, Gone
  <2>2. CASE WaitSleep(c, s)
    <3>1. pc[s] \notin LoopLabels /\ Runs(c, s) /\ state' = [state EXCEPT ![s] = "SLEEPING"]
      BY <2>2 DEF WaitSleep, Sleep, EnterSched, LoopLabels
    <3> QED BY <1>0, <2>2, <3>1, LoopStep DEF WaitSleep, LoopInv, Gone
  <2>3. CASE WaitLock(c, s) \/ WaitSkip(c, s) \/ WaitLive(c, s)
    BY <1>0, <2>3, LoopStep DEF WaitLock, WaitSkip, WaitLive, LoopLabels
  <2>4. CASE WaitBadAddr(c, s) \/ WaitFails(c, s) \/ WaitMustSleep(c, s)
    BY <1>0, <2>4, LoopStep DEF WaitBadAddr, WaitFails, WaitMustSleep, LoopLabels
  <2> QED BY <1>6, <2>1, <2>2, <2>3, <2>4 DEF Wait
<1>7. CASE Kill(c, s)
  <2>1. CASE KillHit(c, s)
    <3>1. Runs(c, s) /\ \A t \in Slot : state'[t] \in Gone => state[t] \in Gone
      BY <1>0, <2>1 DEF KillHit, Wake, SetState, Gone
    <3> QED BY <1>0, <2>1, <3>1, LoopStep DEF KillHit
  <2> QED BY <1>0, <1>7, <2>1, LoopStep DEF Kill, KillSkip, KillMiss, LoopLabels
<1>8. CASE Getppid(c, s)
  <2>1. pc[s] \notin LoopLabels
    BY <1>8 DEF Getppid, GetppidParent, GetppidPid, LoopLabels
  <2> QED BY <1>0, <1>8, <2>1, LoopStep DEF Getppid, GetppidParent, GetppidPid, LoopInv
<1> QED BY <1>1, <1>2, <1>3, <1>4, <1>5, <1>6, <1>7, <1>8 DEF KernelStep

LEMMA LoopNextInv == ProcInv /\ LoopInv /\ [Next]_vars => LoopInv'
<1> SUFFICES ASSUME ProcInv, LoopInv, [Next]_vars PROVE LoopInv'
  OBVIOUS
<1>1. CASE UNCHANGED vars
  BY <1>1 DEF vars, schedVars, procVars, LoopInv
<1>2. ASSUME NEW c \in CPU, CpuStep(c) \/ (Wfi(c) /\ UNCHANGED procVars) PROVE LoopInv'
  <2>1. UNCHANGED procVars /\ (SchedulerStep(c) \/ Swtch(c) \/ Resume(c) \/ Wfi(c))
    BY <1>2 DEF CpuStep
  <2>2. \A t \in Slot : state'[t] = state[t] \/ state'[t] = "RUNNING"
    BY <2>1 DEF SchedulerStep, SchedSkip, SchedRun, SchedBack, SchedAgain, NewScan, Swtch, Resume, Wfi,
           ProcInv, TypeOK, SchedTypeOK
  <2> QED BY <2>1, <2>2 DEF LoopInv, Gone, procVars
<1>3. ASSUME NEW c \in CPU, NEW s \in Slot, ForkAlloc(c, s) PROVE LoopInv'
  <2> DEFINE n == idx[s]
  <2>1. /\ n \in Slot /\ state[n] = "UNUSED" /\ state[s] = "RUNNING"
        /\ state' = [state EXCEPT ![n] = "USED"]
        /\ pc' = [pc EXCEPT ![s] = "setparent", ![n] = "user"]
        /\ idx' = [idx EXCEPT ![s] = 1]
        /\ state \in [Slot -> procstate] /\ pc \in [Slot -> Labels] /\ idx \in [Slot -> Index]
    BY <1>3, AtRunning DEF ForkAlloc, At, Alloc, SetState, ProcInv, TypeOK, SchedTypeOK, ProcTypeOK
  <2>2. pc[n] \notin LoopLabels /\ n # s
    BY <2>1 DEF LoopInv, Gone, LoopLabels
  <2>3. idx[n] = 1
    BY <2>1, <2>2 DEF LoopInv
  <2> HIDE DEF n
  <2> QED BY <2>1, <2>2, <2>3 DEF LoopInv, Gone, LoopLabels
<1> QED BY <1>1, <1>2, <1>3, LoopKept DEF Next

-----------------------------------------------------------------------------
(* exit() and wait() under wait_lock. *)

LEMMA Holder ==
  ASSUME ExitInv, NEW s \in Slot, pc[s] \in WaitLockLabels
  PROVE  wlock = s /\ state[s] = "RUNNING" /\ \A t \in Slot \ {s} : pc[t] \notin WaitLockLabels
  BY DEF ExitInv, HolderRuns

LEMMA NoHolder ==
  ASSUME ExitInv, wlock = NoSlot
  PROVE  \A t \in Slot : pc[t] \notin WaitLockLabels
  BY DEF ExitInv, HolderRuns, Slot, NoSlot

LEMMA SlotBelowNext ==
  ASSUME NEW t \in Slot, NEW n \in Slot, t < n + 1
  PROVE  t < n \/ t = n
  BY DEF Slot

LEMMA LockExit ==
  ASSUME ProcInv, LoopInv, ExitInv, NEW c \in CPU, NEW s \in Slot, ExitLock(c, s) \/ WaitLock(c, s)
  PROVE  ExitInv'
<1>1. /\ state[s] = "RUNNING" /\ wlock = NoSlot /\ wlock' = s /\ idx[s] = 1
      /\ pc[s] \notin WaitLockLabels
      /\ pc' = [pc EXCEPT ![s] = "reparent"] \/ pc' = [pc EXCEPT ![s] = "scankids"]
      /\ UNCHANGED <<state, chan, parent, idx, widx>>
  BY AtRunning DEF ExitLock, WaitLock, At, Go, locals, schedVars, WaitLockLabels, LoopInv, LoopLabels
<1>2. pc \in [Slot -> Labels] /\ \A t \in Slot : t \in Nat /\ ~(t < 1)
  BY DEF ProcInv, TypeOK, ProcTypeOK, Slot
<1>3. \A t \in Slot : pc[t] \notin WaitLockLabels
  BY <1>1, NoHolder
<1>4. HolderRuns' /\ SleepsOnItself' /\ WakeupAtStart'
  BY <1>1, <1>2, <1>3 DEF ExitInv, HolderRuns, SleepsOnItself, WakeupAtStart, WaitLockLabels
<1>5. ScanSeen' /\ ParentWoken' /\ SleeperHasNoZombie'
  BY <1>1, <1>2, <1>3 DEF ExitInv, ScanSeen, ParentWoken, SleeperHasNoZombie, WaitLockLabels
<1> QED BY <1>4, <1>5 DEF ExitInv

LEMMA ReparentExit ==
  ASSUME ProcInv, ExitInv, NEW c \in CPU, NEW s \in Slot,
         ReparentSkip(c, s) \/ ReparentDone(c, s)
  PROVE  ExitInv'
<1>1. /\ pc[s] = "reparent"
      /\ pc' = pc \/ pc' = [pc EXCEPT ![s] = "wakeparent"]
      /\ \A t \in Slot \ {s} : idx'[t] = idx[t]
      /\ UNCHANGED <<state, chan, parent, wlock, widx>>
  BY DEF ReparentSkip, ReparentDone, At, Go, schedVars, ProcInv, TypeOK, ProcTypeOK
<1>2. pc \in [Slot -> Labels] /\ parent \in [Slot -> Slot \cup {NoSlot}]
      /\ \A t \in Slot : t \in Nat /\ ~(t < 1)
  BY DEF ProcInv, TypeOK, ProcTypeOK, Slot
<1>3. HolderRuns' /\ SleepsOnItself' /\ WakeupAtStart'
  BY <1>1, <1>2 DEF ExitInv, HolderRuns, SleepsOnItself, WakeupAtStart, WaitLockLabels
<1>4. widx[s] = 1 /\ \A t \in Slot \ {s} : pc[t] \notin WaitLockLabels
  BY <1>1, Holder DEF ExitInv, WakeupAtStart, WaitLockLabels
<1>5. ScanSeen' /\ ParentWoken' /\ SleeperHasNoZombie'
  BY <1>1, <1>2, <1>4 DEF ExitInv, ScanSeen, ParentWoken, SleeperHasNoZombie, WaitLockLabels
<1> QED BY <1>3, <1>5 DEF ExitInv

LEMMA ReparentChildExit ==
  ASSUME ProcInv, ExitInv, NEW c \in CPU, NEW s \in Slot, ReparentChild(c, s)
  PROVE  ExitInv'
<1> DEFINE n == idx[s]
<1>1. /\ pc[s] = "reparent" /\ pc' = [pc EXCEPT ![s] = "wakeinit"]
      /\ n \in Slot /\ parent' = [parent EXCEPT ![n] = InitProc]
      /\ UNCHANGED <<state, chan, wlock, idx, widx>>
  BY DEF ReparentChild, At, Go, schedVars, locals
<1>2. pc \in [Slot -> Labels] /\ parent \in [Slot -> Slot \cup {NoSlot}]
  BY DEF ProcInv, TypeOK, ProcTypeOK
<1>3. widx[s] = InitProc /\ \A t \in Slot \ {s} : pc[t] \notin WaitLockLabels
  BY <1>1, Holder DEF ExitInv, WakeupAtStart, WaitLockLabels, InitProc
<1> HIDE DEF n
<1>4. HolderRuns' /\ SleepsOnItself' /\ WakeupAtStart'
  BY <1>1, <1>2 DEF ExitInv, HolderRuns, SleepsOnItself, WakeupAtStart, WaitLockLabels
<1>5. ScanSeen' /\ ParentWoken'
  BY <1>1, <1>2, <1>3 DEF ScanSeen, ParentWoken, WaitLockLabels
<1>6. SleeperHasNoZombie'
  BY <1>1, <1>2, <1>3 DEF ExitInv, SleeperHasNoZombie, WaitLockLabels
<1> QED BY <1>4, <1>5, <1>6 DEF ExitInv

(* wakeup() makes sleepers RUNNABLE, and only them; past its own slot a
   process that it looks for is no longer asleep. *)
LEMMA WakeupStates ==
  ASSUME ProcInv, SleepsOnItself, NEW s \in Slot, NEW ch \in Slot, state[s] = "RUNNING",
         WakeupSlot(s, ch)
  PROVE  /\ \A t \in Slot : state'[t] = state[t] \/ (state[t] = "SLEEPING" /\ state'[t] = "RUNNABLE")
         /\ widx[s] = ch => state'[ch] # "SLEEPING"
         /\ UNCHANGED chan
  BY DEF WakeupSlot, SetState, schedVars, SleepsOnItself, ProcInv, TypeOK, SchedTypeOK

(* wakeup(initproc) for a child that has changed parents. *)
LEMMA WakeInitExit ==
  ASSUME ProcInv, ExitInv, NEW c \in CPU, NEW s \in Slot, WakeInit(c, s)
  PROVE  ExitInv'
<1>1. /\ pc[s] = "wakeinit" /\ WakeupSlot(s, InitProc)
      /\ widx \in [Slot -> Index] /\ widx' = [widx EXCEPT ![s] = @ + 1]
      /\ UNCHANGED <<pc, idx, parent, wlock>>
  BY WakeupStep DEF WakeInit, At, ProcInv, TypeOK, ProcTypeOK
<1>2. /\ state[s] = "RUNNING" /\ wlock = s /\ SleepsOnItself /\ InitProc \in Slot
      /\ \A t \in Slot \ {s} : pc[t] \notin WaitLockLabels
  BY <1>1, Holder, NPROCAssumption DEF ExitInv, WaitLockLabels, InitProc, Slot
<1>3. /\ \A t \in Slot : state'[t] = state[t] \/ (state[t] = "SLEEPING" /\ state'[t] = "RUNNABLE")
      /\ widx[s] = InitProc => state'[InitProc] # "SLEEPING"
      /\ UNCHANGED chan
  BY <1>1, <1>2, WakeupStates
<1>4. HolderRuns' /\ SleepsOnItself' /\ WakeupAtStart'
  BY <1>1, <1>2, <1>3 DEF ExitInv, HolderRuns, SleepsOnItself, WakeupAtStart, WaitLockLabels
<1>5. ScanSeen' /\ ParentWoken'
  BY <1>1, <1>2, <1>3 DEF ScanSeen, ParentWoken, WaitLockLabels
<1>6. SleeperHasNoZombie'
  BY <1>1, <1>2, <1>3 DEF ExitInv, SleeperHasNoZombie, WaitLockLabels
<1> QED BY <1>4, <1>5, <1>6 DEF ExitInv

LEMMA WakeInitOverExit ==
  ASSUME ProcInv, ExitInv, NEW c \in CPU, NEW s \in Slot, WakeInitOver(c, s)
  PROVE  ExitInv'
<1>1. /\ pc[s] = "wakeinit" /\ pc' = [pc EXCEPT ![s] = "reparent"]
      /\ widx[s] # InitProc /\ widx' = [widx EXCEPT ![s] = 1]
      /\ UNCHANGED <<state, chan, parent, wlock>>
  BY NPROCAssumption DEF WakeInitOver, WakeupOver, At, Go, schedVars, InitProc
<1>2. pc \in [Slot -> Labels] /\ widx \in [Slot -> Index]
  BY DEF ProcInv, TypeOK, ProcTypeOK
<1>3. \A t \in Slot \ {s} : pc[t] \notin WaitLockLabels
  BY <1>1, Holder DEF WaitLockLabels
<1>4. HolderRuns' /\ SleepsOnItself' /\ WakeupAtStart'
  BY <1>1, <1>2 DEF ExitInv, HolderRuns, SleepsOnItself, WakeupAtStart, WaitLockLabels
<1>5. ScanSeen' /\ ParentWoken'
  BY <1>1, <1>2, <1>3 DEF ScanSeen, ParentWoken, WaitLockLabels
<1>6. SleeperHasNoZombie'
  BY <1>1, <1>2, <1>3 DEF ExitInv, SleeperHasNoZombie, WaitLockLabels
<1> QED BY <1>4, <1>5, <1>6 DEF ExitInv

(* wakeup(p->parent).  Without a parent nobody is woken. *)
LEMMA WakeParentExit ==
  ASSUME ProcInv, ExitInv, NEW c \in CPU, NEW s \in Slot, WakeParent(c, s)
  PROVE  ExitInv'
<1>1. /\ pc[s] = "wakeparent" /\ WakeupSlot(s, parent[s])
      /\ widx[s] \in Slot /\ widx' = [widx EXCEPT ![s] = @ + 1]
      /\ UNCHANGED <<pc, idx, parent, wlock>>
  BY WakeupStep DEF WakeParent, At
<1>2. widx \in [Slot -> Index] /\ parent \in [Slot -> Slot \cup {NoSlot}] /\ Slot \subseteq Nat
  BY DEF ProcInv, TypeOK, ProcTypeOK, Slot
<1>3. /\ state[s] = "RUNNING" /\ wlock = s /\ SleepsOnItself
      /\ \A t \in Slot \ {s} : pc[t] \notin WaitLockLabels
  BY <1>1, Holder DEF ExitInv, WaitLockLabels
<1>4. /\ \A t \in Slot : state'[t] = state[t] \/ (state[t] = "SLEEPING" /\ state'[t] = "RUNNABLE")
      /\ parent[s] \in Slot /\ widx[s] = parent[s] => state'[parent[s]] # "SLEEPING"
      /\ UNCHANGED chan
  <2>1. CASE parent[s] \in Slot
    BY <1>1, <1>3, <2>1, WakeupStates
  <2>2. CASE parent[s] = NoSlot
    BY <1>1, <1>3, <2>2 DEF WakeupSlot, SetState, schedVars, SleepsOnItself, NoSlot, Slot,
       ProcInv, TypeOK, SchedTypeOK
  <2> QED BY <1>2, <2>1, <2>2
<1>5. HolderRuns' /\ SleepsOnItself' /\ WakeupAtStart'
  BY <1>1, <1>2, <1>3, <1>4 DEF ExitInv, HolderRuns, SleepsOnItself, WakeupAtStart, WaitLockLabels
<1>6. ScanSeen'
  BY <1>1, <1>3 DEF ScanSeen, WaitLockLabels
<1>7. ParentWoken'
  <2>1. parent[s] \in Slot /\ parent[s] < widx[s] + 1 => state'[parent[s]] # "SLEEPING"
    <3>1. CASE parent[s] = widx[s]
      BY <1>4, <3>1
    <3>2. CASE parent[s] \in Slot /\ parent[s] < widx[s]
      BY <1>1, <1>4, <3>2 DEF ExitInv, ParentWoken
    <3> QED BY <1>1, <3>1, <3>2, SlotBelowNext
  <2> QED BY <1>1, <1>2, <1>3, <2>1 DEF ParentWoken, WaitLockLabels
<1>8. SleeperHasNoZombie'
  BY <1>1, <1>3, <1>4 DEF ExitInv, SleeperHasNoZombie, WaitLockLabels
<1> QED BY <1>5, <1>6, <1>7, <1>8 DEF ExitInv

LEMMA WakeParentOverExit ==
  ASSUME ProcInv, ExitInv, NEW c \in CPU, NEW s \in Slot, WakeParentOver(c, s)
  PROVE  ExitInv'
<1>1. /\ pc[s] = "wakeparent" /\ pc' = [pc EXCEPT ![s] = "zombie"]
      /\ widx[s] = NPROC + 1 /\ widx' = [widx EXCEPT ![s] = 1]
      /\ UNCHANGED <<state, chan, parent, wlock, idx>>
  BY DEF WakeParentOver, WakeupOver, At, Go, schedVars
<1>2. /\ pc \in [Slot -> Labels] /\ widx \in [Slot -> Index]
      /\ \A t \in Slot : t < NPROC + 1
  BY NPROCAssumption DEF ProcInv, TypeOK, ProcTypeOK, Slot
<1>3. \A t \in Slot \ {s} : pc[t] \notin WaitLockLabels
  BY <1>1, Holder DEF WaitLockLabels
<1>4. HolderRuns' /\ SleepsOnItself' /\ WakeupAtStart'
  BY <1>1, <1>2 DEF ExitInv, HolderRuns, SleepsOnItself, WakeupAtStart, WaitLockLabels
<1>5. ScanSeen' /\ ParentWoken' /\ SleeperHasNoZombie'
  BY <1>1, <1>2, <1>3 DEF ExitInv, ScanSeen, ParentWoken, SleeperHasNoZombie, WaitLockLabels
<1> QED BY <1>4, <1>5 DEF ExitInv

LEMMA ExitZombieExit ==
  ASSUME ProcInv, ExitInv, NEW c \in CPU, NEW s \in Slot, ExitZombie(c, s)
  PROVE  ExitInv'
<1>1. /\ pc[s] = "zombie" /\ pc' = [pc EXCEPT ![s] = "dead"] /\ wlock' = NoSlot
      /\ state' = [state EXCEPT ![s] = "ZOMBIE"]
      /\ UNCHANGED <<chan, parent, idx, widx>>
  BY DEF ExitZombie, Die, EnterSched, At, Go, locals
<1>2. /\ pc \in [Slot -> Labels] /\ state \in [Slot -> procstate] /\ NoSlot \notin Slot
  BY DEF ProcInv, TypeOK, SchedTypeOK, ProcTypeOK, Slot, NoSlot
<1>3. \A t \in Slot \ {s} : pc[t] \notin WaitLockLabels
  BY <1>1, Holder DEF WaitLockLabels
<1>4. HolderRuns' /\ SleepsOnItself' /\ WakeupAtStart'
  BY <1>1, <1>2, <1>3 DEF ExitInv, HolderRuns, SleepsOnItself, WakeupAtStart, WaitLockLabels
<1>5. ScanSeen' /\ ParentWoken'
  BY <1>1, <1>2, <1>3 DEF ScanSeen, ParentWoken, WaitLockLabels
<1>6. parent[s] \in Slot => state[parent[s]] # "SLEEPING"
  BY <1>1 DEF ExitInv, ParentWoken
<1>7. SleeperHasNoZombie'
  BY <1>1, <1>2, <1>3, <1>6 DEF ExitInv, SleeperHasNoZombie, WaitLockLabels
<1> QED BY <1>4, <1>5, <1>7 DEF ExitInv

(* wait() passes over a slot, or finds a child alive in it. *)
LEMMA WaitScanExit ==
  ASSUME ProcInv, ExitInv, NEW c \in CPU, NEW s \in Slot, WaitSkip(c, s) \/ WaitLive(c, s)
  PROVE  ExitInv'
<1>1. /\ pc[s] = "scankids" /\ idx[s] \in Slot
      /\ parent[idx[s]] = s => state[idx[s]] # "ZOMBIE"
      /\ idx' = [idx EXCEPT ![s] = @ + 1]
      /\ UNCHANGED <<state, chan, pc, parent, wlock, widx>>
  BY DEF WaitSkip, WaitLive, At, schedVars
<1>2. idx \in [Slot -> Index] /\ Slot \subseteq Nat
  BY DEF ProcInv, TypeOK, ProcTypeOK, Slot
<1>3. \A t \in Slot \ {s} : pc[t] \notin WaitLockLabels
  BY <1>1, Holder DEF WaitLockLabels
<1>4. HolderRuns' /\ SleepsOnItself' /\ WakeupAtStart' /\ ParentWoken' /\ SleeperHasNoZombie'
  BY <1>1 DEF ExitInv, HolderRuns, SleepsOnItself, WakeupAtStart, ParentWoken, SleeperHasNoZombie
<1>5. ScanSeen'
  <2>1. \A t \in Slot : parent[t] = s /\ t < idx[s] + 1 => state[t] # "ZOMBIE"
    <3>1. \A t \in Slot : t < idx[s] + 1 => t < idx[s] \/ t = idx[s]
      BY <1>1, SlotBelowNext
    <3> QED BY <1>1, <3>1 DEF ExitInv, ScanSeen
  <2> QED BY <1>1, <1>2, <1>3, <2>1 DEF ScanSeen, WaitLockLabels
<1> QED BY <1>4, <1>5 DEF ExitInv

LEMMA WaitReapExit ==
  ASSUME ProcInv, ExitInv, NEW c \in CPU, NEW s \in Slot, WaitReap(c, s)
  PROVE  ExitInv'
<1> DEFINE n == idx[s]
<1>1. /\ pc[s] = "scankids" /\ pc' = [pc EXCEPT ![s] = "ret"] /\ wlock' = NoSlot
      /\ n \in Slot /\ state[n] = "ZOMBIE" /\ state' = [state EXCEPT ![n] = "UNUSED"]
      /\ parent' = [parent EXCEPT ![n] = NoSlot] /\ chan' = [chan EXCEPT ![n] = None]
      /\ UNCHANGED widx
  BY DEF WaitReap, Freeproc, Free, SetState, At, Go, Return
<1>2. /\ pc \in [Slot -> Labels] /\ state \in [Slot -> procstate] /\ NoSlot \notin Slot
      /\ parent \in [Slot -> Slot \cup {NoSlot}]
  BY DEF ProcInv, TypeOK, SchedTypeOK, ProcTypeOK, Slot, NoSlot
<1>3. /\ \A t \in Slot \ {s} : pc[t] \notin WaitLockLabels
      /\ \A t \in Slot : t # n => chan'[t] = chan[t]
  BY <1>1, Holder DEF WaitLockLabels, ProcInv, TypeOK, SchedTypeOK
<1> HIDE DEF n
<1>4. HolderRuns' /\ SleepsOnItself' /\ WakeupAtStart'
  BY <1>1, <1>2, <1>3 DEF ExitInv, HolderRuns, SleepsOnItself, WakeupAtStart, WaitLockLabels
<1>5. ScanSeen' /\ ParentWoken'
  BY <1>1, <1>2, <1>3 DEF ScanSeen, ParentWoken, WaitLockLabels
<1>6. SleeperHasNoZombie'
  BY <1>1, <1>2, <1>3 DEF ExitInv, SleeperHasNoZombie, WaitLockLabels
<1> QED BY <1>4, <1>5, <1>6 DEF ExitInv

LEMMA WaitEndExit ==
  ASSUME ProcInv, ExitInv, NEW c \in CPU, NEW s \in Slot, WaitBadAddr(c, s) \/ WaitFails(c, s)
  PROVE  ExitInv'
<1>1. /\ pc[s] = "scankids" /\ pc' = [pc EXCEPT ![s] = "ret"] /\ wlock' = NoSlot
      /\ UNCHANGED <<state, chan, parent, widx>>
  BY DEF WaitBadAddr, WaitFails, At, Go, Return, schedVars
<1>2. pc \in [Slot -> Labels] /\ NoSlot \notin Slot
  BY DEF ProcInv, TypeOK, ProcTypeOK, Slot, NoSlot
<1>3. \A t \in Slot \ {s} : pc[t] \notin WaitLockLabels
  BY <1>1, Holder DEF WaitLockLabels
<1>4. HolderRuns' /\ SleepsOnItself' /\ WakeupAtStart'
  BY <1>1, <1>2, <1>3 DEF ExitInv, HolderRuns, SleepsOnItself, WakeupAtStart, WaitLockLabels
<1>5. ScanSeen' /\ ParentWoken' /\ SleeperHasNoZombie'
  BY <1>1, <1>2, <1>3 DEF ExitInv, ScanSeen, ParentWoken, SleeperHasNoZombie, WaitLockLabels
<1> QED BY <1>4, <1>5 DEF ExitInv

(* wait() has been over the whole table: none of its children is a zombie ... *)
LEMMA WaitMustSleepExit ==
  ASSUME ProcInv, ExitInv, NEW c \in CPU, NEW s \in Slot, WaitMustSleep(c, s)
  PROVE  ExitInv'
<1>1. /\ pc[s] = "scankids" /\ pc' = [pc EXCEPT ![s] = "waitsleep"] /\ idx[s] = NPROC + 1
      /\ UNCHANGED <<state, chan, parent, wlock, widx>>
  BY DEF WaitMustSleep, At, Go, schedVars
<1>2. pc \in [Slot -> Labels] /\ \A t \in Slot : t < NPROC + 1
  BY NPROCAssumption DEF ProcInv, TypeOK, ProcTypeOK, Slot
<1>3. \A t \in Slot \ {s} : pc[t] \notin WaitLockLabels
  BY <1>1, Holder DEF WaitLockLabels
<1>4. HolderRuns' /\ SleepsOnItself' /\ WakeupAtStart'
  BY <1>1, <1>2, <1>3 DEF ExitInv, HolderRuns, SleepsOnItself, WakeupAtStart, WaitLockLabels
<1>5. ScanSeen'
  BY <1>1, <1>2, <1>3 DEF ExitInv, ScanSeen, WaitLockLabels
<1>6. ParentWoken' /\ SleeperHasNoZombie'
  BY <1>1, <1>2, <1>3 DEF ExitInv, ParentWoken, SleeperHasNoZombie, WaitLockLabels
<1> QED BY <1>4, <1>5, <1>6 DEF ExitInv

(* ... when it goes to sleep. *)
LEMMA WaitSleepExit ==
  ASSUME ProcInv, ExitInv, NEW c \in CPU, NEW s \in Slot, WaitSleep(c, s)
  PROVE  ExitInv'
<1>1. /\ pc[s] = "waitsleep" /\ pc' = [pc EXCEPT ![s] = "wait"] /\ wlock' = NoSlot
      /\ state' = [state EXCEPT ![s] = "SLEEPING"] /\ chan' = [chan EXCEPT ![s] = s]
      /\ UNCHANGED <<parent, widx>>
  BY DEF WaitSleep, Sleep, EnterSched, At, Go, locals
<1>2. /\ pc \in [Slot -> Labels] /\ state \in [Slot -> procstate] /\ NoSlot \notin Slot
  BY DEF ProcInv, TypeOK, SchedTypeOK, ProcTypeOK, Slot, NoSlot
<1>3. /\ \A t \in Slot \ {s} : pc[t] \notin WaitLockLabels /\ chan'[t] = chan[t]
      /\ chan'[s] = s
  BY <1>1, Holder DEF WaitLockLabels, ProcInv, TypeOK, SchedTypeOK
<1>4. HolderRuns' /\ SleepsOnItself' /\ WakeupAtStart'
  BY <1>1, <1>2, <1>3 DEF ExitInv, HolderRuns, SleepsOnItself, WakeupAtStart, WaitLockLabels
<1>5. ScanSeen' /\ ParentWoken'
  BY <1>1, <1>2, <1>3 DEF ScanSeen, ParentWoken, WaitLockLabels
<1>6. \A t \in Slot : parent[t] = s => state[t] # "ZOMBIE"
  BY <1>1 DEF ExitInv, ScanSeen
<1>7. SleeperHasNoZombie'
  BY <1>1, <1>2, <1>3, <1>6 DEF ExitInv, SleeperHasNoZombie, WaitLockLabels
<1> QED BY <1>4, <1>5, <1>7 DEF ExitInv

-----------------------------------------------------------------------------
LEMMA ExitNextInv == ProcInv /\ LoopInv /\ ExitInv /\ [Next]_vars => ExitInv'
<1> SUFFICES ASSUME ProcInv, LoopInv, ExitInv, [Next]_vars PROVE ExitInv'
  OBVIOUS
<1>1. CASE UNCHANGED vars
  BY <1>1 DEF vars, schedVars, procVars, ExitInv, HolderRuns, SleepsOnItself, WakeupAtStart,
     ScanSeen, ParentWoken, SleeperHasNoZombie
<1>2. ASSUME NEW c \in CPU, CpuStep(c) \/ (Wfi(c) /\ UNCHANGED procVars) PROVE ExitInv'
  BY <1>2, CpuStepExit DEF CpuStep
<1>3. ASSUME NEW c \in CPU, NEW s \in Slot,
             Ecall(c, s) \/ Fault(c, s) \/ KernelStep(c, s) \/ Preempt(c, s)
      PROVE  ExitInv'
  <2>1. CASE Fork(c, s)
    <3>1. CASE ForkSkip(c, s) \/ ForkFull(c, s) \/ ForkNoMem(c, s) \/ ForkRunnable(c, s)
      BY <3>1, HarmlessSteps, HarmlessExit DEF ProcInv, TypeOK
    <3> QED BY <2>1, <3>1, ForkAllocExit, ForkSetParentExit DEF Fork
  <2>2. CASE Exit(c, s)
    BY <2>2, LockExit, ReparentExit, ReparentChildExit, WakeInitExit, WakeInitOverExit,
       WakeParentExit, WakeParentOverExit, ExitZombieExit DEF Exit
  <2>3. CASE Wait(c, s)
    BY <2>3, LockExit, WaitScanExit, WaitReapExit, WaitEndExit, WaitMustSleepExit, WaitSleepExit
       DEF Wait
  <2>4. CASE \/ Ecall(c, s) \/ Fault(c, s) \/ TrapKilled(c, s) \/ ReturnToUser(c, s)
             \/ Kill(c, s) \/ Getppid(c, s) \/ Preempt(c, s)
    BY <2>4, HarmlessSteps, HarmlessExit DEF ProcInv, TypeOK
  <2> QED BY <1>3, <2>1, <2>2, <2>3, <2>4 DEF KernelStep
<1> QED BY <1>1, <1>2, <1>3 DEF Next

(* No exit is lost on a sleeping parent: wait() goes to sleep only after it
   has seen no zombie among its children, exit() makes one only after it has
   woken the parent, and wait_lock keeps the two apart (kexit, kwait). *)
THEOREM ProcNoLostExit == Spec => []NoLostExit
<1>1. Init => LoopInv
  BY NPROCAssumption DEF Init, SchedInit, LoopInv, Gone, InitProc
<1>2. ExitInv => NoLostExit
  BY NoHolder DEF ExitInv, SleeperHasNoZombie, WaitLockLabels, NoLostExit, Asleep
<1> QED BY <1>1, <1>2, ExitInitInv, LoopNextInv, ExitNextInv, ProcInvariant, PTL DEF Spec

-----------------------------------------------------------------------------
(* A zombie. *)

DeadInv == \A s \in Slot : pc[s] = "dead" => state[s] \in {"ZOMBIE", "UNUSED"}

(* exit() alone leads to the label past its last step. *)
LEMMA DeadLabel ==
  ASSUME ProcInv, NEW c \in CPU, NEW s \in Slot,
         Ecall(c, s) \/ Fault(c, s) \/ KernelStep(c, s) \/ Preempt(c, s)
  PROVE  \A t \in Slot : pc'[t] = "dead" => pc[t] = "dead" \/ (t = s /\ ExitZombie(c, s))
<1> USE DEF ProcInv, TypeOK, ProcTypeOK, At, Go, Return
<1>1. CASE Ecall(c, s)
  BY <1>1, CallAssumption DEF Ecall, MayCall
<1>2. CASE Fault(c, s) \/ TrapKilled(c, s) \/ ReturnToUser(c, s) \/ Preempt(c, s)
  BY <1>2 DEF Fault, TrapKilled, ReturnToUser, Preempt, procVars
<1>3. CASE Fork(c, s)
  BY <1>3 DEF Fork, ForkSkip, ForkFull, ForkAlloc, ForkNoMem, ForkSetParent, ForkRunnable
<1>4. CASE Exit(c, s)
  BY <1>4 DEF Exit, ExitLock, ReparentSkip, ReparentChild, ReparentDone, WakeInit,
              WakeInitOver, WakeParent, WakeParentOver, ExitZombie
<1>5. CASE Wait(c, s)
  BY <1>5 DEF Wait, WaitLock, WaitSkip, WaitLive, WaitReap, WaitBadAddr, WaitFails,
              WaitMustSleep, WaitSleep
<1>6. CASE Kill(c, s) \/ Getppid(c, s)
  BY <1>6 DEF Kill, KillSkip, KillHit, KillMiss, Getppid, GetppidParent, GetppidPid
<1> QED BY <1>1, <1>2, <1>3, <1>4, <1>5, <1>6 DEF KernelStep

(* The scheduler's protocol leaves one way out of ZOMBIE and one of UNUSED. *)
LEMMA DeadStates ==
  ASSUME SchedInv, [SchedNext]_schedVars, NEW t \in Slot
  PROVE  /\ state[t] = "ZOMBIE" => state'[t] \in {"ZOMBIE", "UNUSED"}
         /\ state[t] = "UNUSED" => state'[t] \in {"UNUSED", "USED"}
<1>1. CASE UNCHANGED schedVars
  BY <1>1 DEF schedVars
<1>2. ASSUME NEW c \in CPU, SchedulerStep(c) \/ Wfi(c) \/ Swtch(c) \/ Resume(c)
      PROVE  state'[t] = state[t] \/ state[t] = "RUNNABLE"
  BY <1>2 DEF SchedulerStep, SchedSkip, SchedRun, SchedBack, SchedAgain, NewScan, Swtch, Resume, Wfi,
         SchedInv, SchedTypeOK
<1>3. ASSUME NEW c \in CPU, NEW s \in Slot, NEW st, EnterSched(c, s, st)
      PROVE  state'[t] = state[t] \/ state[t] = "RUNNING"
  BY <1>3, RunsRunning DEF EnterSched, SchedInv, SchedTypeOK
<1>4. ASSUME NEW u \in Slot, Alloc(u) \/ Ready(u) \/ Free(u) \/ Wake(u)
      PROVE  \/ state'[t] = state[t] \/ state[t] \in {"SLEEPING", "USED"}
             \/ state[t] = "UNUSED" /\ state'[t] = "USED"
             \/ state[t] = "ZOMBIE" /\ state'[t] = "UNUSED"
  BY <1>4 DEF Alloc, Ready, Free, Wake, SetState, SchedInv, SchedTypeOK
<1>5. ASSUME NEW c \in CPU, NEW s \in Slot, ProcessStep(c, s)
      PROVE  \/ state'[t] = state[t] \/ state[t] \in {"SLEEPING", "USED", "RUNNING"}
             \/ state[t] = "UNUSED" /\ state'[t] = "USED"
             \/ state[t] = "ZOMBIE" /\ state'[t] = "UNUSED"
  BY <1>3, <1>4, <1>5 DEF ProcessStep, Yield, Sleep, Die
<1> QED BY <1>1, <1>2, <1>5 DEF SchedNext

LEMMA DeadNextInv == ProcInv /\ DeadInv /\ [Next]_vars => DeadInv'
<1> SUFFICES ASSUME ProcInv, DeadInv, [Next]_vars, NEW t \in Slot, pc'[t] = "dead"
             PROVE  state'[t] \in {"ZOMBIE", "UNUSED"}
  BY DEF DeadInv
<1>1. pc[t] = "dead" => /\ state[t] \in {"ZOMBIE", "UNUSED"}
                        /\ state'[t] \in {"ZOMBIE", "UNUSED", "USED"}
                        /\ state[t] = "ZOMBIE" => state'[t] # "USED"
  BY DeadStates, StepSched DEF ProcInv, DeadInv
<1>2. CASE UNCHANGED vars
  BY <1>2 DEF vars, schedVars, procVars, DeadInv
<1>3. ASSUME NEW c \in CPU, CpuStep(c) \/ (Wfi(c) /\ UNCHANGED procVars)
      PROVE  state'[t] \in {"ZOMBIE", "UNUSED"}
  BY <1>1, <1>3, CpuStepSame DEF CpuStep, procVars, SameSlots
<1>4. ASSUME NEW c \in CPU, NEW s \in Slot,
             Ecall(c, s) \/ Fault(c, s) \/ KernelStep(c, s) \/ Preempt(c, s)
      PROVE  state'[t] \in {"ZOMBIE", "UNUSED"}
  <2>1. CASE ExitZombie(c, s) /\ t = s
    BY <2>1 DEF ExitZombie, Die, EnterSched, ProcInv, TypeOK, SchedTypeOK
  <2>2. CASE pc[t] = "dead"
    <3>1. CASE ForkAlloc(c, s)
      <4>1. /\ idx[s] \in Slot /\ pc'[idx[s]] = "user"
            /\ state' = [state EXCEPT ![idx[s]] = "USED"]
        BY <3>1 DEF ForkAlloc, Alloc, SetState, ProcInv, TypeOK, ProcTypeOK
      <4> QED BY <1>1, <2>2, <4>1 DEF ProcInv, TypeOK, SchedTypeOK
    <3>2. CASE ForkNoMem(c, s)
      BY <1>1, <2>2, <3>2 DEF ForkNoMem, schedVars
    <3>3. CASE WaitReap(c, s)
      <4>1. state' = [state EXCEPT ![idx[s]] = "UNUSED"]
        BY <3>3 DEF WaitReap, Freeproc, Free, SetState
      <4> QED BY <1>1, <2>2, <4>1 DEF ProcInv, TypeOK, SchedTypeOK
    <3> QED BY <1>1, <1>4, <2>2, <3>1, <3>2, <3>3, PidSame DEF SameSlots
  <2> QED BY <1>4, <2>1, <2>2, DeadLabel
<1> QED BY <1>2, <1>3, <1>4 DEF Next

(* A zombie never executes again: kexit's panic("zombie exit") after sched()
   is not reached, and the slot it leaves is free when its parent has it. *)
THEOREM ProcZombieStaysDead == Spec => []ZombieStaysDead
<1>1. Init => DeadInv
  BY DEF Init, DeadInv
<1>2. ProcInv /\ DeadInv => ZombieStaysDead
  BY AtRunning DEF DeadInv, ZombieStaysDead
<1> QED BY <1>1, <1>2, DeadNextInv, ProcInvariant, PTL DEF Spec

-----------------------------------------------------------------------------
(* A kill. *)

LEMMA KillStepHits ==
  ASSUME 0 \notin KillPids, ProcInv, PidInv, KillInv, [Next]_vars
  PROVE  \A s \in Slot : killed'[s] /\ ~killed[s] => state[s] # "UNUSED"
<1>0. killed \in [Slot -> BOOLEAN]
  BY DEF ProcInv, TypeOK, ProcTypeOK
<1>1. CASE UNCHANGED killed
  BY <1>1
<1>2. ASSUME NEW c \in CPU, NEW s \in Slot, Fault(c, s)
      PROVE  \A t \in Slot : killed'[t] /\ ~killed[t] => state[t] # "UNUSED"
  <2>1. state[s] = "RUNNING"
    BY <1>2, AtRunning DEF Fault, At
  <2> QED BY <1>0, <1>2, <2>1 DEF Fault
<1>3. ASSUME NEW c \in CPU, NEW s \in Slot, KillHit(c, s)
      PROVE  \A t \in Slot : killed'[t] /\ ~killed[t] => state[t] # "UNUSED"
  <2>1. idx[s] \in Slot /\ state[idx[s]] # "UNUSED"
    BY <1>3, KillHitInUse DEF KillInv
  <2> QED BY <1>0, <1>3, <2>1 DEF KillHit
<1>4. ASSUME NEW c \in CPU, NEW s \in Slot, ForkNoMem(c, s) \/ WaitReap(c, s)
      PROVE  \A t \in Slot : killed'[t] /\ ~killed[t] => state[t] # "UNUSED"
  BY <1>0, <1>4 DEF ForkNoMem, WaitReap, Freeproc
<1>5. [Next]_vars => \/ UNCHANGED killed
                     \/ \E c \in CPU, s \in Slot : \/ Fault(c, s) \/ KillHit(c, s)
                                                   \/ ForkNoMem(c, s) \/ WaitReap(c, s)
  BY KilledSame DEF Next, vars, procVars, CpuStep
<1> QED BY <1>1, <1>2, <1>3, <1>4, <1>5

(* proc.c:589: as long as nobody calls kill(0), kill marks a process, never a
   slot without one. *)
THEOREM ProcKillHitsAProcess ==
  ASSUME 0 \notin KillPids
  PROVE  Spec => KillHitsAProcess
<1>1. ProcInv /\ PidInv /\ KillInv /\ [Next]_vars
      => [\A s \in Slot : killed'[s] /\ ~killed[s] => state[s] # "UNUSED"]_vars
  BY KillStepHits
<1>2. Init => PidInv
  BY NPROCAssumption DEF Init, SchedInit, PidInv, PidUnique, Slot, InitProc
<1>3. ProcInv /\ ProcInv' /\ PidInv /\ [Next]_vars => PidInv'
  BY PidNextInv
<1>4. Spec => []KillInv
  BY KillInvariant
<1> QED BY <1>1, <1>2, <1>3, <1>4, ProcInvariant, PTL DEF Spec, KillHitsAProcess

-----------------------------------------------------------------------------
Live == InUse \ {"ZOMBIE"}

HasParent(t) ==
  /\ parent[t] \in Slot
  /\ state[parent[t]] \in Live
  /\ pid[parent[t]] < pid[t]

(* The child that a fork fills is younger than the process, and gets it as
   its parent before it becomes RUNNABLE. *)
ForkIsParent ==
  \A s \in Slot : /\ pc[s] \in ForkLabels => pid[s] < pid[arg[s]]
                  /\ pc[s] = "runnable" => parent[arg[s]] = s

(* reparent() in exit of s is past slot t. *)
Past(s, t) ==
  \/ pc[s] = "reparent" /\ t < idx[s]
  \/ pc[s] = "wakeinit" /\ (t < idx[s] \/ t = idx[s])
  \/ pc[s] \in {"wakeparent", "zombie"}

TreeInv ==
  /\ \A t \in Slot \ {InitProc} : state[t] \in InUse => HasParent(t)
  /\ ForkIsParent
  /\ \A s, t \in Slot : Past(s, t) => parent[t] # s
  /\ state[InitProc] \in Live /\ pid[InitProc] = 1

-----------------------------------------------------------------------------
LEMMA TreeInitInv == Init => TreeInv
  BY NPROCAssumption DEF Init, SchedInit, TreeInv, ForkIsParent, ForkLabels, Past, Live, InUse,
     Slot, InitProc

(* Every slot in use but init's has a pid above init's. *)
LEMMA PidAboveInit ==
  ASSUME ProcTypeOK, PidUnique, TreeInv, NEW t \in Slot \ {InitProc}, state[t] # "UNUSED"
  PROVE  pid[t] > 1
<1>1. pid[t] \in Nat /\ pid[t] # 0 /\ pid[t] # 1
  BY NPROCAssumption DEF ProcTypeOK, PidUnique, TreeInv, Slot, InitProc
<1> QED BY <1>1

(* A step that leaves every process its parent, its pid and its life. *)
LEMMA TreeKept ==
  ASSUME ProcInv, TreeInv, NEW s \in Slot, UNCHANGED <<parent, pid>>,
         \A t \in Slot : state'[t] \in InUse => state[t] \in InUse,
         \A t \in Slot : state[t] \in Live => state'[t] \in Live,
         \A t \in Slot \ {s} : pc'[t] = pc[t] /\ idx'[t] = idx[t] /\ arg'[t] = arg[t],
         pc'[s] \in ForkLabels => pc'[s] = pc[s] /\ arg'[s] = arg[s],
         \A t \in Slot : Past(s, t)' => parent[t] # s
  PROVE  TreeInv'
<1>1. InitProc \in Slot
  BY NPROCAssumption DEF Slot, InitProc
<1>2. \A t \in Slot \ {InitProc} : state'[t] \in InUse => HasParent(t)'
  BY DEF TreeInv, HasParent
<1>3. ForkIsParent'
  BY DEF TreeInv, ForkIsParent, ForkLabels
<1>4. \A t, u \in Slot : Past(t, u)' => parent'[u] # t
  BY DEF TreeInv, Past
<1> QED BY <1>1, <1>2, <1>3, <1>4 DEF TreeInv

(* The steps that change neither parents nor pids, and no process's use of
   its slot but that of a wakeup, of sleep() and of yield(). *)
LEMMA CpuStepTree ==
  ASSUME ProcInv, TreeInv, NEW c \in CPU, UNCHANGED procVars,
         SchedulerStep(c) \/ Swtch(c) \/ Resume(c) \/ Wfi(c)
  PROVE  TreeInv'
<1>1. \A t \in Slot : \/ state'[t] = state[t]
                      \/ state[t] = "RUNNABLE" /\ state'[t] = "RUNNING"
  BY DEF SchedulerStep, SchedSkip, SchedRun, SchedBack, SchedAgain, NewScan, Swtch, Resume, Wfi,
         ProcInv, TypeOK, SchedTypeOK
<1>2. InitProc \in Slot
  BY NPROCAssumption DEF Slot, InitProc
<1>3. \A t \in Slot : Past(InitProc, t)' => parent[t] # InitProc
  BY <1>2 DEF TreeInv, Past, procVars
<1> QED BY <1>1, <1>2, <1>3, TreeKept DEF InUse, Live, procVars

LEMMA QuietTree ==
  ASSUME ProcInv, LoopInv, TreeInv, NEW c \in CPU, NEW s \in Slot,
         Ecall(c, s) \/ Fault(c, s) \/ KernelStep(c, s) \/ Preempt(c, s),
         ~(ForkAlloc(c, s) \/ ForkSetParent(c, s) \/ ForkRunnable(c, s)),
         ~(ReparentChild(c, s) \/ ExitZombie(c, s) \/ WaitReap(c, s))
  PROVE  TreeInv'
<1>0. /\ Runs(c, s) => state[s] = "RUNNING"
      /\ UNCHANGED schedVars => \A t \in Slot : state'[t] = state[t]
      /\ ProcTypeOK /\ state \in [Slot -> procstate]
  BY AtRunning DEF ProcInv, TypeOK, SchedTypeOK, schedVars
<1> USE DEF At, Go, Return, locals, ProcTypeOK, ForkLabels, Past
<1>1. CASE \/ Ecall(c, s) \/ Fault(c, s) \/ TrapKilled(c, s) \/ ReturnToUser(c, s)
           \/ ForkSkip(c, s) \/ ForkFull(c, s) \/ ForkNoMem(c, s)
           \/ KillSkip(c, s) \/ KillMiss(c, s) \/ Getppid(c, s)
           \/ WaitLock(c, s) \/ WaitSkip(c, s) \/ WaitLive(c, s) \/ WaitBadAddr(c, s)
           \/ WaitFails(c, s) \/ WaitMustSleep(c, s)
  <2>1. UNCHANGED <<parent, pid>> /\ UNCHANGED schedVars
    BY <1>1 DEF Ecall, Fault, TrapKilled, ReturnToUser, ForkSkip, ForkFull, ForkNoMem,
       KillSkip, KillMiss, Getppid, GetppidParent, GetppidPid, WaitLock, WaitSkip, WaitLive,
       WaitBadAddr, WaitFails, WaitMustSleep
  <2>2. /\ Tame(s) /\ pc'[s] \notin ForkLabels
    <3>1. \/ Ecall(c, s) \/ Fault(c, s) \/ TrapKilled(c, s) \/ ReturnToUser(c, s)
          \/ ForkSkip(c, s) \/ ForkFull(c, s) \/ ForkNoMem(c, s)
          \/ Exit(c, s) \/ Wait(c, s) \/ Kill(c, s) \/ Getppid(c, s)
      BY <1>1 DEF Exit, Wait, Kill
    <3> QED BY <3>1, TameStep
  <2>3. pc'[s] \notin ExitLabels
    <3>1. CASE Ecall(c, s)
      BY <1>0, <3>1, CallAssumption DEF Ecall, MayCall, ExitLabels
    <3> QED
      BY <1>0, <1>1, <3>1 DEF Fault, TrapKilled, ReturnToUser, ForkSkip, ForkFull, ForkNoMem,
         KillSkip, KillMiss, Getppid, GetppidParent, GetppidPid, WaitLock, WaitSkip, WaitLive,
         WaitBadAddr, WaitFails, WaitMustSleep, ExitLabels
  <2> QED BY <1>0, <2>1, <2>2, <2>3, TreeKept DEF Tame, ExitLabels
<1>2. CASE Preempt(c, s) \/ WaitSleep(c, s)
  <2>1. /\ UNCHANGED <<parent, pid, idx, arg>> /\ state[s] = "RUNNING"
        /\ state' = [state EXCEPT ![s] = "RUNNABLE"] \/ state' = [state EXCEPT ![s] = "SLEEPING"]
        /\ pc' = pc \/ pc' = [pc EXCEPT ![s] = "wait"]
    BY <1>0, <1>2 DEF Preempt, Yield, procVars, WaitSleep, Sleep, EnterSched
  <2> QED BY <1>0, <2>1, TreeKept DEF InUse, Live, TreeInv
<1>3. CASE KillHit(c, s)
  <2>1. /\ UNCHANGED <<parent, pid>> /\ pc' = [pc EXCEPT ![s] = "ret"]
        /\ \A t \in Slot \ {s} : idx'[t] = idx[t] /\ arg'[t] = arg[t]
        /\ \A t \in Slot : \/ state'[t] = state[t]
                           \/ state[t] = "SLEEPING" /\ state'[t] = "RUNNABLE"
    BY <1>0, <1>3 DEF KillHit, Wake, SetState
  <2> QED BY <1>0, <2>1, TreeKept DEF InUse, Live
<1>4. CASE WakeInit(c, s) \/ WakeParent(c, s)
  <2>1. /\ UNCHANGED <<parent, pid, pc, idx, arg>>
        /\ \A t \in Slot : \/ state'[t] = state[t]
                           \/ state[t] = "SLEEPING" /\ state'[t] = "RUNNABLE"
    BY <1>0, <1>4 DEF WakeInit, WakeParent, WakeupSlot, SetState
  <2> QED BY <1>0, <2>1, TreeKept DEF InUse, Live, TreeInv
<1>5. CASE ExitLock(c, s)
  <2>1. /\ UNCHANGED <<parent, pid, idx, arg>> /\ UNCHANGED schedVars
        /\ pc' = [pc EXCEPT ![s] = "reparent"] /\ idx[s] = 1
    BY <1>5 DEF ExitLock, LoopInv, LoopLabels
  <2>2. \A t \in Slot : ~(t < 1)
    BY DEF Slot
  <2> QED BY <1>0, <2>1, <2>2, TreeKept
<1>6. CASE ReparentSkip(c, s) \/ WakeInitOver(c, s)
  <2>1. /\ UNCHANGED <<parent, pid, arg>> /\ UNCHANGED schedVars
        /\ pc'[s] = "reparent" /\ \A t \in Slot \ {s} : pc'[t] = pc[t]
        /\ pc[s] \in {"reparent", "wakeinit"} /\ idx' = [idx EXCEPT ![s] = @ + 1]
    BY <1>0, <1>6 DEF ReparentSkip, WakeInitOver
  <2>2. idx[s] \in Slot /\ parent[idx[s]] # s
    BY <1>6 DEF ReparentSkip, WakeInitOver, TreeInv, ProcInv, LocalsInTable
  <2>3. \A t \in Slot : t < idx[s] => parent[t] # s
    BY <2>1 DEF TreeInv
  <2>4. \A t \in Slot : t < idx[s] + 1 => parent[t] # s
    BY <2>2, <2>3, SlotBelowNext
  <2> QED BY <1>0, <2>1, <2>4, TreeKept
<1>7. CASE ReparentDone(c, s)
  <2>1. /\ UNCHANGED <<parent, pid, arg>> /\ UNCHANGED schedVars
        /\ pc' = [pc EXCEPT ![s] = "wakeparent"] /\ idx' = [idx EXCEPT ![s] = 1]
        /\ \A t \in Slot : t < NPROC + 1 => parent[t] # s
    BY <1>7 DEF ReparentDone, TreeInv
  <2>2. \A t \in Slot : t < NPROC + 1
    BY NPROCAssumption DEF Slot
  <2> QED BY <1>0, <2>1, <2>2, TreeKept
<1>8. CASE WakeParentOver(c, s)
  <2>1. /\ UNCHANGED <<parent, pid, idx, arg>> /\ UNCHANGED schedVars
        /\ pc' = [pc EXCEPT ![s] = "zombie"] /\ \A t \in Slot : parent[t] # s
    BY <1>8 DEF WakeParentOver, TreeInv
  <2> QED BY <1>0, <2>1, TreeKept
<1> QED
  BY <1>1, <1>2, <1>3, <1>4, <1>5, <1>6, <1>7, <1>8 DEF KernelStep, Fork, Exit, Wait, Kill

-----------------------------------------------------------------------------
(* fork *)

LEMMA ForkAllocTree ==
  ASSUME ProcInv, PidInv, LoopInv, TreeInv, NEW c \in CPU, NEW s \in Slot, ForkAlloc(c, s)
  PROVE  TreeInv'
<1> DEFINE n == idx[s]
<1>1. /\ n \in Slot /\ n # s /\ state[n] = "UNUSED" /\ n # InitProc
      /\ state' = [state EXCEPT ![n] = "USED"]
      /\ pc' = [pc EXCEPT ![s] = "setparent", ![n] = "user"]
      /\ arg' = [arg EXCEPT ![s] = n] /\ idx' = [idx EXCEPT ![s] = 1]
      /\ pid' = [pid EXCEPT ![n] = nextpid] /\ pid[s] < nextpid
      /\ UNCHANGED parent
  BY AtRunning DEF ForkAlloc, At, Alloc, SetState, TreeInv, Live, InUse, PidInv
<1>2. /\ state \in [Slot -> procstate] /\ pc \in [Slot -> Labels] /\ idx \in [Slot -> Index]
      /\ arg \in [Slot -> Nat] /\ pid \in [Slot -> Nat] /\ InitProc \in Slot
  BY NPROCAssumption DEF ProcInv, TypeOK, SchedTypeOK, ProcTypeOK, InitProc, Slot
<1>3. \A t \in Slot : pc[t] \in ForkLabels => arg[t] \in Slot /\ arg[t] # n /\ t # n
  BY <1>1 DEF ProcInv, ForkOwns
<1> HIDE DEF n
<1>4. \A t \in Slot \ {InitProc} : state'[t] \in InUse => HasParent(t)'
  BY <1>1, <1>2 DEF TreeInv, HasParent, Live, InUse
<1>5. ForkIsParent'
  BY <1>1, <1>2, <1>3 DEF TreeInv, ForkIsParent, ForkLabels
<1>6. \A t, u \in Slot : Past(t, u)' => parent'[u] # t
  BY <1>1, <1>2 DEF TreeInv, Past
<1>7. state'[InitProc] \in Live /\ pid'[InitProc] = 1
  BY <1>1, <1>2 DEF TreeInv
<1> QED BY <1>4, <1>5, <1>6, <1>7 DEF TreeInv

LEMMA ForkSetParentTree ==
  ASSUME ProcInv, ExitInv, TreeInv, NEW c \in CPU, NEW s \in Slot, ForkSetParent(c, s)
  PROVE  TreeInv'
<1> DEFINE n == arg[s]
<1>1. /\ pc[s] = "setparent" /\ pc' = [pc EXCEPT ![s] = "runnable"] /\ wlock = NoSlot
      /\ n \in Slot /\ state[n] = "USED"
      /\ parent' = [parent EXCEPT ![n] = s]
      /\ UNCHANGED <<state, pid, idx, arg>>
  BY DEF ForkSetParent, At, Go, locals, schedVars, ProcInv, ForkOwns, ForkLabels
<1>2. /\ pc \in [Slot -> Labels] /\ parent \in [Slot -> Slot \cup {NoSlot}] /\ InitProc \in Slot
  BY NPROCAssumption DEF ProcInv, TypeOK, ProcTypeOK, InitProc, Slot
<1>3. \A t \in Slot \ {s} : pc[t] \in ForkLabels => arg[t] # n
  BY <1>1 DEF ProcInv, ForkOwns, ForkLabels
<1>4. \A t \in Slot : pc[t] \notin ExitLabels
  BY <1>1, NoHolder DEF WaitLockLabels, ExitLabels
<1> HIDE DEF n
<1>5. \A t \in Slot \ {InitProc} : state'[t] \in InUse => HasParent(t)'
  BY <1>1, <1>2 DEF TreeInv, HasParent, InUse
<1>6. ForkIsParent'
  BY <1>1, <1>2, <1>3 DEF TreeInv, ForkIsParent, ForkLabels, n
<1>7. \A t, u \in Slot : Past(t, u)' => parent'[u] # t
  BY <1>1, <1>2, <1>4 DEF Past, ExitLabels
<1> QED BY <1>1, <1>5, <1>6, <1>7 DEF TreeInv

LEMMA ForkRunnableTree ==
  ASSUME ProcInv, TreeInv, NEW c \in CPU, NEW s \in Slot, ForkRunnable(c, s)
  PROVE  TreeInv'
<1> DEFINE n == arg[s]
<1>1. /\ pc[s] = "runnable" /\ pc' = [pc EXCEPT ![s] = "ret"]
      /\ n \in Slot /\ state[n] = "USED" /\ state[s] = "RUNNING"
      /\ state' = [state EXCEPT ![n] = "RUNNABLE"]
      /\ idx' = [idx EXCEPT ![s] = 1] /\ arg' = [arg EXCEPT ![s] = 0]
      /\ parent[n] = s /\ pid[s] < pid[n]
      /\ UNCHANGED <<parent, pid>>
  BY AtRunning DEF ForkRunnable, SetState, At, Go, Return, ProcInv, ForkOwns, ForkLabels,
     TreeInv, ForkIsParent
<1>2. /\ state \in [Slot -> procstate] /\ pc \in [Slot -> Labels] /\ idx \in [Slot -> Index]
      /\ InitProc \in Slot
  BY NPROCAssumption DEF ProcInv, TypeOK, SchedTypeOK, ProcTypeOK, InitProc, Slot
<1>3. \A t \in Slot : state[t] \in Live => state'[t] \in Live
  BY <1>1, <1>2 DEF Live, InUse
<1> HIDE DEF n
<1>4. parent'[n] = s /\ state'[s] \in Live /\ pid'[s] < pid'[n]
  BY <1>1, <1>2 DEF Live, InUse
<1>5. \A t \in Slot \ {InitProc} : state'[t] \in InUse => HasParent(t)'
  <2>1. ASSUME NEW t \in Slot \ {InitProc, n}, state'[t] \in InUse PROVE HasParent(t)'
    BY <1>1, <1>2, <1>3, <2>1 DEF TreeInv, HasParent
  <2> QED BY <1>4, <2>1 DEF HasParent
<1>6. ForkIsParent'
  BY <1>1, <1>2 DEF TreeInv, ForkIsParent, ForkLabels
<1>7. \A t, u \in Slot : Past(t, u)' => parent'[u] # t
  BY <1>1, <1>2 DEF TreeInv, Past
<1>8. state'[InitProc] \in Live /\ pid'[InitProc] = 1
  BY <1>1, <1>2, <1>3 DEF TreeInv
<1> QED BY <1>5, <1>6, <1>7, <1>8 DEF TreeInv

-----------------------------------------------------------------------------
(* exit and wait *)

LEMMA ReparentChildTree ==
  ASSUME ProcInv, PidInv, TreeInv, NEW c \in CPU, NEW s \in Slot, ReparentChild(c, s)
  PROVE  TreeInv'
<1> DEFINE n == idx[s]
<1>1. /\ pc[s] = "reparent" /\ pc' = [pc EXCEPT ![s] = "wakeinit"] /\ s # InitProc
      /\ n \in Slot /\ parent[n] = s
      /\ parent' = [parent EXCEPT ![n] = InitProc]
      /\ UNCHANGED <<state, pid, idx, arg>>
  BY DEF ReparentChild, At, Go, locals, schedVars, ProcInv, InitStays, ExitLabels
<1>2. /\ pc \in [Slot -> Labels] /\ parent \in [Slot -> Slot \cup {NoSlot}] /\ InitProc \in Slot
  BY NPROCAssumption DEF ProcInv, TypeOK, ProcTypeOK, InitProc, Slot
<1>3. \A t \in Slot \ {InitProc} : state[t] \in InUse => pid[t] > 1
  BY PidAboveInit DEF ProcInv, TypeOK, PidInv, InUse
<1>4. \A t \in Slot \ {InitProc} : state'[t] \in InUse => HasParent(t)'
  BY <1>1, <1>2, <1>3 DEF TreeInv, HasParent
<1>5. ForkIsParent'
  BY <1>1, <1>2 DEF TreeInv, ForkIsParent, ForkLabels
<1>6. \A t, u \in Slot : Past(t, u)' => parent'[u] # t
  BY <1>1, <1>2 DEF TreeInv, Past, ProcInv, InitStays, ExitLabels
<1> QED BY <1>1, <1>4, <1>5, <1>6 DEF TreeInv

LEMMA ExitZombieTree ==
  ASSUME ProcInv, TreeInv, NEW c \in CPU, NEW s \in Slot, ExitZombie(c, s)
  PROVE  TreeInv'
<1>1. /\ pc[s] = "zombie" /\ pc' = [pc EXCEPT ![s] = "dead"] /\ s # InitProc
      /\ state[s] = "RUNNING" /\ state' = [state EXCEPT ![s] = "ZOMBIE"]
      /\ UNCHANGED <<parent, pid, idx, arg>>
  BY AtRunning DEF ExitZombie, Die, EnterSched, At, Go, locals, ProcInv, InitStays, ExitLabels
<1>2. /\ pc \in [Slot -> Labels] /\ state \in [Slot -> procstate] /\ InitProc \in Slot
  BY NPROCAssumption DEF ProcInv, TypeOK, SchedTypeOK, ProcTypeOK, InitProc, Slot
<1>3. \A t \in Slot : parent[t] # s
  BY <1>1 DEF TreeInv, Past
<1>4. \A t \in Slot \ {InitProc} : state'[t] \in InUse => HasParent(t)'
  BY <1>1, <1>2, <1>3 DEF TreeInv, HasParent, InUse
<1>5. ForkIsParent'
  BY <1>1, <1>2 DEF TreeInv, ForkIsParent, ForkLabels
<1>6. \A t, u \in Slot : Past(t, u)' => parent'[u] # t
  BY <1>1, <1>2 DEF TreeInv, Past
<1> QED BY <1>1, <1>2, <1>4, <1>5, <1>6 DEF TreeInv

LEMMA WaitReapTree ==
  ASSUME ProcInv, TreeInv, NEW c \in CPU, NEW s \in Slot, WaitReap(c, s)
  PROVE  TreeInv'
<1> DEFINE n == idx[s]
<1>1. /\ pc[s] = "scankids" /\ pc' = [pc EXCEPT ![s] = "ret"]
      /\ n \in Slot /\ n # InitProc /\ state[n] = "ZOMBIE"
      /\ state' = [state EXCEPT ![n] = "UNUSED"]
      /\ parent' = [parent EXCEPT ![n] = NoSlot] /\ pid' = [pid EXCEPT ![n] = 0]
      /\ idx' = [idx EXCEPT ![s] = 1] /\ arg' = [arg EXCEPT ![s] = 0]
  BY DEF WaitReap, Freeproc, Free, SetState, At, Go, Return, TreeInv, Live, InUse
<1>2. /\ pc \in [Slot -> Labels] /\ state \in [Slot -> procstate] /\ InitProc \in Slot
      /\ parent \in [Slot -> Slot \cup {NoSlot}] /\ pid \in [Slot -> Nat] /\ NoSlot \notin Slot
  BY NPROCAssumption DEF ProcInv, TypeOK, SchedTypeOK, ProcTypeOK, InitProc, Slot, NoSlot
<1>3. \A t \in Slot : pc[t] \in ForkLabels => arg[t] \in Slot /\ arg[t] # n /\ t # n /\ t # s
  BY <1>1 DEF ProcInv, ForkOwns, ForkLabels
<1>4. \A t \in Slot \ {s} : idx'[t] = idx[t] /\ arg'[t] = arg[t]
  BY <1>1 DEF ProcInv, TypeOK, ProcTypeOK
<1> HIDE DEF n
<1>5. \A t \in Slot \ {InitProc} : state'[t] \in InUse => HasParent(t)'
  BY <1>1, <1>2 DEF TreeInv, HasParent, InUse, Live
<1>6. ForkIsParent'
  BY <1>1, <1>2, <1>3, <1>4 DEF TreeInv, ForkIsParent, ForkLabels
<1>7. \A t, u \in Slot : Past(t, u)' => parent'[u] # t
  BY <1>1, <1>2, <1>4 DEF TreeInv, Past
<1>8. state'[InitProc] \in Live /\ pid'[InitProc] = 1
  BY <1>1, <1>2 DEF TreeInv
<1> QED BY <1>5, <1>6, <1>7, <1>8 DEF TreeInv

-----------------------------------------------------------------------------
LEMMA TreeNextInv ==
  ProcInv /\ PidInv /\ LoopInv /\ ExitInv /\ TreeInv /\ [Next]_vars => TreeInv'
<1> SUFFICES ASSUME ProcInv, PidInv, LoopInv, ExitInv, TreeInv, [Next]_vars PROVE TreeInv'
  OBVIOUS
<1>1. CASE UNCHANGED vars
  BY <1>1 DEF vars, schedVars, procVars, TreeInv, HasParent, ForkIsParent, Past
<1>2. ASSUME NEW c \in CPU, CpuStep(c) \/ (Wfi(c) /\ UNCHANGED procVars) PROVE TreeInv'
  BY <1>2, CpuStepTree DEF CpuStep
<1>3. ASSUME NEW c \in CPU, NEW s \in Slot,
             Ecall(c, s) \/ Fault(c, s) \/ KernelStep(c, s) \/ Preempt(c, s)
      PROVE  TreeInv'
  BY <1>3, QuietTree, ForkAllocTree, ForkSetParentTree, ForkRunnableTree, ReparentChildTree,
     ExitZombieTree, WaitReapTree
<1> QED BY <1>1, <1>2, <1>3 DEF Next

(* Every process but init has a parent that is a live process older than
   itself: exit() gives its children to init before it becomes a ZOMBIE, and
   wait() frees a slot that is nobody's parent (reparent, kexit, kwait). *)
THEOREM ProcParentAlive == Spec => []ParentAlive
<1>1. Init => PidInv /\ LoopInv
  BY NPROCAssumption DEF Init, SchedInit, PidInv, PidUnique, LoopInv, Gone, Slot, InitProc
<1>2. ProcInv /\ ProcInv' /\ PidInv /\ [Next]_vars => PidInv'
  BY PidNextInv
<1>3. TreeInv => ParentAlive
  BY DEF TreeInv, HasParent, Live, ParentAlive
<1> QED
  BY <1>1, <1>2, <1>3, ExitInitInv, TreeInitInv, LoopNextInv, ExitNextInv, TreeNextInv,
     ProcInvariant, PTL DEF Spec

=============================================================================
