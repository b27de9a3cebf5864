-------------------------------- MODULE Proc --------------------------------
(***************************************************************************)
(* The process system calls of xv6: fork, exit, wait, kill and getppid     *)
(* (kernel/proc.c, kernel/sysproc.c) with the checks of p->killed that     *)
(* usertrap() makes around them, on the scheduler of Sched.                *)
(*                                                                         *)
(* wait_lock is a variable, since exit and wait keep it over many steps.   *)
(* A loop over the process table takes one step per slot.  A process that  *)
(* holds no spinlock runs with interrupts on and may be preempted at every *)
(* label; in a spinlock's critical section it may not.                     *)
(***************************************************************************)
EXTENDS Sched

CONSTANTS Syscalls,  \* the system calls processes make
          KillPids,  \* the arguments of kill
          MaxPid     \* bound: no fork starts once nextpid has passed it

ASSUME ChanAssumption == Slot \subseteq Chan  \* wait sleeps on the process itself
ASSUME CallAssumption ==
  /\ Syscalls \subseteq {"fork", "exit", "wait", "kill", "getppid", "fault"}
  /\ KillPids \subseteq Nat

VARIABLES
  killed,   \* p->killed
  parent,   \* p->parent
  pid,      \* p->pid
  wlock,    \* the process in a critical section of wait_lock, or NoSlot
  nextpid,
  pc,       \* where in the kernel a process is ("user": outside)
  idx,      \* the loop variable of the system call over the table
  widx,     \* the loop variable of wakeup()
  arg,      \* np of fork, pid of kill, the p->parent that getppid has read
  kids      \* havekids of wait

procVars == <<killed, parent, pid, wlock, nextpid, pc, idx, widx, arg, kids>>
locals == <<idx, widx, arg, kids>>
vars == <<schedVars, procVars>>

Labels == {"user", "ret", "fork", "setparent", "runnable",
           "exit", "reparent", "wakeinit", "wakeparent", "zombie", "dead",
           "wait", "scankids", "waitsleep", "kill", "getppid", "getppid2"}

Index == 1..(NPROC + 1)   \* of a loop over the process table

(* The types of what Proc adds to Sched. *)
ProcTypeOK ==
  /\ killed \in [Slot -> BOOLEAN] /\ parent \in [Slot -> Slot \cup {NoSlot}]
  /\ pid \in [Slot -> Nat] /\ wlock \in Slot \cup {NoSlot} /\ nextpid \in Nat
  /\ pc \in [Slot -> Labels] /\ arg \in [Slot -> Nat] /\ kids \in [Slot -> BOOLEAN]
  /\ idx \in [Slot -> Index] /\ widx \in [Slot -> Index]

TypeOK == SchedTypeOK /\ ProcTypeOK

(* initproc is past forkret's kexec("/init") and in user space. *)
Init ==
  /\ SchedInit
  /\ killed = [s \in Slot |-> FALSE]
  /\ parent = [s \in Slot |-> NoSlot]
  /\ pid = [s \in Slot |-> IF s = InitProc THEN 1 ELSE 0]
  /\ wlock = NoSlot
  /\ nextpid = 2
  /\ pc = [s \in Slot |-> "user"]
  /\ idx = [s \in Slot |-> 1]
  /\ widx = [s \in Slot |-> 1]
  /\ arg = [s \in Slot |-> 0]
  /\ kids = [s \in Slot |-> FALSE]

-----------------------------------------------------------------------------
(* cpu c executes process s at label l. *)
At(c, s, l) == Runs(c, s) /\ pc[s] = l

Go(s, l) == pc' = [pc EXCEPT ![s] = l]

(* The end of a system call: forget its locals. *)
Return(s) ==
  /\ Go(s, "ret")
  /\ idx' = [idx EXCEPT ![s] = 1] /\ arg' = [arg EXCEPT ![s] = 0] /\ kids' = [kids EXCEPT ![s] = FALSE]
  /\ UNCHANGED widx

FreeLock(s) == plock[s] = None    \* acquire(&p->lock) would not spin

-----------------------------------------------------------------------------
(* usertrap() *)

MayCall(s) == IF s = InitProc THEN Syscalls \cap {"fork", "wait"} ELSE Syscalls

(* A system call: p->killed is checked first. *)
Ecall(c, s) ==
  /\ At(c, s, "user") /\ FreeLock(s) /\ ~killed[s]
  /\ \E call \in MayCall(s) \ {"fault"} :
       /\ call = "fork" => nextpid <= MaxPid
       /\ Go(s, call)
       /\ IF call = "kill" THEN \E k \in KillPids : arg' = [arg EXCEPT ![s] = k]
                           ELSE UNCHANGED arg
  /\ UNCHANGED <<schedVars, killed, parent, pid, wlock, nextpid, idx, widx, kids>>

(* Trap from user space of a killed process, whatever the cause. *)
TrapKilled(c, s) ==
  /\ At(c, s, "user") /\ FreeLock(s) /\ killed[s]
  /\ Go(s, "exit")
  /\ UNCHANGED <<schedVars, killed, parent, pid, wlock, nextpid, locals>>

(* An unexpected exception: setkilled(p). *)
Fault(c, s) ==
  /\ At(c, s, "user") /\ FreeLock(s) /\ "fault" \in MayCall(s)
  /\ killed' = [killed EXCEPT ![s] = TRUE]
  /\ Go(s, "ret")
  /\ UNCHANGED <<schedVars, parent, pid, wlock, nextpid, locals>>

(* The tail of usertrap(): if(killed(p)) kexit(-1). *)
ReturnToUser(c, s) ==
  /\ At(c, s, "ret") /\ FreeLock(s)
  /\ Go(s, IF killed[s] THEN "exit" ELSE "user")
  /\ UNCHANGED <<schedVars, killed, parent, pid, wlock, nextpid, locals>>

(* The labels at which interrupts are on. *)
Preemptible == {"user", "ret", "fork", "setparent", "runnable", "exit", "wait",
                "kill", "getppid", "getppid2"}

(* A clock interrupt; one from user space looks at p->killed before yield(). *)
Preempt(c, s) ==
  /\ pc[s] \in Preemptible
  /\ ~(pc[s] = "user" /\ killed[s])
  /\ Yield(c, s)
  /\ UNCHANGED procVars

-----------------------------------------------------------------------------
(* fork *)

(* allocproc() passes over a slot in use. *)
ForkSkip(c, s) ==
  /\ At(c, s, "fork") /\ idx[s] \in Slot
  /\ FreeLock(idx[s]) /\ state[idx[s]] # "UNUSED"
  /\ idx' = [idx EXCEPT ![s] = @ + 1]
  /\ UNCHANGED <<schedVars, killed, parent, pid, wlock, nextpid, pc, widx, arg, kids>>

ForkFull(c, s) ==
  /\ At(c, s, "fork") /\ idx[s] = NPROC + 1
  /\ Return(s)
  /\ UNCHANGED <<schedVars, killed, parent, pid, wlock, nextpid>>

(* allocproc() and the copy into the child, all under np->lock; the child
   will start in forkret().  p->killed is not touched. *)
ForkAlloc(c, s) ==
  /\ At(c, s, "fork") /\ idx[s] \in Slot
  /\ Alloc(idx[s])
  /\ pid' = [pid EXCEPT ![idx[s]] = nextpid]
  /\ nextpid' = nextpid + 1
  /\ pc' = [pc EXCEPT ![s] = "setparent", ![idx[s]] = "user"]
  /\ arg' = [arg EXCEPT ![s] = idx[s]] /\ idx' = [idx EXCEPT ![s] = 1]
  /\ UNCHANGED <<killed, parent, wlock, widx, kids>>

(* Memory runs out: freeproc(np), and the pid is lost. *)
ForkNoMem(c, s) ==
  /\ At(c, s, "fork") /\ idx[s] \in Slot
  /\ FreeLock(idx[s]) /\ state[idx[s]] = "UNUSED"
  /\ nextpid' = nextpid + 1
  /\ killed' = [killed EXCEPT ![idx[s]] = FALSE]
  /\ Return(s)
  /\ UNCHANGED <<schedVars, parent, pid, wlock>>

ForkSetParent(c, s) ==
  /\ At(c, s, "setparent") /\ wlock = NoSlot
  /\ parent' = [parent EXCEPT ![arg[s]] = s]
  /\ Go(s, "runnable")
  /\ UNCHANGED <<schedVars, killed, pid, wlock, nextpid, locals>>

ForkRunnable(c, s) ==
  /\ At(c, s, "runnable")
  /\ SetState(arg[s], "RUNNABLE")
  /\ Return(s)
  /\ UNCHANGED <<chan, killed, parent, pid, wlock, nextpid>>

-----------------------------------------------------------------------------
(* exit *)

(* init does not get past the first test: panic("init exiting"). *)
ExitLock(c, s) ==
  /\ At(c, s, "exit") /\ s # InitProc
  /\ wlock = NoSlot
  /\ wlock' = s
  /\ Go(s, "reparent")
  /\ UNCHANGED <<schedVars, killed, parent, pid, nextpid, locals>>

ReparentSkip(c, s) ==
  /\ At(c, s, "reparent") /\ idx[s] \in Slot /\ parent[idx[s]] # s
  /\ idx' = [idx EXCEPT ![s] = @ + 1]
  /\ UNCHANGED <<schedVars, killed, parent, pid, wlock, nextpid, pc, widx, arg, kids>>

ReparentChild(c, s) ==
  /\ At(c, s, "reparent") /\ idx[s] \in Slot /\ parent[idx[s]] = s
  /\ parent' = [parent EXCEPT ![idx[s]] = InitProc]
  /\ Go(s, "wakeinit")
  /\ UNCHANGED <<schedVars, killed, pid, wlock, nextpid, locals>>

(* Wrong: the last slot of the table is left out. *)
ReparentDoneEarly(c, s) ==
  /\ At(c, s, "reparent") /\ idx[s] >= NPROC
  /\ idx' = [idx EXCEPT ![s] = 1]
  /\ Go(s, "wakeparent")
  /\ UNCHANGED <<schedVars, killed, parent, pid, wlock, nextpid, widx, arg, kids>>

(* Wrong: the parent is not woken. *)
ReparentDoneQuiet(c, s) ==
  /\ At(c, s, "reparent") /\ idx[s] = NPROC + 1
  /\ idx' = [idx EXCEPT ![s] = 1]
  /\ Go(s, "zombie")
  /\ UNCHANGED <<schedVars, killed, parent, pid, wlock, nextpid, widx, arg, kids>>

ReparentDone(c, s) ==
  /\ At(c, s, "reparent") /\ idx[s] = NPROC + 1
  /\ idx' = [idx EXCEPT ![s] = 1]
  /\ Go(s, "wakeparent")
  /\ UNCHANGED <<schedVars, killed, parent, pid, wlock, nextpid, widx, arg, kids>>

(* The slot wakeup() looks at, and what it does to it. *)
WakeupSlot(s, ch) ==
  /\ widx[s] \in Slot
  /\ widx' = [widx EXCEPT ![s] = @ + 1]
  /\ IF widx[s] # s /\ state[widx[s]] = "SLEEPING" /\ chan[widx[s]] = ch
     THEN SetState(widx[s], "RUNNABLE") /\ UNCHANGED chan
     ELSE (widx[s] # s => FreeLock(widx[s])) /\ UNCHANGED schedVars

WakeupOver(s) == widx[s] = NPROC + 1 /\ widx' = [widx EXCEPT ![s] = 1]

WakeInit(c, s) ==
  /\ At(c, s, "wakeinit")
  /\ WakeupSlot(s, InitProc)
  /\ UNCHANGED <<killed, parent, pid, wlock, nextpid, pc, idx, arg, kids>>

WakeInitOver(c, s) ==
  /\ At(c, s, "wakeinit") /\ WakeupOver(s)
  /\ idx' = [idx EXCEPT ![s] = @ + 1] /\ Go(s, "reparent")
  /\ UNCHANGED <<schedVars, killed, parent, pid, wlock, nextpid, arg, kids>>

WakeParent(c, s) ==
  /\ At(c, s, "wakeparent")
  /\ WakeupSlot(s, parent[s])
  /\ UNCHANGED <<killed, parent, pid, wlock, nextpid, pc, idx, arg, kids>>

WakeParentOver(c, s) ==
  /\ At(c, s, "wakeparent") /\ WakeupOver(s)
  /\ Go(s, "zombie")
  /\ UNCHANGED <<schedVars, killed, parent, pid, wlock, nextpid, idx, arg, kids>>

(* Wrong: without p->lock. *)
ExitZombieUnlocked(c, s) ==
  /\ At(c, s, "zombie")
  /\ state' = [state EXCEPT ![s] = "ZOMBIE"]
  /\ wlock' = NoSlot
  /\ Go(s, "dead")
  /\ UNCHANGED <<chan, plock, cpuVars, killed, parent, pid, nextpid, locals>>

(* p->lock, ZOMBIE, release(&wait_lock), sched() *)
ExitZombie(c, s) ==
  /\ At(c, s, "zombie")
  /\ Die(c, s)
  /\ wlock' = NoSlot
  /\ Go(s, "dead")
  /\ UNCHANGED <<killed, parent, pid, nextpid, locals>>

-----------------------------------------------------------------------------
(* wait *)

WaitLock(c, s) ==
  /\ At(c, s, "wait") /\ wlock = NoSlot
  /\ wlock' = s
  /\ Go(s, "scankids")
  /\ UNCHANGED <<schedVars, killed, parent, pid, nextpid, locals>>

WaitSkip(c, s) ==
  /\ At(c, s, "scankids") /\ idx[s] \in Slot /\ parent[idx[s]] # s
  /\ idx' = [idx EXCEPT ![s] = @ + 1]
  /\ UNCHANGED <<schedVars, killed, parent, pid, wlock, nextpid, pc, widx, arg, kids>>

WaitLive(c, s) ==
  /\ At(c, s, "scankids") /\ idx[s] \in Slot /\ parent[idx[s]] = s
  /\ FreeLock(idx[s]) /\ state[idx[s]] # "ZOMBIE"
  /\ kids' = [kids EXCEPT ![s] = TRUE]
  /\ idx' = [idx EXCEPT ![s] = @ + 1]
  /\ UNCHANGED <<schedVars, killed, parent, pid, wlock, nextpid, pc, widx, arg>>

(* Wrong: the slot keeps its pid. *)
FreeprocPid(t) ==
  /\ Free(t)
  /\ parent' = [parent EXCEPT ![t] = NoSlot]
  /\ killed' = [killed EXCEPT ![t] = FALSE]
  /\ UNCHANGED pid

(* freeproc(pp) *)
Freeproc(t) ==
  /\ Free(t)
  /\ pid' = [pid EXCEPT ![t] = 0]
  /\ parent' = [parent EXCEPT ![t] = NoSlot]
  /\ killed' = [killed EXCEPT ![t] = FALSE]

WaitReap(c, s) ==
  /\ At(c, s, "scankids") /\ idx[s] \in Slot /\ parent[idx[s]] = s
  /\ Freeproc(idx[s])
  /\ wlock' = NoSlot
  /\ Return(s)
  /\ UNCHANGED nextpid

(* Wrong: the error path forgets release(&wait_lock). *)
WaitBadAddrLocked(c, s) ==
  /\ At(c, s, "scankids") /\ idx[s] \in Slot /\ parent[idx[s]] = s
  /\ FreeLock(idx[s]) /\ state[idx[s]] = "ZOMBIE" /\ s # InitProc
  /\ Return(s)
  /\ UNCHANGED <<schedVars, killed, parent, pid, wlock, nextpid>>

(* The exit status cannot be copied out: the child stays a zombie. *)
WaitBadAddr(c, s) ==
  /\ At(c, s, "scankids") /\ idx[s] \in Slot /\ parent[idx[s]] = s
  /\ FreeLock(idx[s]) /\ state[idx[s]] = "ZOMBIE" /\ s # InitProc
  /\ wlock' = NoSlot
  /\ Return(s)
  /\ UNCHANGED <<schedVars, killed, parent, pid, nextpid>>

WaitFails(c, s) ==
  /\ At(c, s, "scankids") /\ idx[s] = NPROC + 1
  /\ ~kids[s] \/ killed[s]
  /\ wlock' = NoSlot
  /\ Return(s)
  /\ UNCHANGED <<schedVars, killed, parent, pid, nextpid>>

(* Wrong: wait_lock is released before sleep() holds p->lock. *)
WaitMustSleepUnlocked(c, s) ==
  /\ At(c, s, "scankids") /\ idx[s] = NPROC + 1
  /\ kids[s] /\ ~killed[s]
  /\ wlock' = NoSlot
  /\ Go(s, "waitsleep")
  /\ idx' = [idx EXCEPT ![s] = 1] /\ kids' = [kids EXCEPT ![s] = FALSE]
  /\ UNCHANGED <<schedVars, killed, parent, pid, nextpid, widx, arg>>

WaitMustSleep(c, s) ==
  /\ At(c, s, "scankids") /\ idx[s] = NPROC + 1
  /\ kids[s] /\ ~killed[s]
  /\ Go(s, "waitsleep")
  /\ idx' = [idx EXCEPT ![s] = 1] /\ kids' = [kids EXCEPT ![s] = FALSE]
  /\ UNCHANGED <<schedVars, killed, parent, pid, wlock, nextpid, widx, arg>>

(* sleep(p, &wait_lock); woken, the process takes wait_lock and scans again. *)
WaitSleep(c, s) ==
  /\ At(c, s, "waitsleep")
  /\ Sleep(c, s, s)
  /\ wlock' = NoSlot
  /\ Go(s, "wait")
  /\ UNCHANGED <<killed, parent, pid, nextpid, locals>>

-----------------------------------------------------------------------------
(* kill *)

KillSkip(c, s) ==
  /\ At(c, s, "kill") /\ idx[s] \in Slot
  /\ FreeLock(idx[s]) /\ pid[idx[s]] # arg[s]
  /\ idx' = [idx EXCEPT ![s] = @ + 1]
  /\ UNCHANGED <<schedVars, killed, parent, pid, wlock, nextpid, pc, widx, arg, kids>>

(* Wrong: makes the victim RUNNABLE whatever its state. *)
KillHitAny(c, s) ==
  /\ At(c, s, "kill") /\ idx[s] \in Slot
  /\ FreeLock(idx[s]) /\ pid[idx[s]] = arg[s]
  /\ killed' = [killed EXCEPT ![idx[s]] = TRUE]
  /\ SetState(idx[s], "RUNNABLE")
  /\ Return(s)
  /\ UNCHANGED <<chan, parent, pid, wlock, nextpid>>

KillHit(c, s) ==
  /\ At(c, s, "kill") /\ idx[s] \in Slot
  /\ FreeLock(idx[s]) /\ pid[idx[s]] = arg[s]
  /\ killed' = [killed EXCEPT ![idx[s]] = TRUE]
  /\ IF state[idx[s]] = "SLEEPING" THEN Wake(idx[s]) ELSE UNCHANGED schedVars
  /\ Return(s)
  /\ UNCHANGED <<parent, pid, wlock, nextpid>>

KillMiss(c, s) ==
  /\ At(c, s, "kill") /\ idx[s] = NPROC + 1
  /\ Return(s)
  /\ UNCHANGED <<schedVars, killed, parent, pid, wlock, nextpid>>

-----------------------------------------------------------------------------
(* getppid: two reads without a lock, p->parent and then its pid. *)

GetppidParent(c, s) ==
  /\ At(c, s, "getppid")
  /\ Go(s, IF parent[s] = NoSlot THEN "ret" ELSE "getppid2")
  /\ arg' = [arg EXCEPT ![s] = parent[s]]
  /\ UNCHANGED <<schedVars, killed, parent, pid, wlock, nextpid, idx, widx, kids>>

(* Returns pid[arg[s]]. *)
GetppidPid(c, s) ==
  /\ At(c, s, "getppid2")
  /\ Return(s)
  /\ UNCHANGED <<schedVars, killed, parent, pid, wlock, nextpid>>

-----------------------------------------------------------------------------
Fork(c, s) ==
  \/ ForkSkip(c, s) \/ ForkFull(c, s) \/ ForkAlloc(c, s) \/ ForkNoMem(c, s)
  \/ ForkSetParent(c, s) \/ ForkRunnable(c, s)

Exit(c, s) ==
  \/ ExitLock(c, s)
  \/ ReparentSkip(c, s) \/ ReparentChild(c, s) \/ ReparentDone(c, s)
  \/ WakeInit(c, s) \/ WakeInitOver(c, s)
  \/ WakeParent(c, s) \/ WakeParentOver(c, s) \/ ExitZombie(c, s)

Wait(c, s) ==
  \/ WaitLock(c, s) \/ WaitSkip(c, s) \/ WaitLive(c, s) \/ WaitReap(c, s)
  \/ WaitBadAddr(c, s) \/ WaitFails(c, s) \/ WaitMustSleep(c, s) \/ WaitSleep(c, s)

Kill(c, s) == KillSkip(c, s) \/ KillHit(c, s) \/ KillMiss(c, s)

Getppid(c, s) == GetppidParent(c, s) \/ GetppidPid(c, s)

CpuStep(c) == /\ SchedulerStep(c) \/ Swtch(c) \/ Resume(c)
              /\ UNCHANGED procVars

(* The steps that a process takes by itself once it is in the kernel. *)
KernelStep(c, s) ==
  \/ TrapKilled(c, s) \/ ReturnToUser(c, s)
  \/ Fork(c, s) \/ Exit(c, s) \/ Wait(c, s) \/ Kill(c, s) \/ Getppid(c, s)

Next ==
  \E c \in CPU :
     \/ CpuStep(c)
     \/ Wfi(c) /\ UNCHANGED procVars
     \/ \E s \in Slot : Ecall(c, s) \/ Fault(c, s) \/ KernelStep(c, s) \/ Preempt(c, s)

Spec == Init /\ [][Next]_vars

(* For one cpu.  Instructions go on; a clock interrupt that is pending while
   interrupts are off is taken when they come on again (strong fairness of
   Preempt); and a quantum, a tenth of a second, is long enough for a process
   to get a step done before the next one (strong fairness of KernelStep: with
   one cpu nobody else can hold the spinlock that the step needs). *)
Fairness ==
  /\ \A c \in CPU : WF_vars(CpuStep(c)) /\ WF_vars(Wfi(c) /\ UNCHANGED procVars)
  /\ \A c \in CPU, s \in Slot : SF_vars(Preempt(c, s)) /\ SF_vars(KernelStep(c, s))

FairSpec == Spec /\ Fairness

-----------------------------------------------------------------------------
InUse == {"RUNNABLE", "RUNNING", "SLEEPING", "ZOMBIE"}
Asleep(s) == state[s] = "SLEEPING"

(* No exit is lost on a sleeping parent: when nobody is in a critical section
   of wait_lock, a process that sleeps in wait() has no zombie child.  exit
   wakes the parent before it becomes a ZOMBIE and relies on wait_lock to
   keep the parent from looking too early (kexit, kwait). *)
NoLostExit ==
  wlock = NoSlot =>
    \A s, t \in Slot : Asleep(s) /\ chan[s] = s /\ parent[t] = s => state[t] # "ZOMBIE"

(* Outside wait_lock every process but init has a parent that is a live
   process older than itself: no orphan, no parent pointer into a slot that
   was freed and given to someone else, no cycle (reparent before ZOMBIE). *)
ParentAlive ==
  wlock = NoSlot =>
    \A s \in Slot \ {InitProc} : state[s] \in InUse =>
       /\ parent[s] \in Slot
       /\ state[parent[s]] \in InUse \ {"ZOMBIE"}
       /\ pid[parent[s]] < pid[s]

(* Two slots never bear the same pid, and a free slot bears none. *)
PidUnique ==
  /\ \A s, t \in Slot : s # t /\ pid[s] # 0 => pid[s] # pid[t]
  /\ \A s \in Slot : pid[s] = 0 <=> state[s] = "UNUSED"

(* A slot waits for its next process with p->killed clear: a new process is
   not killed by what was meant for an earlier user of its slot (freeproc). *)
FreeSlotNotKilled ==
  \A s \in Slot : state[s] = "UNUSED" => ~killed[s]

(* A zombie never executes again ("zombie exit"), and its scheduler is the
   only one that may still be on its way off its stack. *)
ZombieStaysDead ==
  \A s \in Slot : pc[s] = "dead" =>
     /\ state[s] \in {"ZOMBIE", "UNUSED"}
     /\ \A c \in CPU : ~Runs(c, s)

(* proc.c:589, "Kill the process with the given pid": kill marks a process,
   never a slot without one. *)
KillHitsAProcess ==
  [][\A s \in Slot : killed'[s] /\ ~killed[s] => state[s] # "UNUSED"]_vars

(* proc.h:95, "wait_lock must be held when using this: struct proc *parent":
   what getppid returns is the pid of a process, not of a freed slot. *)
GetppidReal ==
  [][\A s \in Slot : pc[s] = "getppid2" /\ pc'[s] = "ret" => pid[arg[s]] # 0]_vars

(* A process in wait() with a child that has become a zombie comes back. *)
Waits(s) == pc[s] \in {"wait", "scankids", "waitsleep"}
WaitReturns ==
  \A s \in Slot :
     (Waits(s) /\ \E t \in Slot : parent[t] = s /\ state[t] = "ZOMBIE") ~> ~Waits(s)

(* A process that is killed outside wait() exits, without another system call
   of its own ("The victim won't exit until it tries to return to user space"). *)
KilledExits ==
  \A s \in Slot :
     (killed[s] /\ state[s] \in InUse /\ ~Waits(s)) ~> state[s] \in {"ZOMBIE", "UNUSED"}
=============================================================================
