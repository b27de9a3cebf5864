------------------------------- MODULE Sched -------------------------------
(***************************************************************************)
(* Process states and context switches of the xv6 kernel (kernel/proc.c:   *)
(* scheduler, sched, yield, sleep, wakeup, forkret and the places that     *)
(* change p->state).  Several CPUs run the scheduler loop over one process *)
(* table; p->lock is the only protection of a slot, and it is handed from  *)
(* one kernel thread to another across swtch().                            *)
(*                                                                         *)
(* A process here is anything that keeps to the protocol of sched(): the   *)
(* module Proc gives processes their system calls and implements this one. *)
(*                                                                         *)
(* A critical section that takes and releases one p->lock without a swtch  *)
(* in between is one step that needs the lock free.  The lock is a         *)
(* variable only where it outlives a step: from the acquire in yield(),    *)
(* sleep(), exit() to the release in scheduler(), and from the acquire in  *)
(* scheduler() to the release by the resumed process.                      *)
(***************************************************************************)
EXTENDS Integers

CONSTANTS NPROC,   \* slots of the process table (param.h)
          CPU,     \* the harts
          Chan,    \* sleep channels
          None     \* "no cpu", "no channel"

ASSUME NPROCAssumption == NPROC \in Nat \ {0}
ASSUME NoneAssumption == None \notin CPU \cup Chan

Slot == 1..NPROC
NoSlot == 0          \* a null struct proc *
InitProc == 1        \* initproc, the first slot allocproc() finds

procstate == {"UNUSED", "USED", "SLEEPING", "RUNNABLE", "RUNNING", "ZOMBIE"}

VARIABLES
  state,   \* p->state
  chan,    \* p->chan
  plock,   \* the cpu that holds p->lock, or None
  cproc,   \* c->proc
  on,      \* whose kernel stack the cpu executes on; NoSlot: the scheduler's
  scan,    \* the loop variable p of scheduler()
  found    \* the local of the same name in scheduler()

cpuVars == <<cproc, on, scan, found>>
schedVars == <<state, chan, plock, cproc, on, scan, found>>

SchedTypeOK ==
  /\ state \in [Slot -> procstate]
  /\ chan \in [Slot -> Chan \cup {None}]
  /\ plock \in [Slot -> CPU \cup {None}]
  /\ cproc \in [CPU -> Slot \cup {NoSlot}]
  /\ on \in [CPU -> Slot \cup {NoSlot}]
  /\ scan \in [CPU -> 1..(NPROC + 1)]
  /\ found \in [CPU -> BOOLEAN]

(* userinit() has made one process; every cpu enters scheduler(). *)
SchedInit ==
  /\ state = [s \in Slot |-> IF s = InitProc THEN "RUNNABLE" ELSE "UNUSED"]
  /\ chan = [s \in Slot |-> None]
  /\ plock = [s \in Slot |-> None]
  /\ cproc = [c \in CPU |-> NoSlot]
  /\ on = [c \in CPU |-> NoSlot]
  /\ scan = [c \in CPU |-> 1]
  /\ found = [c \in CPU |-> FALSE]

-----------------------------------------------------------------------------
(* The scheduler's thread. *)

InScheduler(c) == on[c] = NoSlot /\ cproc[c] = NoSlot
SwitchedBack(c) == on[c] = NoSlot /\ cproc[c] # NoSlot

(* A slot that is not RUNNABLE is passed over. *)
SchedSkip(c) ==
  /\ InScheduler(c)
  /\ scan[c] \in Slot
  /\ plock[scan[c]] = None
  /\ state[scan[c]] # "RUNNABLE"
  /\ scan' = [scan EXCEPT ![c] = @ + 1]
  /\ UNCHANGED <<state, chan, plock, cproc, on, found>>

(* Wrong: starts over at proc[0] after a process has run. *)
SchedBackRestart(c) ==
  /\ SwitchedBack(c)
  /\ plock' = [plock EXCEPT ![scan[c]] = None]
  /\ cproc' = [cproc EXCEPT ![c] = NoSlot]
  /\ found' = [found EXCEPT ![c] = TRUE]
  /\ scan' = [scan EXCEPT ![c] = 1]
  /\ UNCHANGED <<state, chan, on>>

(* swtch() to the chosen process, its lock still held. *)
SchedRun(c) ==
  /\ InScheduler(c)
  /\ scan[c] \in Slot
  /\ plock[scan[c]] = None
  /\ state[scan[c]] = "RUNNABLE"
  /\ state' = [state EXCEPT ![scan[c]] = "RUNNING"]
  /\ plock' = [plock EXCEPT ![scan[c]] = c]
  /\ cproc' = [cproc EXCEPT ![c] = scan[c]]
  /\ on' = [on EXCEPT ![c] = scan[c]]
  /\ UNCHANGED <<chan, scan, found>>

(* The process has come back: the scheduler releases the lock it took. *)
SchedBack(c) ==
  /\ SwitchedBack(c)
  /\ plock' = [plock EXCEPT ![scan[c]] = None]
  /\ cproc' = [cproc EXCEPT ![c] = NoSlot]
  /\ found' = [found EXCEPT ![c] = TRUE]
  /\ scan' = [scan EXCEPT ![c] = @ + 1]
  /\ UNCHANGED <<state, chan, on>>

ScanOver(c) == InScheduler(c) /\ scan[c] = NPROC + 1

NewScan(c) ==
  /\ scan' = [scan EXCEPT ![c] = 1]
  /\ found' = [found EXCEPT ![c] = FALSE]
  /\ UNCHANGED <<state, chan, plock, cproc, on>>

SchedAgain(c) == ScanOver(c) /\ found[c] /\ NewScan(c)

(* Nothing ran: the cpu sits in wfi until an interrupt. *)
Wfi(c) == ScanOver(c) /\ ~found[c] /\ NewScan(c)

-----------------------------------------------------------------------------
(* A process and its side of the switch. *)

(* The process executes and is in neither of its two lock hand-overs. *)
Runs(c, s) == on[c] = s /\ s \in Slot /\ plock[s] # c

(* Wrong: the process releases its lock before swtch(). *)
SwtchUnlocked(c) ==
  /\ on[c] \in Slot
  /\ plock[on[c]] = c
  /\ state[on[c]] # "RUNNING"
  /\ on' = [on EXCEPT ![c] = NoSlot]
  /\ plock' = [plock EXCEPT ![on[c]] = None]
  /\ UNCHANGED <<state, chan, cproc, scan, found>>

(* sched(): the process holds its lock and is no longer RUNNING. *)
Swtch(c) ==
  /\ on[c] \in Slot
  /\ plock[on[c]] = c
  /\ state[on[c]] # "RUNNING"
  /\ on' = [on EXCEPT ![c] = NoSlot]
  /\ UNCHANGED <<state, chan, plock, cproc, scan, found>>

(* Back from swtch() in yield(), sleep() or forkret(). *)
Resume(c) ==
  /\ on[c] \in Slot
  /\ plock[on[c]] = c
  /\ state[on[c]] = "RUNNING"
  /\ chan' = [chan EXCEPT ![on[c]] = None]
  /\ plock' = [plock EXCEPT ![on[c]] = None]
  /\ UNCHANGED <<state, cproc, on, scan, found>>

(* Wrong: releases p->lock before the switch to the scheduler. *)
EnterSchedUnlocked(c, s, st) ==
  /\ Runs(c, s)
  /\ plock[s] = None
  /\ state' = [state EXCEPT ![s] = st]
  /\ UNCHANGED <<plock, cpuVars>>

(* Take the own lock, leave RUNNING for st, and enter sched(). *)
EnterSched(c, s, st) ==
  /\ Runs(c, s)
  /\ plock[s] = None
  /\ state' = [state EXCEPT ![s] = st]
  /\ plock' = [plock EXCEPT ![s] = c]
  /\ UNCHANGED cpuVars

Yield(c, s) == EnterSched(c, s, "RUNNABLE") /\ UNCHANGED chan
Sleep(c, s, ch) == EnterSched(c, s, "SLEEPING") /\ chan' = [chan EXCEPT ![s] = ch]
Die(c, s) == EnterSched(c, s, "ZOMBIE") /\ UNCHANGED chan

(* A running process changes the state of another slot under its lock. *)
SetState(t, st) ==
  /\ plock[t] = None
  /\ state' = [state EXCEPT ![t] = st]
  /\ UNCHANGED <<plock, cpuVars>>

Alloc(t) == state[t] = "UNUSED" /\ SetState(t, "USED") /\ UNCHANGED chan
Ready(t) == state[t] = "USED" /\ SetState(t, "RUNNABLE") /\ UNCHANGED chan
Free(t) == /\ state[t] = "ZOMBIE"
           /\ SetState(t, "UNUSED")
           /\ chan' = [chan EXCEPT ![t] = None]
Wake(t) == state[t] = "SLEEPING" /\ SetState(t, "RUNNABLE") /\ UNCHANGED chan

ProcessStep(c, s) ==
  \/ Yield(c, s)
  \/ \E ch \in Chan : Sleep(c, s, ch)
  \/ s # InitProc /\ Die(c, s)
  \/ Runs(c, s) /\ \E t \in Slot \ {s} : Alloc(t) \/ Ready(t) \/ Free(t) \/ Wake(t)

SchedulerStep(c) ==
  SchedSkip(c) \/ SchedRun(c) \/ SchedBack(c) \/ SchedAgain(c)

SchedNext ==
  \E c \in CPU :
     \/ SchedulerStep(c) \/ Wfi(c) \/ Swtch(c) \/ Resume(c)
     \/ \E s \in Slot : ProcessStep(c, s)

SchedSpec == SchedInit /\ [][SchedNext]_schedVars

(* A cpu executes its instructions, and the clock interrupts every hart again
   and again: it ends a wfi and makes a running process yield (usertrap(),
   kerneltrap()).  Nothing is assumed of what processes do by themselves. *)
SchedFairness ==
  \A c \in CPU :
     /\ WF_schedVars(SchedulerStep(c) \/ Swtch(c) \/ Resume(c))
     /\ WF_schedVars(Wfi(c))
     /\ \A s \in Slot : WF_schedVars(Yield(c, s))

SchedFairSpec == SchedSpec /\ SchedFairness

-----------------------------------------------------------------------------
(* Two cpus never execute on the same kernel stack: p->lock is held from the
   moment a process gives up its state until the scheduler is off its stack
   (proc.c, sched and scheduler; "Still holding p->lock from scheduler"). *)
OneStack == \A c, d \in CPU : c # d /\ on[c] = on[d] => on[c] = NoSlot

(* A process that is not RUNNING and whose lock is free is no cpu's current
   process, so its saved context is complete and its slot may be scheduled,
   freed or reused (kwait: "make sure the child isn't still in exit() or
   swtch()"). *)
ContextSaved ==
  \A s \in Slot : plock[s] = None /\ state[s] # "RUNNING" =>
     \A c \in CPU : cproc[c] # s

(* A RUNNING process is the current process of some cpu: no step changes the
   state of a slot under another's feet or leaves one RUNNING behind. *)
RunningIsCurrent ==
  \A s \in Slot : state[s] = "RUNNING" => \E c \in CPU : cproc[c] = s

(* The scheduler's round robin starves nobody: a RUNNABLE process is run,
   even if the others never block (scheduler() goes on at the next slot when
   a process comes back, whatever happened to the earlier slots). *)
RunnableRuns ==
  \A s \in Slot : (state[s] = "RUNNABLE") ~> (state[s] = "RUNNING")
=============================================================================
