-------------------------------- MODULE Pipe --------------------------------
(***************************************************************************)
(* A pipe (kernel/pipe.c) between processes that share its two ends.  The  *)
(* loops of pipewrite() and piperead() take one step per byte, with        *)
(* pi->lock held; kill() needs no pi->lock and comes between any two.      *)
(* sleep() and wakeup() are those of Sched: pi->lock is given up in the    *)
(* step that goes to sleep.                                                *)
(*                                                                         *)
(* A process closes its descriptor outside its calls, so the count of open *)
(* descriptors (struct file's ref) is the number of processes that hold    *)
(* one, and the last close() of an end calls pipeclose().                  *)
(***************************************************************************)
EXTENDS Integers, FiniteSets, Sequences

CONSTANTS Reader, Writer,   \* the processes with a read, a write descriptor
          Byte, None,
          PIPESIZE,
          Wrap,             \* 2^32: nread and nwrite are uint
          MaxN,             \* bound: the most bytes a call asks for
          Kills             \* the processes that may be killed

ASSUME SizeAssumption ==
  /\ PIPESIZE \in Nat \ {0} /\ MaxN \in Nat
  /\ Wrap \in Nat /\ Wrap % PIPESIZE = 0 /\ Wrap > PIPESIZE
ASSUME RoleAssumption ==
  /\ Reader # {} /\ Writer # {}      \* pipealloc() makes a descriptor of each end
  /\ Reader \cap Writer = {} /\ None \notin Reader \cup Writer

Proc == Reader \cup Writer

VARIABLES
  data, nread, nwrite, readopen, writeopen,   \* struct pipe
  lock,     \* the process that holds pi->lock, or None
  freed,    \* kfree(pi) has been called
  pc,       \* where a process is
  n, i,     \* the argument and the loop variable of its call
  killed

pipeVars == <<data, nread, nwrite, readopen, writeopen>>
callVars == <<n, i>>
vars == <<pipeVars, lock, freed, pc, callVars, killed>>

(* "gone": the process has closed its descriptor. *)
Labels == {"idle", "gone", "acquire", "loop", "tosleep", "asleep", "copy", "done"}

TypeOK ==
  /\ data \in [0..(PIPESIZE - 1) -> Byte]
  /\ nread \in 0..(Wrap - 1) /\ nwrite \in 0..(Wrap - 1)
  /\ readopen \in BOOLEAN /\ writeopen \in BOOLEAN
  /\ lock \in Proc \cup {None}
  /\ freed \in BOOLEAN
  /\ pc \in [Proc -> Labels]
  /\ n \in [Proc -> 0..MaxN]
  /\ i \in [Proc -> -1..MaxN]
  /\ killed \in [Proc -> BOOLEAN]

Init ==
  /\ data \in {[k \in 0..(PIPESIZE - 1) |-> b] : b \in Byte}
  /\ nread = 0 /\ nwrite = 0
  /\ readopen = TRUE /\ writeopen = TRUE
  /\ lock = None /\ freed = FALSE
  /\ pc = [p \in Proc |-> "idle"]
  /\ n = [p \in Proc |-> 0] /\ i = [p \in Proc |-> 0]
  /\ killed = [p \in Proc |-> FALSE]

Empty == nread = nwrite

(* Wrong: room for one byte more. *)
FullOffByOne == nwrite = (nread + PIPESIZE + 1) % Wrap

Full == nwrite = (nread + PIPESIZE) % Wrap

At(p, l) == pc[p] = l
Go(p, l) == pc' = [pc EXCEPT ![p] = l]

(* wakeup() of the sleepers among ps by p, which then goes to l. *)
WakeupAnd(ps, p, l) ==
  pc' = [q \in Proc |-> IF q = p THEN l
                        ELSE IF q \in ps /\ pc[q] = "asleep" THEN "acquire" ELSE pc[q]]

Leave(p) == lock' = None /\ n' = [n EXCEPT ![p] = 0] /\ i' = [i EXCEPT ![p] = 0]

-----------------------------------------------------------------------------
(* Both calls *)

Call(p) ==
  /\ At(p, "idle") /\ ~killed[p]
  /\ \E k \in 1..MaxN : n' = [n EXCEPT ![p] = k]
  /\ Go(p, "acquire")
  /\ UNCHANGED <<pipeVars, lock, freed, i, killed>>

(* At the start of a call, and at the end of sleep(). *)
Acquire(p) ==
  /\ At(p, "acquire") /\ lock = None
  /\ lock' = p
  /\ Go(p, "loop")
  /\ UNCHANGED <<pipeVars, freed, callVars, killed>>

(* A full pipe wakes the readers before the writer sleeps on nwrite. *)
Sleep(p) ==
  /\ At(p, "tosleep")
  /\ WakeupAnd(IF p \in Writer THEN Reader ELSE {}, p, "asleep")
  /\ lock' = None
  /\ UNCHANGED <<pipeVars, freed, callVars, killed>>

-----------------------------------------------------------------------------
(* pipewrite() *)

WriteFails(p) ==
  /\ p \in Writer /\ At(p, "loop") /\ i[p] < n[p]
  /\ ~readopen \/ killed[p]
  /\ Leave(p) /\ Go(p, "idle")
  /\ UNCHANGED <<pipeVars, freed, killed>>

WriteFull(p) ==
  /\ p \in Writer /\ At(p, "loop") /\ i[p] < n[p]
  /\ readopen /\ ~killed[p] /\ Full
  /\ Go(p, "tosleep")
  /\ UNCHANGED <<pipeVars, lock, freed, callVars, killed>>

(* The test of killed() and the copy of one byte. *)
WriteByte(p) ==
  /\ p \in Writer /\ At(p, "loop") /\ i[p] < n[p]
  /\ readopen /\ ~killed[p] /\ ~Full
  /\ \E b \in Byte : data' = [data EXCEPT ![nwrite % PIPESIZE] = b]
  /\ nwrite' = (nwrite + 1) % Wrap
  /\ i' = [i EXCEPT ![p] = @ + 1]
  /\ UNCHANGED <<nread, readopen, writeopen, lock, freed, pc, n, killed>>

(* copyin() fails: what has been written stays. *)
WriteBadAddr(p) ==
  /\ p \in Writer /\ At(p, "loop") /\ i[p] < n[p]
  /\ readopen /\ ~killed[p] /\ ~Full
  /\ Go(p, "done")
  /\ UNCHANGED <<pipeVars, lock, freed, callVars, killed>>

WriteAll(p) ==
  /\ p \in Writer /\ At(p, "loop") /\ i[p] = n[p]
  /\ Go(p, "done")
  /\ UNCHANGED <<pipeVars, lock, freed, callVars, killed>>

(* Wrong: the readers are not woken. *)
WriteReturnQuiet(p) ==
  /\ p \in Writer /\ At(p, "done")
  /\ Go(p, "idle")
  /\ Leave(p)
  /\ UNCHANGED <<pipeVars, freed, killed>>

WriteReturn(p) ==
  /\ p \in Writer /\ At(p, "done")
  /\ WakeupAnd(Reader, p, "idle")
  /\ Leave(p)
  /\ UNCHANGED <<pipeVars, freed, killed>>

-----------------------------------------------------------------------------
(* piperead() *)

ReadKilled(p) ==
  /\ p \in Reader /\ At(p, "loop") /\ Empty /\ writeopen /\ killed[p]
  /\ Leave(p) /\ Go(p, "idle")
  /\ UNCHANGED <<pipeVars, freed, killed>>

ReadEmpty(p) ==
  /\ p \in Reader /\ At(p, "loop") /\ Empty /\ writeopen /\ ~killed[p]
  /\ Go(p, "tosleep")
  /\ UNCHANGED <<pipeVars, lock, freed, callVars, killed>>

ReadStart(p) ==
  /\ p \in Reader /\ At(p, "loop") /\ ~(Empty /\ writeopen)
  /\ Go(p, "copy")
  /\ UNCHANGED <<pipeVars, lock, freed, callVars, killed>>

ReadByte(p) ==
  /\ At(p, "copy") /\ i[p] < n[p] /\ ~Empty
  /\ nread' = (nread + 1) % Wrap
  /\ i' = [i EXCEPT ![p] = @ + 1]
  /\ UNCHANGED <<data, nwrite, readopen, writeopen, lock, freed, pc, n, killed>>

(* copyout() fails: the byte stays in the pipe. *)
ReadBadAddr(p) ==
  /\ At(p, "copy") /\ i[p] < n[p] /\ ~Empty
  /\ i' = [i EXCEPT ![p] = IF @ = 0 THEN -1 ELSE @]
  /\ Go(p, "done")
  /\ UNCHANGED <<pipeVars, lock, freed, n, killed>>

ReadAll(p) ==
  /\ At(p, "copy")
  /\ i[p] = n[p] \/ Empty
  /\ Go(p, "done")
  /\ UNCHANGED <<pipeVars, lock, freed, callVars, killed>>

ReadReturn(p) ==
  /\ p \in Reader /\ At(p, "done")
  /\ WakeupAnd(Writer, p, "idle")
  /\ Leave(p)
  /\ UNCHANGED <<pipeVars, freed, killed>>

-----------------------------------------------------------------------------
(* close(), or exit(), of a process; the last of an end runs pipeclose(). *)

Others(p, ps) == {q \in ps \ {p} : pc[q] # "gone"}

CloseShared(p) ==
  /\ At(p, "idle")
  /\ Others(p, IF p \in Writer THEN Writer ELSE Reader) # {}
  /\ Go(p, "gone")
  /\ UNCHANGED <<pipeVars, lock, freed, callVars, killed>>

(* Wrong: frees the pipe when only its read end is closed. *)
PipecloseEarly(p) ==
  /\ At(p, "idle") /\ lock = None
  /\ Others(p, IF p \in Writer THEN Writer ELSE Reader) = {}
  /\ IF p \in Writer
     THEN writeopen' = FALSE /\ UNCHANGED readopen /\ WakeupAnd(Reader, p, "gone")
     ELSE readopen' = FALSE /\ UNCHANGED writeopen /\ WakeupAnd(Writer, p, "gone")
  /\ freed' = (freed \/ ~readopen')
  /\ UNCHANGED <<data, nread, nwrite, lock, callVars, killed>>

(* Wrong: the other end is not woken. *)
PipecloseQuiet(p) ==
  /\ At(p, "idle") /\ lock = None
  /\ Others(p, IF p \in Writer THEN Writer ELSE Reader) = {}
  /\ IF p \in Writer
     THEN writeopen' = FALSE /\ UNCHANGED readopen
     ELSE readopen' = FALSE /\ UNCHANGED writeopen
  /\ Go(p, "gone")
  /\ freed' = (freed \/ (~readopen' /\ ~writeopen'))
  /\ UNCHANGED <<data, nread, nwrite, lock, callVars, killed>>

Pipeclose(p) ==
  /\ At(p, "idle") /\ lock = None
  /\ Others(p, IF p \in Writer THEN Writer ELSE Reader) = {}
  /\ IF p \in Writer
     THEN writeopen' = FALSE /\ UNCHANGED readopen /\ WakeupAnd(Reader, p, "gone")
     ELSE readopen' = FALSE /\ UNCHANGED writeopen /\ WakeupAnd(Writer, p, "gone")
  /\ freed' = (freed \/ (~readopen' /\ ~writeopen'))
  /\ UNCHANGED <<data, nread, nwrite, lock, callVars, killed>>

(* kkill() *)
Kill(p) ==
  /\ p \in Kills /\ pc[p] # "gone" /\ ~killed[p]
  /\ killed' = [killed EXCEPT ![p] = TRUE]
  /\ pc' = [pc EXCEPT ![p] = IF @ = "asleep" THEN "acquire" ELSE @]
  /\ UNCHANGED <<pipeVars, lock, freed, callVars>>

-----------------------------------------------------------------------------
Write(p) ==
  \/ WriteFails(p) \/ WriteFull(p) \/ WriteByte(p) \/ WriteBadAddr(p) \/ WriteAll(p) \/ WriteReturn(p)
Read(p) ==
  \/ ReadKilled(p) \/ ReadEmpty(p) \/ ReadStart(p) \/ ReadByte(p) \/ ReadBadAddr(p) \/ ReadAll(p)
  \/ ReadReturn(p)
Run(p) == Acquire(p) \/ Sleep(p) \/ Write(p) \/ Read(p)
CloseAny(p) == CloseShared(p) \/ Pipeclose(p)

Next == \E p \in Proc : Call(p) \/ Run(p) \/ CloseAny(p) \/ Kill(p)

Spec == Init /\ [][Next]_vars

(* On one CPU a process in a call gets on, and finds pi->lock free: it is held
   with interrupts off.  Nobody has to call, to close, or to kill. *)
FairSpec == Spec /\ \A p \in Proc : WF_vars(Run(p)) /\ SF_vars(Acquire(p))

-----------------------------------------------------------------------------
Q == INSTANCE ByteQueue WITH
       queue <- [k \in 1..((nwrite - nread) % Wrap) |-> data[(nread + k - 1) % PIPESIZE]],
       Capacity <- PIPESIZE

(* The ring of pipewrite() and piperead() implements a bounded first-in
   first-out queue, across the wrap-around of nread and nwrite: no byte is
   lost, read twice, overwritten or put into a pipe nobody can read. *)
Fifo == Q!AbsSpec

(* While pi->lock is free, a process sleeps in piperead() only on an empty pipe
   that can still be written, and in pipewrite() only on a full pipe that can
   still be read: no order of reads, writes and closes loses a wakeup. *)
NoLostWakeup ==
  lock = None =>
    /\ \A p \in Reader : pc[p] = "asleep" => Empty /\ writeopen
    /\ \A p \in Writer : pc[p] = "asleep" => Full /\ readopen

(* pipeclose() frees the pipe with the last descriptor of either end, and not
   before: nobody uses a freed pipe and none is leaked. *)
FreedWithTheLast == freed <=> \A p \in Proc : pc[p] = "gone"

(* Once every descriptor of the other end is closed, a call returns: a reader
   gets its end-of-file and a writer its error, though asleep when the last
   close came. *)
EndOfFile ==
  /\ \A p \in Reader : ~writeopen /\ ~At(p, "gone") ~> pc[p] \in {"idle", "gone"}
  /\ \A p \in Writer : ~readopen /\ ~At(p, "gone") ~> pc[p] \in {"idle", "gone"}

==============================================================================
