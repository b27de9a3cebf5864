# A TLA+ development of the xv6 kernel

This directory specifies, model-checks and proves parts of the xv6-riscv kernel
kept in this repository, and the shell that runs on it. The repository holds the
kernel twice: `src/G12_Project1_xv6CustomizeSystemCalls` adds the system calls
`getprocsinfo`, `getppid` and `sleep2`; `src/G12_Project2_2` is the same kernel
without them (only `syscall.c`, `syscall.h`, `sysproc.c` and the user library
differ). All references below are to the first copy; what is said of every other
file holds of both.

## 1. Inventory

| part (kernel/) | state | operations | hard behaviour | what makes it correct |
|---|---|---|---|---|
| scheduler (`proc.c`, `swtch.S`) | `proc[].state`, `chan`, `lock`; `cpu.proc` | `scheduler`, `sched`, `yield`, `sleep`, `wakeup` | `p->lock` is handed over across `swtch`; several CPUs scan one table | one CPU per kernel stack; saved contexts; no starvation |
| processes (`proc.c`, `sysproc.c`, `trap.c`) | `parent`, `pid`, `killed`, `wait_lock`, `nextpid` | `fork`, `exit`, `wait`, `kill`, `getppid` | exit against wait, reparenting, kill against everything, slots used again | no lost exit, rooted tree, unique pids, zombies stay dead |
| log (`log.c`) | in-memory header, `outstanding`, `committing`; log blocks on disk | `begin_op`, `log_write`, `end_op`, commit, recovery | a crash at every write; absorption; reservation | transactions atomic and durable; no log overflow |
| pipes (`pipe.c`) | ring, counters, two open flags | `pipewrite`, `piperead`, `pipeclose` | full, empty, wrap-around, close or kill while asleep | FIFO, no lost wakeup, freed once |
| sleep-locks, buffer cache (`sleeplock.c`, `bio.c`) | `refcnt`, `valid`, LRU list | `bread`, `bwrite`, `brelse`, `bpin` | recycling against lookup, all buffers in use | one buffer per block, no use of a recycled one |
| disk driver (`virtio_disk.c`) | descriptors, two rings, `info[]` | `virtio_disk_rw`, `virtio_disk_intr` | completions out of order, descriptors run out half-way | each request answered once, each waiter woken |
| file contents (`fs.c`, `file.c`) | bitmap, block addresses, size, `f->off` | `readi`, `writei`, `filewrite`, `itrunc`, `balloc`, `bfree` | writes cut into transactions, full disk, freed blocks used again before a commit, crash | blocks owned once, each transaction fits, bytes in order |
| inodes, directories, paths (`fs.c`, `sysfile.c`) | inode table, `nlink`, entries | `open`, `mkdir`, `mknod`, `link`, `unlink`, `chdir`, `iput`, `namex`, `ireclaim` | unlink while open, crash with orphans, lookup upwards | link counts, a tree, references equal holders |
| files (`file.c`, `sysfile.c`) | `ref`, `ofile[]` | `open`, `dup`, `close`, `pipe`, fork, exit | last close against fork and dup, full tables | counts equal the references |
| memory (`vm.c`, `kalloc.c`, `exec.c`) | page tables, free list, `p->sz` | `sbrk`, `vmfault`, `fork`, `wait`, `kexec`, `copyin`, `copyout` | failure half way, lazy pages | pages owned once, private memories |
| clock (`trap.c`, `sysproc.c`) | `ticks`, `tickslock` | `clockintr`, `pause`, `sleep2`, `uptime` | wrap, negative arguments, kill | sleepers wake in time |
| console, uart (`console.c`, `uart.c`) | `r`, `w`, `e`; `tx_busy` | `consoleread`, `consolewrite`, `consoleintr`, `uartintr` | full line buffer, editing, two ways to transmit | no lost line, no lost interrupt |
| shell (`user/sh.c`) | a tree of processes, their descriptors | the parser, `runcmd` | descriptors by number, who waits for whom, errors | right inputs and outputs, every line ends |
| spinlocks (`spinlock.c`) | `locked`, `cpu`; `noff`, `intena` | `acquire`, `release`, `push_off`, `pop_off` | nesting, interrupts in critical sections | mutual exclusion, interrupts restored |

Components interact by calls under spinlocks (the order is `wait_lock` before
`p->lock`, and every sleeper's condition lock before `p->lock`), by
`sleep`/`wakeup` on channels, and through the disk: a system call of the file
system runs between `begin_op` and `end_op`, reads and writes buffers, and its
blocks reach the disk only by the log. `PROJECT.json` lists every component with
its state of modelling, and under `hazards` what is hard to test, by line.

## 2. The modules

| module | models | notes |
|---|---|---|
| `Sched` | scheduler loop, `sched`, `yield`, `sleep`, `wakeup`, every change of `p->state` | the protocol that processes must keep to |
| `Proc` (extends `Sched`) | `fork`, `exit`, `wait`, `kill`, `getppid`, `usertrap` | implements `Sched`: `PROPERTY SchedSpec` and a theorem |
| `AtomicDisk` / `Log` | `log.c` on cache and disk, with crashes | `Log` implements `AtomicDisk` (`CrashAtomic`) |
| `ByteQueue` / `Pipe` | `pipe.c` | `Pipe` implements `ByteQueue` (`Fifo`) |
| `VirtioDisk` | descriptors, rings, `virtio_disk_rw`, `virtio_disk_intr`, the device | |
| `BlockStore` / `BufCache` (extends `VirtioDisk`) | `bio.c`, `sleeplock.c`, and the callers in `fs.c` and `log.c` | implements `BlockStore` (`BlocksAreRegisters`) |
| `OpenFiles` / `FileBlocks` | bitmap, `bmap`, `itrunc`, `readi`, `writei`, `filewrite` | implements `OpenFiles` (`FilesSpec`) |
| `Inode`, `FileSys` (extends it) | inode table, directories, the system calls on names | |
| `PageTable`, `PrivateMemory` / `UserMemory` | free list, page tables; fork, exec, sbrk, faults | implements `PrivateMemory` (`MemorySpec`) |
| `LineQueue` / `Terminal`, `Clock`, `Devices` | console, uart; ticks; the two together | `Devices` implements `LineQueue` (`LineSpec`) |
| `FileTable`, `Shell`, `ShellSyntax`, `ShellMeaning` | open files and descriptors; `runcmd`; the parser; what a line means | the last two are recursive: for TLC only |
| `ProcProofs`, `DeviceProofs`, `PipeProofs`, `LogProofs`, `CacheProofs`, `FileProofs`, `NameProofs`, `MemProofs` | theorems | section 5; the scheduler's are in `ProcProofs` |
| `MC...` | constants, symmetry and views for TLC | |

The operator next to a definition that begins with "Wrong:" is a variant with a
plausible bug; the property named for it in `PROJECT.json` fails with it.

**Sched.** A process is whatever keeps to the rules of `sched()`. A critical
section that takes and releases one `p->lock` without a `swtch` in between is
one step, enabled when the lock is free. The lock is a variable (`plock`: the
holding CPU) where it outlives a step: from `acquire` in `yield`, `sleep`, `exit`
to the `release` in `scheduler` (`EnterSched`, `Swtch`, `SchedBack`) and from the
`acquire` in `scheduler` to the `release` of the process (`SchedRun`, `Resume`).
`on[c]` is the kernel stack the CPU executes on, which is not `c->proc`: after
`Swtch` the scheduler is back on its own stack while `c->proc` still names the
process. `scan` and `found` are the locals of `scheduler()`.

**Proc.** `pc[s]` says where in the kernel a process is. A loop over the table
takes one step per slot, since other processes act between two slots; `wait_lock`
is a variable. Labels at which the code holds no spinlock are `Preemptible`: the
clock may take the CPU away there and nowhere else. `arg`, `idx`, `widx`, `kids`
are the calls' locals. `init` makes the calls of `user/init.c`: fork and wait; one
that is killed stops at the panic in `kexit`. File descriptors and memory contents
are in modules of their own; memory may run out in `fork`.

**Log.** One block written per step, for `write_log`, `write_head` and
`install_trans`; `Crash` is enabled in every state, during recovery too. The
buffer cache is a copy per block (`cache`), pins, and `Evict`, which drops the
copy of an unpinned block at any time: `BlockStore` says why that is enough.
`log_write` happens under the buffer's sleep-lock, so a change of the buffer and
its `log_write` are one step. The refinement mapping takes as durable what recovery
would restore: the home blocks overlaid with the log's data for the blocks named in
the header on the disk. A panic is not an action: it is a state in which the
negation of the panic's test, which is the step's guard, is false; `NoLogPanic` says
that none is reached.

**Pipe.** One byte per step, under `pi->lock`; a kill needs no `pi->lock` and may
come between any two steps. A descriptor is held by each process that has not
closed it, so the file's reference count is the number of these; the last `close`
of an end runs `pipeclose`. `Wrap` stands for 2^32. `copyin` and `copyout` may
fail at each byte.

**VirtioDisk, BufCache.** A process holds `vdisk_lock` from `acquire` to `sleep` in
one step; the interrupt handler holds it across steps, one per completion, and the
device may append to the used ring meanwhile. `BufCache` is `bget` in two steps,
with the table searched under `bcache.lock` and the sleep-lock taken after, the LRU
list, and callers that read a block, write it, pin it as `log_write` does, or
install it. Each process holds one buffer at a time. The panic "no buffers" is an
action, after which nobody gets past `bcache.lock`. The abstract block of
`BlockStore` is the cached copy if there is a valid one, and otherwise what the
disk holds.

**Inode, FileSys.** A step goes from one `ilock` to the next: all it changes is
under that sleep-lock, a spinlock or a buffer's lock. `lock` is a variable for the
one lock that is held while waiting for another (unlink's directory). `fd` is one
open file a process, `cwd` its directory, `ip`, `dp`, `old` the references its call
holds. Directory entries are functions from names; the log is the copy `com` of the
last commit, to which a crash goes back, and `Ireclaim` is the loop over orphans.
A full inode table and a full descriptor table make calls fail at every place the
code handles.

**FileBlocks.** A step is what a process does with one buffer locked; `ip->lock` is
a variable, since a write keeps it over many buffers. A chunk of `filewrite` is
a transaction, and a commit comes when the last transaction under way ends. With
`BPB` = 1 every block has a bitmap block of its own, the worst case that
`filewrite`'s formula allows for. `logged` is what a transaction has given to
`log_write`; `seen` is a history variable, a file's bytes when its lock was last
free, which is the abstract content. A copy from user space that fails does so
before the first byte of a block: `writei` does not log what `either_copyin` copied
before it failed (`fs.c:545`), a defect noted under `hazards`.

**PageTable, UserMemory.** Operators on a memory: a failing step sets `ok` and the ones
after it are skipped (`Then`, `Else`). A call is one step, for page tables are private to a
process and `kmem.lock` is held for one page only: two calls that run together do what one
after the other would, but for which of them runs out. `exec` sleeps while it reads a
segment, so it is a step per segment. The loops of `uvmalloc` and `uvmcopy` are functions of
the page they have come to; a buffer goes over one page boundary, with a round for each
page. A page holds one value. `Init` has pages enough for the first process, for `userinit`
does not look. `sbrk` below zero wraps (`WORD`): `growproc` then shrinks nothing and reports
success (`proc.c:234`). The abstract memory of a process is its pages up to `sz`, a missing
one being zeros.

**Terminal, Clock, Devices.** Bytes to the transmitter are counted, not kept; a
received character is counted and gets its value when the handler takes it, which
gives the same behaviours. `cons.lock` is a variable, for the handler spins on the
transmitter with it. `printf` puts bytes in between without `tx_lock`. A reader's
copy may fail, and the byte is lost (`console.c:119`); `LineQueue` allows for it.
In `Clock` the argument of `sleep2` is taken modulo 2^32 (`TickWrap`), as the
unsigned comparison does, and `pause` clamps it. `Devices` interleaves the two.

**FileTable, Shell, ShellSyntax, ShellMeaning.** `FileTable` is operators on the tables
of files, descriptors and pipes; `Shell` gives each process a list of the calls it has
yet to make, which `runcmd` extends. Two further entries of a process's descriptors, `Rf` and
`Wf`, are the pointers to files that `sys_open` and `sys_pipe` have on the kernel's stack.
`pipe` takes a step for the first file, the second, the page and the descriptors (`PipeFirst`
to `PipeFds`); each may fail, the page at any time, for others use memory too. What failed
then closes what it still holds, one file a step (`UndoStep`): in `pipealloc` after `bad:`,
and in `sys_pipe` once it has cleared the descriptors it has given. `open` without a free
descriptor closes its file in the same way. `place` says where in such a call a process is.
`fileclose` runs `pipeclose` after it has let go of `ftable.lock`; here that is one step. A
program of `Grind` makes any `NCALLS` calls of close, dup, fork, open and pipe, good address
or bad, as `user/grind.c` does. What the parser makes of a line and by which programs
a pipe is known are constants of `Shell`, so that it can be proved about; `ShellSyntax` and
`ShellMeaning` define them, and the run `shell` gives them their values. The parser works
on tokens and is evaluated when a line is read: `ShellInit` takes every line of the run,
and a wrong parse shows as a program with the wrong wires. `Wires` and `Before` say what a
command means, independently of descriptors. `fork`, `exit` and `wait` are single steps
here: `Proc` has their detail. With several redirections of one side the outermost is
performed first and the one written first wins. `cd`, empty lines and the prompt are left
out.

## 3. The runs

| run | instance | states | what it shows |
|---|---|---|---|
| `proc` | 3 slots, 2 CPUs, 3 pids; fork, exit, wait, kill, getppid | 1.3 M | `PidUnique`, `NoLostExit`, `ZombieStaysDead`, `ParentAlive`, `OneStack`, `ContextSaved`; refinement of `Sched` |
| `proc_live` | 3 slots, 1 CPU; fork, wait, kill, faults | 53 k | `WaitReturns`, `KilledExits`, `RunnableRuns` under fairness |
| `log_crash` | 3 processes, 3 blocks, 2 values | 74 k | `CrashAtomic`: the log implements `AtomicDisk`; `PinsMatch` |
| `log_live` | 3 processes, 5 blocks, a log of two transactions | 74 k | `NoLogPanic`, `SleeperWoken` |
| `pipe` | 2 writers, 1 reader, 2-byte ring, counters mod 4 | 91 k | `Fifo`, `NoLostWakeup`, `FreedWithTheLast`, `EndOfFile` |
| `disk` | 3 processes, 3 buffers, 4 blocks, 7 descriptors | 455 k | `BlocksAreRegisters`, `DescriptorsConserved`, `AnswersMatchRequests`, `NobodySleepsInVain` |
| `files` | 2 processes, 2 files, 3 open files (one shared), 5 blocks, 3 calls, 1 crash | 1.2 M | `FilesSpec`, `BlocksOwnedOnce`, `TransactionFits` |
| `fs` | 2 processes, 3 inodes, 2 names, 13 calls, 1 crash | 1.9 M | `NoPanic`, `RefsAreHolders`, `Consistent`, `NoOrphan`, `NoCircularWait` |
| `mem` | 2 processes, 17 pages, tables of 2 entries a level | 71 k | `MemorySpec`, `PagesOwnedOnce`, `NoPanic` |
| `dev` | 1 reader, 1 writer, a line of 2, indices mod 4; 2 sleepers, ticks mod 4 | 1.4 M | `LineSpec`, `WaitsForDevice`, `OnTime` |
| `shell` | 11 lines, 6 processes, 5 files, 5 descriptors, 3 pages, pipes of 1 byte, 2 calls of any kind | 109 k | `FilesCounted`, `Wired`, `OneAfterTheOther`, `LineEnds` |
| `fs_rmdir` | as `fs`, busy directories may be removed | | **violated**: `NoPanic` |

*Why the bounds are enough.* Two CPUs are needed for any hand-over to go wrong,
and the interesting races are between two of them; three slots give a parent, a
child and a third party that kills, forks or exits, and with three pids a slot is
used again. Liveness is checked on one CPU, where the fairness can be justified;
there a process exits because of a fault or a kill, by the same `kexit`. In the
log, two transactions run together while a third waits, every block can be absorbed,
and the log comes as near to full as the reservation lets it (it is full only with the
off-by-one variant of `begin_op`; `LogNoPanic` is proved for any size). The pipe's counters wrap after four bytes, so the ring wraps
several times; `Wrap` must be a multiple of `PIPESIZE` (2^32 and 512 are), and
likewise for the console. Seven descriptors make two chains, with one left over, so
that the third request fails half-way through its chain; three buffers for three
processes and four blocks make every lookup recycle, and pins make "no buffers" happen.
In `files`, `MAXOPBLOCKS` = 6 is the least value for which `filewrite` makes progress,
and the chunk is then tight; files have a direct and two indirect blocks, a write of 3
bytes is two transactions that straddle blocks, and five blocks hold one full file and
not two. `itrunc` fits a transaction here because a file has three data blocks; in the
real system because the bitmap of 2000 blocks is one block. In `fs`, one file that is
linked twice, one directory and the root cover the ways in which two calls meet; the
full inode table makes `ialloc` fail. In `mem`, two tables of the least size, an
`exec` and a `fork` need more than 17 pages, so that memory runs out in
the middle of each call that allocates. The sizes of `shell` are such that
some line exhausts them: with five files either file of a third pipe is missing, with five
descriptors either of a pipe's two, and the page or a good address may be missing at any time;
two calls are a fork, dup or open and a call that fails behind it. Five files are never three
pipes, so that three pages are enough.

*Symmetry and views.* CPUs, processes, blocks and buffers are permuted where the
run has no liveness property. `mem` leaves out which page is where: pages are alike
as long as `PagesOwnedOnce`, which is part of the view. (Its view ends with a
comparison that is always true and makes TLC evaluate the functions of a state
before it stores them.) `dev` leaves out the buffer's slots outside `r` to `e`, and
its constraint `Apart` lets the clock move while the terminal stands still, and the
other way round: no step of one reads a variable of the other.

*Preconditions of passing runs.*
`NoLostWakeup` is checked with kills of the reader only, and `NoLogPanic` with
operations that write fewer than `MAXOPBLOCKS` distinct blocks (`OpBlocks`); see
below. In `fs`, `RmdirBusy` = FALSE: nobody removes a directory to which another
process has a reference. `OneAfterTheOther` promises nothing once a `fork`, `pipe` or
`open` has failed: the shell then gives up in the middle of a line.

### What does not hold

The run `fs_rmdir` drops its precondition: a process stays in `/b/b`, `/b/b`
is removed and then `/b`, and `chdir("..")` looks up the number of an inode that is
free: `ilock` panics (`fs.c:316`). In the same way a file made in a removed directory
has `nlink` 1 and no entry, against `fs.h:36`.

Other places where a definition of these modules does not hold, without a
run of its own:

* **kill(0)** (`proc.c:599`): a free slot's pid is 0, so `kill(0)` marks it killed
  and reports success; `allocproc` does not clear the mark and the next process
  forked there dies at its first trap. `ProcFreeSlotNotKilled` and
  `ProcKillHitsAProcess` are proved for `0 \notin KillPids`.
* **getppid** (`sysproc.c:131`): reads `p->parent` and its pid without
  `wait_lock`, against `proc.h:95`; between the two reads the parent can exit and be
  reaped, and 0 is returned (`GetppidReal` fails).
* **log_write** (`log.c:221`): tests for a full log before absorption, so a block
  that needs no space panics when the log is exactly full. Not reachable with
  today's system calls, whose transactions are smaller.
* **pipewrite** (`pipe.c:84`): a writer killed between two bytes returns without
  waking the readers it owes a wakeup.
* **kill against sleep** (`proc.c:407`): a kill that falls between `kwait`'s test of
  `killed(p)` and `sleep()` does not wake the victim, which sleeps on until a child
  exits; `KilledExits` leaves out processes in `wait()`. Sleepers in pipes, on
  the console and in `pause` have the same window.
* **writei** (`fs.c:545`): the bytes of a partial copy stay in the buffer unlogged.

## 4. Fairness

* `Sched`: weak fairness of a CPU's own steps (instructions go on), of `Wfi` and
  of `Yield` (each hart programs its next clock interrupt in `clockintr`). Nothing
  is assumed about processes. Of the runs, only those of `Proc` use it.
* `Proc` (one CPU): besides, strong fairness of `Preempt`, for an interrupt that
  is pending while interrupts are off is taken when they come on again, and of a
  process's own kernel steps, for a quantum (a tenth of a second) is far longer than
  a step and on one CPU nobody spins on a lock. Nobody has to make a call.
* `Log`: weak fairness of recovery, `begin_op`, `end_op` and the commit; none of
  `LogWrite` or `StartCall`. That `end_op` is reached is part of the assumption: a
  system call makes finitely many writes.
* `Pipe`: processes in a call go on, and find `pi->lock` free again and again: on
  one CPU it is held with interrupts off. Nobody has to call or to close.
* `Shell`: weak fairness of each process that can go on, which is `RunnableRuns`.

The other specifications assume no fairness; their properties are safety, with "no
one sleeps in vain" stated as an invariant (`NobodySleepsInVain`, `WaitsForDevice`,
`OnTime`, `NoCircularWait`).

## 5. The proofs

The proofs are checked by TLAPS for every value of the constants, under the
assumptions named in the modules: for processes, any `NPROC` > 0 and any set of CPUs,
channels and killed pids.

*The scheduler.* `OneStack` is not inductive: it needs to know who holds which lock.
`SchedInv` says that a CPU's stack is its current process's (`Current`), that a slot
is the current process of at most one CPU (`Exclusive`), and that the current
process of a CPU is either RUNNING on it with its lock free or in a hand-over with
its lock held by that CPU, every held lock being of this kind (`HandOver`), besides
`RunningIsCurrent`. One lemma per group of actions: `SchedulerInv` (loop and
switches), `EnterSchedInv` (yield, sleep, exit), `SetStateInv` (changes of other
slots). `SchedOneStack`, `SchedContextSaved` and `SchedRunningIsCurrent` follow.

*The processes.* `ProcImplementsSched` shows that each step of `Proc` is a step of
`Sched` or leaves its variables alone, so that all that is proved of `Sched` applies. It
needs an invariant of its own, `ProcInv`: the slot that a fork fills is USED and
belongs to that fork alone (`ForkOwns`), init never exits (`InitStays`: it panics),
and locals that index the table are in range (`LocalsInTable`). `ProcTypes` is type
correctness. `ProcPidUnique` adds that all pids are below `nextpid`.
`ProcFreeSlotNotKilled` assumes `0 \notin KillPids`, which `kill(0)` shows to be
needed, and uses the pids: what a kill hits has a pid and so is in use.

*exit against wait.* `NoLostExit` speaks only of the states in which `wait_lock` is
free; `ExitInv` says what holds inside its critical sections. One process is in
them, RUNNING (`HolderRuns`); `wait` has seen no zombie among its children up to
its loop variable (`ScanSeen`); `exit` has woken its parent once `wakeup` is past
the parent's slot (`ParentWoken`); and a sleeper that has a zombie child all the
same is init, with a `wakeup(initproc)` on its way that has yet to reach it
(`SleeperHasNoZombie`: `reparent` gives the child away first and wakes init after).
`LoopInv` adds that every loop over the table starts at its first slot, also in a
slot used again. A step outside the critical sections that creates no sleeper and
no zombie is `Harmless`; every other action has a lemma.

*The tree.* `TreeInv` shows that `ParentAlive` holds even while `wait_lock` is held.
It is inductive with two more parts: what `reparent` is past is no child of the
exiting process (`Past`), so nobody has a parent that becomes a ZOMBIE; and the
process that a fork fills is younger than the forking one and its child before it
is RUNNABLE (`ForkIsParent`). `ProcZombieStaysDead` follows from what `Sched` allows
a ZOMBIE; `ProcKillHitsAProcess` is an action property with the precondition of
`ProcFreeSlotNotKilled`.

*The devices.* `DeviceProofs` is about any sets of readers, writers and sleepers, and
any arguments and wraps. `OnTime` needs `HoldsTickslock`: a sleeper that has looked at
the clock keeps `tickslock` until it is asleep, so no tick falls in between. For
`WaitsForDevice` the parts are that a set `tx_busy` will be cleared (`BusyEnds`: the
transmitter is busy, its interrupt is due, or the handler is about to look), that a
writer sleeps only while it is set, and that a reader sleeps only while there is no
line. `printf` and the echo, which ignore `tx_busy`, keep `BusyEnds` since they fill the
transmitter. `DevicesImplementLines` is the refinement of `LineQueue`, for any size of
the buffer and any `Wrap` it divides. `RingInv` says that r, w and e follow each other on the
circle and lie no further apart than the buffer is long; `HandlerInv` that from the test
for space to the store the handler has `cons.lock`, so that the space is still there after
the echo, during which everything else moves. The end of a line joins two stretches of the
ring (`RingJoin`), `^H` takes one character off the second, and a character stored behind
them changes neither (`RingKeep`); a `^D` put back is no step of the queue.

*Open files.* The last part of `DeviceProofs` is about the shell at the console, for any
lines and any result of the parser, any programs and any sizes of the tables of files,
descriptors, pages and processes. `Good` says of the kernel's tables that nothing has panicked, that
every file's `ref` is the number of descriptors and pointers on a stack that name it
(`Counted`), that pages hold pipes with an end open (`PipesAre`), and that an end of a pipe is
open as long as one file is that end, and just one (`EndsAre`). `ShellInv` adds that a process
that does not run has nothing open, without which `fork` would overwrite descriptors of the
child that are still counted, and what a process holds in the middle of a call (`PlaceIs`):
`pipealloc` writes into two files that are counted once and have no type yet (`Fresh`). That
these stay so while others open and close is what each operator's lemma says besides `Good`:
it changes the descriptors of one process, and no file that another alone holds (`Frame`). The
lemmas come down to two: one slot changes, the file it named loses a count and the one it
names gains one (`CountsChange`), or a file moves from one slot to another (`MovesKeep`), which
is all that `fdalloc` and the clean-up of `sys_pipe` do until something is closed.
The loop of `kfork` is a recursive function of the descriptor it has come to; `GivingExists`
shows that there is one, and its rounds are proved by a least counterexample.

*Pipes.* `PipeProofs` is about any readers and writers (of each at least one), any
ring and any `Wrap` it divides. Every property speaks of the states in which
`pi->lock` is free, so the invariant `PipeInv` says what holds inside the calls: one
process holds the lock (`Holder`), the flags agree with the descriptors (`Ends`), and
a sleeper's condition holds but for the wakeup that the holder of the lock still
owes him (`WritersWait`, `ReadersWait`). A reader may besides sleep in vain
after a writer was killed; `PipeOnlyKillsLoseWakeups` says that this is the only way,
and `PipeNoLostWakeup` follows under `Kills \cap Writer = {}`, without which it is false
(`pipe.c:84`). For `PipeFifo` the ring's bytes are a sequence indexed modulo
`Wrap` and modulo `PIPESIZE`; lemmas about remainders show that adding at the end
and taking at the front change one byte, whether or not a counter wraps.

*The log.* `LogProofs` is about any finite set of processes, any blocks and any size
of the log. `LogInv`: transactions and commit exclude each other (`Phases`),
`outstanding` counts the transactions (`Counted`), the loops stay inside the log
(`Loops`), the header on disk is empty or that in memory (`Header`), and `Copies` says for
each block where its contents are at that point of commit or recovery: in the pinned
buffer, in the log, or at home. `LogPinsMatch` follows. `Space` is the reservation:
the length of the log, plus `MAXOPBLOCKS` for each open transaction, less what these
have written already (`Pairs` of transaction and block), is at most `LOGBLOCKS`; a block
absorbed costs nothing. `LogNoPanic` assumes `OpBlocks < MAXOPBLOCKS`, for the check
for a full log comes before absorption. `LogCrashAtomic` maps each step: the write
of the header on disk is the abstract commit, a crash loses what was not committed, and
all writes to the log and to the home blocks stutter.

*Cache and driver.* `CacheProofs` is about any finite sets of processes and buffers,
any blocks and `NUM` >= 3. `DriverInv`: who holds which buffer's lock (`Callers`),
where each sleeper is and that his condition fails (`Sleeping`), descriptors in disjoint
chains of three (`Chains`), and a one-to-one fit of requests, processes that wait, and
entries of the two rings (`Requests`). `CacheInv`: `refcnt` is the number of
users and the pin (`Counted`), a block has one buffer (`OneCopy`), who sees a valid
buffer (`Validity`), and a valid buffer that is not pinned and that nobody is about
to write equals the disk (`Synced`). Neither half is inductive alone: that nobody works
on a recycled buffer needs the counts, and that the device copies to and from the
right buffer needs `OneCopy`. In `CacheBlocksAreRegisters` a recycled buffer changes no
block's content because of `Synced`; `LockTake` of a valid buffer and `ReadDone` acquire,
the two stores write, `Unlock` releases, and every other step stutters.

*The content of files.* `FileProofs` is about any processes, files and open files, any
disk, block and inode sizes, and any sizes of calls. `FileInv`: who holds `ip->lock`, where
his call is, and that an inode in memory equals that on the disk while nobody holds it
(`Basic`); the owners of the blocks (`OwnedInv`); files have a block for every byte below
their size and below what a writer has got to (`NoHoles`); what a file held when its
lock was last free, against what its blocks hold (`Remembered`); and the blocks a
transaction under way may have logged (`LogFits`). `BlocksOwnedOnce` speaks of the last
commit only. To be inductive it is needed of the disk at every moment, where it is false:
`itrunc` frees blocks that the indirect block still names. So `Names` takes off
a file the places below `itrunc`'s `i` and `j`; a commit finds no file locked and none
taken off. That a copy changes its own file's bytes and no other's is where
`FilesImplementOpenFiles` needs `OwnedInv`, and that a new block holds none of the file's
bytes yet where it needs `NoHoles`. Each end of a chunk maps to `Write` of what was
copied, and all that happens to blocks under the lock stutters. `FilesTransactionFits`
is the arithmetic of `filewrite`'s comment: a chunk of m blocks' bytes lies in at most
m + 1 blocks, of which at most m can be new, for the first is the file's own if the chunk
starts inside it (`NoHoles` again); with as many bitmap blocks, the indirect block, its
bitmap block and the inode these are 2m + 4.

*Names.* `NameProofs` is about any finite set of processes, any inodes, names and
calls. `CallInv` says where a call is and which inodes it has; with it
`RefsAreHolders` is inductive, whatever directories are removed. The rest needs
`~RmdirBusy`, as `fs_rmdir` shows. `NodeInv`: the directories are a tree
(`Acyclic` says that in whatever set of directories one takes, one has no child in the
set, which needs no paths); an inode's links are the entries that name it and those that
`link()` has counted but not entered (`Linked`, `Pending`); which inodes are in use, and
how far `ireclaim` has got (`Life`); what the disk holds at a commit (`Committed`); who
has which lock (`LocksHeld`); and what a call has learnt that stays true while it waits
for the next `ilock` (`Knows`). The hard part is that wait: what `namex` has found may be
unlinked meanwhile, but is not freed, for the reference is counted; and a directory that
`unlink` removes has no reference but `unlink`'s own (`OwnRefs`), so nobody is
inside. `NamesNoPanic` and `NamesNoOrphan` follow from `Life`; `NamesConsistent` from
`Linked`, since a commit finds no call that has a link pending. For
`NamesNoCircularWait`, who waits with a lock holds a directory and waits for an entry of
it: calls waiting in a circle would give a set of directories each with a child in it.

*Memory.* `MemProofs` is about any numbers of processes and pages, any sizes of a page and a
page table, any programs and any arguments. `PagesOwnedOnce` speaks of the time between two
calls; the invariant `MemInv` must hold in the middle of one, where a page has been taken
from the free list and is in no table yet. So `Sound` says of a memory and a set `out` of
pages, which something else has, that these, the page-table pages and the mapped ones are
all different and the rest is on the free list once. Each operator has a lemma that says how
`out` changes: `Kalloc` adds a page, `Kfree`, an entry and a link of a page table each take
one off. Besides `Sound`, with `out` the trapframes and `exec`'s arguments, `MemInv` says
that no two processes have one of these in common (`Apart`), and what each process's tables
are (`ProcInv`): in use, one with trampoline and trapframe and nothing above `p->sz`; inside
`exec`, a second one of that kind; and otherwise none. That is what makes a failure half-way
go right: what `freewalk` tears down has no leaf left because nothing is mapped above the
size that `uvmfree` is given. `Space` is what there is to see of a table without the numbers
of pages, and all lemmas are equations between spaces: an operator changes the space of its
own table and leaves every other alone. The loops of `uvmalloc` and `uvmcopy` are proved by
a least counterexample: a set of numbers that is not empty has a least element, and the page
at which the loop first went wrong has one before it, from which one round leads to it. For
`MemImplements`, a process's abstract memory is its space up to `sz`; `sbrk` either way is
`Resized`, `copyout` and stores are `Written`, the last step of `exec` is `Executed`, `fork`
and `wait` are the other two actions, and faults, segments and whatever fails stutter. Three
facts carry it: a missing page reads as zeros before and after a fault, a new page is
zeroed, and `uvmcopy` skips missing pages, which the child then finds missing too.

*Assumptions on constants.* `RoleAssumption`, `ProcAssumption`, `ProcessAssumption` and
`CacheAssumption` ask that there are readers and writers, finitely many processes and
buffers, and some content of a block; `NoneAssumption` that the null pointer is no process,
buffer, block or channel. The kernel's tables are finite and its pointers are not null.
`HandlerAssumption` says that the interrupt handler is no process, and `BufferAssumption`
that the indices of the console wrap at a multiple of its buffer's size and not within it:
2^32 and 128 in the code. `FileAssumption` says that sizes are numbers, with blocks that are
not empty; `ChunkAssumption` that `filewrite`'s `max` is at least a block (`MAXOPBLOCKS` is
10); and `BitmapAssumption` that the bitmap has fewer blocks than `MAXOPBLOCKS`, all of
which `itrunc` may log with the inode: one block in the code (`FSSIZE` is 2000, `BPB` 8192),
and true of disks of up to nine. `CallsAssumption` says that a call of `FileSys` is an
operation with two paths, and `NameAssumption` that there are finitely many names, "." and
".." not among them, for `Name` has the entries that a call makes. `SizesAssumption` says
that a page has a byte and a page table two entries, `AddressAssumption` that user code
loads and stores below the trapframe (a fault above it kills the process) and that arguments
of `sbrk` are numbers, and `TableAssumption` that there is a process and each has a table
and one to build. `ProgramAssumption` says that a program leaves two pages below the
trapframe for its stack: `kexec` does not look, but such a program, of 256 GB, runs out of
memory long before. `TablesAssumption` says that there is an entry for a file and three
descriptors for the console (`NFILE` is 100, `NOFILE` 16) and some number of pages, and `TasksAssumption` that there is
a process beside `init` and `NCALLS` is a number.

*Only model-checked:* all liveness (fairness and ENABLED are out of the prover's reach; for
a pipe also `EndOfFile`), and of the shell `Wired` and `OneAfterTheOther`: what a command means
is defined by recursion on its structure, and the proof would be an induction over it.

## 6. Not modelled, and the plan

Not modelled for good: boot and hardware set-up, formatted output, ELF parsing, the
string functions, `mkfs`, the test programs, weak memory (the code fences every
lock), `getprocsinfo` (it reads the process table without a lock and prints it).
Physical timing is abstracted to interleaving. Each of the modules takes
the neighbours it calls as simple: `FileSys` and `FileBlocks` a log that commits in
one step, `Shell` files without contents.

Where a module of section 2 is coarser than the code it names:

* Pids are numbers (`Proc`): the overflow of the int `nextpid` after 2^31 forks is outside.
* The test and the `sleep()` of `begin_op` and of `consoleread` are one step in `Log` and
  `Terminal`. Both are made under the spinlock that `sleep` gives up only once it holds
  `p->lock`; that hand-over is in `Sched` and `Proc`, and for `tickslock` in `Clock`.
* A negative argument of `sleep2` is a time modulo 2^32 from the start (`Clock`), so `OnTime`
  does not ask whether the caller meant so long a time.
* `iput` is one step (`Inode`), while the code gives up `itable.lock` to truncate
  (`fs.c:349-358`); the inode is locked there, and has no links and no other reference.
  `iget` finds room in the table: the panic "iget: no inodes" is not represented, nor is
  `unlink`'s of an inode without links, which `Consistent` excludes at a commit, nor the check
  of a device's number in `open` (`sysfile.c:338`).
* `itrunc` gives back the indirect block (`fs.c:470`) in the step that ends it in `FileBlocks`.
* `exec` fetches one argument (`ExecStart`): a failure at a later one, with the pages of the
  earlier ones to give back (`sysfile.c:446-462`), is not represented; nor is `copyinstr`.

Planned, in this order:

1. `SpinLock`: `push_off`, `pop_off` and interrupts in nested critical sections.
2. The buffers of `BufCache` under `Log`: whether 30 buffers are enough for a full
   log (`bio.c:88`).
3. Directories as contents of `FileBlocks`; `umalloc`'s free list; `init` and its
   consoles.
