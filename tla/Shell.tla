------------------------------- MODULE Shell -------------------------------
(***************************************************************************)
(* The shell (user/sh.c) on the system calls it makes: a line is parsed in *)
(* a child of the shell and run by a tree of processes, each with a list   *)
(* of the calls it has yet to make.  fork(), exit() and wait() are as      *)
(* Proc.tla describes them in detail; open() and pipe() take a step for    *)
(* each time they look at what others change too, and a step for each file *)
(* they close again when they fail.  A program writes a byte (echo), copies*)
(* its input (cat), or makes whatever calls it likes (grind).              *)
(***************************************************************************)
EXTENDS FileTable

CONSTANTS
  NPROC,      \* processes beside init
  Echo, Cat, Grind, \* the programs there are
  NCALLS,     \* how many calls one of Grind makes
  Typed,      \* commands: what may be typed
  Parsed(_),  \* what parsecmd() makes of the line that is written for a command
  Programs(_) \* the programs of a command

ASSUME TasksAssumption == NPROC \in Nat \ {0} /\ NCALLS \in Nat

VARIABLES
  k,        \* the kernel's files
  state,    \* "unused", "run" or "zombie"
  parent,   \* a process, or Init
  todo,     \* the calls to make, the one under way first
  place,    \* where in the kernel: "user", or in open() or pipe()
  ends,     \* int p[2] of runcmd()
  prog,     \* the program a process runs, or the shell's own text
  meant,    \* the command the line was written for
  ran,      \* programs that have been started
  failed    \* has a call failed that makes the shell give up

shellVars == <<k, state, parent, todo, place, ends, prog, meant, ran, failed>>

Task == 1..NPROC
Shell == 1
Initproc == 0
NoProgram == ""

-----------------------------------------------------------------------------
(* The calls a command is made of.  Negative descriptors are those of p.    *)

P0 == -1
P1 == -2
Bare(op) == [op |-> op]
CloseFd(d) == [op |-> "close", fd |-> d]
DupFd(d) == [op |-> "dup", fd |-> d]
Run(c) == [op |-> "run", cmd |-> c]
(* Those that may fail, and whether the caller then exits.  addr: is the    *)
(* address good that pipe() writes to?                                      *)
Fork(code, must) == [op |-> "fork", code |-> code, must |-> must]
OpenCall(file, writable, must) == [op |-> "open", file |-> file, writable |-> writable, must |-> must]
PipeCall(by, addr, must) == [op |-> "pipe", by |-> by, addr |-> addr, must |-> must]
Exit == <<Bare("exit")>>

LeftCode(c) == <<CloseFd(1), DupFd(P1), CloseFd(P0), CloseFd(P1), Run(c.left)>>
(* Wrong: duplicates before it has closed. *)
RightCodeLate(c) == <<DupFd(P0), CloseFd(0), CloseFd(P0), CloseFd(P1), Run(c.right)>>
RightCode(c) == <<CloseFd(0), DupFd(P0), CloseFd(P0), CloseFd(P1), Run(c.right)>>

(* Wrong: the parent keeps its end for writing. *)
PipeCodeOpen(c) ==
  <<PipeCall(Programs(c.left), TRUE, TRUE), Fork(LeftCode(c), TRUE), Fork(RightCode(c), TRUE),
    CloseFd(P0), Bare("wait"), Bare("wait")>> \o Exit
PipeCode(c) ==
  <<PipeCall(Programs(c.left), TRUE, TRUE), Fork(LeftCode(c), TRUE), Fork(RightCode(c), TRUE),
    CloseFd(P0), CloseFd(P1), Bare("wait"), Bare("wait")>> \o Exit

(* Wrong: does not wait. *)
ListCodeAtOnce(c) == <<Fork(<<Run(c.left)>>, TRUE), Run(c.right)>>
ListCode(c) == <<Fork(<<Run(c.left)>>, TRUE), Bare("wait"), Run(c.right)>>

RedirCode(c) ==
  <<CloseFd(IF c.mode = "<" THEN 0 ELSE 1), OpenCall(c.file, c.mode # "<", TRUE),
    Run(c.cmd)>>

(* runcmd() *)
Runcmd(c) ==
  CASE c.type = "EXEC" -> <<[op |-> "exec", argv |-> c.argv]>> \o Exit
    [] c.type = "REDIR" -> RedirCode(c)
    [] c.type = "LIST" -> ListCode(c)
    [] c.type = "PIPE" -> PipeCode(c)
    [] c.type = "BACK" -> <<Fork(<<Run(c.cmd)>>, TRUE)>> \o Exit
    [] OTHER -> Exit   \* panic() on a syntax error

EchoCode == <<Bare("write")>> \o Exit
CatCode == <<Bare("read")>> \o Exit

(* grind's calls on files, in any order, as other tests make them too.      *)
GrindCode == [i \in 1..NCALLS |-> Bare("any")] \o Exit
AnyCall(rest) ==
  {CloseFd(d) : d \in FD} \cup {DupFd(d) : d \in FD} \cup {Fork(rest, FALSE)}
  \cup {OpenCall("a", TRUE, FALSE)} \cup {PipeCall({}, addr, FALSE) : addr \in BOOLEAN}

(* main(): one line, parsed by the child.  init has opened the console, and *)
(* main() found it so.                                                      *)
ShellCode(c) == <<Fork(<<Run(Parsed(c))>>, TRUE), Bare("wait")>> \o Exit

ShellInit ==
  /\ meant \in Typed
  /\ k = [file |-> [f \in 1..NFILE |-> IF f > 1 THEN NoneFile
                      ELSE [ref |-> 6, type |-> "device", of |-> {}, readable |-> TRUE, writable |-> TRUE]],
          fd |-> [q \in {Initproc} \cup Task |->
                    [d \in FdSlot |-> IF d < 3 /\ q \in {Initproc, Shell} THEN 1 ELSE NoFile]],
          pipe |-> <<>>, panic |-> FALSE]
  /\ state = [q \in Task |-> IF q = Shell THEN "run" ELSE "unused"]
  /\ parent = [q \in Task |-> Initproc]
  /\ todo = [q \in Task |-> IF q = Shell THEN ShellCode(meant) ELSE <<>>]
  /\ place = [q \in Task |-> "user"]
  /\ ends = [q \in Task |-> <<0, 0>>]
  /\ prog = [q \in Task |-> NoProgram]
  /\ ran = {} /\ failed = FALSE

-----------------------------------------------------------------------------
(* The calls. *)

At(q, op) == state[q] = "run" /\ place[q] = "user" /\ Head(todo[q]).op = op
In(q, at) == state[q] = "run" /\ place[q] = at
Arg(q) == Head(todo[q])
Fd(q, d) == IF d < 0 THEN ends[q][-d] ELSE d
Go(q, code) == todo' = [todo EXCEPT ![q] = code]
Continue(q) == Go(q, Tail(todo[q]))
Enter(q, at) == place' = [place EXCEPT ![q] = at]
Return(q) == Enter(q, "user") /\ Continue(q) /\ UNCHANGED failed
Fail(q) ==
  /\ Enter(q, "user")
  /\ IF Arg(q).must THEN Go(q, Exit) /\ failed' = TRUE ELSE Continue(q) /\ UNCHANGED failed
Undo(q) == Enter(q, "undo") /\ UNCHANGED <<todo, failed>>

FilesStep(q) ==
  /\ \/ At(q, "close") /\ k' = Close(k, q, Fd(q, Arg(q).fd))
     \/ At(q, "dup") /\ k' = Dup(k, q, Fd(q, Arg(q).fd))
  /\ Continue(q)
  /\ UNCHANGED <<state, parent, place, ends, prog, meant, ran, failed>>

(* open(): without a descriptor the file is closed again. *)
OpenStep(q) ==
  LET c == Filealloc(k, q, Rf)
      f == c.fd[q][Rf]
  IN
  /\ At(q, "open")
  /\ \/ FreeFiles(k) = {} /\ Fail(q) /\ UNCHANGED k
     \/ FreeFiles(k) # {} /\ FreeFds(k, q) = {} /\ k' = c /\ Undo(q)
     \/ /\ FreeFiles(k) # {} /\ FreeFds(k, q) # {}
        /\ k' = Cleared(Become(Fdalloc(c, q, Rf), f, "inode", {Arg(q).file}, Arg(q).writable), q, {Rf})
        /\ Return(q)
  /\ UNCHANGED <<state, parent, ends, prog, meant, ran>>

(* pipealloc(): a file for each end, then the page.  Memory may be out.     *)
PipeFirst(q) ==
  /\ At(q, "pipe")
  /\ \/ FreeFiles(k) = {} /\ Fail(q) /\ UNCHANGED k
     \/ FreeFiles(k) # {} /\ k' = Filealloc(k, q, Rf) /\ Enter(q, "second") /\ UNCHANGED <<todo, failed>>
  /\ UNCHANGED <<state, parent, ends, prog, meant, ran>>
PipeSecond(q) ==
  /\ In(q, "second")
  /\ \/ FreeFiles(k) = {} /\ Undo(q) /\ UNCHANGED k
     \/ FreeFiles(k) # {} /\ k' = Filealloc(k, q, Wf) /\ Enter(q, "page") /\ UNCHANGED <<todo, failed>>
  /\ UNCHANGED <<state, parent, ends, prog, meant, ran>>
PipePage(q) ==
  /\ In(q, "page")
  /\ \/ Undo(q) /\ UNCHANGED k
     \/ /\ FreePages(k) # {} /\ k' = Pipealloc(k, q, Arg(q).by)
        /\ Enter(q, "fds") /\ UNCHANGED <<todo, failed>>
  /\ UNCHANGED <<state, parent, ends, prog, meant, ran>>

(* sys_pipe(): a descriptor for each end, and they are written to the       *)
(* caller's memory.                                                         *)
PipeFds(q) ==
  LET fd0 == Min(FreeFds(k, q))
      c == Fdalloc(k, q, Rf)
      fd1 == Min(FreeFds(c, q))
      d == Fdalloc(c, q, Wf)
  IN
  /\ In(q, "fds")
  /\ \/ FreeFds(k, q) = {} /\ Undo(q) /\ UNCHANGED <<k, ends>>
     \/ /\ FreeFds(k, q) # {} /\ FreeFds(c, q) = {}
        /\ k' = Cleared(c, q, {fd0}) /\ Undo(q) /\ UNCHANGED ends
     \/ /\ FreeFds(k, q) # {} /\ FreeFds(c, q) # {} /\ ~Arg(q).addr
        /\ k' = Cleared(d, q, {fd0, fd1}) /\ Undo(q) /\ UNCHANGED ends
     \/ /\ FreeFds(k, q) # {} /\ FreeFds(c, q) # {} /\ Arg(q).addr
        /\ k' = Cleared(d, q, {Rf, Wf})
        /\ ends' = [ends EXCEPT ![q] = <<fd0, fd1>>] /\ Return(q)
  /\ UNCHANGED <<state, parent, prog, meant, ran>>

(* A call that fails closes what it still holds. *)
UndoStep(q) ==
  /\ In(q, "undo")
  /\ IF Held(k, q) = {} THEN Fail(q) /\ UNCHANGED k
     ELSE k' = Drop(k, q, Min(Held(k, q))) /\ UNCHANGED <<todo, place, failed>>
  /\ UNCHANGED <<state, parent, ends, prog, meant, ran>>

(* fork1(): without a process the shell gives up. *)
ForkStep(q) ==
  LET free == {c \in Task : state[c] = "unused"}
      c == Min(free)
  IN
  /\ At(q, "fork")
  /\ IF free = {} THEN Fail(q) /\ UNCHANGED <<k, state, parent, ends>>
     ELSE /\ k' = ForkFiles(k, q, c)
          /\ state' = [state EXCEPT ![c] = "run"] /\ parent' = [parent EXCEPT ![c] = q]
          /\ todo' = [todo EXCEPT ![q] = Tail(@), ![c] = Arg(q).code]
          /\ ends' = [ends EXCEPT ![c] = ends[q]]
          /\ UNCHANGED <<place, failed>>
  /\ UNCHANGED <<prog, meant, ran>>

(* wait(0): for a child, whichever ends first, if there is one. *)
WaitStep(q) ==
  LET children == {c \in Task : state[c] # "unused" /\ parent[c] = q} IN
  /\ At(q, "wait") /\ Continue(q)
  /\ \/ children = {} /\ UNCHANGED <<state, parent>>
     \/ \E c \in children : /\ state[c] = "zombie"
                            /\ state' = [state EXCEPT ![c] = "unused"]
                            /\ parent' = [parent EXCEPT ![c] = Initproc]
  /\ UNCHANGED <<k, place, ends, prog, meant, ran, failed>>

(* exit(): closes one descriptor after the other, then gives init its       *)
(* children.                                                                *)
ExitStep(q) ==
  /\ At(q, "exit")
  /\ IF Opened(k, q) # {}
     THEN k' = Close(k, q, Min(Opened(k, q))) /\ UNCHANGED <<state, parent, todo, ends, prog>>
     ELSE /\ state' = [state EXCEPT ![q] = "zombie"]
          /\ parent' = [c \in Task |-> IF parent[c] = q THEN Initproc ELSE parent[c]]
          /\ todo' = [todo EXCEPT ![q] = <<>>] /\ ends' = [ends EXCEPT ![q] = <<0, 0>>]
          /\ prog' = [prog EXCEPT ![q] = NoProgram]
          /\ UNCHANGED k
  /\ UNCHANGED <<place, meant, ran, failed>>

(* init's wait(): it would restart the shell, which ends the run here.      *)
InitReaps(c) ==
  /\ c # Shell /\ state[c] = "zombie" /\ parent[c] = Initproc
  /\ state' = [state EXCEPT ![c] = "unused"]
  /\ UNCHANGED <<k, parent, todo, place, ends, prog, meant, ran, failed>>

(* runcmd(), of the line and of a command within it. *)
RunStep(q) ==
  /\ At(q, "run") /\ Go(q, Runcmd(Arg(q).cmd))
  /\ UNCHANGED <<k, state, parent, place, ends, prog, meant, ran, failed>>

(* exec() of a program that is there; otherwise the shell's process exits. *)
ExecStep(q) ==
  LET argv == Arg(q).argv IN
  /\ At(q, "exec")
  /\ IF argv # <<>> /\ Head(argv) \in Echo \cup Cat \cup Grind
     THEN /\ prog' = [prog EXCEPT ![q] = Head(argv)] /\ ran' = ran \cup {Head(argv)}
          /\ Go(q, CASE Head(argv) \in Echo -> EchoCode [] Head(argv) \in Cat -> CatCode
                    [] OTHER -> GrindCode)
     ELSE Continue(q) /\ UNCHANGED <<prog, ran>>
  /\ UNCHANGED <<k, state, parent, place, ends, meant, failed>>

(* cat reads until there is no more, or the read fails. *)
ReadStep(q) ==
  /\ At(q, "read") /\ ~ReadSleeps(k, q, 0)
  /\ k' = Read(k, q, 0)
  /\ Go(q, IF ReadsByte(k, q, 0) THEN <<Bare("write")>> \o todo[q] ELSE Exit)
  /\ UNCHANGED <<state, parent, place, ends, prog, meant, ran, failed>>

WriteStep(q) ==
  /\ At(q, "write") /\ ~WriteSleeps(k, q, 1)
  /\ IF WriteFails(k, q, 1) THEN Go(q, Exit) /\ UNCHANGED k
     ELSE Continue(q) /\ k' = Write(k, q, 1)
  /\ UNCHANGED <<state, parent, place, ends, prog, meant, ran, failed>>

AnyStep(q) ==
  /\ At(q, "any")
  /\ \E c \in AnyCall(Tail(todo[q])) : Go(q, <<c>> \o Tail(todo[q]))
  /\ UNCHANGED <<k, state, parent, place, ends, prog, meant, ran, failed>>

Step(q) ==
  \/ FilesStep(q) \/ OpenStep(q) \/ ForkStep(q) \/ WaitStep(q) \/ ExitStep(q)
  \/ PipeFirst(q) \/ PipeSecond(q) \/ PipePage(q) \/ PipeFds(q) \/ UndoStep(q)
  \/ InitReaps(q) \/ RunStep(q) \/ ExecStep(q) \/ ReadStep(q) \/ WriteStep(q) \/ AnyStep(q)

ShellNext == \E q \in Task : Step(q)

(* The scheduler gives every process that can run its turn.                 *)
ShellSpec == ShellInit /\ [][ShellNext]_shellVars /\ \A q \in Task : WF_shellVars(Step(q))

-----------------------------------------------------------------------------
(* The files that are an end of the pipe in page x. *)
Ends(x, writable) ==
  {f \in 1..NFILE : /\ k.file[f].ref > 0 /\ k.file[f].type = "pipe"
                    /\ k.file[f].of = x /\ k.file[f].writable = writable}

(* file.c:46-83, pipe.c:48-56, sysfile.c:344-350 and :483-502: a file's count *)
(* is of what refers to it, over every fork, exit, dup, open and pipe and    *)
(* wherever these fail; a call that is over has left nothing held; an end of *)
(* a pipe is open as long as there is a file of it, and just one, and a page *)
(* is a pipe's as long as an end is open.                                    *)
FilesCounted ==
  /\ ~k.panic
  /\ \A f \in 1..NFILE :
       k.file[f].ref = Cardinality({x \in (DOMAIN k.fd) \X FdSlot : k.fd[x[1]][x[2]] = f})
  /\ \A q \in Task : Held(k, q) # {} => place[q] # "user"
  /\ \A x \in 1..NPAGE, writable \in BOOLEAN :
       Cardinality(Ends(x, writable)) =
         IF x \in DOMAIN k.pipe /\ (IF writable THEN k.pipe[x].writeopen ELSE k.pipe[x].readopen)
         THEN 1 ELSE 0
  /\ \A x \in DOMAIN k.pipe : x \in 1..NPAGE /\ (k.pipe[x].writeopen \/ k.pipe[x].readopen)

(* sh.c:119: every line ends: no end of a pipe stays open that keeps a       *)
(* reader waiting, nor does a child go unnoticed.                            *)
LineEnds == <>(\A q \in Task : state[q] = IF q = Shell THEN "zombie" ELSE "unused")
=============================================================================
