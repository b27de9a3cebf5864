----------------------------- MODULE FileTable -----------------------------
(***************************************************************************)
(* Open files: kernel/file.c, the descriptors of kernel/sysfile.c and      *)
(* kernel/pipe.c, as operators on a kernel k with                          *)
(*   file   ftable.file,                                                   *)
(*   fd     each process's ofile, and the two pointers to files that       *)
(*          sys_open() and sys_pipe() hold on their stack (Rf, Wf),        *)
(*   pipe   the pipes there are, by their page: bytes held, the ends that  *)
(*          are open, and the programs that may write,                     *)
(*   panic  has the kernel panicked.                                       *)
(* What a file is of is the path of an inode, or the page of a pipe.       *)
(* ftable.lock is held within one operator only; what others may see in    *)
(* the middle of open() and pipe() is in the caller's steps.               *)
(***************************************************************************)
EXTENDS Integers, Sequences, FiniteSetsExt, Functions

CONSTANTS NFILE, NOFILE, PIPESIZE, NPAGE

ASSUME TablesAssumption ==
  NFILE \in Nat \ {0} /\ NOFILE \in Nat /\ NOFILE > 2 /\ NPAGE \in Nat

FD == 0..(NOFILE - 1)
Rf == NOFILE
Wf == NOFILE + 1
FdSlot == 0..(NOFILE + 1)
NoFile == 0
NoneFile == [ref |-> 0, type |-> "none", of |-> {}, readable |-> FALSE, writable |-> FALSE]

FreeFiles(k) == {f \in 1..NFILE : k.file[f].ref = 0}
FreeFds(k, q) == {d \in FD : k.fd[q][d] = NoFile}
Opened(k, q) == FD \ FreeFds(k, q)
Held(k, q) == {s \in {Rf, Wf} : k.fd[q][s] # NoFile}
FreePages(k) == (1..NPAGE) \ DOMAIN k.pipe
FileAt(k, q, d) == k.file[k.fd[q][d]]

Pipeclose(k, x, writable) ==
  LET c == IF writable THEN [k EXCEPT !.pipe[x].writeopen = FALSE]
                       ELSE [k EXCEPT !.pipe[x].readopen = FALSE]
  IN IF c.pipe[x].writeopen \/ c.pipe[x].readopen THEN c
     ELSE [c EXCEPT !.pipe = Restrict(@, DOMAIN @ \ {x})]

Fileclose(k, f) ==
  LET ff == k.file[f]
  IN CASE ff.ref < 1 -> [k EXCEPT !.panic = TRUE]
       [] ff.ref > 1 -> [k EXCEPT !.file[f].ref = @ - 1]
       [] OTHER -> LET c == [k EXCEPT !.file[f] = NoneFile]
                   IN IF ff.type = "pipe" THEN Pipeclose(c, ff.of, ff.writable) ELSE c

Filedup(k, f) ==
  IF k.file[f].ref < 1 THEN [k EXCEPT !.panic = TRUE] ELSE [k EXCEPT !.file[f].ref = @ + 1]

(* fileclose() of what a descriptor or a pointer names, which is cleared.   *)
Drop(k, q, s) == Fileclose([k EXCEPT !.fd[q][s] = NoFile], k.fd[q][s])

(* sys_close(): argfd() finds the descriptor open, or nothing happens.      *)
Close(k, q, d) == IF d \notin Opened(k, q) THEN k ELSE Drop(k, q, d)

(* filealloc() and fdalloc(), where there is room: the lowest of each.      *)
Filealloc(k, q, s) ==
  LET f == Min(FreeFiles(k)) IN [k EXCEPT !.file[f].ref = 1, !.fd[q][s] = f]
Fdalloc(k, q, s) == [k EXCEPT !.fd[q][Min(FreeFds(k, q))] = k.fd[q][s]]
(* Wrong: leaves the process the descriptors of a pipe() that has failed.   *)
ClearedLate(k, q, S) ==
  [k EXCEPT !.fd[q] = [s \in FdSlot |-> IF s \in S \ FD THEN NoFile ELSE @[s]]]
Cleared(k, q, S) == [k EXCEPT !.fd[q] = [s \in FdSlot |-> IF s \in S THEN NoFile ELSE @[s]]]
Become(k, f, type, of, writable) ==
  [k EXCEPT !.file[f] = [ref |-> @.ref, type |-> type, of |-> of,
                         readable |-> ~writable, writable |-> writable]]

Dup(k, q, d) ==
  IF d \notin Opened(k, q) \/ FreeFds(k, q) = {} THEN k
  ELSE Filedup(Fdalloc(k, q, d), k.fd[q][d])

(* pipealloc(), once it has two files and a page. *)
Pipealloc(k, q, by) ==
  LET x == Min(FreePages(k))
      pi == [bytes |-> 0, readopen |-> TRUE, writeopen |-> TRUE, by |-> by]
      c == [k EXCEPT !.pipe = [y \in DOMAIN @ \cup {x} |-> IF y = x THEN pi ELSE @[y]]]
  IN Become(Become(c, k.fd[q][Rf], "pipe", x, FALSE), k.fd[q][Wf], "pipe", x, TRUE)

(* Wrong: the child's descriptors do not count. *)
ForkSilently(k, q, child) == [k EXCEPT !.fd[child] = k.fd[q]]
(* kfork(): the child has every file of its parent. *)
ForkFiles(k, q, child) ==
  LET Given(c, d) == Filedup([c EXCEPT !.fd[child][d] = c.fd[q][d]], c.fd[q][d])
      at[i \in 0..NOFILE] ==
        IF i = 0 THEN k
        ELSE IF k.fd[q][i - 1] = NoFile THEN at[i - 1] ELSE Given(at[i - 1], i - 1)
  IN at[NOFILE]

(* A read or a write of one byte: would it sleep, and does it fail?         *)
OnPipe(k, q, d) == d \in Opened(k, q) /\ FileAt(k, q, d).type = "pipe"
PipeAt(k, q, d) == k.pipe[FileAt(k, q, d).of]

ReadSleeps(k, q, d) ==
  OnPipe(k, q, d) /\ FileAt(k, q, d).readable /\ PipeAt(k, q, d).bytes = 0 /\ PipeAt(k, q, d).writeopen
ReadsByte(k, q, d) == OnPipe(k, q, d) /\ FileAt(k, q, d).readable /\ PipeAt(k, q, d).bytes > 0
Read(k, q, d) ==
  IF ReadsByte(k, q, d) THEN [k EXCEPT !.pipe[FileAt(k, q, d).of].bytes = @ - 1] ELSE k

WriteFails(k, q, d) ==
  \/ d \notin Opened(k, q) \/ ~FileAt(k, q, d).writable
  \/ OnPipe(k, q, d) /\ ~PipeAt(k, q, d).readopen
WriteSleeps(k, q, d) ==
  OnPipe(k, q, d) /\ ~WriteFails(k, q, d) /\ PipeAt(k, q, d).bytes = PIPESIZE
Write(k, q, d) ==
  IF OnPipe(k, q, d) THEN [k EXCEPT !.pipe[FileAt(k, q, d).of].bytes = @ + 1] ELSE k
=============================================================================
