---------------------------- MODULE ShellMeaning ----------------------------
(***************************************************************************)
(* What a line means, whatever descriptors and processes the shell uses to *)
(* run it.                                                                 *)
(***************************************************************************)
EXTENDS Shell, ShellSyntax

ASSUME ProgramsAssumption == Echo \cup Cat \cup Grind \subseteq Word

(* A line is typed for a command, and parsed. *)
ParsedText(c) == Parse(Text(c, 0))

(* The programs of a command, by which a pipe is known. *)
RECURSIVE ProgramsOf(_)
ProgramsOf(c) ==
  CASE c.type = "EXEC" -> {c.argv[i] : i \in (DOMAIN c.argv) \cap {1}}
    [] c.type \in {"REDIR", "BACK"} -> ProgramsOf(c.cmd)
    [] OTHER -> ProgramsOf(c.left) \cup ProgramsOf(c.right)

(* What a command means: each program with its input and its output.        *)
Console == <<"device", {}>>
RECURSIVE Wires(_, _, _)
Wires(c, in, out) ==
  CASE c.type = "EXEC" -> {<<x, in, out>> : x \in ProgramsOf(c)}
    [] c.type = "REDIR" -> IF c.mode = "<" THEN Wires(c.cmd, <<"inode", {c.file}>>, out)
                                           ELSE Wires(c.cmd, in, <<"inode", {c.file}>>)
    [] c.type = "PIPE" -> LET x == <<"pipe", ProgramsOf(c.left)>>
                          IN Wires(c.left, in, x) \cup Wires(c.right, x, out)
    [] c.type = "BACK" -> Wires(c.cmd, in, out)
    [] OTHER -> Wires(c.left, in, out) \cup Wires(c.right, in, out)

(* sh.c:83-118: a program starts with the input and the output its place in  *)
(* the line gives it, and with no other descriptor but the console's.        *)
Wire(q, d) ==
  <<FileAt(k, q, d).type, IF OnPipe(k, q, d) THEN PipeAt(k, q, d).by ELSE FileAt(k, q, d).of>>
Wired ==
  \A q \in Task : prog[q] \in Echo \cup Cat /\ ~At(q, "exit") =>
    /\ Opened(k, q) = {0, 1, 2} /\ FileAt(k, q, 2).type = "device"
    /\ <<prog[q], Wire(q, 0), Wire(q, 1)>> \in Wires(meant, Console, Console)

(* The programs a command waits for, and which must end before which start. *)
RECURSIVE Awaited(_), Before(_)
Awaited(c) ==
  CASE c.type = "EXEC" -> ProgramsOf(c)
    [] c.type = "REDIR" -> Awaited(c.cmd)
    [] c.type = "BACK" -> {}
    [] OTHER -> Awaited(c.left) \cup Awaited(c.right)
Before(c) ==
  CASE c.type = "EXEC" -> {}
    [] c.type \in {"REDIR", "BACK"} -> Before(c.cmd)
    [] OTHER -> Before(c.left) \cup Before(c.right)
                \cup IF c.type = "LIST" THEN Awaited(c.left) \X ProgramsOf(c.right) ELSE {}

(* sh.c:97, :121: what follows a semicolon starts when all that was waited   *)
(* for has ended, whichever child each wait() met, unless a call failed.     *)
OneAfterTheOther ==
  \A x \in Before(meant) : failed \/ ~(x[2] \in ran /\ \E q \in Task : prog[q] = x[1])
=============================================================================
